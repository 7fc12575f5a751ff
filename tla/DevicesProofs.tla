--------------------------- MODULE DevicesProofs ----------------------------
(***************************************************************************)
(* Proofs about the hardware that the kernel and its drivers keep time     *)
(* with.  About Devices: what the floppy driver does with its motor and    *)
(* its controller, for any number of tries, any delays, any keys and any   *)
(* messages in the mailboxes - interrupts and alarms may come at any time, *)
(* in any number and of any age.  About Clock: that the kept date is the   *)
(* one that has come, for any waits.                                       *)
(***************************************************************************)
EXTENDS Devices, Clock, Loops

-----------------------------------------------------------------------------
(* The inductive invariant. *)

Places == {"main", "block", "stage", "irq", "got", "alarm", "next", "retry", "done", "reply",
           "punish"}
Dirs == {"none", "read", "write"}
Jobs == [op : Dirs, dir : Dirs, stage : {"none", "recal", "seek", "rw", "back"},
         seek : Nat, rw : Nat]
Drivers == [pc : Places, wait : {"none", "spin_up", "settle", "seek", "rw", "reset"},
            irq : BOOLEAN, ok : BOOLEAN, behaving : BOOLEAN, required : BOOLEAN, on : BOOLEAN,
            job : Jobs]
Controllers == [phase : {"idle", "exec", "result"}, cmd : {"none", "seek", "read", "write", "reset"},
                done : Dirs, motor : BOOLEAN]

FdcType == fdc \in Drivers
HwType  == hw \in Controllers

\* The controller works on a command that needs the motor.
Busy == hw.phase = "exec" /\ hw.cmd # "reset"

\* The places of the driver between fdc_start_motor and fdc_sched_motor.
Accessing == \/ fdc.pc \in {"stage", "next", "retry", "done", "alarm"}
             \/ fdc.pc \in {"irq", "got"} /\ fdc.wait \in {"seek", "rw"}

\* A driver that waits does so for one of three kinds of interrupt.
Awaits == fdc.pc \in {"irq", "got"} => fdc.wait \in {"seek", "rw", "reset"}

\* During an access the motor runs, and no alarm may stop it; what the driver believes of
\* the motor is true.
Running == /\ Accessing => fdc.required /\ hw.motor
           /\ fdc.on => hw.motor
           /\ Busy => hw.motor

\* A controller that is left busy is one that does not respond: nothing is read from the
\* mailbox before fdc_punish resets it.
LeftBusy == Busy /\ ~fdc.required => fdc.pc \in {"reply", "punish"} /\ ~fdc.behaving

\* An access that succeeds has read the results of its transfer.
Finished == fdc.pc = "done" /\ fdc.behaving => hw.phase = "idle" /\ hw.done = fdc.job.dir

AccessInv == FdcType /\ HwType /\ Awaits /\ Running /\ LeftBusy /\ Finished

\* The driver starts at rest, the controller idle, the motor off.
LEMMA InitAccess == DevicesInit => AccessInv
<1> SUFFICES ASSUME DevicesInit PROVE AccessInv
  OBVIOUS
<1>1. /\ fdc = [pc |-> "punish", wait |-> "none", irq |-> FALSE, ok |-> FALSE, behaving |-> FALSE,
                required |-> FALSE, on |-> FALSE,
                job |-> [op |-> "none", dir |-> "none", stage |-> "none", seek |-> 0, rw |-> 0]]
      /\ hw = [phase |-> "idle", cmd |-> "none", done |-> "none", motor |-> FALSE]
  BY DEF DevicesInit, FloppyInit, Idle
<1>2. FdcType /\ HwType
  BY <1>1 DEF FdcType, HwType, Drivers, Controllers, Jobs, Dirs, Places
<1>3. Awaits /\ Running /\ LeftBusy /\ Finished
  BY <1>1 DEF Busy, Accessing, Awaits, Running, LeftBusy, Finished
<1> QED
  BY <1>2, <1>3 DEF AccessInv

-----------------------------------------------------------------------------
(* The steps of the driver and of the controller.                           *)

\* An alarm that is handled: its type is whatever the oldest message says.
LEMMA HandledAlarm ==
  ASSUME NEW m
  PROVE  \/ /\ fdc_stop_motor(m) /\ ~fdc.required
            /\ handled(m, fdc) = [fdc EXCEPT !.on = FALSE] /\ motor(m) = [hw EXCEPT !.motor = FALSE]
         \/ ~fdc_stop_motor(m) /\ handled(m, fdc) = fdc /\ motor(m) = hw
BY DEF handled, motor, fdc_stop_motor

\* An interrupt of the controller is noted in the mailbox.
LEMMA StepIrq ==
  ASSUME AccessInv, FdcIrq PROVE AccessInv'
<1> SUFFICES FdcType' /\ HwType' /\ Awaits' /\ Running' /\ LeftBusy' /\ Finished'
  BY DEF AccessInv
<1>t. FdcType' /\ HwType'
  BY DEF FdcIrq, AccessInv, FdcType, HwType, Drivers, Controllers, Places
<1>w. Awaits'
  BY DEF FdcIrq, AccessInv, FdcType, Drivers, Awaits
<1>r. Running'
  BY DEF FdcIrq, AccessInv, FdcType, HwType, Drivers, Controllers, Awaits, Running,
      Accessing, Busy
<1>f. LeftBusy' /\ Finished'
  BY DEF FdcIrq, AccessInv, FdcType, HwType, Drivers, Controllers, Running,
      Accessing, LeftBusy, Busy, Finished
<1> QED
  BY <1>t, <1>w, <1>r, <1>f

\* A wait that ends without its interrupt.
LEMMA StepTimeout ==
  ASSUME AccessInv, FdcTimeout PROVE AccessInv'
<1> DEFINE m == Head(From(box, FDC, TMR))
<1>1. /\ hw' = motor(m) /\ fdc.pc = "irq"
      /\ fdc' = IF m.type = TIMEOUT THEN [fdc EXCEPT !.pc = "got", !.irq = FALSE] ELSE handled(m, fdc)
  BY DEF FdcTimeout
<1>2. motor(m) = hw \/ m.type # TIMEOUT
  BY DEF motor, fdc_stop_motor, TIMEOUT, MOTOR
<1> HIDE DEF m
<1>3. \/ fdc' = [fdc EXCEPT !.pc = "got", !.irq = FALSE] /\ hw' = hw
      \/ fdc' = [fdc EXCEPT !.on = FALSE] /\ hw' = [hw EXCEPT !.motor = FALSE] /\ ~fdc.required
      \/ fdc' = fdc /\ hw' = hw
  BY <1>1, <1>2, HandledAlarm
<1>4. CASE fdc' = [fdc EXCEPT !.pc = "got", !.irq = FALSE] /\ hw' = hw
  <2> SUFFICES FdcType' /\ HwType' /\ Awaits' /\ Running' /\ LeftBusy' /\ Finished'
    BY DEF AccessInv
  <2>t. FdcType' /\ HwType'
    <3>1. FdcType'
      BY <1>1, <1>4 DEF AccessInv, FdcType, HwType, Drivers, Controllers, Places
    <3>2. HwType'
      BY <1>1, <1>4 DEF AccessInv, FdcType, HwType, Controllers, Places
    <3> QED
      BY <3>1, <3>2
  <2>w. Awaits'
    BY <1>1, <1>4
    DEF AccessInv, FdcType, Drivers, Awaits
  <2>r. Running'
    BY <1>1, <1>4
    DEF AccessInv, FdcType, HwType, Drivers, Controllers, Awaits, Running,
        Accessing, Busy
  <2>f. LeftBusy' /\ Finished'
    BY <1>1, <1>4
    DEF AccessInv, FdcType, HwType, Drivers, Controllers, Running,
        Accessing, LeftBusy, Busy, Finished
  <2> QED
    BY <2>t, <2>w, <2>r, <2>f
<1>5. CASE fdc' = [fdc EXCEPT !.on = FALSE] /\ hw' = [hw EXCEPT !.motor = FALSE] /\ ~fdc.required
  <2>1. /\ fdc'.pc = "irq" /\ ~fdc'.required /\ fdc'.wait = fdc.wait /\ ~fdc'.on
        /\ ~hw'.motor /\ hw'.phase = hw.phase /\ hw'.cmd = hw.cmd
    BY <1>1, <1>5 DEF AccessInv, FdcType, HwType, Drivers, Controllers
  <2>2. ~Busy /\ ~Accessing
    BY <1>1, <1>5 DEF AccessInv, LeftBusy, Running
  <2> SUFFICES FdcType' /\ HwType' /\ Awaits' /\ Running' /\ LeftBusy' /\ Finished'
    BY DEF AccessInv
  <2>t. FdcType' /\ HwType'
    <3>1. FdcType'
      BY <1>1, <1>5, <2>1, <2>2 DEF AccessInv, FdcType, HwType, Drivers, Controllers, Places
    <3>2. HwType'
      BY <1>1, <1>5, <2>1, <2>2 DEF AccessInv, FdcType, HwType, Controllers, Places
    <3> QED
      BY <3>1, <3>2
  <2>w. Awaits'
    BY <1>1, <1>5, <2>1, <2>2
    DEF AccessInv, FdcType, Drivers, Awaits
  <2>r. Running'
    BY <1>1, <1>5, <2>1, <2>2
    DEF AccessInv, FdcType, HwType, Drivers, Controllers, Awaits, Running,
        Accessing, Busy
  <2>f. LeftBusy' /\ Finished'
    BY <1>1, <1>5, <2>1, <2>2
    DEF AccessInv, FdcType, HwType, Drivers, Controllers, Running,
        Accessing, LeftBusy, Busy, Finished
  <2> QED
    BY <2>t, <2>w, <2>r, <2>f
<1>6. CASE fdc' = fdc /\ hw' = hw
  <2> SUFFICES FdcType' /\ HwType' /\ Awaits' /\ Running' /\ LeftBusy' /\ Finished'
    BY DEF AccessInv
  <2>t. FdcType' /\ HwType'
    <3>1. FdcType'
      BY <1>1, <1>6 DEF AccessInv, FdcType, HwType, Drivers, Controllers, Places
    <3>2. HwType'
      BY <1>1, <1>6 DEF AccessInv, FdcType, HwType, Controllers, Places
    <3> QED
      BY <3>1, <3>2
  <2>w. Awaits'
    BY <1>1, <1>6
    DEF AccessInv, FdcType, Drivers, Awaits
  <2>r. Running'
    BY <1>1, <1>6
    DEF AccessInv, FdcType, HwType, Drivers, Controllers, Awaits, Running,
        Accessing, Busy
  <2>f. LeftBusy' /\ Finished'
    BY <1>1, <1>6
    DEF AccessInv, FdcType, HwType, Drivers, Controllers, Running,
        Accessing, LeftBusy, Busy, Finished
  <2> QED
    BY <2>t, <2>w, <2>r, <2>f
<1> QED
  BY <1>3, <1>4, <1>5, <1>6

\* An alarm is handled when the driver receives it.
LEMMA StepAlarm ==
  ASSUME AccessInv, FdcAlarm PROVE AccessInv'
<1> DEFINE m == Head(From(box, FDC, TMR))
           f == handled(m, fdc)
<1>1. /\ hw' = motor(m) /\ fdc.pc = "alarm"
      /\ fdc' = CASE fdc.wait = "spin_up" /\ m.type = SPIN_UP ->
                       [f EXCEPT !.pc = "stage", !.wait = "none", !.on = TRUE]
                  [] fdc.wait = "settle" /\ m.type = SETTLE ->
                       [f EXCEPT !.pc = "next", !.wait = "none",
                                 !.behaving = @ /\ fdc.ok, !.ok = FALSE]
                  [] OTHER -> f
  BY DEF FdcAlarm
<1>2. fdc.required /\ hw.motor
  BY <1>1 DEF AccessInv, Running, Accessing
<1>3. f = fdc /\ hw' = hw
  BY <1>1, <1>2 DEF handled, motor, fdc_stop_motor
<1>4. \/ fdc' = [fdc EXCEPT !.pc = "stage", !.wait = "none", !.on = TRUE]
      \/ \E b \in BOOLEAN :
           fdc' = [fdc EXCEPT !.pc = "next", !.wait = "none", !.behaving = b, !.ok = FALSE]
      \/ fdc' = fdc
  BY <1>1, <1>3 DEF AccessInv, FdcType, Drivers
<1> SUFFICES FdcType' /\ HwType' /\ Awaits' /\ Running' /\ LeftBusy' /\ Finished'
  BY DEF AccessInv
<1>t. FdcType' /\ HwType'
  <2>1. FdcType'
    BY <1>1, <1>2, <1>3, <1>4 DEF AccessInv, FdcType, HwType, Drivers, Controllers, Places
  <2>2. HwType'
    BY <1>1, <1>2, <1>3, <1>4 DEF AccessInv, FdcType, HwType, Controllers, Places
  <2> QED
    BY <2>1, <2>2
<1>w. Awaits'
  BY <1>1, <1>2, <1>3, <1>4
  DEF AccessInv, FdcType, Drivers, Awaits
<1>r. Running'
  BY <1>1, <1>2, <1>3, <1>4
  DEF AccessInv, FdcType, HwType, Drivers, Controllers, Awaits, Running,
      Accessing, Busy
<1>f. LeftBusy' /\ Finished'
  BY <1>1, <1>2, <1>3, <1>4
  DEF AccessInv, FdcType, HwType, Drivers, Controllers, Running,
      Accessing, LeftBusy, Busy, Finished
<1> QED
  BY <1>t, <1>w, <1>r, <1>f

\* A request sets the motor going, or finds it on.
LEMMA StepStart ==
  ASSUME AccessInv, FdcStart PROVE AccessInv'
<1>1. \E j \in Jobs, pc \in {"stage", "alarm"}, w \in {fdc.wait, "spin_up"} :
        /\ fdc' = [fdc EXCEPT !.required = TRUE, !.job = j, !.pc = pc, !.wait = w]
        /\ \/ fdc.on /\ hw' = hw
           \/ hw' = [hw EXCEPT !.motor = TRUE]
  <2> DEFINE j == [fdc.job EXCEPT !.stage = "recal", !.seek = 1, !.rw = 1]
  <2>1. j \in Jobs
    BY DEF AccessInv, FdcType, Drivers, Jobs
  <2>2. CASE fdc.on
    <3>1. fdc' = [fdc EXCEPT !.required = TRUE, !.job = j, !.pc = "stage", !.wait = fdc.wait] /\ hw' = hw
      BY <2>2 DEF FdcStart, AccessInv, FdcType, Drivers, Jobs
    <3> QED
      BY <2>1, <2>2, <3>1
  <2>3. CASE ~fdc.on
    <3>1. /\ fdc' = [fdc EXCEPT !.required = TRUE, !.job = j, !.pc = "alarm", !.wait = "spin_up"]
          /\ hw' = [hw EXCEPT !.motor = TRUE]
      BY <2>3 DEF FdcStart, AccessInv, FdcType, Drivers, Jobs
    <3> QED
      BY <2>1, <3>1
  <2> QED
    BY <2>2, <2>3
<1>2. fdc.pc = "block"
  BY DEF FdcStart
<1> SUFFICES FdcType' /\ HwType' /\ Awaits' /\ Running' /\ LeftBusy' /\ Finished'
  BY DEF AccessInv
<1>t. FdcType' /\ HwType'
  <2>1. FdcType'
    BY <1>1, <1>2 DEF AccessInv, FdcType, HwType, Drivers, Controllers, Places
  <2>2. HwType'
    BY <1>1, <1>2 DEF AccessInv, FdcType, HwType, Controllers, Places
  <2> QED
    BY <2>1, <2>2
<1>w. Awaits'
  BY <1>1, <1>2
  DEF AccessInv, FdcType, Drivers, Awaits
<1>r. Running'
  BY <1>1, <1>2
  DEF AccessInv, FdcType, HwType, Drivers, Controllers, Awaits, Running,
      Accessing, Busy
<1>f. LeftBusy' /\ Finished'
  BY <1>1, <1>2
  DEF AccessInv, FdcType, HwType, Drivers, Controllers, Running,
      Accessing, LeftBusy, Busy, Finished
<1> QED
  BY <1>t, <1>w, <1>r, <1>f

\* Sending a command, or not, and waiting for its interrupt, or not.
LEMMA Sending ==
  ASSUME AccessInv, fdc.pc = "stage", NEW cmd \in {"seek"} \cup Dirs, NEW accepted \in BOOLEAN,
         NEW k \in {"seek", "rw"},
         hw' = fdc_send(cmd, accepted),
         WaitIrq([fdc EXCEPT !.behaving = Sent(cmd, accepted)], k)
  PROVE  AccessInv'
<1> DEFINE s == Sent(cmd, accepted)
<1>1. s \in BOOLEAN
  BY DEF Sent
<1>2. \E b, i \in BOOLEAN, pc \in {"irq", "got"} :
         fdc' = [fdc EXCEPT !.behaving = b, !.pc = pc, !.wait = k, !.irq = i]
  <2>1. CASE s
    <3>1. fdc' = [fdc EXCEPT !.behaving = TRUE, !.pc = "irq", !.wait = k, !.irq = fdc.irq]
      BY <2>1 DEF WaitIrq, AccessInv, FdcType, Drivers
    <3> QED
      BY <3>1 DEF AccessInv, FdcType, Drivers
  <2>2. CASE ~s
    <3>1. fdc' = [fdc EXCEPT !.behaving = FALSE, !.pc = "got", !.wait = k, !.irq = FALSE]
      BY <1>1, <2>2 DEF WaitIrq, AccessInv, FdcType, Drivers
    <3> QED
      BY <3>1
  <2> QED
    BY <2>1, <2>2
<1>3. \E d \in Dirs, c \in {"seek", hw.cmd} \cup Dirs, p \in {"exec", hw.phase} :
         hw' = [hw EXCEPT !.phase = p, !.cmd = c, !.done = d]
  <2>1. CASE ~s
    <3>1. hw' = [hw EXCEPT !.phase = hw.phase, !.cmd = hw.cmd, !.done = hw.done]
      BY <2>1 DEF fdc_send, AccessInv, HwType, Controllers
    <3> QED
      BY <3>1 DEF AccessInv, HwType, Controllers
  <2>2. CASE s
    <3>1. hw' = [hw EXCEPT !.phase = "exec", !.cmd = cmd,
                           !.done = IF cmd \in {"read", "write"} THEN "none" ELSE hw.done]
      BY <2>2 DEF fdc_send, AccessInv, HwType, Controllers
    <3> QED
      BY <3>1 DEF AccessInv, HwType, Controllers, Dirs
  <2> QED
    BY <2>1, <2>2
<1>4. fdc.required /\ hw.motor
  BY DEF AccessInv, Running, Accessing
<1>5. hw' \in Controllers
  BY <1>3 DEF AccessInv, HwType, Controllers, Dirs
<1> SUFFICES FdcType' /\ HwType' /\ Awaits' /\ Running' /\ LeftBusy' /\ Finished'
  BY DEF AccessInv
<1>t. FdcType' /\ HwType'
  <2>1. FdcType'
    BY ZenonT(60), <1>2, <1>3, <1>4, <1>5 DEF AccessInv, FdcType, HwType, Drivers, Controllers, Places
  <2>2. HwType'
    BY <1>2, <1>3, <1>4, <1>5 DEF AccessInv, FdcType, HwType, Controllers, Places
  <2> QED
    BY <2>1, <2>2
<1>w. Awaits'
  BY <1>2, <1>3, <1>4, <1>5
  DEF AccessInv, FdcType, Drivers, Awaits
<1>r. Running'
  BY <1>2, <1>3, <1>4, <1>5
  DEF AccessInv, FdcType, HwType, Drivers, Controllers, Awaits, Running,
      Accessing, Busy
<1>f. LeftBusy' /\ Finished'
  BY <1>2, <1>3, <1>4, <1>5
  DEF AccessInv, FdcType, HwType, Drivers, Controllers, Running,
      Accessing, LeftBusy, Busy, Finished
<1> QED
  BY <1>t, <1>w, <1>r, <1>f

\* A seek command is sent.
LEMMA StepSeek ==
  ASSUME AccessInv, FdcSeek PROVE AccessInv'
BY Sending DEF FdcSeek

\* A transfer command is sent.
LEMMA StepTransfer ==
  ASSUME AccessInv, FdcTransfer PROVE AccessInv'
<1>1. fdc.job.dir \in Dirs
  BY DEF AccessInv, FdcType, Drivers, Jobs
<1> QED
  BY <1>1, Sending DEF FdcTransfer

\* Reading the results, or not.
LEMMA Reading ==
  ASSUME NEW given \in BOOLEAN
  PROVE  \/ Read(given) /\ fdc_get(given) = [hw EXCEPT !.phase = "idle", !.cmd = "none"]
         \/ ~Read(given) /\ fdc_get(given) = hw
BY DEF fdc_get

\* A controller that responds is idle once its results are read.
LEMMA Responds ==
  ASSUME AccessInv, NEW given \in BOOLEAN, hw' = fdc_get(given)
  PROVE  /\ Responding(given) \in BOOLEAN /\ Read(given) = Responding(given)
         /\ Responding(given) => hw'.phase = "idle"
         /\ hw' \in Controllers /\ hw'.motor = hw.motor /\ hw'.done = hw.done
         /\ Busy' => Busy
<1>1. Responding(given) \in BOOLEAN /\ Read(given) = Responding(given)
  BY DEF Read, Responding
<1> QED
  BY <1>1, Reading DEF AccessInv, HwType, Controllers, Busy

\* The end of a seek is read.
LEMMA StepSeekDone ==
  ASSUME AccessInv, FdcSeekDone PROVE AccessInv'
<1> PICK given \in BOOLEAN, ok \in BOOLEAN :
       /\ hw' = fdc_get(given)
       /\ fdc' = [fdc EXCEPT !.pc = "alarm", !.wait = "settle", !.irq = FALSE,
                             !.behaving = Responding(given), !.ok = Read(given) /\ ok]
  BY DEF FdcSeekDone
<1>1. fdc.required /\ hw.motor
  BY DEF FdcSeekDone, AccessInv, Running, Accessing
<1>2. \E b, o \in BOOLEAN : fdc' = [fdc EXCEPT !.pc = "alarm", !.wait = "settle", !.irq = FALSE,
                                              !.behaving = b, !.ok = o]
  BY Responds
<1>3. hw' \in Controllers /\ hw'.motor = hw.motor
  BY Responds
<1> SUFFICES FdcType' /\ HwType' /\ Awaits' /\ Running' /\ LeftBusy' /\ Finished'
  BY DEF AccessInv
<1>t. FdcType' /\ HwType'
  <2>1. FdcType'
    BY <1>1, <1>2, <1>3 DEF AccessInv, FdcType, HwType, Drivers, Controllers, Places
  <2>2. HwType'
    BY <1>1, <1>2, <1>3 DEF AccessInv, FdcType, HwType, Controllers, Places
  <2> QED
    BY <2>1, <2>2
<1>w. Awaits'
  BY <1>1, <1>2, <1>3
  DEF AccessInv, FdcType, Drivers, Awaits
<1>r. Running'
  BY <1>1, <1>2, <1>3
  DEF AccessInv, FdcType, HwType, Drivers, Controllers, Awaits, Running,
      Accessing, Busy
<1>f. LeftBusy' /\ Finished'
  BY <1>1, <1>2, <1>3
  DEF AccessInv, FdcType, HwType, Drivers, Controllers, Running,
      Accessing, LeftBusy, Busy, Finished
<1> QED
  BY <1>t, <1>w, <1>r, <1>f

\* The results of a transfer are read.
LEMMA StepTransferDone ==
  ASSUME AccessInv, FdcTransferDone PROVE AccessInv'
<1>1. fdc.pc = "got" /\ fdc.wait = "rw" /\ fdc.required /\ hw.motor
  BY DEF FdcTransferDone, AccessInv, Running, Accessing
<1>2. CASE ~fdc.irq
  <2>1. fdc' = [fdc EXCEPT !.pc = "retry", !.wait = "none", !.behaving = FALSE] /\ hw' = hw
    BY <1>2 DEF FdcTransferDone
  <2> SUFFICES FdcType' /\ HwType' /\ Awaits' /\ Running' /\ LeftBusy' /\ Finished'
    BY DEF AccessInv
  <2>t. FdcType' /\ HwType'
    <3>1. FdcType'
      BY <1>1, <2>1 DEF AccessInv, FdcType, HwType, Drivers, Controllers, Places
    <3>2. HwType'
      BY <1>1, <2>1 DEF AccessInv, FdcType, HwType, Controllers, Places
    <3> QED
      BY <3>1, <3>2
  <2>w. Awaits'
    BY <1>1, <2>1
    DEF AccessInv, FdcType, Drivers, Awaits
  <2>r. Running'
    BY <1>1, <2>1
    DEF AccessInv, FdcType, HwType, Drivers, Controllers, Awaits, Running,
        Accessing, Busy
  <2>f. LeftBusy' /\ Finished'
    BY <1>1, <2>1
    DEF AccessInv, FdcType, HwType, Drivers, Controllers, Running,
        Accessing, LeftBusy, Busy, Finished
  <2> QED
    BY <2>t, <2>w, <2>r, <2>f
<1>3. CASE fdc.irq
  <2> PICK given \in BOOLEAN :
        /\ hw' = fdc_get(given)
        /\ fdc' = [fdc EXCEPT !.behaving = Responding(given), !.wait = "none", !.irq = FALSE,
                 !.pc = IF Read(given) /\ hw.done # fdc.job.dir THEN "retry" ELSE "done"]
    BY <1>3 DEF FdcTransferDone
  <2>1. /\ hw' \in Controllers /\ hw'.motor = hw.motor /\ hw'.done = hw.done
        /\ Responding(given) => hw'.phase = "idle"
    BY Responds
  <2>2. \E b \in BOOLEAN, pc \in {"retry", "done"} :
           /\ fdc' = [fdc EXCEPT !.behaving = b, !.wait = "none", !.irq = FALSE, !.pc = pc]
           /\ b /\ pc = "done" => hw'.phase = "idle" /\ hw'.done = fdc.job.dir
    BY <2>1, Responds
  <2> SUFFICES FdcType' /\ HwType' /\ Awaits' /\ Running' /\ LeftBusy' /\ Finished'
    BY DEF AccessInv
  <2>t. FdcType' /\ HwType'
    <3>1. FdcType'
      BY ZenonT(60), <1>1, <2>1, <2>2 DEF AccessInv, FdcType, HwType, Drivers, Controllers, Places
    <3>2. HwType'
      BY <1>1, <2>1, <2>2 DEF AccessInv, FdcType, HwType, Controllers, Places
    <3> QED
      BY <3>1, <3>2
  <2>w. Awaits'
    BY <1>1, <2>1, <2>2
    DEF AccessInv, FdcType, Drivers, Awaits
  <2>r. Running'
    BY <1>1, <2>1, <2>2
    DEF AccessInv, FdcType, HwType, Drivers, Controllers, Awaits, Running,
        Accessing, Busy
  <2>f. LeftBusy' /\ Finished'
    BY ZenonT(60), <1>1, <2>1, <2>2
    DEF AccessInv, FdcType, HwType, Drivers, Controllers, Running,
        Accessing, LeftBusy, Busy, Finished
  <2> QED
    BY <2>t, <2>w, <2>r, <2>f
<1> QED
  BY <1>2, <1>3

\* The next try, or the end of the request.
LEMMA StepNext ==
  ASSUME AccessInv, FdcNext PROVE AccessInv'
<1>1. fdc.pc \in {"next", "retry"} /\ hw' = hw
  BY DEF FdcNext
<1>2. \E j \in Jobs, pc \in {"stage", "done"}, b \in {FALSE, fdc.behaving} :
        /\ fdc' = [fdc EXCEPT !.pc = pc, !.behaving = b, !.job = j]
        /\ pc = "done" => ~b
  <2>1. ASSUME NEW j \in Jobs, fdc' = [fdc EXCEPT !.pc = "stage", !.job = j]
        PROVE  \E pc \in {"stage", "done"}, b \in {FALSE, fdc.behaving} :
                  /\ fdc' = [fdc EXCEPT !.pc = pc, !.behaving = b, !.job = j]
                  /\ pc = "done" => ~b
    <3>1. fdc' = [fdc EXCEPT !.pc = "stage", !.behaving = fdc.behaving, !.job = j]
      BY <2>1 DEF AccessInv, FdcType, Drivers
    <3> QED
      BY <3>1
  <2>2. ASSUME NEW t \in {"recal", "seek", "rw", "back"}, NEW n \in Nat, NEW k \in Nat
        PROVE  [fdc.job EXCEPT !.stage = t, !.seek = n, !.rw = k] \in Jobs
    BY DEF AccessInv, FdcType, Drivers, Jobs
  <2> DEFINE J(t, n, k) == [fdc.job EXCEPT !.stage = t, !.seek = n, !.rw = k]
  <2>3. fdc.job.seek \in Nat /\ fdc.job.rw \in Nat
    BY DEF AccessInv, FdcType, Drivers, Jobs
  <2>4. \/ fdc' = [fdc EXCEPT !.pc = "stage", !.job = J("seek", fdc.job.seek, fdc.job.rw)]
        \/ fdc' = [fdc EXCEPT !.pc = "stage", !.job = J("rw", fdc.job.seek, 1)]
        \/ fdc' = [fdc EXCEPT !.pc = "stage", !.job = J("rw", fdc.job.seek, fdc.job.rw + 1)]
        \/ fdc' = [fdc EXCEPT !.pc = "stage", !.job = J("back", fdc.job.seek, fdc.job.rw)]
        \/ fdc' = [fdc EXCEPT !.pc = "stage", !.job = J("recal", fdc.job.seek + 1, fdc.job.rw)]
        \/ fdc' = [fdc EXCEPT !.pc = "done", !.behaving = FALSE, !.job = fdc.job]
    <3>1. fdc \in Drivers /\ fdc.job \in Jobs
      BY DEF AccessInv, FdcType, Drivers
    <3>2. /\ J("seek", fdc.job.seek, fdc.job.rw) = [fdc.job EXCEPT !.stage = "seek"]
          /\ J("rw", fdc.job.seek, 1) = [fdc.job EXCEPT !.stage = "rw", !.rw = 1]
          /\ J("rw", fdc.job.seek, fdc.job.rw + 1) = [fdc.job EXCEPT !.stage = "rw", !.rw = fdc.job.rw + 1]
          /\ J("back", fdc.job.seek, fdc.job.rw) = [fdc.job EXCEPT !.stage = "back"]
          /\ J("recal", fdc.job.seek + 1, fdc.job.rw) =
               [fdc.job EXCEPT !.stage = "recal", !.seek = fdc.job.seek + 1]
      BY <3>1 DEF Jobs
    <3>3. \A t : Stage(t) = [fdc EXCEPT !.pc = "stage", !.job = [fdc.job EXCEPT !.stage = t]]
      BY <3>1 DEF Stage, Drivers
    <3>4. /\ [Stage("rw") EXCEPT !.job.rw = 1]
               = [fdc EXCEPT !.pc = "stage", !.job = [fdc.job EXCEPT !.stage = "rw", !.rw = 1]]
          /\ [Stage("rw") EXCEPT !.job.rw = @ + 1]
               = [fdc EXCEPT !.pc = "stage", !.job = [fdc.job EXCEPT !.stage = "rw", !.rw = fdc.job.rw + 1]]
          /\ [Stage("recal") EXCEPT !.job.seek = @ + 1]
               = [fdc EXCEPT !.pc = "stage", !.job = [fdc.job EXCEPT !.stage = "recal", !.seek = fdc.job.seek + 1]]
      BY <3>1, <3>3 DEF Drivers, Jobs
    <3>5. [fdc EXCEPT !.pc = "done", !.behaving = FALSE]
            = [fdc EXCEPT !.pc = "done", !.behaving = FALSE, !.job = fdc.job]
      BY <3>1 DEF Drivers
    <3> HIDE DEF J
    <3> QED
      BY <3>2, <3>3, <3>4, <3>5 DEF FdcNext
  <2>5. CASE fdc' = [fdc EXCEPT !.pc = "done", !.behaving = FALSE, !.job = fdc.job]
    BY <2>5 DEF AccessInv, FdcType, Drivers
  <2>6. CASE \E t \in {"recal", "seek", "rw", "back"}, n, k \in Nat :
               fdc' = [fdc EXCEPT !.pc = "stage", !.job = J(t, n, k)]
    <3> PICK t \in {"recal", "seek", "rw", "back"}, n \in Nat, k \in Nat :
               fdc' = [fdc EXCEPT !.pc = "stage", !.job = J(t, n, k)]
      BY <2>6
    <3>1. J(t, n, k) \in Jobs
      BY <2>2
    <3> HIDE DEF J
    <3> QED
      BY <2>1, <3>1
  <2>7. 1 \in Nat /\ fdc.job.rw + 1 \in Nat /\ fdc.job.seek + 1 \in Nat
    BY <2>3
  <2> HIDE DEF J
  <2> QED
    BY <2>3, <2>4, <2>5, <2>6, <2>7
<1> SUFFICES FdcType' /\ HwType' /\ Awaits' /\ Running' /\ LeftBusy' /\ Finished'
  BY DEF AccessInv
<1>t. FdcType' /\ HwType'
  <2>1. FdcType'
    BY <1>1, <1>2 DEF AccessInv, FdcType, HwType, Drivers, Controllers, Places
  <2>2. HwType'
    BY <1>1, <1>2 DEF AccessInv, FdcType, HwType, Controllers, Places
  <2> QED
    BY <2>1, <2>2
<1>w. Awaits'
  BY <1>1, <1>2
  DEF AccessInv, FdcType, Drivers, Awaits
<1>r. Running'
  BY <1>1, <1>2
  DEF AccessInv, FdcType, HwType, Drivers, Controllers, Awaits, Running,
      Accessing, Busy
<1>f. LeftBusy' /\ Finished'
  BY <1>1, <1>2
  DEF AccessInv, FdcType, HwType, Drivers, Controllers, Running,
      Accessing, LeftBusy, Busy, Finished
<1> QED
  BY <1>t, <1>w, <1>r, <1>f

\* A block is done.
LEMMA StepBlockDone ==
  ASSUME AccessInv, FdcBlockDone PROVE AccessInv'
<1>1. fdc.pc = "done" /\ hw' = hw
  BY DEF FdcBlockDone
<1>2. \E j \in Jobs, pc \in {"block", "reply"} :
         /\ fdc' = [fdc EXCEPT !.required = FALSE, !.pc = pc, !.job = j]
         /\ pc = "block" => fdc.behaving
  <2> DEFINE J(d) == [fdc.job EXCEPT !.dir = d]
  <2>1. \A d \in Dirs : J(d) \in Jobs
    BY DEF AccessInv, FdcType, Drivers, Jobs
  <2>2. fdc.job \in Jobs /\ fdc.job.op \in Dirs /\ "read" \in Dirs
    BY DEF AccessInv, FdcType, Drivers, Jobs, Dirs
  <2>3. \/ fdc' = [fdc EXCEPT !.required = FALSE, !.pc = "reply", !.job = fdc.job]
        \/ /\ fdc.behaving
           /\ \E d \in {"read", fdc.job.op} :
                fdc' = [fdc EXCEPT !.required = FALSE, !.pc = "block", !.job = J(d)]
    BY DEF FdcBlockDone, FirstDirs, AccessInv, FdcType, Drivers, Jobs
  <2> HIDE DEF J
  <2> QED
    BY <2>1, <2>2, <2>3
<1> SUFFICES FdcType' /\ HwType' /\ Awaits' /\ Running' /\ LeftBusy' /\ Finished'
  BY DEF AccessInv
<1>t. FdcType' /\ HwType'
  <2>1. FdcType'
    BY <1>1, <1>2 DEF AccessInv, FdcType, HwType, Drivers, Controllers, Places
  <2>2. HwType'
    BY <1>1, <1>2 DEF AccessInv, FdcType, HwType, Controllers, Places
  <2> QED
    BY <2>1, <2>2
<1>w. Awaits'
  BY <1>1, <1>2
  DEF AccessInv, FdcType, Drivers, Awaits
<1>r. Running'
  BY <1>1, <1>2
  DEF AccessInv, FdcType, HwType, Drivers, Controllers, Awaits, Running,
      Accessing, Busy
<1>f. LeftBusy' /\ Finished'
  BY <1>1, <1>2
  DEF AccessInv, FdcType, HwType, Drivers, Controllers, Running,
      Accessing, LeftBusy, Busy, Finished
<1> QED
  BY <1>t, <1>w, <1>r, <1>f

\* The driver receives a message.
LEMMA StepReceive ==
  ASSUME AccessInv, FdcReceive PROVE AccessInv'
<1> DEFINE m == Head(box[FDC])
<1>1. /\ fdc.pc = "main"
      /\ \/ fdc' = [fdc EXCEPT !.pc = "punish"] /\ hw' = hw
         \/ fdc' = [handled(m, fdc) EXCEPT !.pc = "punish"] /\ hw' = motor(m)
         \/ \E op \in {"read", "write"}, dir \in {"read", "write"} :
              /\ fdc' = [fdc EXCEPT !.pc = "block", !.job = [Idle EXCEPT !.op = op, !.dir = dir]]
              /\ hw' = hw
  BY DEF FdcReceive, FirstDirs
<1>2. \A op, dir \in {"read", "write"} : [Idle EXCEPT !.op = op, !.dir = dir] \in Jobs
  BY DEF Idle, Jobs, Dirs
<1> HIDE DEF m
<1>3. \E o \in BOOLEAN, n \in BOOLEAN, j \in Jobs, pc \in {"punish", "block"} :
         /\ fdc' = [fdc EXCEPT !.on = o, !.pc = pc, !.job = j]
         /\ hw' = [hw EXCEPT !.motor = n]
         /\ \/ o = fdc.on /\ n = hw.motor
            \/ ~o /\ ~n /\ ~fdc.required
  <2>1. /\ fdc.on \in BOOLEAN /\ hw.motor \in BOOLEAN /\ fdc.job \in Jobs
        /\ hw = [hw EXCEPT !.motor = hw.motor]
    BY DEF AccessInv, FdcType, HwType, Drivers, Controllers
  <2>2. CASE fdc' = [fdc EXCEPT !.pc = "punish"] /\ hw' = hw
    <3>1. fdc' = [fdc EXCEPT !.on = fdc.on, !.pc = "punish", !.job = fdc.job]
      BY <2>2 DEF AccessInv, FdcType, Drivers
    <3> QED
      BY <2>1, <2>2, <3>1
  <2>3. CASE /\ fdc' = [fdc EXCEPT !.on = FALSE, !.pc = "punish"]
             /\ hw' = [hw EXCEPT !.motor = FALSE] /\ ~fdc.required
    <3>1. fdc' = [fdc EXCEPT !.on = FALSE, !.pc = "punish", !.job = fdc.job]
      BY <2>3 DEF AccessInv, FdcType, Drivers
    <3> QED
      BY <2>1, <2>3, <3>1
  <2>4. CASE /\ \E j \in Jobs : fdc' = [fdc EXCEPT !.pc = "block", !.job = j]
             /\ hw' = hw
    <3> PICK j \in Jobs : fdc' = [fdc EXCEPT !.pc = "block", !.job = j]
      BY <2>4
    <3>1. fdc' = [fdc EXCEPT !.on = fdc.on, !.pc = "block", !.job = j]
      BY DEF AccessInv, FdcType, Drivers
    <3> QED
      BY <2>1, <2>4, <3>1
  <2> QED
    BY <1>1, <1>2, <2>2, <2>3, <2>4, HandledAlarm
<1> PICK o \in BOOLEAN, n \in BOOLEAN, j \in Jobs, pc \in {"punish", "block"} :
         /\ fdc' = [fdc EXCEPT !.on = o, !.pc = pc, !.job = j]
         /\ hw' = [hw EXCEPT !.motor = n]
         /\ \/ o = fdc.on /\ n = hw.motor
            \/ ~o /\ ~n /\ ~fdc.required
  BY <1>3
<1>4. /\ fdc'.pc = pc /\ fdc'.required = fdc.required /\ fdc'.on = o
      /\ hw'.motor = n /\ hw'.phase = hw.phase /\ hw'.cmd = hw.cmd
  BY DEF AccessInv, FdcType, HwType, Drivers, Controllers
<1>5. Busy => fdc.required /\ hw.motor
  BY <1>1 DEF AccessInv, LeftBusy, Running
<1> SUFFICES FdcType' /\ HwType' /\ Awaits' /\ Running' /\ LeftBusy' /\ Finished'
  BY DEF AccessInv
<1>t. FdcType' /\ HwType'
  <2>1. FdcType'
    BY <1>1, <1>4, <1>5 DEF AccessInv, FdcType, HwType, Drivers, Controllers, Places
  <2>2. HwType'
    BY <1>1, <1>4, <1>5 DEF AccessInv, FdcType, HwType, Controllers, Places
  <2> QED
    BY <2>1, <2>2
<1>w. Awaits'
  BY <1>1, <1>4, <1>5
  DEF AccessInv, FdcType, Drivers, Awaits
<1>r. Running'
  BY <1>1, <1>4, <1>5
  DEF AccessInv, FdcType, HwType, Drivers, Controllers, Awaits, Running,
      Accessing, Busy
<1>f. LeftBusy' /\ Finished'
  BY <1>1, <1>4, <1>5
  DEF AccessInv, FdcType, HwType, Drivers, Controllers, Running,
      Accessing, LeftBusy, Busy, Finished
<1> QED
  BY <1>t, <1>w, <1>r, <1>f

\* The answer is sent.
LEMMA StepReply ==
  ASSUME AccessInv, FdcReply PROVE AccessInv'
<1>1. Idle \in Jobs
  BY DEF Idle, Jobs, Dirs
<1> SUFFICES FdcType' /\ HwType' /\ Awaits' /\ Running' /\ LeftBusy' /\ Finished'
  BY DEF AccessInv
<1>t. FdcType' /\ HwType'
  BY <1>1
  DEF FdcReply, AccessInv, FdcType, HwType, Drivers, Controllers, Places, Dirs
<1>w. Awaits'
  BY <1>1
  DEF FdcReply, AccessInv, FdcType, Drivers, Awaits
<1>r. Running'
  BY <1>1
  DEF FdcReply, AccessInv, FdcType, HwType, Drivers, Controllers, Awaits, Running,
      Accessing, Busy
<1>f. LeftBusy' /\ Finished'
  BY <1>1
  DEF FdcReply, AccessInv, FdcType, HwType, Drivers, Controllers, Running,
      Accessing, LeftBusy, Busy, Finished
<1> QED
  BY <1>t, <1>w, <1>r, <1>f

\* The answer that cannot be sent.
LEMMA StepPunish ==
  ASSUME AccessInv, FdcPunish PROVE AccessInv'
<1>1. CASE fdc.behaving
  <2>1. fdc.pc = "punish" /\ fdc' = [fdc EXCEPT !.pc = "main"] /\ hw' = hw
    BY <1>1 DEF FdcPunish
  <2> SUFFICES FdcType' /\ HwType' /\ Awaits' /\ Running' /\ LeftBusy' /\ Finished'
    BY DEF AccessInv
  <2>t. FdcType' /\ HwType'
    <3>1. FdcType'
      BY <1>1, <2>1 DEF AccessInv, FdcType, HwType, Drivers, Controllers, Places
    <3>2. HwType'
      BY <1>1, <2>1 DEF AccessInv, FdcType, HwType, Controllers, Places
    <3> QED
      BY <3>1, <3>2
  <2>w. Awaits'
    BY <1>1, <2>1
    DEF AccessInv, FdcType, Drivers, Awaits
  <2>r. Running'
    BY <1>1, <2>1
    DEF AccessInv, FdcType, HwType, Drivers, Controllers, Awaits, Running,
        Accessing, Busy
  <2>f. LeftBusy' /\ Finished'
    BY <1>1, <2>1
    DEF AccessInv, FdcType, HwType, Drivers, Controllers, Running,
        Accessing, LeftBusy, Busy, Finished
  <2> QED
    BY <2>t, <2>w, <2>r, <2>f
<1>2. CASE ~fdc.behaving
  <2>1. /\ hw' = [hw EXCEPT !.phase = "exec", !.cmd = "reset", !.motor = FALSE, !.done = "none"]
        /\ fdc' = [fdc EXCEPT !.behaving = TRUE, !.required = FALSE, !.on = FALSE,
                              !.pc = "irq", !.wait = "reset"]
    BY <1>2 DEF FdcPunish, WaitIrq, AccessInv, FdcType, Drivers
  <2> SUFFICES FdcType' /\ HwType' /\ Awaits' /\ Running' /\ LeftBusy' /\ Finished'
    BY DEF AccessInv
  <2>t. FdcType' /\ HwType'
    BY <2>1
    DEF AccessInv, FdcType, HwType, Drivers, Controllers, Places, Dirs
  <2>w. Awaits'
    BY <2>1
    DEF AccessInv, FdcType, Drivers, Awaits
  <2>r. Running'
    BY <2>1
    DEF AccessInv, FdcType, HwType, Drivers, Controllers, Awaits, Running,
        Accessing, Busy
  <2>f. LeftBusy' /\ Finished'
    BY <2>1
    DEF AccessInv, FdcType, HwType, Drivers, Controllers, Running,
        Accessing, LeftBusy, Busy, Finished
  <2> QED
    BY <2>t, <2>w, <2>r, <2>f
<1> QED
  BY <1>1, <1>2

\* The controller is reset.
LEMMA StepReset ==
  ASSUME AccessInv, FdcReset PROVE AccessInv'
<1> PICK given \in BOOLEAN :
       /\ hw' = fdc_get(given)
       /\ fdc' = [fdc EXCEPT !.pc = "main", !.wait = "none", !.irq = FALSE,
                             !.behaving = Responding(given)]
  BY DEF FdcReset
<1>1. fdc.pc = "got" /\ fdc.wait = "reset"
  BY DEF FdcReset
<1>2. \E b \in BOOLEAN : fdc' = [fdc EXCEPT !.pc = "main", !.wait = "none", !.irq = FALSE, !.behaving = b]
  BY Responds
<1>3. hw' \in Controllers /\ hw'.motor = hw.motor /\ (Busy' => Busy)
  BY Responds
<1> SUFFICES FdcType' /\ HwType' /\ Awaits' /\ Running' /\ LeftBusy' /\ Finished'
  BY DEF AccessInv
<1>t. FdcType' /\ HwType'
  <2>1. FdcType'
    BY <1>1, <1>2, <1>3 DEF AccessInv, FdcType, HwType, Drivers, Controllers, Places
  <2>2. HwType'
    BY <1>1, <1>2, <1>3 DEF AccessInv, FdcType, HwType, Controllers, Places
  <2> QED
    BY <2>1, <2>2
<1>w. Awaits'
  BY <1>1, <1>2, <1>3
  DEF AccessInv, FdcType, Drivers, Awaits
<1>r. Running'
  BY <1>1, <1>2, <1>3
  DEF AccessInv, FdcType, HwType, Drivers, Controllers, Awaits, Running,
      Accessing, Busy
<1>f. LeftBusy' /\ Finished'
  BY <1>1, <1>2, <1>3
  DEF AccessInv, FdcType, HwType, Drivers, Controllers, Running,
      Accessing, LeftBusy, Busy, Finished
<1> QED
  BY <1>t, <1>w, <1>r, <1>f

\* The controller ends a command; the driver is at one of its waits.
LEMMA StepFinish ==
  ASSUME AccessInv, FdcFinish, Preemptible PROVE AccessInv'
<1>1. PICK d \in Dirs : hw' = [hw EXCEPT !.phase = "result", !.done = d]
  BY DEF FdcFinish, AccessInv, HwType, Controllers, Dirs
<1>2. fdc' = fdc /\ fdc.pc # "done"
  BY DEF FdcFinish, Preemptible
<1> SUFFICES FdcType' /\ HwType' /\ Awaits' /\ Running' /\ LeftBusy' /\ Finished'
  BY DEF AccessInv
<1>t. FdcType' /\ HwType'
  <2>1. FdcType'
    BY <1>1, <1>2 DEF AccessInv, FdcType, HwType, Drivers, Controllers, Places
  <2>2. HwType'
    BY <1>1, <1>2 DEF AccessInv, FdcType, HwType, Controllers, Places
  <2> QED
    BY <2>1, <2>2
<1>w. Awaits'
  BY <1>1, <1>2
  DEF AccessInv, FdcType, Drivers, Awaits
<1>r. Running'
  BY <1>1, <1>2
  DEF AccessInv, FdcType, HwType, Drivers, Controllers, Awaits, Running,
      Accessing, Busy
<1>f. LeftBusy' /\ Finished'
  BY <1>1, <1>2
  DEF AccessInv, FdcType, HwType, Drivers, Controllers, Running,
      Accessing, LeftBusy, Busy, Finished
<1> QED
  BY <1>t, <1>w, <1>r, <1>f


-----------------------------------------------------------------------------

\* Steps of the timer and the terminal touch neither the driver nor the controller, and the
\* driver is at one of its waits when the controller ends a command.
LEMMA NextAccess == AccessInv /\ [DevicesNext]_devVars => AccessInv'
<1> SUFFICES ASSUME AccessInv, [DevicesNext]_devVars PROVE AccessInv'
  OBVIOUS
<1>1. CASE UNCHANGED <<fdc, hw>>
  BY <1>1 DEF AccessInv, FdcType, HwType, Drivers, Controllers, Jobs, Dirs, Places, Busy, Accessing, Awaits, Running, LeftBusy, Finished
<1>2. CASE FloppyStep
  BY <1>2, StepIrq, StepTimeout, StepAlarm, StepStart, StepSeek, StepTransfer, StepSeekDone,
     StepTransferDone, StepNext, StepBlockDone, StepReceive, StepReply, StepPunish, StepReset
  DEF FloppyStep, Fdc
<1>3. CASE Preemptible /\ Others
  <2>1. CASE FdcFinish
    BY <2>1, <1>3, StepFinish
  <2>2. CASE Tick \/ Resume \/ TimerStep \/ TtyReceive \/ TtyFreqSet \/ Key \/ Ask
    BY <1>1, <2>2 DEF Tick, Resume, TimerStep, TtyReceive, TtyFreqSet, Key, Ask, Rest
  <2> QED
    BY <1>3, <2>1, <2>2 DEF Others
<1>4. CASE UNCHANGED devVars
  BY <1>1, <1>4 DEF devVars
<1> QED
  BY <1>2, <1>3, <1>4 DEF DevicesNext

\* The inductive invariant.
LEMMA AccessCorrect == DevicesSpec => []AccessInv
BY InitAccess, NextAccess, PTL DEF DevicesSpec

\* Whenever the controller executes a seek or a transfer the motor runs, although the alarm
\* that stops it may come at any time and is never cancelled (floppy.c:236-251).
THEOREM MotorCorrect == DevicesSpec => []MotorServed
<1>1. AccessInv => MotorServed
  BY DEF AccessInv, Running, Busy, MotorServed, HwType
<1> QED
  BY <1>1, AccessCorrect, PTL

\* A block whose access succeeds was transferred by the controller, although interrupts of
\* earlier commands may be taken for its own (floppy.c:490-538).
THEOREM SuccessCorrect == DevicesSpec => []SuccessIsTransfer
<1>1. AccessInv => SuccessIsTransfer
  BY DEF AccessInv, Finished, SuccessIsTransfer
<1> QED
  BY <1>1, AccessCorrect, PTL

-----------------------------------------------------------------------------
(* The calendar. *)

\* The months have 28 to 31 days.
LEMMA LastDay ==
  ASSUME NEW mon \in 1 .. 12, NEW year \in Nat
  PROVE  last_day(mon, year) \in 28 .. 31
BY DEF last_day

\* A day of the century.
On(year, mon, mday) == DayNumber(2000 + year, mon, mday)

\* From the first day of a month to the first of the next it is as many days as the
\* source gives the month, from 2001 to 2099.
LEMMA MonthLength ==
  ASSUME NEW mon \in 1 .. 12, NEW year \in 1 .. 99
  PROVE  /\ On(year, mon, 1) + last_day(mon, year) =
              IF mon = 12 THEN On((year + 1), 1, 1) ELSE On(year, mon + 1, 1)
         /\ \A d \in Int : On(year, mon, d) = On(year, mon, 1) + d - 1
         /\ On(year, mon, 1) \in Int
<1>1. CASE mon = 1
  BY <1>1 DEF On, DayNumber, last_day
<1>2. CASE mon = 2
  BY <1>2 DEF On, DayNumber, last_day
<1>3. CASE mon = 3
  BY <1>3 DEF On, DayNumber, last_day
<1>4. CASE mon = 4
  BY <1>4 DEF On, DayNumber, last_day
<1>5. CASE mon = 5
  BY <1>5 DEF On, DayNumber, last_day
<1>6. CASE mon = 6
  BY <1>6 DEF On, DayNumber, last_day
<1>7. CASE mon = 7
  BY <1>7 DEF On, DayNumber, last_day
<1>8. CASE mon = 8
  BY <1>8 DEF On, DayNumber, last_day
<1>9. CASE mon = 9
  BY <1>9 DEF On, DayNumber, last_day
<1>10. CASE mon = 10
  BY <1>10 DEF On, DayNumber, last_day
<1>11. CASE mon = 11
  BY <1>11 DEF On, DayNumber, last_day
<1>12. CASE mon = 12
  BY <1>12 DEF On, DayNumber, last_day
<1> QED
  BY <1>1, <1>2, <1>3, <1>4, <1>5, <1>6, <1>7, <1>8, <1>9, <1>10, <1>11, <1>12

\* BCD registers and back.
LEMMA BcdRight ==
  ASSUME NEW n \in 0 .. 99
  PROVE  bcd_to_bin(Register(n)) = n
BY DEF bcd_to_bin, Register

\* A moment, and what seconds are in days and seconds of the day.
At(d, s) == [day |-> d, sec |-> s]
DayPart(s) == s \div SECS_PER_DAY
SecPart(s) == s % SECS_PER_DAY

\* They are integers, and the second of the day is one.
LEMMA Parts ==
  ASSUME NEW s \in Int
  PROVE  /\ DayPart(s) \in Int
         /\ SecPart(s) \in Int
         /\ 0 <= SecPart(s) /\ SecPart(s) < SECS_PER_DAY
         /\ s >= 0 => DayPart(s) >= 0
BY DEF DayPart, SecPart, SECS_PER_DAY

\* A sum, by its parts.
LEMMA PlusAt ==
  ASSUME NEW d \in Int, NEW s \in Int, NEW a \in Int
  PROVE  Plus(At(d, s), a) = At(d + DayPart(s + a), SecPart(s + a))
BY DEF Plus, At, DayPart, SecPart

\* Seconds may be added in one go or piecemeal.
LEMMA PlusPlus ==
  ASSUME NEW d \in Int, NEW s \in Int, NEW a \in Int, NEW b \in Int
  PROVE  Plus(Plus(At(d, s), a), b) = Plus(At(d, s), a + b)
<1>1. DayPart(s + a) \in Int /\ SecPart(s + a) \in Int
  BY Parts
<1>2. Plus(At(d, s), a) = At(d + DayPart(s + a), SecPart(s + a))
  BY PlusAt, Zenon
<1>3. d + DayPart(s + a) \in Int /\ a + b \in Int
  BY <1>1
<1>4. Plus(At(d + DayPart(s + a), SecPart(s + a)), b) =
        At((d + DayPart(s + a)) + DayPart(SecPart(s + a) + b), SecPart(SecPart(s + a) + b))
  BY <1>1, <1>3, PlusAt, Zenon
<1>5. Plus(At(d, s), a + b) = At(d + DayPart(s + (a + b)), SecPart(s + (a + b)))
  BY <1>3, PlusAt, Zenon
<1>6. /\ (d + DayPart(s + a)) + DayPart(SecPart(s + a) + b) = d + DayPart(s + (a + b))
      /\ SecPart(SecPart(s + a) + b) = SecPart(s + (a + b))
  BY DEF DayPart, SecPart, SECS_PER_DAY
<1> HIDE DEF At
<1> QED
  BY <1>2, <1>4, <1>5, <1>6

\* No seconds change nothing.
LEMMA PlusZero ==
  ASSUME NEW d \in Int, NEW s \in Int, 0 <= s, s < SECS_PER_DAY
  PROVE  Plus(At(d, s), 0) = At(d, s)
BY DEF Plus, At, SECS_PER_DAY

-----------------------------------------------------------------------------
(* The loop of cmos_update_time(). *)

Dates == [sec : Int, min : Int, hour : Int, wday : Int, mday : Int, mon : 1 .. 12, year : Nat]

\* A date, by its fields; the fields that a change of some of them leaves alone.
Date(s, mi, h, w, d, m, y) ==
  [sec |-> s, min |-> mi, hour |-> h, wday |-> w, mday |-> d, mon |-> m, year |-> y]

\* A date is its fields.
LEMMA AllFields ==
  ASSUME NEW c \in Dates
  PROVE  /\ c = Date(c.sec, c.min, c.hour, c.wday, c.mday, c.mon, c.year)
BY DEF Dates, Date
Legs == [c : Dates, days : Int]

\* The month that p has come to begins in the century and by the day it is on its way to,
\* which it is still days away from.
Placed(p, day) ==
  /\ p.c.year \in 1 .. 99
  /\ 1 <= p.c.mday /\ p.c.mday <= last_day(p.c.mon, p.c.year)
  /\ p.days >= 0
  /\ DayOf(p.c) + p.days = day

Arrived(p) == p.c.mday + p.days <= last_day(p.c.mon, p.c.year)

SameTime(c, d) == c.sec = d.sec /\ c.min = d.min /\ c.hour = d.hour /\ c.wday = d.wday

Year2100 == On(100, 1, 1)

\* A turn, by the fields of the date that it makes.
LEMMA MonthIs ==
  ASSUME NEW p \in Legs, NEW c, c = p.c
  PROVE  /\ Arrived(p) => next_month(p) = p
         /\ ~ Arrived(p) =>
              next_month(p) = [c |-> Date(c.sec, c.min, c.hour, c.wday, 1, IF c.mon = 12 THEN 1 ELSE c.mon + 1,
                                       IF c.mon = 12 THEN c.year + 1 ELSE c.year),
                               days |-> p.days - (last_day(c.mon, c.year) - c.mday + 1)]
<1>1. c \in Dates
  BY DEF Legs
<1>2. PICK m : m = IF c.mon = 12 THEN 1 ELSE c.mon + 1
  OBVIOUS
<1>3. PICK y : y = IF c.mon = 12 THEN c.year + 1 ELSE c.year
  OBVIOUS
<1>4. [c EXCEPT !.mday = 1, !.mon = m, !.year = y] = Date(c.sec, c.min, c.hour, c.wday, 1, m, y)
  <2>1. c = Date(c.sec, c.min, c.hour, c.wday, c.mday, c.mon, c.year)
    BY <1>1, AllFields
  <2>2. PICK e : e = [c EXCEPT !.mday = 1]
    OBVIOUS
  <2>3. PICK f : f = [e EXCEPT !.mon = m]
    OBVIOUS
  <2>4. e = Date(c.sec, c.min, c.hour, c.wday, 1, c.mon, c.year)
    BY <2>1, <2>2 DEF Date
  <2>5. f = Date(c.sec, c.min, c.hour, c.wday, 1, m, c.year)
    BY <2>3, <2>4 DEF Date
  <2>6. [f EXCEPT !.year = y] = Date(c.sec, c.min, c.hour, c.wday, 1, m, y)
    BY <2>5 DEF Date
  <2>7. [c EXCEPT !.mday = 1, !.mon = m, !.year = y] = [f EXCEPT !.year = y]
    BY <2>2, <2>3, Zenon
  <2> QED
    BY <2>6, <2>7
<1>5. [c EXCEPT !.mday = 1, !.mon = IF @ = 12 THEN 1 ELSE @ + 1,
                           !.year = IF c.mon = 12 THEN @ + 1 ELSE @] = [c EXCEPT !.mday = 1, !.mon = IF c.mon = 12 THEN 1 ELSE c.mon + 1,
                           !.year = IF c.mon = 12 THEN c.year + 1 ELSE c.year]
  OBVIOUS
<1>6. PICK e : e = [c EXCEPT !.mday = 1, !.mon = IF @ = 12 THEN 1 ELSE @ + 1,
                           !.year = IF c.mon = 12 THEN @ + 1 ELSE @]
  OBVIOUS
<1>7. e = Date(c.sec, c.min, c.hour, c.wday, 1, m, y)
  BY <1>2, <1>3, <1>4, <1>5, <1>6, Zenon
<1>8. next_month(p) = IF Arrived(p) THEN p ELSE [c |-> e, days |-> p.days - (last_day(c.mon, c.year) - c.mday + 1)]
  BY <1>6, Zenon DEF next_month, Arrived
<1> QED
  BY <1>2, <1>3, <1>7, <1>8

\* A turn stays among the dates, and changes only the day.
LEMMA MonthType ==
  ASSUME NEW p \in Legs
  PROVE  next_month(p) \in Legs /\ SameTime(p.c, next_month(p).c)
<1>1. CASE Arrived(p)
  BY <1>1, MonthIs DEF SameTime
<1>2. CASE ~ Arrived(p)
  <2>1. PICK c \in Dates : c = p.c
    BY DEF Legs
  <2>2. PICK l \in Int : l = last_day(c.mon, c.year)
    BY LastDay DEF Dates
  <2>3. PICK m \in 1 .. 12 : m = IF c.mon = 12 THEN 1 ELSE c.mon + 1
    BY DEF Dates
  <2>4. PICK y \in Nat : y = IF c.mon = 12 THEN c.year + 1 ELSE c.year
    BY DEF Dates
  <2>5. next_month(p) = [c |-> Date(c.sec, c.min, c.hour, c.wday, 1, m, y), days |-> p.days - (l - c.mday + 1)]
    BY <1>2, <2>1, <2>2, <2>3, <2>4, MonthIs
  <2>6. p.days - (l - c.mday + 1) \in Int
    BY DEF Legs, Dates
  <2>7. Date(c.sec, c.min, c.hour, c.wday, 1, m, y) \in Dates
    BY DEF Date, Dates
  <2>8. SameTime(c, Date(c.sec, c.min, c.hour, c.wday, 1, m, y))
    BY DEF Date, SameTime
  <2> QED
    BY <2>1, <2>5, <2>6, <2>7, <2>8 DEF Legs
<1> QED
  BY <1>1, <1>2

\* A turn comes nearer.
LEMMA NextMonth ==
  ASSUME NEW p \in Legs, NEW day \in Int, day < Year2100, Placed(p, day)
  PROVE  /\ Placed(next_month(p), day)
         /\ Arrived(p) => next_month(p) = p
         /\ ~ Arrived(p) => /\ next_month(p).c.mday = 1
                            /\ next_month(p).days < p.days
                            /\ p.c.mday = 1 => next_month(p).days <= p.days - 28
<1>1. PICK l \in 28 .. 31 : l = last_day(p.c.mon, p.c.year)
  BY LastDay DEF Legs, Dates
<1>2. CASE Arrived(p)
  BY <1>2 DEF next_month, Arrived, Placed
<1>3. CASE ~ Arrived(p)
  <2> DEFINE c == p.c
             q == next_month(p)
             m == IF c.mon = 12 THEN 1 ELSE c.mon + 1
             y == IF c.mon = 12 THEN c.year + 1 ELSE c.year
  <2>1. c \in Dates /\ p.days \in Int /\ c.mon \in 1 .. 12 /\ c.year \in 1 .. 99 /\ c.mday \in Int
    BY DEF Legs, Dates, Placed
  <2>2. q = [c |-> Date(c.sec, c.min, c.hour, c.wday, 1, m, y), days |-> p.days - (l - c.mday + 1)]
    BY <1>1, <1>3, MonthIs
  <2>3. /\ q.c.mday = 1 /\ q.c.mon = m /\ q.c.year = y
        /\ q.days = p.days - (l - c.mday + 1)
    BY <2>2 DEF Date
  <2>4. On(c.year, c.mon, 1) + l = On(y, m, 1)
    <3>1. On(c.year, c.mon, 1) + last_day(c.mon, c.year) =
              IF c.mon = 12 THEN On((c.year + 1), 1, 1)
              ELSE On(c.year, c.mon + 1, 1)
      BY <2>1, MonthLength, Zenon
    <3> HIDE DEF c
    <3> QED
      BY <1>1, <3>1 DEF c
  <2>5. /\ DayOf(c) = On(c.year, c.mon, 1) + c.mday - 1
        /\ On(c.year, c.mon, 1) \in Int
    <3>1. /\ \A d \in Int : On(c.year, c.mon, d) = On(c.year, c.mon, 1) + d - 1
          /\ On(c.year, c.mon, 1) \in Int
      BY <2>1, MonthLength, Zenon
    <3>2. DayOf(c) = On(c.year, c.mon, c.mday)
      BY DEF DayOf, On
    <3> QED
      BY <2>1, <3>1, <3>2, Zenon
  <2>6. DayOf(q.c) = On(y, m, 1)
    BY <2>3 DEF DayOf, On
  <2>7. DayOf(c) + p.days = day /\ c.mday + p.days > l /\ c.mday >= 1 /\ c.mday <= l
    BY <1>1, <1>3, <2>1 DEF Placed, Arrived
  <2>8. m \in 1 .. 12 /\ y \in 1 .. 100
    BY <2>1
  <2> HIDE DEF c, q, m, y
  <2>9. q.days >= 0 /\ DayOf(q.c) + q.days = day /\ q.days < p.days
    BY <2>1, <2>3, <2>4, <2>5, <2>6, <2>7
  <2>10. y # 100
    <3>1. SUFFICES ASSUME y = 100 PROVE FALSE
      OBVIOUS
    <3>2. c.mon = 12 /\ m = 1
      BY <2>1, <3>1 DEF y, m
    <3>3. DayOf(q.c) = Year2100
      BY <2>6, <3>1, <3>2 DEF Year2100
    <3>4. Year2100 \in Int
      BY DEF Year2100, On, DayNumber
    <3>5. q.days \in Int
      BY <2>1, <2>3
    <3> QED
      BY <2>9, <3>3, <3>4, <3>5
  <2>11. y \in 1 .. 99
    BY <2>8, <2>10
  <2>12. last_day(m, y) \in 28 .. 31
    BY <2>8, <2>11, LastDay
  <2>13. Placed(q, day)
    BY <2>3, <2>9, <2>11, <2>12 DEF Placed
  <2>14. c.mday = 1 => q.days <= p.days - 28
    BY <2>1, <2>3
  <2> QED
    BY <1>3, <2>3, <2>9, <2>13, <2>14 DEF q, c
<1> QED
  BY <1>2, <1>3

\* The date that a loop has come to.
Kept(c, e) ==
  /\ e \in Dates /\ SameTime(c, e)
  /\ e.year \in 1 .. 99 /\ 1 <= e.mday /\ e.mday <= last_day(e.mon, e.year)

\* The loop's turns are enough, as no month has less than 28 days.
LEMMA ForwardRight ==
  ASSUME NEW c \in Dates, NEW days \in Nat, NEW day \in Int, day < Year2100,
         Placed([c |-> c, days |-> days], day)
  PROVE  Kept(c, Forward(c, days)) /\ DayOf(Forward(c, days)) = day
<1> DEFINE n == days \div 28 + 1
           x == [c |-> c, days |-> days]
           S == Legs
           G == [t \in (1 .. n) \X S |-> next_month(t[2])]
           s[k \in 0 .. n] == IF k = 0 THEN [c |-> c, days |-> days] ELSE next_month(s[k - 1])
<1>1. Forward(c, days) = [s[n].c EXCEPT !.mday = @ + s[n].days]
  BY DEF Forward
<1> HIDE DEF s, G, S
<1>2. n \in Nat /\ n >= 1 /\ 28 * n > days
  OBVIOUS
<1> HIDE DEF n
<1> USE DEF G, S
<1>3. G \in [(1 .. n) \X S -> S]
  BY MonthType
<1>4. x \in S
  BY DEF Legs
<1>5. PICK f \in [0 .. n -> S] : Turns(n, x, G, f)
  <2> HIDE DEF G, S, x
  <2> QED
    BY <1>2, <1>3, <1>4, LoopExists
<1>6. f = [k \in 0 .. n |-> IF k = 0 THEN x ELSE next_month(f[k - 1])]
  <2>1. \A k \in 0 .. n : k # 0 => G[<<k, f[k - 1]>>] = next_month(f[k - 1])
    BY <1>2
  <2> HIDE DEF G, x
  <2>2. \A k \in 0 .. n : f[k] = IF k = 0 THEN x ELSE next_month(f[k - 1])
    BY <1>5, <2>1 DEF Turns
  <2> QED
    BY <2>2
<1>7. s = [k \in 0 .. n |-> IF k = 0 THEN x ELSE next_month(s[k - 1])]
  BY <1>6 DEF s
<1> HIDE DEF s, x
<1>8. s[0] = x /\ \A k \in 1 .. n : s[k] = next_month(s[k - 1])
  BY <1>2, <1>7
<1> DEFINE Near(k) == k = 0 \/ Arrived(s[k])
                            \/ (s[k].c.mday = 1 /\ s[k].days <= days - 1 - 28 * (k - 1))
           A == {k \in 0 .. n : /\ s[k] \in Legs /\ SameTime(c, s[k].c)
                                /\ Placed(s[k], day) /\ Near(k)}
<1>9. 0 \in A
  <2>1. s[0] \in Legs /\ SameTime(c, s[0].c) /\ Placed(s[0], day)
    BY <1>4, <1>8 DEF x, SameTime
  <2>2. 0 \in 0 .. n
    BY <1>2
  <2>3. Near(0)
    OBVIOUS
  <2> HIDE DEF Near
  <2> QED
    BY <2>1, <2>2, <2>3
<1>10. ASSUME NEW k \in 0 .. n - 1, k \in A PROVE k + 1 \in A
  <2>1. k + 1 \in 1 .. n /\ k + 1 \in 0 .. n /\ (k + 1) - 1 = k
    BY <1>2
  <2>2. s[k] \in Legs /\ SameTime(c, s[k].c) /\ Placed(s[k], day) /\ Near(k)
    BY <1>10
  <2>3. s[k + 1] = next_month(s[k])
    BY <1>8, <2>1
  <2>4. s[k + 1] \in Legs /\ SameTime(s[k].c, s[k + 1].c)
    BY <2>2, <2>3, MonthType
  <2>5. SameTime(c, s[k + 1].c)
    BY <2>2, <2>4 DEF SameTime
  <2> HIDE DEF A
  <2>6. /\ Placed(s[k + 1], day)
        /\ Arrived(s[k]) => s[k + 1] = s[k]
        /\ ~ Arrived(s[k]) => /\ s[k + 1].c.mday = 1
                              /\ s[k + 1].days < s[k].days
                              /\ s[k].c.mday = 1 => s[k + 1].days <= s[k].days - 28
    BY <2>2, <2>3, NextMonth
  <2>7. Near(k + 1)
    <3>1. CASE Arrived(s[k])
      <4>1. Arrived(s[k + 1])
        BY <2>6, <3>1
      <4> QED
        BY <4>1
    <3>2. CASE ~ Arrived(s[k]) /\ k = 0
      <4>1. s[0].days = days
        BY <1>8 DEF x
      <4>2. s[1].days \in Int /\ s[1].c.mday = 1 /\ s[1].days < days
        BY <2>1, <2>4, <2>6, <3>2, <4>1 DEF Legs
      <4> QED
        BY <3>2, <4>2
    <3>3. CASE ~ Arrived(s[k]) /\ k # 0
      <4>1. s[k].c.mday = 1 /\ s[k].days <= days - 1 - 28 * (k - 1)
        BY <2>2, <3>3
      <4>2. s[k + 1].days <= s[k].days - 28 /\ s[k + 1].c.mday = 1
        BY <2>6, <3>3, <4>1
      <4>3. s[k].days \in Int /\ s[k + 1].days \in Int
        BY <2>2, <2>4 DEF Legs
      <4>4. s[k + 1].days <= days - 1 - 28 * ((k + 1) - 1)
        BY <4>1, <4>2, <4>3
      <4> QED
        BY <4>2, <4>4
    <3> QED
      BY <3>1, <3>2, <3>3
  <2> QED
    BY <2>1, <2>4, <2>5, <2>6, <2>7 DEF A
<1>11. n \in A
  <2> HIDE DEF A
  <2>1. \A k \in 0 .. n - 1 : k \in A => k + 1 \in A
    BY <1>10
  <2>2. \A k \in 0 .. n : k \in A
    BY <1>2, <1>9, <2>1, UpTo
  <2> QED
    BY <1>2, <2>2
<1>12. s[n] \in Legs /\ SameTime(c, s[n].c) /\ Placed(s[n], day) /\ Near(n)
  BY <1>11
<1> PICK p : p = s[n]
  OBVIOUS
<1>13. PICK e : e = p.c
  OBVIOUS
<1>14. e \in Dates /\ p.days \in Int /\ p.days >= 0 /\ e.year \in 1 .. 99 /\ SameTime(c, e)
       /\ 1 <= e.mday /\ DayOf(e) + p.days = day
  BY <1>12, <1>13 DEF Placed, Legs
<1>15. PICK l \in 28 .. 31 : l = last_day(e.mon, e.year)
  BY <1>14, LastDay DEF Dates
<1>16. e.mday + p.days <= l
  <2>1. CASE Arrived(p)
    BY <1>13, <1>15, <2>1 DEF Arrived
  <2>2. CASE ~ Arrived(p)
    <3>1. p.c.mday = 1 /\ p.days <= days - 1 - 28 * (n - 1)
      BY <1>2, <1>12, <2>2
    <3> QED
      BY <1>2, <1>13, <1>14, <3>1
  <2> QED
    BY <2>1, <2>2
<1>17. Forward(c, days) = Date(e.sec, e.min, e.hour, e.wday, e.mday + p.days, e.mon, e.year)
  <2>1. Forward(c, days) = [e EXCEPT !.mday = @ + p.days]
    BY <1>1, <1>13, Zenon
  <2>2. e = Date(e.sec, e.min, e.hour, e.wday, e.mday, e.mon, e.year)
    BY <1>14, AllFields
  <2>3. [e EXCEPT !.mday = e.mday + p.days] = Date(e.sec, e.min, e.hour, e.wday, e.mday + p.days, e.mon, e.year)
    BY <2>2 DEF Date
  <2> QED
    BY <2>1, <2>3
<1> PICK g : g = Forward(c, days)
  OBVIOUS
<1>18. /\ g.sec = e.sec /\ g.min = e.min /\ g.hour = e.hour /\ g.wday = e.wday
       /\ g.mday = e.mday + p.days /\ g.mon = e.mon /\ g.year = e.year /\ g \in Dates
  BY <1>14, <1>17 DEF Date, Dates
<1>19. DayOf(g) = DayOf(e) + p.days
  <2>1. /\ \A d \in Int : On(e.year, e.mon, d) = On(e.year, e.mon, 1) + d - 1
        /\ On(e.year, e.mon, 1) \in Int
    <3>1. e.mon \in 1 .. 12
      BY <1>14 DEF Dates
    <3> QED
      BY <1>14, <3>1, MonthLength, Zenon
  <2>2. DayOf(e) = On(e.year, e.mon, e.mday) /\ DayOf(g) = On(e.year, e.mon, g.mday)
    BY <1>18 DEF DayOf, On
  <2>3. e.mday \in Int /\ g.mday \in Int
    BY <1>14, <1>18 DEF Dates
  <2>4. DayOf(e) = On(e.year, e.mon, 1) + e.mday - 1 /\ DayOf(g) = On(e.year, e.mon, 1) + g.mday - 1
    BY <2>1, <2>2, <2>3, Zenon
  <2>5. PICK o \in Int, m \in Int, r \in Int :
          o = On(e.year, e.mon, 1) /\ m = e.mday /\ r = p.days
    BY <1>14, <2>1, <2>3
  <2>6. g.mday = m + r
    BY <1>18, <2>5
  <2>7. DayOf(e) = o + m - 1 /\ DayOf(g) = o + (m + r) - 1
    BY <2>4, <2>5, <2>6
  <2>8. o + (m + r) - 1 = (o + m - 1) + r
    OBVIOUS
  <2> QED
    BY <2>5, <2>7, <2>8
<1>20. Kept(c, g)
  <2>1. SameTime(c, g) /\ g \in Dates /\ g.year \in 1 .. 99
    BY <1>14, <1>18 DEF SameTime
  <2>2. e.mday \in Int /\ g.mday = e.mday + p.days /\ g.mday <= l
    BY <1>14, <1>16, <1>18 DEF Dates
  <2>3. 1 <= g.mday
    BY <1>14, <2>2
  <2>4. l = last_day(g.mon, g.year)
    BY <1>15, <1>18
  <2> QED
    BY <2>1, <2>2, <2>3, <2>4 DEF Kept
<1> QED
  BY <1>14, <1>19, <1>20

-----------------------------------------------------------------------------
(* cmos_update_time() *)

SecOf(c) == c.sec + 60 * c.min + 3600 * c.hour

\* A minute's seconds, an hour's minutes.
LEMMA Sixties ==
  ASSUME NEW x \in Nat
  PROVE  /\ x \div 60 \in Nat /\ x % 60 \in 0 .. 59
         /\ x = 60 * (x \div 60) + (x % 60)
OBVIOUS

\* A day's hours.
LEMMA TwentyFours ==
  ASSUME NEW x \in Nat
  PROVE  /\ x \div 24 \in Nat /\ x % 24 \in 0 .. 23
         /\ x = 24 * (x \div 24) + (x % 24)
OBVIOUS

\* What the fields hand to the next ones is what they no longer hold.
LEMMA Handed ==
  ASSUME NEW sec \in Int, NEW min \in Int, NEW hour \in Int, NEW p1 \in Int, NEW p0 \in Int,
         NEW s1 \in Int, NEW s0 \in Int, NEW m1 \in Int, NEW m0 \in Int, NEW n1 \in Int, NEW n0 \in Int,
         NEW h1 \in Int, NEW h0 \in Int, NEW g1 \in Int, NEW g0 \in Int,
         sec + p0 = 60 * s1 + s0, p1 + s1 = 60 * m1 + m0, min + m0 = 60 * n1 + n0,
         m1 + n1 = 24 * h1 + h0, hour + h0 = 24 * g1 + g0
  PROVE  s0 + 60 * n0 + 3600 * g0 + 86400 * (h1 + g1) = sec + 60 * min + 3600 * hour + (60 * p1 + p0)
OBVIOUS

\* The fields name a second of the day.
LEMMA OfTheDay ==
  ASSUME NEW s \in 0 .. 59, NEW n \in 0 .. 59, NEW h \in 0 .. 23
  PROVE  /\ s + 60 * n + 3600 * h \in Int
         /\ 0 <= s + 60 * n + 3600 * h /\ s + 60 * n + 3600 * h < 86400
OBVIOUS

\* A real date: what is kept of the time.
Real(c) ==
  /\ c \in Dates
  /\ c.sec \in 0 .. 59 /\ c.min \in 0 .. 59 /\ c.hour \in 0 .. 23
  /\ c.year \in 1 .. 99 /\ 1 <= c.mday /\ c.mday <= last_day(c.mon, c.year)
  /\ c.wday = Weekday(DayOf(c))

\* Days are integers.
LEMMA DayOfType ==
  ASSUME NEW c \in Dates
  PROVE  DayOf(c) \in Int
BY DEF DayOf, DayNumber, Dates

\* So are seconds.
LEMMA SecOfType ==
  ASSUME NEW c \in Dates
  PROVE  SecOf(c) \in Int
BY DEF SecOf, Dates

\* The moment of a real date.
LEMMA RealMoment ==
  ASSUME NEW c, Real(c)
  PROVE  /\ DayOf(c) \in Int
         /\ SecOf(c) \in Int /\ 0 <= SecOf(c) /\ SecOf(c) < SECS_PER_DAY
<1>1. PICK s \in 0 .. 59, m \in 0 .. 59, h \in 0 .. 23 : s = c.sec /\ m = c.min /\ h = c.hour
  BY DEF Real
<1>2. PICK t \in Int : t = s + 60 * m + 3600 * h
  OBVIOUS
<1>3. 0 <= t /\ t < 86400
  BY <1>2, OfTheDay
<1>4. DayOf(c) \in Int
  BY DayOfType DEF Real
<1> QED
  BY <1>1, <1>2, <1>3, <1>4 DEF SecOf, SECS_PER_DAY

\* Weekdays, counted from one day to another.
LEMMA WeekdayLater ==
  ASSUME NEW day \in Int, NEW n \in Int
  PROVE  ((Weekday(day) - 1 + n) % 7) + 1 = Weekday(day + n)
BY DEF Weekday

\* The kept date moves by the seconds that are pending, if that ends before 2100.
LEMMA UpdateRight ==
  ASSUME NEW c, Real(c), NEW pending \in Nat,
         DayOf(c) + DayPart(SecOf(c) + pending) < Year2100
  PROVE  LET e == cmos_update_time(c, pending)
         IN /\ Real(e)
            /\ DayOf(e) = DayOf(c) + DayPart(SecOf(c) + pending)
            /\ SecOf(e) = SecPart(SecOf(c) + pending)
<1>1. c \in Dates /\ c.sec \in 0 .. 59 /\ c.min \in 0 .. 59 /\ c.hour \in 0 .. 23 /\ DayOf(c) \in Int
  BY DayOfType DEF Real
<1> DEFINE s       == c.sec + (pending % 60)
           minutes == pending \div 60 + s \div 60
           n       == c.min + (minutes % 60)
           hours   == minutes \div 60 + n \div 60
           h       == c.hour + (hours % 24)
           days    == hours \div 24 + h \div 24
<1>2. s = c.sec + (pending % 60)
  OBVIOUS
<1>3. minutes = pending \div 60 + s \div 60
  OBVIOUS
<1>4. n = c.min + (minutes % 60)
  OBVIOUS
<1>5. hours = minutes \div 60 + n \div 60
  OBVIOUS
<1>6. h = c.hour + (hours % 24)
  OBVIOUS
<1>7. /\ days = hours \div 24 + h \div 24
      /\ cmos_update_time(c, pending) =
           Forward([c EXCEPT !.sec = s % 60, !.min = n % 60, !.hour = h % 24,
                             !.wday = ((@ - 1 + days) % 7) + 1], days)
  BY DEF cmos_update_time
<1> HIDE DEF s, minutes, n, hours, h, days
<1>8. PICK p1 \in Nat, p0 \in 0 .. 59 :
        p1 = pending \div 60 /\ p0 = pending % 60 /\ pending = 60 * p1 + p0
  BY Sixties
<1>8a. s = c.sec + p0 /\ s \in Nat
  BY <1>1, <1>2, <1>8
<1>8b. PICK s2 \in Nat, s1 \in 0 .. 59 : s2 = s \div 60 /\ s1 = s % 60 /\ s = 60 * s2 + s1
  BY <1>8a, Sixties
<1>8c. minutes = p1 + s2 /\ minutes \in Nat
  BY <1>3, <1>8, <1>8b
<1>8d. PICK m2 \in Nat, m1 \in 0 .. 59 : m2 = minutes \div 60 /\ m1 = minutes % 60 /\ minutes = 60 * m2 + m1
  BY <1>8c, Sixties
<1>8e. n = c.min + m1 /\ n \in Nat
  BY <1>1, <1>4, <1>8d
<1>8f. PICK n2 \in Nat, n1 \in 0 .. 59 : n2 = n \div 60 /\ n1 = n % 60 /\ n = 60 * n2 + n1
  BY <1>8e, Sixties
<1>8g. hours = m2 + n2 /\ hours \in Nat
  BY <1>5, <1>8d, <1>8f
<1>8h. PICK o2 \in Nat, o1 \in 0 .. 23 : o2 = hours \div 24 /\ o1 = hours % 24 /\ hours = 24 * o2 + o1
  BY <1>8g, TwentyFours
<1>8i. h = c.hour + o1 /\ h \in Nat
  BY <1>1, <1>6, <1>8h
<1>8j. PICK h2 \in Nat, h1 \in 0 .. 23 : h2 = h \div 24 /\ h1 = h % 24 /\ h = 24 * h2 + h1
  BY <1>8i, TwentyFours
<1>8k. days = o2 + h2 /\ days \in Nat
  BY <1>7, <1>8h, <1>8j
<1>9. s1 + 60 * n1 + 3600 * h1 + 86400 * days = c.sec + 60 * c.min + 3600 * c.hour + pending
  <2>1. c.sec \in Int /\ c.min \in Int /\ c.hour \in Int
    BY <1>1
  <2>2. /\ c.sec + p0 = 60 * s2 + s1 /\ p1 + s2 = 60 * m2 + m1 /\ c.min + m1 = 60 * n2 + n1
        /\ m2 + n2 = 24 * o2 + o1 /\ c.hour + o1 = 24 * h2 + h1
    BY <1>8a, <1>8b, <1>8c, <1>8d, <1>8e, <1>8f, <1>8g, <1>8h, <1>8i, <1>8j
  <2>3. PICK a \in Int, b \in Int, d \in Int : a = c.sec /\ b = c.min /\ d = c.hour
    BY <2>1
  <2>4. s1 + 60 * n1 + 3600 * h1 + 86400 * (o2 + h2) = a + 60 * b + 3600 * d + (60 * p1 + p0)
    <3>1. a + p0 = 60 * s2 + s1 /\ p1 + s2 = 60 * m2 + m1 /\ b + m1 = 60 * n2 + n1
      BY <2>2, <2>3
    <3>2. m2 + n2 = 24 * o2 + o1 /\ d + o1 = 24 * h2 + h1
      BY <2>2, <2>3
    <3> QED
      BY <3>1, <3>2, Handed
  <2> QED
    BY <1>8, <1>8k, <2>3, <2>4
<1>10. PICK w : w = ((c.wday - 1 + days) % 7) + 1
  OBVIOUS
<1>11. PICK b : b = [c EXCEPT !.sec = s1, !.min = n1, !.hour = h1, !.wday = w]
  OBVIOUS
<1>12. b = Date(s1, n1, h1, w, c.mday, c.mon, c.year)
  <2>1. c = Date(c.sec, c.min, c.hour, c.wday, c.mday, c.mon, c.year)
    BY <1>1, AllFields
  <2>2. PICK e : e = [c EXCEPT !.sec = s1]
    OBVIOUS
  <2>3. PICK f : f = [e EXCEPT !.min = n1]
    OBVIOUS
  <2>4. PICK g : g = [f EXCEPT !.hour = h1]
    OBVIOUS
  <2>5. e = Date(s1, c.min, c.hour, c.wday, c.mday, c.mon, c.year)
    BY <2>1, <2>2 DEF Date
  <2>6. f = Date(s1, n1, c.hour, c.wday, c.mday, c.mon, c.year)
    BY <2>3, <2>5 DEF Date
  <2>7. g = Date(s1, n1, h1, c.wday, c.mday, c.mon, c.year)
    BY <2>4, <2>6 DEF Date
  <2>8. [g EXCEPT !.wday = w] = Date(s1, n1, h1, w, c.mday, c.mon, c.year)
    BY <2>7 DEF Date
  <2>9. b = [g EXCEPT !.wday = w]
    BY <1>11, <2>2, <2>3, <2>4, Zenon
  <2> QED
    BY <2>8, <2>9
<1>13. cmos_update_time(c, pending) = Forward(b, days)
  <2>1. b = [c EXCEPT !.sec = s % 60, !.min = n % 60, !.hour = h % 24, !.wday = ((@ - 1 + days) % 7) + 1]
    BY <1>10, <1>11, <1>8b, <1>8f, <1>8j
  <2> QED
    BY <1>7, <2>1
<1>14. days = DayPart(SecOf(c) + pending) /\ s1 + 60 * n1 + 3600 * h1 = SecPart(SecOf(c) + pending)
  <2>1. PICK x \in Int : x = SecOf(c) + pending
    BY <1>1, SecOfType
  <2>2. PICK t \in Int : t = s1 + 60 * n1 + 3600 * h1
    OBVIOUS
  <2>3. 0 <= t /\ t < 86400
    BY <2>2, OfTheDay
  <2>4. x = t + 86400 * days
    BY <1>1, <1>8k, <1>9, <2>1, <2>2 DEF SecOf
  <2>5. DayPart(x) = days /\ SecPart(x) = t
    BY <1>8k, <2>3, <2>4 DEF DayPart, SecPart, SECS_PER_DAY
  <2> QED
    BY <2>1, <2>2, <2>5
<1>15. w = Weekday(DayOf(c) + days) /\ w \in Int
  <2>1. w = Weekday(DayOf(c) + days)
    BY <1>1, <1>8k, <1>10, WeekdayLater DEF Real
  <2>2. Weekday(DayOf(c) + days) \in Int
    BY <1>1, <1>8k DEF Weekday
  <2> QED
    BY <2>1, <2>2
<1>16. /\ b \in Dates /\ b.sec = s1 /\ b.min = n1 /\ b.hour = h1 /\ b.wday = w
       /\ b.mday = c.mday /\ b.mon = c.mon /\ b.year = c.year
  BY <1>1, <1>12, <1>15 DEF Date, Dates
<1>17. DayOf(b) = DayOf(c)
  BY <1>16 DEF DayOf
<1>18. Placed([c |-> b, days |-> days], DayOf(c) + days)
  BY <1>1, <1>8k, <1>16, <1>17 DEF Placed, Real
<1>19. DayOf(c) + days \in Int /\ DayOf(c) + days < Year2100
  BY <1>1, <1>8k, <1>14
<1> PICK e : e = cmos_update_time(c, pending)
  OBVIOUS
<1>20. Kept(b, e) /\ DayOf(e) = DayOf(c) + days
  BY <1>8k, <1>13, <1>16, <1>18, <1>19, ForwardRight
<1>21. Real(e)
  BY <1>15, <1>16, <1>20 DEF Kept, SameTime, Real
<1>22. SecOf(e) = SecPart(SecOf(c) + pending)
  BY <1>14, <1>16, <1>20 DEF Kept, SameTime, SecOf
<1> QED
  BY <1>14, <1>20, <1>21, <1>22

-----------------------------------------------------------------------------
(* calc_secs_since_epoch() at boot. *)

\* The days of the year that the loop adds up: an unsigned short that starts at -1.
LEMMA YdayRight ==
  ASSUME NEW c \in Dates, c.year \in 1 .. 99, 1 <= c.mday, c.mday <= 31
  PROVE  yday(c) = DayOf(c) - On(c.year, 1, 1)
<1> DEFINE Y == c.year
           S == Nat
           G == [t \in (1 .. 12) \X S |-> t[2] + last_day(t[1], Y)]
           d[m \in 0 .. 12] == IF m = 0 THEN 65535 ELSE d[m - 1] + last_day(m, c.year)
<1>1. yday(c) = (d[c.mon - 1] + c.mday) % 65536
  BY DEF yday
<1> HIDE DEF d
<1>2. \A m \in 1 .. 12 : last_day(m, Y) \in 28 .. 31
  BY LastDay
<1>3. G \in [(1 .. 12) \X S -> S]
  BY <1>2
<1>4. PICK f \in [0 .. 12 -> S] : Turns(12, 65535, G, f)
  <2>1. PICK z \in S : z = 65535
    OBVIOUS
  <2>2. PICK w \in Nat : w = 12
    OBVIOUS
  <2> HIDE DEF G, S
  <2>3. G \in [(1 .. w) \X S -> S]
    BY <1>3, <2>2
  <2>4. \E f \in [0 .. w -> S] : Turns(w, z, G, f)
    BY <2>3, LoopExists
  <2> QED
    BY <2>1, <2>2, <2>4
<1>5. f = [m \in 0 .. 12 |-> IF m = 0 THEN 65535 ELSE f[m - 1] + last_day(m, Y)]
  <2>1. \A m \in 0 .. 12 : m # 0 => G[<<m, f[m - 1]>>] = f[m - 1] + last_day(m, Y)
    BY <1>4
  <2> HIDE DEF G, Y
  <2>2. \A m \in 0 .. 12 : f[m] = IF m = 0 THEN 65535 ELSE f[m - 1] + last_day(m, Y)
    BY <1>4, <2>1 DEF Turns
  <2> QED
    BY <2>2
<1>6. d = [m \in 0 .. 12 |-> IF m = 0 THEN 65535 ELSE d[m - 1] + last_day(m, Y)]
  BY <1>5 DEF d
<1> HIDE DEF Y
<1>7. d[0] = 65535 /\ \A m \in 1 .. 12 : d[m] = d[m - 1] + last_day(m, Y)
  BY <1>6
<1>8. Y \in 1 .. 99
  BY DEF Y
<1>9. On(Y, 1, 1) \in Int
  BY <1>8 DEF On, DayNumber
<1> DEFINE A == {m \in 0 .. 11 : /\ d[m] = 65535 + On(Y, m + 1, 1) - On(Y, 1, 1)
                                 /\ d[m] \in 65535 .. 65535 + 31 * m}
<1>10. 0 \in A
  <2>1. On(Y, 0 + 1, 1) = On(Y, 1, 1)
    OBVIOUS
  <2> QED
    BY <1>7, <1>9, <2>1
<1>11. ASSUME NEW m \in 0 .. 10, m \in A PROVE m + 1 \in A
  <2>1. m + 1 \in 1 .. 12 /\ m + 1 # 12 /\ (m + 1) - 1 = m /\ m + 1 \in 0 .. 11
    OBVIOUS
  <2>2. d[m] = 65535 + On(Y, m + 1, 1) - On(Y, 1, 1) /\ d[m] \in 65535 .. 65535 + 31 * m
    BY <1>11
  <2> HIDE DEF A
  <2>3. d[m + 1] = d[m] + last_day(m + 1, Y)
    BY <1>7, <2>1
  <2>4. On(Y, m + 1, 1) + last_day(m + 1, Y) = On(Y, (m + 1) + 1, 1) /\ On(Y, m + 1, 1) \in Int
    BY <1>8, <2>1, MonthLength, Zenon
  <2>5. last_day(m + 1, Y) \in 28 .. 31
    BY <1>2, <2>1 DEF Y
  <2>6. d[m + 1] = 65535 + On(Y, (m + 1) + 1, 1) - On(Y, 1, 1)
    BY <1>9, <2>2, <2>3, <2>4, <2>5
  <2>7. d[m + 1] \in 65535 .. 65535 + 31 * (m + 1)
    BY <2>2, <2>3, <2>5
  <2> QED
    BY <2>1, <2>6, <2>7 DEF A
<1>12. PICK m \in 0 .. 11 : m = c.mon - 1
  BY DEF Dates
<1>13. m \in A
  <2> HIDE DEF A
  <2>1. \A k \in 0 .. 11 - 1 : k \in A => k + 1 \in A
    BY <1>11
  <2>2. \A k \in 0 .. 11 : k \in A
    BY <1>10, <2>1, UpTo
  <2> QED
    BY <2>2
<1>14. d[m] = 65535 + On(Y, m + 1, 1) - On(Y, 1, 1) /\ d[m] \in 65535 .. 65535 + 31 * m
  BY <1>13
<1>15. m + 1 = c.mon /\ c.mon \in 1 .. 12 /\ c.mday \in Int
  BY <1>12 DEF Dates
<1>16. DayOf(c) = On(Y, c.mon, 1) + c.mday - 1 /\ On(Y, c.mon, 1) \in Int
  <2>1. /\ \A e \in Int : On(Y, c.mon, e) = On(Y, c.mon, 1) + e - 1
        /\ On(Y, c.mon, 1) \in Int
    BY <1>8, <1>15, MonthLength, Zenon
  <2>2. DayOf(c) = On(Y, c.mon, c.mday)
    BY DEF DayOf, On, Y
  <2> QED
    BY <1>15, <2>1, <2>2, Zenon
<1>17. PICK v \in Int : v = d[m] + c.mday
  BY <1>14, <1>15
<1>18. v = 65536 + (DayOf(c) - On(Y, 1, 1)) /\ v >= 65536 /\ v <= 65535 + 31 * 11 + 31
  BY <1>9, <1>14, <1>15, <1>16, <1>17
<1>19. v % 65536 = v - 65536
  BY <1>18
<1> QED
  BY <1>1, <1>9, <1>12, <1>15, <1>16, <1>17, <1>18, <1>19 DEF Y

\* At boot the seconds since the epoch are those of the date.
LEMMA EpochRight ==
  ASSUME NEW c, Real(c)
  PROVE  calc_secs_since_epoch(c) = At(DayOf(c), SecOf(c))
<1>1. /\ c \in Dates /\ c.year \in 1 .. 99 /\ 1 <= c.mday /\ c.mday <= 31
      /\ c.sec \in 0 .. 59 /\ c.min \in 0 .. 59 /\ c.hour \in 0 .. 23 /\ DayOf(c) \in Int
  <2>1. c \in Dates /\ c.year \in 1 .. 99 /\ 1 <= c.mday /\ c.mday <= last_day(c.mon, c.year)
    BY DEF Real
  <2>2. last_day(c.mon, c.year) \in 28 .. 31
    BY <2>1, LastDay DEF Dates
  <2>3. c.mday <= 31
    BY <2>1, <2>2 DEF Dates
  <2> QED
    BY <2>1, <2>3, DayOfType DEF Real
<1>2. yday(c) = DayOf(c) - On(c.year, 1, 1)
  BY <1>1, YdayRight
<1>3. PICK Y \in 1 .. 99 : Y = c.year
  BY <1>1
<1>4. PICK y : y = (Y + 100) % 256
  OBVIOUS
<1>5. y = Y + 100
  BY <1>4
<1>6. (y - 70) * 365 + (y - 69) \div 4 - (y - 1) \div 100 + (y + 299) \div 400 = On(Y, 1, 1)
  BY <1>5 DEF On, DayNumber
<1>7. PICK x : x = yday(c) + (y - 70) * 365 + (y - 69) \div 4 - (y - 1) \div 100 + (y + 299) \div 400
  OBVIOUS
<1>8. x = DayOf(c)
  <2>1. On(Y, 1, 1) \in Int
    BY DEF On, DayNumber
  <2>2. PICK z \in Int : z = yday(c)
    BY <1>1, <1>2, <1>3, <2>1
  <2>3. x = z + On(Y, 1, 1)
    BY <1>5, <1>6, <1>7, <2>2
  <2> QED
    BY <1>1, <1>2, <1>3, <2>1, <2>2, <2>3
<1>9. PICK t \in Int : /\ t = c.sec + c.min * 60 + c.hour * 3600
                       /\ t = SecOf(c) /\ 0 <= t /\ t < SECS_PER_DAY
  <2>1. PICK s \in 0 .. 59, m \in 0 .. 59, h \in 0 .. 23 : s = c.sec /\ m = c.min /\ h = c.hour
    BY <1>1
  <2>2. PICK t \in Int : t = s + 60 * m + 3600 * h
    OBVIOUS
  <2>3. 0 <= t /\ t < 86400
    BY <2>2, OfTheDay
  <2>4. t = s + m * 60 + h * 3600
    BY <2>2
  <2> QED
    BY <2>1, <2>2, <2>3, <2>4 DEF SecOf, SECS_PER_DAY
<1>10. t = SecOf(c) /\ 0 <= t /\ t < SECS_PER_DAY
  BY <1>9
<1>11. calc_secs_since_epoch(c) = Plus([day |-> x, sec |-> 0], t)
  BY <1>3, <1>4, <1>7, <1>9 DEF calc_secs_since_epoch
<1>12. DayPart(0 + t) = 0 /\ SecPart(0 + t) = t
  BY <1>10 DEF DayPart, SecPart, SECS_PER_DAY
<1>13. Plus(At(x, 0), t) = At(x + DayPart(0 + t), SecPart(0 + t))
  BY <1>1, <1>8, PlusAt
<1> QED
  BY <1>1, <1>8, <1>10, <1>11, <1>12, <1>13 DEF At

-----------------------------------------------------------------------------
(* The clock at work. *)

\* The registers hold two decimal digits each.
LEMMA RegistersRight ==
  ASSUME NEW b, RealDate(b)
  PROVE  cmos_get_time(Registers(b)) = b
<1>1. b \in [sec : 0 .. 59, min : 0 .. 59, hour : 0 .. 23,
             wday : 1 .. 7, mday : 1 .. 31, mon : 1 .. 12, year : 1 .. 99]
  BY DEF RealDate
<1>2. DOMAIN b = {"sec", "min", "hour", "wday", "mday", "mon", "year"} /\ b = [f \in DOMAIN b |-> b[f]]
  BY <1>1
<1>3. \A f \in DOMAIN b : b[f] \in 0 .. 99
  <2>1. /\ b.sec \in 0 .. 99 /\ b.min \in 0 .. 99 /\ b.hour \in 0 .. 99 /\ b.wday \in 0 .. 99
        /\ b.mday \in 0 .. 99 /\ b.mon \in 0 .. 99 /\ b.year \in 0 .. 99
    BY <1>1
  <2> QED
    BY <1>2, <2>1
<1>4. \A f \in DOMAIN b : bcd_to_bin(Register(b[f])) = b[f]
  BY <1>3, BcdRight
<1>5. PICK r : r = Registers(b)
  OBVIOUS
<1>6. DOMAIN r = DOMAIN b /\ \A f \in DOMAIN b : r[f] = Register(b[f])
  BY <1>5 DEF Registers
<1>7. cmos_get_time(r) = [f \in DOMAIN b |-> b[f]]
  BY <1>4, <1>6 DEF cmos_get_time
<1> QED
  BY <1>2, <1>5, <1>7

\* A date at boot is a real one.
LEMMA BootReal ==
  ASSUME NEW b, RealDate(b)
  PROVE  Real(b)
<1>1. b \in [sec : 0 .. 59, min : 0 .. 59, hour : 0 .. 23,
             wday : 1 .. 7, mday : 1 .. 31, mon : 1 .. 12, year : 1 .. 99]
  BY DEF RealDate
<1>2. b \in Dates
  BY <1>1 DEF Dates
<1> QED
  BY <1>1, <1>2 DEF RealDate, Real

(* The inductive invariant: what has passed since the kept moment is what  *)
(* is pending or lost, and until 2100 the kept date is that moment's.       *)

\* The fields of the clock.
Clocks == [cmos |-> clk.cmos, since |-> clk.since, pending |-> clk.pending, pc |-> clk.pc,
           now |-> clk.now, lost |-> clk.lost, waits |-> clk.waits]

\* The seconds that have passed since the last update, some of which it lost.
Unseen == (IF clk.pc = "reset" THEN 0 ELSE clk.pending) + clk.lost

ClockTypes ==
  /\ clk = Clocks /\ clk.pending \in Nat /\ clk.lost \in Nat /\ clk.pc \in {"receive", "reset"}
  /\ \E d \in Int, s \in Int : 0 <= s /\ s < SECS_PER_DAY /\ clk.since = At(d, s)
  /\ clk.now = Plus(clk.since, Unseen)

SameMoment == Real(clk.cmos) /\ clk.since = At(DayOf(clk.cmos), SecOf(clk.cmos))

ClockInv == ClockTypes /\ (InCentury => SameMoment)

\* The fields after each of the three steps.
LEMMA SecondsFields ==
  ASSUME clk = Clocks, NEW n, Seconds(n)
  PROVE  /\ clk'.cmos = clk.cmos /\ clk'.since = clk.since /\ clk'.pc = clk.pc
         /\ clk'.pending = clk.pending + n /\ clk'.now = Plus(clk.now, n)
         /\ clk'.lost = IF clk.pc = "reset" THEN clk.lost + n ELSE clk.lost
         /\ clk' = Clocks'
BY DEF Seconds, Clocks

\* After the update.
LEMMA UpdateFields ==
  ASSUME clk = Clocks, TimeUpdate
  PROVE  /\ clk'.cmos = cmos_update_time(clk.cmos, clk.pending)
         /\ clk'.since = Plus(clk.since, clk.pending) /\ clk'.pc = "reset"
         /\ clk'.pending = clk.pending /\ clk'.now = clk.now /\ clk'.lost = clk.lost
         /\ clk' = Clocks'
BY DEF TimeUpdate, Clocks

\* After the reset.
LEMMA ReplyFields ==
  ASSUME clk = Clocks, TimeReply
  PROVE  /\ clk'.cmos = clk.cmos /\ clk'.since = clk.since /\ clk'.pc = "receive"
         /\ clk'.pending = 0 /\ clk'.now = clk.now /\ clk'.lost = clk.lost
         /\ clk' = Clocks'
BY DEF TimeReply, Clocks

\* The end of the century, as a date and as a day.
LEMMA CenturyIs == Year2100 \in Int /\ (InCentury <=> clk.now.day < Year2100)
<1>1. Year2100 = DayNumber(2100, 1, 1) /\ Year2100 \in Int
  BY DEF Year2100, On, DayNumber
<1> QED
  BY <1>1 DEF InCentury

\* The clock starts in the century with the real date.
LEMMA ClockStarts == ClockInit => ClockInv
<1> SUFFICES ASSUME ClockInit PROVE ClockInv
  OBVIOUS
<1>1. PICK b \in Boots : LET c == cmos_get_time(Registers(b))
                             t == calc_secs_since_epoch(c)
                         IN clk = [cmos |-> c, since |-> t, pending |-> 0, pc |-> "receive",
                                   now |-> t, lost |-> 0, waits |-> 0]
  BY DEF ClockInit
<1>2. RealDate(b)
  BY ClockAssumption
<1>3. cmos_get_time(Registers(b)) = b /\ Real(b)
  BY <1>2, RegistersRight, BootReal
<1>4. calc_secs_since_epoch(b) = At(DayOf(b), SecOf(b))
  BY <1>3, EpochRight
<1>5. PICK t : t = At(DayOf(b), SecOf(b))
  OBVIOUS
<1>6. clk = [cmos |-> b, since |-> t, pending |-> 0, pc |-> "receive",
             now |-> t, lost |-> 0, waits |-> 0]
  BY <1>1, <1>3, <1>4, <1>5
<1>7. /\ clk.cmos = b /\ clk.since = t /\ clk.now = t /\ clk.pending = 0 /\ clk.lost = 0
      /\ clk.pc = "receive" /\ clk = Clocks
  BY <1>6 DEF Clocks
<1>8. PICK d \in Int, s \in Int : d = DayOf(b) /\ s = SecOf(b) /\ 0 <= s /\ s < SECS_PER_DAY
  BY <1>3, RealMoment
<1>9. Plus(t, 0) = t
  BY <1>5, <1>8, PlusZero
<1>10. Unseen = 0
  BY <1>7 DEF Unseen
<1> QED
  BY <1>3, <1>5, <1>7, <1>8, <1>9, <1>10 DEF ClockInv, ClockTypes, SameMoment, Clocks

\* Every step adds as many seconds to what has not been seen as have passed.
LEMMA ClockSteps == ClockInv /\ [ClockNext]_clk => ClockInv'
<1> SUFFICES ASSUME ClockInv, [ClockNext]_clk PROVE ClockInv'
  OBVIOUS
<1>1. /\ clk = Clocks /\ clk.pending \in Nat /\ clk.lost \in Nat /\ clk.pc \in {"receive", "reset"}
      /\ clk.now = Plus(clk.since, Unseen) /\ Unseen \in Nat
  BY DEF ClockInv, ClockTypes, Clocks, Unseen
<1>2. PICK d \in Int, s \in Int : 0 <= s /\ s < SECS_PER_DAY /\ clk.since = At(d, s)
  BY DEF ClockInv, ClockTypes
<1>3. InCentury => SameMoment
  BY DEF ClockInv
<1>4. CASE UNCHANGED clk
  BY <1>4 DEF ClockInv, ClockTypes, Clocks, InCentury, SameMoment, Unseen
<1>5. ASSUME NEW n \in Waits, Seconds(n) PROVE ClockInv'
  <2>1. n \in Nat
    BY ClockAssumption
  <2>2. /\ clk'.cmos = clk.cmos /\ clk'.since = clk.since /\ clk'.pc = clk.pc
        /\ clk'.pending = clk.pending + n /\ clk'.now = Plus(clk.now, n)
        /\ clk'.lost = IF clk.pc = "reset" THEN clk.lost + n ELSE clk.lost
        /\ clk' = Clocks'
    BY <1>1, <1>5, SecondsFields
  <2>3. Unseen' = Unseen + n
    BY <1>1, <2>1, <2>2 DEF Unseen
  <2>4. clk'.now = Plus(clk'.since, Unseen')
    <3>1. PICK u \in Nat : u = Unseen
      BY <1>1
    <3>2. Plus(Plus(At(d, s), u), n) = Plus(At(d, s), u + n)
      BY <2>1, PlusPlus
    <3> QED
      BY <1>1, <1>2, <2>2, <2>3, <3>1, <3>2
  <2>5. clk'.now.day >= clk.now.day /\ clk.now.day \in Int /\ clk'.now.day \in Int
    <3>1. PICK u \in Nat : u = Unseen
      BY <1>1
    <3>2. clk.now = At(d + DayPart(s + u), SecPart(s + u))
      <4>1. u \in Int
        BY <3>1
      <4>2. Plus(At(d, s), u) = At(d + DayPart(s + u), SecPart(s + u))
        BY <4>1, PlusAt, Zenon
      <4> QED
        BY <1>1, <1>2, <3>1, <4>2, Zenon
    <3>3. DayPart(s + u) \in Int /\ SecPart(s + u) \in Int /\ 0 <= SecPart(s + u)
      BY Parts
    <3>4. PICK e \in Int, r \in Nat : e = d + DayPart(s + u) /\ r = SecPart(s + u) /\ clk.now = At(e, r)
      BY <3>2, <3>3
    <3>5. clk'.now = At(e + DayPart(r + n), SecPart(r + n))
      BY <2>1, <2>2, <3>4, PlusAt
    <3>6. DayPart(r + n) \in Int /\ DayPart(r + n) >= 0
      BY <2>1, Parts
    <3> QED
      BY <3>4, <3>5, <3>6 DEF At
  <2>6. InCentury' => InCentury
    <3>1. InCentury' <=> clk'.now.day < Year2100
      BY DEF InCentury, Year2100, On
    <3> QED
      BY <2>5, <3>1, CenturyIs
  <2>7. SameMoment => SameMoment'
    BY <2>2 DEF SameMoment
  <2>8. clk'.pending \in Nat /\ clk'.lost \in Nat
    BY <1>1, <2>1, <2>2
  <2>9. ClockTypes'
    BY <1>1, <1>2, <2>2, <2>4, <2>8 DEF ClockTypes, Clocks
  <2> QED
    BY <1>3, <2>6, <2>7, <2>9 DEF ClockInv
<1>6. CASE TimeUpdate
  <2>1. /\ clk'.cmos = cmos_update_time(clk.cmos, clk.pending)
        /\ clk'.since = Plus(clk.since, clk.pending) /\ clk'.pc = "reset" /\ clk.pc = "receive"
        /\ clk'.pending = clk.pending /\ clk'.now = clk.now /\ clk'.lost = clk.lost
        /\ clk' = Clocks'
    BY <1>1, <1>6, UpdateFields DEF TimeUpdate
  <2>2. PICK p \in Nat, l \in Nat : p = clk.pending /\ l = clk.lost
    BY <1>1
  <2>3. Unseen = p + l /\ Unseen' = l
    BY <2>1, <2>2 DEF Unseen
  <2>4. PICK e \in Int, r \in Int :
          /\ e = d + DayPart(s + p) /\ r = SecPart(s + p) /\ 0 <= r /\ r < SECS_PER_DAY
          /\ clk'.since = At(e, r)
    <3>1. Plus(At(d, s), p) = At(d + DayPart(s + p), SecPart(s + p))
      BY PlusAt
    <3>2. DayPart(s + p) \in Int /\ SecPart(s + p) \in Int
          /\ 0 <= SecPart(s + p) /\ SecPart(s + p) < SECS_PER_DAY
      BY Parts
    <3> QED
      BY <1>2, <2>1, <2>2, <3>1, <3>2
  <2>5. clk'.now = Plus(clk'.since, Unseen')
    <3>1. Plus(Plus(At(d, s), p), l) = Plus(At(d, s), p + l)
      BY PlusPlus
    <3> QED
      BY <1>1, <1>2, <2>1, <2>2, <2>3, <3>1
  <2>6. ClockTypes'
    BY <1>1, <2>1, <2>4, <2>5 DEF ClockTypes, Clocks
  <2>7. ASSUME InCentury' PROVE SameMoment'
    <3>1. SameMoment
      BY <1>3, <2>1, <2>7 DEF InCentury
    <3>2. clk.cmos \in Dates /\ d = DayOf(clk.cmos) /\ s = SecOf(clk.cmos)
      BY <1>2, <3>1 DEF SameMoment, Real, At
    <3>3. e < Year2100
      <4>1. clk'.now = At(e + DayPart(r + l), SecPart(r + l))
        BY <2>3, <2>4, <2>5, PlusAt
      <4>2. DayPart(r + l) \in Int /\ DayPart(r + l) >= 0
        BY <2>4, Parts
      <4>3. e + DayPart(r + l) < Year2100
        <5>1. clk'.now.day < DayNumber(2100, 1, 1) /\ Year2100 = DayNumber(2100, 1, 1)
          BY <2>7 DEF InCentury, Year2100, On, DayNumber
        <5> QED
          BY <4>1, <5>1 DEF At
      <4> QED
        BY <4>2, <4>3, CenturyIs
    <3>4. PICK c : c = clk.cmos
      OBVIOUS
    <3>5. PICK f : f = cmos_update_time(c, p)
      OBVIOUS
    <3>6. DayOf(c) + DayPart(SecOf(c) + p) < Year2100
      BY <2>4, <3>2, <3>3, <3>4
    <3>7. Real(c)
      BY <3>1, <3>4 DEF SameMoment
    <3>8. /\ Real(f)
          /\ DayOf(f) = DayOf(c) + DayPart(SecOf(c) + p)
          /\ SecOf(f) = SecPart(SecOf(c) + p)
      BY <3>5, <3>6, <3>7, UpdateRight
    <3> QED
      BY <2>1, <2>2, <2>4, <3>2, <3>4, <3>5, <3>8 DEF SameMoment
  <2> QED
    BY <2>6, <2>7 DEF ClockInv
<1>7. CASE TimeReply
  <2>1. /\ clk'.cmos = clk.cmos /\ clk'.since = clk.since /\ clk'.pc = "receive" /\ clk.pc = "reset"
        /\ clk'.pending = 0 /\ clk'.now = clk.now /\ clk'.lost = clk.lost
        /\ clk' = Clocks'
    BY <1>1, <1>7, ReplyFields DEF TimeReply
  <2>2. Unseen' = Unseen
    BY <1>1, <2>1 DEF Unseen
  <2>3. ClockTypes'
    BY <1>1, <1>2, <2>1, <2>2 DEF ClockTypes, Clocks
  <2>4. InCentury' => SameMoment'
    BY <1>3, <2>1 DEF InCentury, SameMoment
  <2> QED
    BY <2>3, <2>4 DEF ClockInv
<1> QED
  BY <1>4, <1>5, <1>6, <1>7 DEF ClockNext

\* The kept date is what the time says.
LEMMA ClockInvRight == ClockInv => (InCentury => ClockRight)
<1> SUFFICES ASSUME ClockInv, InCentury PROVE ClockRight
  OBVIOUS
<1>1. PICK c, t : c = clk.cmos /\ t = clk.since
  OBVIOUS
<1>2. Real(c) /\ t = At(DayOf(c), SecOf(c))
  BY <1>1 DEF ClockInv, SameMoment
<1>3. /\ c \in Dates /\ c.sec \in 0 .. 59 /\ c.min \in 0 .. 59 /\ c.hour \in 0 .. 23
      /\ c.year \in 1 .. 99 /\ 1 <= c.mday /\ c.mday <= last_day(c.mon, c.year)
      /\ c.wday = Weekday(DayOf(c))
  BY <1>2 DEF Real
<1>4. c.mon \in 1 .. 12 /\ c.mday \in Int /\ DayOf(c) \in Int
  BY <1>3, DayOfType DEF Dates
<1>5. last_day(c.mon, c.year) \in 28 .. 31
  BY <1>3, <1>4, LastDay
<1>6. t.day = DayOf(c) /\ t.sec = SecOf(c)
  BY <1>2 DEF At
<1>7. c.mon < 12 => t.day < DayNumber(2000 + c.year, c.mon + 1, 1)
  <2> SUFFICES ASSUME c.mon < 12 PROVE t.day < On(c.year, c.mon + 1, 1)
    BY DEF On
  <2>1. /\ \A e \in Int : On(c.year, c.mon, e) = On(c.year, c.mon, 1) + e - 1
        /\ On(c.year, c.mon, 1) \in Int
        /\ On(c.year, c.mon, 1) + last_day(c.mon, c.year) =
              IF c.mon = 12 THEN On(c.year + 1, 1, 1) ELSE On(c.year, c.mon + 1, 1)
    BY <1>3, <1>4, MonthLength, Zenon
  <2>2. DayOf(c) = On(c.year, c.mon, c.mday)
    BY DEF DayOf, On
  <2>3. DayOf(c) = On(c.year, c.mon, 1) + c.mday - 1
    BY <1>4, <2>1, <2>2, Zenon
  <2>4. On(c.year, c.mon + 1, 1) = On(c.year, c.mon, 1) + last_day(c.mon, c.year)
    BY <1>4, <2>1
  <2> QED
    BY <1>3, <1>4, <1>5, <1>6, <2>1, <2>3, <2>4
<1>8. c.mday <= 31
  BY <1>3, <1>4, <1>5
<1>9. t.sec = c.sec + 60 * c.min + 3600 * c.hour
  BY <1>6 DEF SecOf
<1>10. Plus(t, (IF clk.pc = "reset" THEN 0 ELSE clk.pending) + clk.lost) = clk.now
  BY <1>1 DEF ClockInv, ClockTypes, Unseen
<1>11. t.day = DayOf(c) /\ c.wday = Weekday(t.day)
  BY <1>3, <1>6
<1> QED
  BY <1>1, <1>3, <1>4, <1>7, <1>8, <1>9, <1>10, <1>11 DEF ClockRight

\* From any boot between 2001 and 2037 up to the end of the century, however long the waits
\* and however often the time is asked for, the kept date is real, moves to the day that
\* has come, and is the moment that the seconds since the epoch name (clock.c:119-261);
\* what they lack is what is pending or was lost between an update and its reset
\* (timer.c:342-343).
THEOREM ClockRightCorrect == ClockSpec => [](InCentury => ClockRight)
<1>1. ClockInit => ClockInv
  BY ClockStarts
<1>2. ClockInv /\ [ClockNext]_clk => ClockInv'
  BY ClockSteps
<1>3. ClockInv => (InCentury => ClockRight)
  BY ClockInvRight
<1> QED
  BY <1>1, <1>2, <1>3, PTL DEF ClockSpec

=============================================================================
