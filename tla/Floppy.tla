------------------------------- MODULE Floppy -------------------------------
(* The floppy driver (src/src/driver/floppy.c) in the driver framework       *)
(* (driver.c), with its alarms from the timer and a controller that may be   *)
(* slow, fail or not answer at all.  Commands and results pass byte by byte  *)
(* in the code; here a command is accepted or not, and results are read or   *)
(* not.                                                                      *)
EXTENDS Timer, FiniteSets

CONSTANTS
  TRIES,        \* floppy.c: 3, the seeks of an access and the transfers of a seek
  fdc_ticks,    \* how long each alarm takes
  SHARED_MSG    \* whether the drivers' global msg is one variable

TIMEOUT == 0
MOTOR   == 1
SPIN_UP == 2
SETTLE  == 3

ASSUME TriesAssumption == TRIES \in Nat \ {0}
ASSUME TicksAssumption == fdc_ticks \in [{TIMEOUT, MOTOR, SPIN_UP, SETTLE} -> Nat \ {0}]

VARIABLES
  fdc,          \* the driver: where it is and its flags
  hw,           \* the controller and the motor (external)
  msg           \* where the drivers' global msg points: to "fs"' request, or to freed memory

Idle == [op |-> "none", dir |-> "none",
         stage |-> "none", seek |-> 0, rw |-> 0]

FloppyInit ==
  /\ fdc = [pc |-> "punish", wait |-> "none", irq |-> FALSE, ok |-> FALSE,
            behaving |-> FALSE, required |-> FALSE, on |-> FALSE, job |-> Idle]
  /\ hw = [phase |-> "idle", cmd |-> "none", done |-> "none", motor |-> FALSE]
  /\ msg = [p \in {FDC, TTY, "all"} |-> "freed"]

Cell(p) == IF SHARED_MSG THEN "all" ELSE p

-----------------------------------------------------------------------------
(* The controller.  A command it has accepted ends at any time later or      *)
(* never, with an interrupt (irq_handler; none while the timer's is still in *)
(* service); its results then wait to be read.                               *)

FdcFinish ==
  /\ hw.phase = "exec" /\ ~interrupted
  /\ \E good \in {TRUE, hw.cmd = "seek" \/ hw.cmd = "reset"} :
       hw' = [hw EXCEPT !.phase = "result",
                        !.done = IF good /\ hw.cmd \in {"read", "write"} THEN hw.cmd ELSE @]
  /\ box' = Post(box, FDC, Msg(HARDWARE, "IRQ", 0, 0))
  /\ UNCHANGED <<alarms, tmr, interrupted, stolen, fdc, msg>>

\* The command and its parameters, if the controller takes them all (fdc_send_byte).
Sent(cmd, accepted) == fdc.behaving /\ hw.phase = "idle" /\ accepted
fdc_send(cmd, accepted) ==
  IF Sent(cmd, accepted)
  THEN [hw EXCEPT !.phase = "exec", !.cmd = cmd,
                  !.done = IF cmd \in {"read", "write"} THEN "none" ELSE @]
  ELSE hw

\* The results, if the controller has them and gives them all (fdc_get_byte); if not, it is
\* not responding.
Read(given) == fdc.behaving /\ hw.phase = "result" /\ given
fdc_get(given) == IF Read(given) THEN [hw EXCEPT !.phase = "idle", !.cmd = "none"] ELSE hw

Responding_still(given) == fdc.behaving
Responding(given) == Read(given)

-----------------------------------------------------------------------------
(* Alarms and the motor.                                                     *)

fdc_alarm(b, type) == drvr_set_alarm(b, FDC, fdc_ticks[type], type)

\* fdc_handle_alarm: only ALARM_MOTOR does anything, unless the floppy is being accessed.
stops_always(m) == m.type = MOTOR
fdc_stop_motor(m) == m.type = MOTOR /\ ~fdc.required
handled(m, f) == IF fdc_stop_motor(m) THEN [f EXCEPT !.on = FALSE] ELSE f
motor(m)      == IF fdc_stop_motor(m) THEN [hw EXCEPT !.motor = FALSE] ELSE hw

\* fdc_wait_irq sets its alarm and waits, or gives up at once.
WaitIrq_forever(f, k) ==
  /\ fdc' = [f EXCEPT !.pc = IF f.behaving THEN "irq" ELSE "got", !.wait = k]
  /\ UNCHANGED box
WaitIrq(f, k) ==
  IF f.behaving
  THEN /\ fdc' = [f EXCEPT !.pc = "irq", !.wait = k]
       /\ box' = fdc_alarm(box, TIMEOUT)
  ELSE /\ fdc' = [f EXCEPT !.pc = "got", !.wait = k, !.irq = FALSE]
       /\ UNCHANGED box

\* The loop of fdc_wait_irq: an interrupt goes before an alarm; any other alarm than the
\* timeout is handled and the wait goes on.  The alarm stays set when an interrupt comes.
FdcIrq ==
  /\ fdc.pc = "irq" /\ HasFrom(box, FDC, HARDWARE)
  /\ box' = Without(box, FDC, HARDWARE)
  /\ fdc' = [fdc EXCEPT !.pc = "got", !.irq = TRUE]
  /\ UNCHANGED <<alarms, tmr, interrupted, stolen, hw, msg>>

FdcTimeout ==
  /\ fdc.pc = "irq" /\ ~HasFrom(box, FDC, HARDWARE) /\ HasFrom(box, FDC, TMR)
  /\ box' = Without(box, FDC, TMR)
  /\ LET m == Head(From(box, FDC, TMR))
     IN /\ hw' = motor(m)
        /\ fdc' = IF m.type = TIMEOUT THEN [fdc EXCEPT !.pc = "got", !.irq = FALSE]
                                      ELSE handled(m, fdc)
  /\ UNCHANGED <<alarms, tmr, interrupted, stolen, msg>>

\* drvr_set_wait_alarm's loop, for the motor to spin up or the head to settle.
FdcAlarm ==
  /\ fdc.pc = "alarm" /\ HasFrom(box, FDC, TMR)
  /\ box' = Without(box, FDC, TMR)
  /\ LET m == Head(From(box, FDC, TMR))
         f == handled(m, fdc)
     IN /\ hw' = motor(m)
        /\ fdc' = CASE fdc.wait = "spin_up" /\ m.type = SPIN_UP ->
                         [f EXCEPT !.pc = "stage", !.wait = "none", !.on = TRUE]
                    [] fdc.wait = "settle" /\ m.type = SETTLE ->
                         [f EXCEPT !.pc = "next", !.wait = "none",
                                   !.behaving = @ /\ fdc.ok, !.ok = FALSE]
                    [] OTHER -> f
  /\ UNCHANGED <<alarms, tmr, interrupted, stolen, msg>>

-----------------------------------------------------------------------------
(* One block: fdc_rw_block.                                                  *)

\* fdc_start_motor.
FdcStart ==
  /\ fdc.pc = "block"
  /\ LET f == [fdc EXCEPT !.required = TRUE, !.job.stage = "recal", !.job.seek = 1, !.job.rw = 1]
     IN IF fdc.on
        THEN fdc' = [f EXCEPT !.pc = "stage"] /\ UNCHANGED <<box, hw>>
        ELSE /\ hw' = [hw EXCEPT !.motor = TRUE]
             /\ box' = fdc_alarm(box, SPIN_UP)
             /\ fdc' = [f EXCEPT !.pc = "alarm", !.wait = "spin_up"]
  /\ UNCHANGED <<alarms, tmr, interrupted, stolen, msg>>

\* fdc_recal_seek up to its wait.  Every seek comes after a recalibration, so the head is
\* never at the requested track already.
FdcSeek ==
  /\ fdc.pc = "stage" /\ fdc.job.stage \in {"recal", "seek", "back"}
  /\ \E accepted \in BOOLEAN :
       /\ hw' = fdc_send("seek", accepted)
       /\ WaitIrq([fdc EXCEPT !.behaving = Sent("seek", accepted)], "seek")
  /\ UNCHANGED <<alarms, tmr, interrupted, stolen, msg>>

\* fdc_rw_try up to its wait.
FdcTransfer ==
  /\ fdc.pc = "stage" /\ fdc.job.stage = "rw"
  /\ \E accepted \in BOOLEAN :
       /\ hw' = fdc_send(fdc.job.dir, accepted)
       /\ WaitIrq([fdc EXCEPT !.behaving = Sent(fdc.job.dir, accepted)], "rw")
  /\ UNCHANGED <<alarms, tmr, interrupted, stolen, msg>>

\* The rest of fdc_recal_seek, whether the interrupt came or not: sense its status, let the
\* head settle; then it is where it should be or the controller is not responding.
FdcSeekDone ==
  /\ fdc.pc = "got" /\ fdc.wait = "seek"
  /\ \E given, ok \in BOOLEAN :
       /\ hw' = fdc_get(given)
       /\ fdc' = [fdc EXCEPT !.pc = "alarm", !.wait = "settle", !.irq = FALSE,
                             !.behaving = Responding(given), !.ok = Read(given) /\ ok]
       /\ box' = fdc_alarm(box, SETTLE)
  /\ UNCHANGED <<alarms, tmr, interrupted, stolen, msg>>

\* The status of a transfer is normal if it was done, and also if it could not be read.
FdcTransferDone ==
  /\ fdc.pc = "got" /\ fdc.wait = "rw"
  /\ IF ~fdc.irq
     THEN fdc' = [fdc EXCEPT !.pc = "retry", !.wait = "none", !.behaving = FALSE] /\ UNCHANGED hw
     ELSE \E given \in BOOLEAN :
            /\ hw' = fdc_get(given)
            /\ fdc' = [fdc EXCEPT !.behaving = Responding(given), !.wait = "none", !.irq = FALSE,
                 !.pc = IF Read(given) /\ hw.done # fdc.job.dir THEN "retry" ELSE "done"]
  /\ UNCHANGED <<box, alarms, tmr, interrupted, stolen, msg>>

Stage(s) == [fdc EXCEPT !.pc = "stage", !.job.stage = s]

\* The loops: up to TRIES transfers after each of up to TRIES seeks.
FdcNext ==
  /\ \/ /\ fdc.pc = "next" /\ fdc.job.stage = "recal"
        /\ fdc' = Stage("seek")
     \/ /\ fdc.pc = "next" /\ fdc.job.stage = "seek"
        /\ fdc' = [Stage("rw") EXCEPT !.job.rw = 1]
     \/ /\ fdc.pc = "retry" /\ fdc.job.rw < TRIES
        /\ fdc' = [Stage("rw") EXCEPT !.job.rw = @ + 1]
     \/ /\ fdc.pc = "retry" /\ fdc.job.rw = TRIES
        /\ fdc' = Stage("back")
     \/ /\ fdc.pc = "next" /\ fdc.job.stage = "back" /\ fdc.job.seek < TRIES
        /\ fdc' = [Stage("recal") EXCEPT !.job.seek = @ + 1]
     \/ /\ fdc.pc = "next" /\ fdc.job.stage = "back" /\ fdc.job.seek = TRIES
        /\ fdc' = [fdc EXCEPT !.pc = "done", !.behaving = FALSE]
  /\ UNCHANGED <<timerVars, hw, msg>>

fdc_sched_motor_timeout(b) == fdc_alarm(b, TIMEOUT)
fdc_sched_motor(b) == fdc_alarm(b, MOTOR)

\* The end of fdc_rw_block, and fdc_read_write's loop: a block of which a part is written is
\* read first; the request ends with the first block that fails or with its last one.
FirstDirs(op) == {"read", op}
FdcBlockDone ==
  /\ fdc.pc = "done"
  /\ box' = fdc_sched_motor(box)
  /\ LET f == [fdc EXCEPT !.required = FALSE]
         j == fdc.job
     IN \/ ~fdc.behaving /\ fdc' = [f EXCEPT !.pc = "reply"]
        \/ /\ fdc.behaving /\ j.dir # j.op
           /\ fdc' = [f EXCEPT !.pc = "block", !.job.dir = j.op]
        \/ /\ fdc.behaving /\ j.dir = j.op
           /\ \E dir \in FirstDirs(j.op) : fdc' = [f EXCEPT !.pc = "block", !.job.dir = dir]
        \/ /\ fdc.behaving /\ j.dir = j.op
           /\ fdc' = [f EXCEPT !.pc = "reply"]
  /\ UNCHANGED <<alarms, tmr, interrupted, stolen, hw, msg>>

-----------------------------------------------------------------------------
(* drvr_main.                                                                *)

\* The next message; an interrupt does nothing, an alarm may stop the motor.  Requests that
\* are answered at once (open, close, ioctl, a wrong minor number, no bytes) are left out.
FdcReceive ==
  /\ fdc.pc = "main" /\ box[FDC] # <<>>
  /\ LET m == Head(box[FDC])
     IN /\ msg' = [msg EXCEPT ![Cell(FDC)] = IF m.from = FS THEN FS ELSE "freed"]
        /\ box' = [box EXCEPT ![FDC] = Tail(@)]
        /\ \/ m.op = "IRQ" /\ fdc' = [fdc EXCEPT !.pc = "punish"] /\ UNCHANGED hw
           \/ /\ m.op = "WATCHDOG"
              /\ fdc' = [handled(m, fdc) EXCEPT !.pc = "punish"] /\ hw' = motor(m)
           \/ /\ m.op \in {"read", "write"}
              /\ \E dir \in FirstDirs(m.op) :
                   fdc' = [fdc EXCEPT !.pc = "block", !.job = [Idle EXCEPT !.op = m.op, !.dir = dir]]
              /\ UNCHANGED hw
  /\ UNCHANGED <<alarms, tmr, interrupted, stolen>>

\* The caller's answer goes wherever the global msg points.
FdcReply ==
  /\ fdc.pc = "reply"
  /\ fdc' = [fdc EXCEPT !.pc = "punish", !.job = Idle]
  /\ hw' = [hw EXCEPT !.done = "none"]
  /\ msg' = [msg EXCEPT ![Cell(FDC)] = "freed"]
  /\ UNCHANGED timerVars

\* fdc_punish, the driver's cleanup, resets a controller that does not respond: that aborts
\* its command and stops the motor.
FdcPunish ==
  /\ fdc.pc = "punish"
  /\ IF fdc.behaving
     THEN fdc' = [fdc EXCEPT !.pc = "main"] /\ UNCHANGED <<box, hw>>
     ELSE /\ hw' = [hw EXCEPT !.phase = "exec", !.cmd = "reset", !.motor = FALSE, !.done = "none"]
          /\ WaitIrq([fdc EXCEPT !.behaving = TRUE, !.required = FALSE, !.on = FALSE], "reset")
  /\ UNCHANGED <<alarms, tmr, interrupted, stolen, msg>>

\* The rest of fdc_reset: sense the status of the drives and set the timers.
FdcReset ==
  /\ fdc.pc = "got" /\ fdc.wait = "reset"
  /\ \E given \in BOOLEAN :
       /\ hw' = fdc_get(given)
       /\ fdc' = [fdc EXCEPT !.pc = "main", !.wait = "none", !.irq = FALSE,
                             !.behaving = Responding(given)]
  /\ UNCHANGED <<box, alarms, tmr, interrupted, stolen, msg>>

FdcAsleep == \/ fdc.pc = "main" /\ box[FDC] = <<>>
             \/ fdc.pc = "alarm" /\ ~HasFrom(box, FDC, TMR)

Fdc == \/ FdcIrq \/ FdcTimeout \/ FdcAlarm \/ FdcStart \/ FdcSeek \/ FdcTransfer
       \/ FdcSeekDone \/ FdcTransferDone \/ FdcNext \/ FdcBlockDone
       \/ FdcReceive \/ FdcReply \/ FdcPunish \/ FdcReset
=============================================================================
