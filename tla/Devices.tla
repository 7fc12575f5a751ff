------------------------------ MODULE Devices -------------------------------
(* The timer, the floppy driver and the terminal with its speaker            *)
(* (src/src/driver/{floppy,speaker,terminal,keyboard}.c) at work together.   *)
EXTENDS Floppy

CONSTANTS
  beep_ticks,   \* how long a beep lasts
  MaxQueued,    \* bound: see Tick
  MaxKeys       \* bound: the keys pressed in an instance with a keyboard

VARIABLES
  tty,          \* the terminal driver: its place, beeping and whether old_freq is set
  asked         \* whether the file system waits for the floppy driver (external)

devVars == <<timerVars, fdc, hw, msg, tty, asked>>

FREQ_SET    == 0
SPEAKER_OFF == 1

DevicesInit ==
  /\ TimerInit /\ FloppyInit
  /\ tty \in {[pc |-> "main", beeping |-> FALSE, old_freq |-> FALSE, keys |-> k] : k \in {0, MaxKeys}}
  /\ asked = FALSE

\* A key is pressed that makes the terminal beep (Ctrl-G).
Key ==
  /\ ~interrupted /\ tty.keys > 0
  /\ tty' = [tty EXCEPT !.keys = @ - 1]
  /\ box' = Post(box, TTY, Msg(HARDWARE, "IRQ", 0, 0))
  /\ UNCHANGED <<alarms, tmr, interrupted, stolen, fdc, hw, msg, asked>>

speaker_on(b) == drvr_set_alarm(b, TTY, beep_ticks, SPEAKER_OFF)

\* The next message of the terminal.  For a key, beep: nothing while it is beeping; the
\* frequency is set once, and an alarm that sounds at once tells that it has been.  For an
\* alarm, of whichever type: speaker_off.
TtyReceive ==
  /\ tty.pc = "main" /\ box[TTY] # <<>>
  /\ LET m == Head(box[TTY])
         b == [box EXCEPT ![TTY] = Tail(@)]
     IN /\ msg' = [msg EXCEPT ![Cell(TTY)] = "freed"]
        /\ \/ m.op = "IRQ" /\ tty.beeping /\ box' = b /\ UNCHANGED tty
           \/ /\ m.op = "IRQ" /\ ~tty.beeping /\ tty.old_freq
              /\ box' = speaker_on(b) /\ tty' = [tty EXCEPT !.beeping = TRUE]
           \/ /\ m.op = "IRQ" /\ ~tty.beeping /\ ~tty.old_freq
              /\ box' = drvr_set_alarm(Post(b, TMR, Msg(TTY, "FREQUENCY", 0, 0)), TTY, 0, FREQ_SET)
              /\ tty' = [tty EXCEPT !.pc = "freq", !.old_freq = TRUE]
           \/ m.op = "WATCHDOG" /\ box' = b /\ tty' = [tty EXCEPT !.beeping = FALSE]
  /\ UNCHANGED <<alarms, tmr, interrupted, stolen, fdc, hw, asked>>

\* speaker_freq takes the timer's next message, whatever alarm it is.
TtyFreqSet ==
  /\ tty.pc = "freq" /\ HasFrom(box, TTY, TMR)
  /\ box' = speaker_on(Without(box, TTY, TMR))
  /\ tty' = [tty EXCEPT !.pc = "main", !.beeping = TRUE]
  /\ UNCHANGED <<alarms, tmr, interrupted, stolen, fdc, hw, msg, asked>>

\* The file system asks for blocks and waits (dev_rw).  Bound: it writes in an instance
\* without a keyboard, or when no more key will be pressed and the speaker is silent.
Silent == tty.keys = 0 /\ tty.pc = "main" /\ ~tty.beeping /\ box[TTY] = <<>>
Ask ==
  /\ ~asked /\ asked' = TRUE
  /\ \E op \in {"read"} \cup {o \in {"write"} : Silent} : box' = Post(box, FDC, Msg(FS, op, 0, 0))
  /\ UNCHANGED <<alarms, tmr, interrupted, stolen, fdc, hw, msg, tty>>

FloppyStep == /\ Fdc
              /\ asked' = (asked /\ ~(fdc.pc = "reply" /\ msg[Cell(FDC)] = FS))
              /\ UNCHANGED tty

TtyAsleep == \/ tty.pc = "main" /\ box[TTY] = <<>>
             \/ tty.pc = "freq" /\ ~HasFrom(box, TTY, TMR)

\* Nothing is ready to run here; whether anything else is, is open.
AllAsleep == FdcAsleep /\ TtyAsleep /\ tmr.pc = "receive" /\ box[TMR] = <<>>

Rest == UNCHANGED <<fdc, hw, msg, tty, asked>>
\* Bound: time passes only while the floppy driver has at most MaxQueued alarms to read.
Tick   == /\ Len(From(box, FDC, TMR)) <= MaxQueued
          /\ \E idle \in {FALSE, AllAsleep} : timer_handler(idle) /\ Rest
Resume == timer_resume(AllAsleep) /\ Rest
TimerStep == (TimerReceive \/ TimerWatch) /\ Rest

\* Bound: the floppy driver is preempted where it waits.  Its other steps touch nothing but
\* its own state, the controller and, with messages they add, the timer's mailbox.
Preemptible == fdc.pc \in {"main", "irq", "alarm"}
Others == \/ Tick \/ Resume \/ TimerStep \/ TtyReceive \/ TtyFreqSet
               \/ (FdcFinish /\ UNCHANGED <<tty, asked>>) \/ Key \/ Ask

DevicesNext == FloppyStep \/ (Preemptible /\ Others)

\* The scheduler starves nobody and the clock ticks; keys, requests and the controller may
\* do nothing.
Fairness == /\ WF_devVars(Tick) /\ WF_devVars(Resume) /\ WF_devVars(TimerStep)
            /\ WF_devVars(FloppyStep) /\ WF_devVars(TtyReceive) /\ WF_devVars(TtyFreqSet)

DevicesSpec == DevicesInit /\ [][DevicesNext]_devVars /\ Fairness

-----------------------------------------------------------------------------
(* Properties.                                                               *)

\* Whenever the controller executes a seek or a transfer, the motor runs, although the alarm
\* that stops it may come at any time and is never cancelled (floppy.c:236-251).
MotorServed == hw.phase = "exec" /\ hw.cmd # "reset" => hw.motor

\* A block whose access succeeds was transferred by the controller, although
\* interrupts of earlier commands may be taken for its own and an unread status counts as
\* normal (floppy.c:490-538).
SuccessIsTransfer == fdc.pc = "done" /\ fdc.behaving => hw.done = fdc.job.dir

\* "Wait for the FDC to generate an IRQ, or time out, whichever happens first", "Wait for it to
\* sound" (floppy.c:154, driver.c:101): a wait of the driver ends, unless its alarm was
\* replaced by one of the speaker (timer.c:194), or the tick that sounded another alarm was
\* switched away from before its end of interrupt (timer.c:109).
WaitsEnd ==
  /\ (fdc.pc = "irq") ~> (fdc.pc # "irq" \/ <<FDC, TIMEOUT>> \in stolen \/ interrupted)
  /\ (fdc.pc = "alarm") ~> (fdc.pc # "alarm")

\* "Schedule the motor to be turned off" (floppy.c:260): between accesses the motor stops,
\* unless the speaker's alarm replaced the one to stop it or time stands still, because a tick
\* was switched away from and the processes never all sleep again.
MotorStops == (hw.motor /\ ~fdc.required) ~>
                (~hw.motor \/ fdc.required \/ <<FDC, MOTOR>> \in stolen \/ interrupted)

\* "Do the requested work.  Send a reply (if necessary)" (driver.c:131): while the driver works
\* on a request, msg is that request.
OwnMessage == fdc.job.op # "none" => msg[Cell(FDC)] = FS

=============================================================================
