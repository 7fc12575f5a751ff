------------------------------- MODULE Timer --------------------------------
(* Alarms (src/src/kernel/timer.c): the timer process queues WATCHDOG        *)
(* messages in a list sorted by time, and the timer interrupt answers those  *)
(* that are due.  Times are kept relative to uptime: an alarm's left is its  *)
(* uptime less the current one.                                              *)
EXTENDS Naturals, Integers, Sequences, SequencesExt

CONSTANTS FDC, TTY          \* the processes that set alarms

TMR      == "tmr"
HARDWARE == "hardware"
FS       == "fs"

VARIABLES
  box,        \* mailboxes of the timer and the drivers
  alarms,     \* the list at next_alarm
  tmr,        \* the timer process
  interrupted,\* timer_handler has been switched away from inside msg_reply
  stolen      \* history: alarms that another process' alarm has replaced

timerVars == <<box, alarms, tmr, interrupted, stolen>>

NoMsg == [from |-> "", op |-> "", type |-> 0, ticks |-> 0]
Msg(from, op, type, ticks) == [from |-> from, op |-> op, type |-> type, ticks |-> ticks]

TimerInit ==
  /\ box = [p \in {TMR, FDC, TTY} |-> <<>>]
  /\ alarms = <<>>
  /\ tmr = [pc |-> "receive", msg |-> NoMsg, left |-> 0]
  /\ interrupted = FALSE
  /\ stolen = {}

-----------------------------------------------------------------------------
(* Messages, in the order each sender sent them (Ipc has the details).       *)

From(b, p, from) == SelectSeq(b[p], LAMBDA m : m.from = from)
HasFrom(b, p, from) == From(b, p, from) # <<>>

\* msg_check(from): the oldest message of that sender leaves the mailbox.
Without(b, p, from) ==
  LET first == CHOOSE i \in DOMAIN b[p] : /\ b[p][i].from = from
                                          /\ \A j \in 1..(i - 1) : b[p][j].from # from
  IN [b EXCEPT ![p] = RemoveAt(@, first)]

Post(b, p, m) == [b EXCEPT ![p] = Append(@, m)]

\* Process p asks for an alarm (driver.c, speaker.c).
drvr_set_alarm(b, p, ticks, type) == Post(b, TMR, Msg(p, "WATCHDOG", type, ticks))

-----------------------------------------------------------------------------
(* The timer process.                                                        *)

\* The time to send an alarm is computed before the list is locked: ticks that pass in
\* between bring it nearer.
TimerReceive ==
  /\ tmr.pc = "receive" /\ box[TMR] # <<>>
  /\ LET m == Head(box[TMR])
     IN tmr' = IF m.op = "WATCHDOG" THEN [pc |-> "watch", msg |-> m, left |-> m.ticks] ELSE tmr
  /\ box' = [box EXCEPT ![TMR] = Tail(@)]
  /\ UNCHANGED <<alarms, interrupted, stolen>>

\* The alarms before the first one that is due later than at left.
prefix(list, left) ==
  CHOOSE n \in 0..Len(list) : /\ n = Len(list) \/ list[n + 1].left > left
                              /\ \A i \in 1..n : list[i].left <= left

insert(list, a) == InsertAt(list, prefix(list, a.left) + 1, a)

\* All queued messages are addressed to the timer, so the alarm that a new one replaces is
\* one of the same type, whoever set it.
same(a, m) == a.type = m.type

timer_watch(list, m, left) ==
  insert(SelectSeq(list, LAMBDA a : ~same(a, m)), [left |-> left, to |-> m.from, type |-> m.type])

\* The alarm that an interrupted timer_handler has just answered is not addressed to the
\* timer any more, and nothing is due before it.
answered == IF interrupted THEN SubSeq(alarms, 1, 1) ELSE <<>>
queued   == IF interrupted THEN Tail(alarms) ELSE alarms

TimerWatch ==
  /\ tmr.pc = "watch"
  /\ alarms' = answered \o timer_watch(queued, tmr.msg, tmr.left)
  /\ stolen' = (stolen \ {<<tmr.msg.from, tmr.msg.type>>})
               \cup {<<a.to, a.type>> : a \in {x \in ToSet(queued) : /\ same(x, tmr.msg)
                                                                    /\ x.to # tmr.msg.from}}
  /\ tmr' = [pc |-> "receive", msg |-> NoMsg, left |-> 0]
  /\ UNCHANGED <<box, interrupted>>

-----------------------------------------------------------------------------
(* The timer interrupt.                                                      *)

Ring(b, a) == Post(b, a.to, Msg(TMR, "WATCHDOG", a.type, 0))

due(list)   == SubSeq(list, 1, prefix(list, 0))
later(list) == SubSeq(list, prefix(list, 0) + 1, Len(list))

\* The loop over due alarms.  msg_reply wakes the process it answers, and proc_wakeup
\* switches to it at once if no other process is ready (idle): the interrupt then stays
\* half done, its alarm still in the list, until every process sleeps again.
sound(list, idle) ==
  IF idle /\ due(list) # <<>>
  THEN /\ box' = Ring(box, Head(list))
       /\ alarms' = list
       /\ interrupted' = TRUE
  ELSE /\ box' = FoldLeft(Ring, box, due(list))
       /\ alarms' = later(list)
       /\ interrupted' = FALSE

aged(list) == [i \in DOMAIN list |-> [list[i] EXCEPT !.left = @ - 1]]

\* No tick comes in before the last one has reached irq_eoi.  Bound: the timer process is
\* at most one tick late with an alarm.
timer_handler(idle) ==
  /\ ~interrupted /\ tmr.left >= 0
  /\ sound(aged(alarms), idle)
  /\ tmr' = IF tmr.pc = "watch" THEN [tmr EXCEPT !.left = @ - 1] ELSE tmr
  /\ UNCHANGED stolen

timer_resume(idle) ==
  /\ interrupted /\ idle
  /\ sound(Tail(alarms), idle)
  /\ UNCHANGED <<tmr, stolen>>
=============================================================================
