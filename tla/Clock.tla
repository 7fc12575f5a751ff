------------------------------- MODULE Clock --------------------------------
(***************************************************************************)
(* The time of day (src/kernel/clock.c and the SYS_TIME request of         *)
(* timer.c): the CMOS clock is read once, at boot; from then on the tick   *)
(* counts seconds, and a time() call brings the kept date and the seconds  *)
(* since the epoch forward by what has been counted.                       *)
(***************************************************************************)
EXTENDS Integers

CONSTANTS
  Boots,     \* times of day at which the machine may start
  Waits,     \* seconds that may pass at a time
  MaxWaits   \* bound: how often time passes

VARIABLE clk
\* clk.cmos, clk.since, clk.pending: cmos, secs_since_epoch, secs_pending
\* clk.pc: within SYS_TIME, between cmos_update_time() and the reset of secs_pending
\* clk.now, clk.lost, clk.waits: history: the time, the seconds counted and thrown away

SECS_PER_DAY == 86400

\* A number of seconds: days and seconds of the day (32 bits are not enough for TLC).
Plus(t, secs) == [day |-> t.day + (t.sec + secs) \div SECS_PER_DAY,
                  sec |-> (t.sec + secs) % SECS_PER_DAY]

-----------------------------------------------------------------------------
(* The calendar. *)

last_day_every_4th(mon, year) ==
  IF mon = 2 /\ year % 4 = 1 THEN 29
  ELSE <<31, 28, 31, 30, 31, 30, 31, 31, 30, 31, 30, 31>>[mon]

\* year counts from 2000, so that 2000 itself is taken for an ordinary year.
last_day(mon, year) ==
  IF mon = 2 /\ year % 4 = 0 /\ year % 400 # 0 THEN 29
  ELSE <<31, 28, 31, 30, 31, 30, 31, 31, 30, 31, 30, 31>>[mon]

\* yday is an unsigned short that starts at -1.
yday(c) ==
  LET d[m \in 0 .. 12] == IF m = 0 THEN 65535 ELSE d[m - 1] + last_day(m, c.year)
  IN (d[c.mon - 1] + c.mday) % 65536

calc_secs_since_epoch(c) ==
  LET year == (c.year + 100) % 256
  IN Plus([day |-> yday(c) + (year - 70) * 365 + (year - 69) \div 4
                   - (year - 1) \div 100 + (year + 299) \div 400, sec |-> 0],
          c.sec + c.min * 60 + c.hour * 3600)

bcd_to_bin(bcd) == (bcd \div 16) * 10 + (bcd % 16)

\* cmos_get_time(), from the registers r
cmos_get_time(r) == [f \in DOMAIN r |-> bcd_to_bin(r[f])]

\* A turn of the loop of cmos_update_time(): to the next month, if it begins within the
\* days that are pending.
next_month(p) ==
  LET c == p.c
      l == last_day(c.mon, c.year)
  IN IF c.mday + p.days <= l THEN p
     ELSE [c |-> [c EXCEPT !.mday = 1, !.mon = IF @ = 12 THEN 1 ELSE @ + 1,
                           !.year = IF c.mon = 12 THEN @ + 1 ELSE @],
           days |-> p.days - (l - c.mday + 1)]

\* The loop: no month has less than 28 days.
Forward(c, days) ==
  LET n == days \div 28 + 1
      s[k \in 0 .. n] == IF k = 0 THEN [c |-> c, days |-> days] ELSE next_month(s[k - 1])
  IN [s[n].c EXCEPT !.mday = @ + s[n].days]

\* cmos_update_time(); a carry is what a field hands to the next one.
cmos_update_time(c, pending) ==
  LET s == c.sec + (pending % 60)
      minutes == pending \div 60 + s \div 60
      n == c.min + (minutes % 60)
      hours == minutes \div 60 + n \div 60
      h == c.hour + (hours % 24)
      days == hours \div 24 + h \div 24
  IN Forward([c EXCEPT !.sec = s % 60, !.min = n % 60, !.hour = h % 24,
                       !.wday = ((@ - 1 + days) % 7) + 1], days)

-----------------------------------------------------------------------------
(* The calendar as it should be. *)

\* Days from 1 January 1970 in the Gregorian calendar; years begin in March.
DayNumber(year, mon, mday) ==
  LET y == IF mon <= 2 THEN year - 1 ELSE year
      m == (mon + 9) % 12
  IN 365 * y + y \div 4 - y \div 100 + y \div 400 + (153 * m + 2) \div 5 + mday - 1 - 719468

Weekday(day) == ((day + 4) % 7) + 1

\* The day of a date, whose year counts from 2000.
DayOf(c) == DayNumber(2000 + c.year, c.mon, c.mday)

RealDate(c) ==
  /\ c \in [sec : 0 .. 59, min : 0 .. 59, hour : 0 .. 23,
            wday : 1 .. 7, mday : 1 .. 31, mon : 1 .. 12, year : 1 .. 99]
  /\ c.mday <= last_day(c.mon, c.year)
  /\ c.wday = Weekday(DayOf(c))

\* In 2038 calc_secs_since_epoch()'s products leave the range of an int.
ASSUME ClockAssumption ==
  Waits \subseteq Nat /\ \A b \in Boots : RealDate(b) /\ b.year <= 37

-----------------------------------------------------------------------------
(* The clock at work. *)

\* The hardware's BCD registers.
Register(n) == (n \div 10) * 16 + (n % 10)
Registers(c) == [f \in DOMAIN c |-> Register(c[f])]

ClockInit == \E b \in Boots :
  LET c == cmos_get_time(Registers(b))
      t == calc_secs_since_epoch(c)
  IN clk = [cmos |-> c, since |-> t, pending |-> 0, pc |-> "receive",
            now |-> t, lost |-> 0, waits |-> 0]

\* timer_handler(), n * HZ times
Seconds(n) ==
  /\ clk.waits < MaxWaits
  /\ clk' = [clk EXCEPT !.pending = @ + n, !.now = Plus(@, n), !.waits = @ + 1,
                        !.lost = IF clk.pc = "reset" THEN @ + n ELSE @]

TimeUpdate ==
  /\ clk.pc = "receive"
  /\ clk' = [clk EXCEPT !.cmos = cmos_update_time(@, clk.pending),
                        !.since = Plus(@, clk.pending), !.pc = "reset"]

\* Seconds that were counted since the update are thrown away.
TimeReply ==
  /\ clk.pc = "reset"
  /\ clk' = [clk EXCEPT !.pending = 0, !.pc = "receive"]

ClockNext == TimeUpdate \/ TimeReply \/ \E n \in Waits : Seconds(n)

ClockSpec == ClockInit /\ [][ClockNext]_clk

-----------------------------------------------------------------------------
(* Properties *)

\* last_day() has a 29 February 2100, which there will not be.
InCentury == clk.now.day < DayNumber(2100, 1, 1)

\* Whatever has been added to it, in one go or piecemeal, the kept date is a real one, it
\* and the seconds since the epoch name the same moment, the weekday fits, and with the
\* seconds still pending and those lost between update and reset it is the time.
ClockRight ==
  LET c == clk.cmos
      t == clk.since
      unseen == IF clk.pc = "reset" THEN 0 ELSE clk.pending
  IN /\ c.mon \in 1 .. 12
     /\ t.day = DayOf(c)
     /\ c.mon < 12 => t.day < DayNumber(2000 + c.year, c.mon + 1, 1)
     /\ c.mday >= 1 /\ c.mday <= 31
     /\ c.sec \in 0 .. 59 /\ c.min \in 0 .. 59 /\ c.hour \in 0 .. 23
     /\ t.sec = c.sec + 60 * c.min + 3600 * c.hour
     /\ c.wday = Weekday(t.day)
     /\ Plus(t, unseen + clk.lost) = clk.now
=============================================================================
