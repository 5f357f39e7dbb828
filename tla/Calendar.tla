------------------------------ MODULE Calendar ------------------------------
(***************************************************************************)
(* The date in the RTCC: SNTPClient writes a struct tm into its registers, *)
(* as it is, months from 0 and years from 1900; the chip counts months     *)
(* from 1; rtccGetTimestamp reads the registers back and calls mktime.     *)
(* Times within a day are left out: both sides agree on them.              *)
(***************************************************************************)
EXTENDS Integers

CONSTANTS FirstYear, LastYear,   \* bound: tm_year
          MaxStale               \* bound: days without an answer of the time server

ASSUME CalendarAssumption ==
  /\ FirstYear \in 101 .. 196 /\ LastYear \in FirstYear + 3 .. 199 /\ MaxStale \in 1 .. 30

VARIABLES
  today,          \* the true date, as gmtime gives it
  rtcc,           \* RTCDATE: registers in BCD
  rtccSet,
  stale           \* days since the registers were set

calendarvars == <<today, rtcc, rtccSet, stale>>

-----------------------------------------------------------------------------
(* common.c *)

ByteToBcd(i) == ((i \div 10) * 16 + (i % 10)) % 256
BcdToByte(bcd) == (((bcd \div 16) % 16) * 10 + (bcd % 16)) % 256

-----------------------------------------------------------------------------
(* The C library's calendar, for tm_year from 101 to 199 *)

Length(year, mon) ==
  CASE mon = 1 -> IF year % 4 = 0 THEN 29 ELSE 28
    [] mon \in {3, 5, 8, 10} -> 30
    [] OTHER -> 31

DaysBefore(year, mon) ==
  <<0, 31, 59, 90, 120, 151, 181, 212, 243, 273, 304, 334>>[mon + 1]
  + (IF mon > 1 /\ year % 4 = 0 THEN 1 ELSE 0)

\* mktime, in days since 1 January 2001; it accepts a date out of range.
Mktime(d) ==
  LET year == d.year + d.mon \div 12  mon == d.mon % 12
  IN 365 * (year - 101) + (year - 101) \div 4 + DaysBefore(year, mon) + d.mday - 1

Following(d) ==
  IF d.mday < Length(d.year, d.mon) THEN [d EXCEPT !.mday = @ + 1]
  ELSE IF d.mon < 11 THEN [year |-> d.year, mon |-> d.mon + 1, mday |-> 1]
  ELSE [year |-> d.year + 1, mon |-> 0, mday |-> 1]

CalendarInit ==
  /\ today \in [year : FirstYear .. FirstYear + 3, mon : {0}, mday : {1}]
  /\ rtcc = [year |-> 0, mon |-> 1, mday |-> 1] /\ rtccSet = FALSE /\ stale = 0

-----------------------------------------------------------------------------

\* An answer of the time server
RtccSetTimeDate ==
  /\ rtcc' = [year |-> ByteToBcd(today.year), mon |-> ByteToBcd(today.mon), mday |-> ByteToBcd(today.mday)]
  /\ rtccSet' = TRUE /\ stale' = 0 /\ UNCHANGED today

\* The chip's months; it is not said what it does in month 0, nor whether a
\* year beyond 99 is a leap year.
ChipMayEnd(mon, mday) ==
  CASE mon = 0 -> mday >= 28
    [] mon = 2 -> mday >= 28
    [] mon \in {4, 6, 9, 11} -> mday >= 30
    [] OTHER -> mday = 31
ChipMayGoOn(mon, mday) ==
  CASE mon = 2 -> mday < 29
    [] mon \in {4, 6, 9, 11} -> mday < 30
    [] OTHER -> mday < 31

\* The chip is not followed where it has not been set, nor into the next year.
ChipCounts ==
  LET mon == BcdToByte(rtcc.mon)  mday == BcdToByte(rtcc.mday)
  IN \/ ~rtccSet /\ rtcc' = rtcc
     \/ rtccSet /\ ChipMayGoOn(mon, mday) /\ rtcc' = [rtcc EXCEPT !.mday = ByteToBcd(mday + 1)]
     \/ /\ rtccSet /\ ChipMayEnd(mon, mday) /\ mon < 12
        /\ rtcc' = [year |-> rtcc.year, mon |-> ByteToBcd(mon + 1), mday |-> ByteToBcd(1)]

Midnight ==
  /\ stale < MaxStale \/ ~rtccSet
  /\ today' = Following(today) /\ today'.year <= LastYear
  /\ ChipCounts
  /\ stale' = (IF rtccSet THEN stale + 1 ELSE 0) /\ UNCHANGED rtccSet

CalendarNext == RtccSetTimeDate \/ Midnight

CalendarSpec == CalendarInit /\ [][CalendarNext]_calendarvars

-----------------------------------------------------------------------------
(* Properties *)

InBcd(numbers) == {ByteToBcd(i) : i \in numbers}

CalendarTypeOK ==
  /\ today \in [year : FirstYear .. LastYear, mon : 0 .. 11, mday : 1 .. 31]
  /\ rtcc \in [year : InBcd(0 .. 199), mon : InBcd(0 .. 12), mday : InBcd(1 .. 31)]
  /\ rtccSet \in BOOLEAN /\ stale \in 0 .. MaxStale

\* mutant: tm_mon as mktime wants it, were the register the chip's month
RtccGetTmFromOne ==
  [year |-> BcdToByte(rtcc.year), mon |-> BcdToByte(rtcc.mon) - 1, mday |-> BcdToByte(rtcc.mday)]

RtccGetTm ==
  [year |-> BcdToByte(rtcc.year), mon |-> BcdToByte(rtcc.mon), mday |-> BcdToByte(rtcc.mday)]

Ahead == Mktime(RtccGetTm) - Mktime(today)

(***************************************************************************)
(* Although the registers name the month before, the chip's months differ  *)
(* in length and mktime sets right what the chip has wrong, the timestamp  *)
(* is right at once when the clock is set, and three days off at most      *)
(* after a month without the time server.                                  *)
(***************************************************************************)
TimestampIsNear == rtccSet => Ahead \in -3 .. 3 /\ (stale = 0 => Ahead = 0)

(***************************************************************************)
(* With an answer every day the timestamp is wrong only on the 29th to the *)
(* 31st of January and March, and on the 31st of a month that follows a    *)
(* shorter one.                                                            *)
(***************************************************************************)
WrongOnlyAtMonthEnd ==
  rtccSet /\ stale <= 1 /\ Ahead # 0 =>
    \/ today.mon \in {0, 2} /\ today.mday >= 29
    \/ today.mon \in {4, 6, 9, 11} /\ today.mday = 31

(***************************************************************************)
(* How far the clock may be trusted: three days at most after a month      *)
(* without an answer, and with one a day only at the ends of some months.  *)
(***************************************************************************)
CalendarInv == CalendarTypeOK /\ TimestampIsNear /\ WrongOnlyAtMonthEnd

=============================================================================
