------------------------------ MODULE TickTimer ------------------------------
(***************************************************************************)
(* The clock of net/Tick.c: the low half of a tick is the hardware timer   *)
(* TMR1, the high half dwInternalTicks, counted by the interrupt that TMR1 *)
(* raises when it rolls over.  GetTickCopy reads the halves one after the  *)
(* other, with the interrupt disabled and the timer running on.            *)
(***************************************************************************)
EXTENDS Integers

CONSTANTS Low,        \* values of TMR1: PR1 + 1
          High        \* values of dwInternalTicks

ASSUME TickAssumption == Low \in Nat /\ Low > 1 /\ High \in Nat /\ High > 1

VARIABLES
  TMR1, T1IF, T1IE,      \* the timer, its interrupt flag and enable bit
  dwInternalTicks,
  copyAt,                    \* where GetTickCopy is
  vTickReading,
  clock, readAt          \* history: the true time, and what it was when
                         \* the last copy read TMR1

tickvars == <<TMR1, T1IF, T1IE, dwInternalTicks, copyAt, vTickReading, clock, readAt>>

Reading == [low : 0 .. Low - 1, high : 0 .. High - 1]
Zero == [low |-> 0, high |-> 0]

TickInit ==
  /\ TMR1 = 0 /\ T1IF = FALSE /\ T1IE = TRUE /\ dwInternalTicks = 0
  /\ copyAt = "outside" /\ vTickReading = Zero
  /\ clock = Zero /\ readAt = Zero

-----------------------------------------------------------------------------
(* The timer and its interrupt *)

RollsOver == TMR1 = Low - 1

\* An interrupt is served long before the timer rolls over once more.
Count ==
  /\ ~(T1IF /\ RollsOver)
  /\ TMR1' = (TMR1 + 1) % Low
  /\ T1IF' = (T1IF \/ RollsOver)
  /\ clock' = [low  |-> (clock.low + 1) % Low,
               high |-> IF RollsOver THEN (clock.high + 1) % High ELSE clock.high]
  /\ UNCHANGED <<T1IE, dwInternalTicks, copyAt, vTickReading, readAt>>

T1Interrupt ==
  /\ T1IE /\ T1IF
  /\ dwInternalTicks' = (dwInternalTicks + 1) % High /\ T1IF' = FALSE
  /\ UNCHANGED <<TMR1, T1IE, copyAt, vTickReading, clock, readAt>>

-----------------------------------------------------------------------------
(* GetTickCopy *)

Call ==
  /\ copyAt = "outside"
  /\ T1IE' = TRUE /\ copyAt' = "enabled"
  /\ UNCHANGED <<TMR1, T1IF, dwInternalTicks, vTickReading, clock, readAt>>

\* The Nop lets a pending interrupt in, but the timer may roll over after it.
Disable ==
  /\ copyAt = "enabled"
  /\ T1IE' = FALSE /\ copyAt' = "low"
  /\ UNCHANGED <<TMR1, T1IF, dwInternalTicks, vTickReading, clock, readAt>>

ReadLow ==
  /\ copyAt = "low"
  /\ vTickReading' = [vTickReading EXCEPT !.low = TMR1]
  /\ readAt' = clock /\ copyAt' = "high"
  /\ UNCHANGED <<TMR1, T1IF, T1IE, dwInternalTicks, clock>>

\* mutant: undoes the interrupt's increment, as other devices need
ReadHighCorrected ==
  /\ copyAt = "high"
  /\ vTickReading' = [vTickReading EXCEPT !.high =
       IF vTickReading.low = Low - 1 THEN (dwInternalTicks - 1) % High ELSE dwInternalTicks]
  /\ copyAt' = "test"
  /\ UNCHANGED <<TMR1, T1IF, T1IE, dwInternalTicks, clock, readAt>>

ReadHigh ==
  /\ copyAt = "high"
  /\ vTickReading' = [vTickReading EXCEPT !.high = dwInternalTicks]
  /\ copyAt' = "test"
  /\ UNCHANGED <<TMR1, T1IF, T1IE, dwInternalTicks, clock, readAt>>

CopyReturns ==
  /\ copyAt = "test" /\ ~T1IF
  /\ T1IE' = TRUE /\ copyAt' = "outside"
  /\ UNCHANGED <<TMR1, T1IF, dwInternalTicks, vTickReading, clock, readAt>>

TryAgain ==
  /\ copyAt = "test" /\ T1IF
  /\ T1IE' = TRUE /\ copyAt' = "enabled"
  /\ UNCHANGED <<TMR1, T1IF, dwInternalTicks, vTickReading, clock, readAt>>

GetTickCopy == Call \/ Disable \/ ReadLow \/ ReadHigh \/ CopyReturns \/ TryAgain

TickNext == Count \/ T1Interrupt \/ GetTickCopy

TickSpec == TickInit /\ [][TickNext]_tickvars

-----------------------------------------------------------------------------
(* Properties *)

TickTypeOK ==
  /\ TMR1 \in 0 .. Low - 1 /\ T1IF \in BOOLEAN /\ T1IE \in BOOLEAN
  /\ dwInternalTicks \in 0 .. High - 1
  /\ copyAt \in {"outside", "enabled", "low", "high", "test"}
  /\ vTickReading \in Reading /\ clock \in Reading /\ readAt \in Reading

(***************************************************************************)
(* "An interrupt-safe and synchronized read": what GetTickCopy returns was *)
(* the time at one moment during the call, although the halves were read   *)
(* at different moments and the timer never stopped.                       *)
(***************************************************************************)
CopyIsSynchronized == [][CopyReturns => vTickReading = readAt]_tickvars

(***************************************************************************)
(* No rollover is lost, however long a reader keeps the interrupt out: the *)
(* count and the pending interrupt together always tell the time.          *)
(***************************************************************************)
NoTickLost ==
  /\ clock.low = TMR1
  /\ clock.high = (dwInternalTicks + (IF T1IF THEN 1 ELSE 0)) % High

(***************************************************************************)
(* The inductive invariant behind them: with the interrupt disabled, a     *)
(* clear flag means that no rollover came between the two readings.        *)
(***************************************************************************)
HalvesBelongTogether ==
  /\ T1IE <=> copyAt \in {"outside", "enabled"}
  /\ copyAt \in {"high", "test"} => vTickReading.low = readAt.low
  /\ copyAt = "high" /\ ~T1IF => readAt.high = dwInternalTicks
  /\ copyAt = "test" /\ ~T1IF => readAt.high = vTickReading.high

TickInv == TickTypeOK /\ NoTickLost /\ HalvesBelongTogether

=============================================================================
