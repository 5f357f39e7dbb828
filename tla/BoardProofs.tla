---------------------------- MODULE BoardProofs ----------------------------
(***************************************************************************)
(* Proofs about the parts of the board that MCBoard has side by side, one  *)
(* section each, for every value of their constants.                       *)
(***************************************************************************)
EXTENDS TickTimer, GeigerCounter, ConfigStore, Console, LcdQueue, Keys, Calendar, Recursion,
        FiniteSetTheorems, TLAPS

-----------------------------------------------------------------------------
(***************************************************************************)
(* The clock of TickTimer can be trusted whatever the widths of its two    *)
(* halves: the invariant TickInv is inductive, and the copy is what it gives. *)
(***************************************************************************)

(***************************************************************************)
(* Adding one modulo n stays in 0 .. n - 1, and is what it looks like.     *)
(***************************************************************************)
LEMMA Increment ==
  ASSUME NEW n \in Nat, n > 1, NEW x \in 0 .. n - 1
  PROVE  /\ (x + 1) % n \in 0 .. n - 1
         /\ (x + 1) % n = IF x = n - 1 THEN 0 ELSE x + 1
         /\ x % n = x
OBVIOUS

\* Both widths hold a zero, and what the flag adds to the count.
LEMMA Widths ==
  /\ 0 \in 0 .. Low - 1 /\ 0 \in 0 .. High - 1
  /\ \A x \in 0 .. Low - 1 : (x + 1) % Low \in 0 .. Low - 1
  /\ \A x \in 0 .. High - 1 : /\ (x + 1) % High \in 0 .. High - 1
                               /\ (x + 0) % High = x
BY TickAssumption, Increment

\* The reset state satisfies the invariant.
LEMMA InitTick == TickInit => TickInv
<1> SUFFICES ASSUME TickInit PROVE TickInv
  OBVIOUS
<1> USE TickAssumption DEF TickInit, Zero
<1>1. TickTypeOK
  BY Widths DEF TickTypeOK, Reading
<1>2. NoTickLost /\ HalvesBelongTogether
  BY Widths DEF NoTickLost, HalvesBelongTogether
<1> QED
  BY <1>1, <1>2 DEF TickInv

\* A tick of the timer keeps it: a rollover sets the flag, and the flag was
\* clear.
LEMMA CountKeeps == TickInv /\ Count => TickInv'
<1> SUFFICES ASSUME TickInv, Count PROVE TickInv'
  OBVIOUS
<1> USE TickAssumption DEF TickInv, Count, TickTypeOK, Reading, RollsOver
<1>1. /\ TMR1' \in 0 .. Low - 1
      /\ TMR1' = IF RollsOver THEN 0 ELSE TMR1 + 1
  BY Increment
<1>2. clock.low = TMR1 /\ clock'.low = TMR1'
  BY DEF NoTickLost
<1>3. clock.high \in 0 .. High - 1 /\ clock'.high \in 0 .. High - 1
  BY Increment
<1>4. TickTypeOK'
  BY <1>1, <1>2, <1>3
<1>5. clock'.high = (dwInternalTicks' + (IF T1IF' THEN 1 ELSE 0)) % High
  <2>1. CASE RollsOver
    <3>1. ~T1IF /\ T1IF' /\ clock.high = dwInternalTicks
      BY <2>1, Widths DEF NoTickLost
    <3> QED
      BY <3>1, <2>1
  <2>2. CASE ~RollsOver
    BY <2>2 DEF NoTickLost
  <2> QED
    BY <2>1, <2>2
<1>6. HalvesBelongTogether'
  BY DEF HalvesBelongTogether
<1> QED
  BY <1>2, <1>4, <1>5, <1>6 DEF NoTickLost

\* The interrupt moves its one from the flag to the count.
LEMMA InterruptKeeps == TickInv /\ T1Interrupt => TickInv'
<1> SUFFICES ASSUME TickInv, T1Interrupt PROVE TickInv'
  OBVIOUS
<1> USE TickAssumption DEF TickInv, T1Interrupt
<1>1. dwInternalTicks' \in 0 .. High - 1
  BY Increment DEF TickTypeOK
<1>2. TickTypeOK'
  BY <1>1 DEF TickTypeOK
<1>3. NoTickLost'
  BY <1>1, Widths DEF NoTickLost, TickTypeOK
<1>4. HalvesBelongTogether'
  BY DEF HalvesBelongTogether
<1> QED
  BY <1>2, <1>3, <1>4

\* GetTickCopy only reads the clock.
LEMMA CopyKeeps == TickInv /\ GetTickCopy => TickInv'
<1> SUFFICES ASSUME TickInv, GetTickCopy PROVE TickInv'
  OBVIOUS
<1> USE TickAssumption DEF TickInv
<1>1. /\ NoTickLost' /\ TMR1' = TMR1 /\ T1IF' = T1IF /\ clock' = clock
      /\ dwInternalTicks' = dwInternalTicks
  BY DEF GetTickCopy, Call, Disable, ReadLow, ReadHigh, CopyReturns, TryAgain, NoTickLost
<1>2. CASE Call
  BY <1>1, <1>2 DEF Call, TickTypeOK, HalvesBelongTogether
<1>3. CASE Disable
  BY <1>1, <1>3 DEF Disable, TickTypeOK, HalvesBelongTogether
<1>4. CASE ReadLow
  <2>1. TickTypeOK'
    BY <1>1, <1>4 DEF ReadLow, TickTypeOK, Reading
  <2>2. ~T1IF => clock.high = dwInternalTicks
    BY Widths DEF NoTickLost, TickTypeOK
  <2>3. HalvesBelongTogether'
    BY <1>1, <1>4, <2>2 DEF ReadLow, HalvesBelongTogether, NoTickLost, TickTypeOK, Reading
  <2> QED
    BY <1>1, <2>1, <2>3
<1>5. CASE ReadHigh
  BY <1>1, <1>5 DEF ReadHigh, TickTypeOK, Reading, HalvesBelongTogether
<1>6. CASE CopyReturns
  BY <1>1, <1>6 DEF CopyReturns, TickTypeOK, HalvesBelongTogether
<1>7. CASE TryAgain
  BY <1>1, <1>7 DEF TryAgain, TickTypeOK, HalvesBelongTogether
<1> QED
  BY <1>2, <1>3, <1>4, <1>5, <1>6, <1>7 DEF GetTickCopy

\* Every step keeps the invariant.
LEMMA NextTick == TickInv /\ [TickNext]_tickvars => TickInv'
<1> SUFFICES ASSUME TickInv, [TickNext]_tickvars PROVE TickInv'
  OBVIOUS
<1>1. CASE UNCHANGED tickvars
  BY <1>1 DEF tickvars, TickInv, TickTypeOK, NoTickLost, HalvesBelongTogether
<1> QED
  BY <1>1, CountKeeps, InterruptKeeps, CopyKeeps DEF TickNext

(***************************************************************************)
(* Types, the running count and the halves' agreement hold for ever.       *)
(***************************************************************************)
THEOREM TickInvariant == TickSpec => []TickInv
BY InitTick, NextTick, PTL DEF TickSpec

(***************************************************************************)
(* Timer, flag, count and copy stay within their widths.                   *)
(***************************************************************************)
THEOREM TickTypeCorrect == TickSpec => []TickTypeOK
<1>1. TickInv => TickTypeOK
  BY DEF TickInv
<1> QED
  BY <1>1, TickInvariant, PTL

(***************************************************************************)
(* No rollover of TMR1 is lost, whatever the widths.                       *)
(***************************************************************************)
THEOREM NoTickEverLost == TickSpec => []NoTickLost
<1>1. TickInv => NoTickLost
  BY DEF TickInv
<1> QED
  BY <1>1, TickInvariant, PTL

(***************************************************************************)
(* GetTickCopy returns a time that was right at one moment of the call.    *)
(***************************************************************************)
THEOREM CopySynchronized == TickSpec => CopyIsSynchronized
<1>1. TickInv /\ [TickNext]_tickvars => [CopyReturns => vTickReading = readAt]_tickvars
  BY DEF TickInv, CopyReturns, TickTypeOK, Reading, HalvesBelongTogether
<1> QED
  BY <1>1, TickInvariant, PTL DEF TickSpec, CopyIsSynchronized

-----------------------------------------------------------------------------
(***************************************************************************)
(* The gate uptime() > 60 is enough: no logger reports a window that was   *)
(* not filled by measurements, whatever the size of the window and the     *)
(* widths of the counters.                                                 *)
(***************************************************************************)

\* Stepping an index: round the window, and on while it is below it.
LEMMA NextSlot ==
  ASSUME NEW x \in Slot
  PROVE  /\ (x + 1) % Slots \in Slot
         /\ x % Slots = x
         /\ Slots % Slots = 0
         /\ x + 1 < Slots => (x + 1) % Slots = x + 1
BY GeigerAssumption DEF Slot

\* The uptime counts on while it is below its range.
LEMMA NextSecond ==
  ASSUME upt \in 0 .. UptimeRange - 1
  PROVE  /\ (upt + 1) % UptimeRange \in 0 .. UptimeRange - 1
         /\ upt <= Slots /\ upt + 1 <= Slots => (upt + 1) % UptimeRange = upt + 1
<1>1. UptimeRange \in Nat /\ UptimeRange > Slots /\ Slots \in Nat
  BY GeigerAssumption
<1> QED
  BY <1>1

\* Once the seconds after the boot's are all measured, so is the window.
LEMMA FullAtTheGate ==
  ASSUME GateInv, Filling, upt = Slots, i \in measured
  PROVE  measured = Slot
<1>1. i = 0 /\ \A s \in Slot : s # 0 => s \in measured
  BY NextSlot, GeigerAssumption DEF GateInv, Filling, Slot
<1> QED
  BY <1>1, GeigerAssumption DEF GateInv, Slot

\* Nothing is filled yet when the interrupts come on.
LEMMA InitGate == GeigerInit => GateInv
<1> SUFFICES ASSUME GeigerInit PROVE GateInv
  OBVIOUS
<1>1. 0 \in Slot
  BY GeigerAssumption DEF Slot
<1>2. 0 % Slots = 0
  BY <1>1, NextSlot
<1>3. /\ Slots \in Nat /\ Slots > 0 /\ BootTicks \in Nat
      /\ UptimeRange \in Nat /\ UptimeRange > Slots
  BY GeigerAssumption
<1>4. upt \in 0 .. UptimeRange - 1
  BY <1>3 DEF GeigerInit
<1>5. Filling
  BY <1>2, <1>3 DEF GeigerInit, Filling, Slot
<1> QED
  <2>1. i \in Slot /\ measured \subseteq Slot /\ isr \in {"idle", "clear"}
    BY <1>1 DEF GeigerInit
  <2>2. counting = FALSE /\ mainAt = "geiger_init" /\ LoggedWindowIsMeasured
    BY DEF GeigerInit, LoggedWindowIsMeasured
  <2> QED
    BY <1>4, <1>5, <2>1, <2>2 DEF GateInv

\* The interrupt's first half fills the next slot.
LEMMA ReadKeepsGate == GateInv /\ RtccReads => GateInv'
<1> SUFFICES ASSUME GateInv, RtccReads PROVE GateInv'
  OBVIOUS
<1> USE DEF GateInv, RtccReads
<1>1. measured' \subseteq Slot /\ UNCHANGED <<i, upt, counting, mainAt, gated>> /\ isr' = "clear"
  BY DEF main
<1>2. CASE counting /\ measured = Slot
  <2>1. measured' = Slot
    BY <1>2, <1>1
  <2> QED
    BY <1>1, <1>2, <2>1 DEF LoggedWindowIsMeasured
<1>3. CASE Filling /\ ~(counting /\ measured = Slot)
  <2>1. CASE counting
    BY <1>1, <1>3, <2>1 DEF Filling, LoggedWindowIsMeasured
  <2>2. CASE ~counting
    <3>1. \A s \in Slot : ~(BootTicks <= s /\ s < upt)
      BY <1>3, <2>2, GeigerAssumption DEF Filling, Slot
    <3> QED
      BY <1>1, <1>3, <2>2, <3>1 DEF Filling, LoggedWindowIsMeasured
  <2> QED
    BY <2>1, <2>2
<1> QED
  BY <1>2, <1>3

\* Its second half moves on, and leaves Filling only with a full window.
LEMMA ClearKeepsGate == GateInv /\ RtccClears => GateInv'
<1> SUFFICES ASSUME GateInv, RtccClears PROVE GateInv'
  OBVIOUS
<1> USE DEF GateInv, RtccClears
<1>1. /\ UNCHANGED <<measured, counting, mainAt, gated>> /\ isr' = "idle"
      /\ i' \in Slot /\ upt' \in 0 .. UptimeRange - 1
  BY NextSlot, NextSecond DEF main
<1>2. CASE counting /\ measured = Slot
  BY <1>1, <1>2 DEF LoggedWindowIsMeasured
<1>3. CASE Filling /\ ~(counting /\ measured = Slot)
  <2>1. counting => i \in measured
    BY <1>3 DEF Filling
  <2>2. upt < Slots
    <3>1. CASE counting
      BY <1>3, <2>1, <3>1, FullAtTheGate, GeigerAssumption DEF Filling
    <3>2. CASE ~counting
      BY <1>3, <3>2, GeigerAssumption DEF Filling
    <3> QED
      BY <3>1, <3>2
  <2>3. i = upt /\ upt' = upt + 1
    BY <1>3, <2>2, NextSlot, NextSecond, GeigerAssumption DEF Filling, Slot
  <2>4. i' = upt' % Slots /\ upt' <= Slots
    BY <2>2, <2>3, GeigerAssumption
  <2>5. ~counting => upt' <= BootTicks
    BY <1>3, <2>3, GeigerAssumption DEF Filling
  <2>6. \A s \in Slot : BootTicks <= s /\ s < upt' => s \in measured
    <3> SUFFICES ASSUME NEW s \in Slot, BootTicks <= s, s < upt' PROVE s \in measured
      OBVIOUS
    <3>1. counting /\ (s = i \/ s < upt)
      BY <2>3, <2>5, GeigerAssumption DEF Slot
    <3> QED
      BY <1>3, <2>1, <3>1 DEF Filling
  <2> QED
    BY <1>1, <1>3, <2>4, <2>5, <2>6 DEF Filling, LoggedWindowIsMeasured
<1> QED
  BY <1>2, <1>3

\* The main loop asks the gate and leaves the window alone.
LEMMA MainKeepsGate == GateInv /\ Main => GateInv'
<1> SUFFICES ASSUME GateInv, Main PROVE GateInv'
  OBVIOUS
<1> USE DEF GateInv
<1>1. CASE ClearSlot
  BY <1>1 DEF ClearSlot, Filling, LoggedWindowIsMeasured
<1>2. CASE OpenTimer2
  BY <1>2 DEF OpenTimer2, interrupt, Filling, LoggedWindowIsMeasured
<1>3. ASSUME NEW logger \in BOOLEAN, Cpm(logger) PROVE GateInv'
  <2>1. logger => ~Filling
    BY <1>3, GeigerAssumption DEF Cpm, MayMeasure, Filling
  <2> QED
    BY <1>3, <2>1 DEF Cpm, interrupt, Filling, LoggedWindowIsMeasured
<1>4. CASE AddSlot
  BY <1>4 DEF AddSlot, interrupt, Filling, LoggedWindowIsMeasured
<1>5. CASE CpmReturns
  BY <1>5 DEF CpmReturns, interrupt, Filling, LoggedWindowIsMeasured
<1> QED
  BY <1>1, <1>2, <1>3, <1>4, <1>5 DEF Main

\* Every step keeps the invariant.
LEMMA NextGate == GateInv /\ [GeigerNext]_geigervars => GateInv'
<1> SUFFICES ASSUME GateInv, [GeigerNext]_geigervars PROVE GateInv'
  OBVIOUS
<1>1. CASE Pulse \/ UNCHANGED geigervars
  BY <1>1 DEF Pulse, geigervars, interrupt, main, GateInv, Filling, LoggedWindowIsMeasured
<1> QED
  BY <1>1, ReadKeepsGate, ClearKeepsGate, MainKeepsGate DEF GeigerNext, _RtccHandler

(***************************************************************************)
(* A logger's measurement is of a full window, for every window size.      *)
(***************************************************************************)
THEOREM LoggersMeasureFullWindows == GeigerSpec => []LoggedWindowIsMeasured
<1>1. GateInv => LoggedWindowIsMeasured
  BY DEF GateInv
<1> QED
  BY <1>1, InitGate, NextGate, PTL DEF GeigerSpec

-----------------------------------------------------------------------------
\* The timer and its history, between the interrupt's halves or not.
PulseInv ==
  /\ TMR2 \in 0 .. Timer2Range - 1 /\ seen \in 0 .. MaxPulses /\ isr \in {"idle", "clear"}
  /\ CountedOnce

\* A pulse counts once, and the interrupt's clear only takes away.
LEMMA PulsesKeep == PulseInv /\ [GeigerNext]_geigervars => PulseInv'
<1> SUFFICES ASSUME PulseInv, [GeigerNext]_geigervars PROVE PulseInv'
  OBVIOUS
<1>1. Timer2Range \in Nat /\ Timer2Range > 1 /\ MaxPulses \in Nat
  BY GeigerAssumption
<1> USE DEF PulseInv, CountedOnce
<1>2. CASE Pulse
  <2>1. (TMR2 + 1) % Timer2Range \in 0 .. Timer2Range - 1
        /\ (TMR2 + 1) % Timer2Range <= TMR2 + 1
    BY <1>1
  <2> QED
    BY <1>1, <1>2, <2>1 DEF Pulse, interrupt
<1>3. CASE RtccReads
  BY <1>1, <1>3 DEF RtccReads
<1>4. CASE RtccClears
  BY <1>1, <1>4 DEF RtccClears
<1>5. CASE OpenTimer2
  BY <1>1, <1>5 DEF OpenTimer2, interrupt
<1>6. CASE ClearSlot \/ (\E logger \in BOOLEAN : Cpm(logger)) \/ AddSlot \/ CpmReturns
  BY <1>6 DEF ClearSlot, Cpm, AddSlot, CpmReturns, interrupt
<1>7. CASE UNCHANGED geigervars
  BY <1>7 DEF geigervars, interrupt
<1> QED
  BY <1>2, <1>3, <1>4, <1>5, <1>6, <1>7 DEF GeigerNext, _RtccHandler, Main

(***************************************************************************)
(* No pulse is counted in two seconds, although they come between the      *)
(* interrupt's read and its clear as well.                                 *)
(***************************************************************************)
THEOREM NoPulseCountedTwice == GeigerSpec => []CountedOnce
<1>1. GeigerInit => PulseInv
  BY GeigerAssumption DEF GeigerInit, PulseInv, CountedOnce
<1>2. PulseInv => CountedOnce
  BY DEF PulseInv
<1> QED
  BY <1>1, <1>2, PulsesKeep, PTL DEF GeigerSpec

-----------------------------------------------------------------------------
(***************************************************************************)
(* cpm() and the interrupt that may come in the middle of its loop.        *)
(***************************************************************************)

\* A window of counts.
Pulses == [Slot -> 0 .. Timer2Range - 1]
\* h holds the partial results of adding up the slots of w from a to b.
Loop(h, w, a, b) ==
  /\ h \in [0 .. Slots -> 0 .. CpmRange - 1]
  /\ \A k \in a + 1 .. b : h[k] = (h[k - 1] + w[k - 1]) % CpmRange

\* One turn of the loop.
LEMMA OneTurn ==
  ASSUME NEW w \in Pulses, NEW k \in 1 .. Slots, NEW v \in 0 .. CpmRange - 1
  PROVE  /\ k - 1 \in Slot /\ k - 1 \in 0 .. Slots
         /\ (v + w[k - 1]) % CpmRange \in 0 .. CpmRange - 1
<1>1. /\ Slots \in Nat /\ CpmRange \in Nat /\ CpmRange > 0
      /\ Timer2Range \in Nat /\ Timer2Range > 0
  BY GeigerAssumption
<1>2. k - 1 \in Slot /\ k - 1 \in 0 .. Slots
  BY <1>1 DEF Slot
<1>3. w[k - 1] \in Nat
  BY <1>1, <1>2 DEF Pulses
<1> DEFINE x == w[k - 1]
<1>4. x \in Nat
  BY <1>3
<1> HIDE DEF x
<1>5. (v + x) % CpmRange \in 0 .. CpmRange - 1
  BY <1>1, <1>4
<1> QED
  BY <1>2, <1>5 DEF x

\* There is such a loop from 0 over all slots, and it ends with Total.
LEMMA TotalIsLoop ==
  ASSUME NEW w \in Pulses
  PROVE  /\ \E h : Loop(h, w, 0, Slots) /\ h[0] = 0
         /\ \A h : Loop(h, w, 0, Slots) /\ h[0] = 0 => h[Slots] = Total(w)
<1> DEFINE V == 0 .. CpmRange - 1
           Turn(k, v) == (v + w[k - 1]) % CpmRange
           Is(f) == f = [n \in 0 .. Slots |-> IF n = 0 THEN 0 ELSE Turn(n, f[n - 1])]
           upto == CHOOSE f : Is(f)
           step == [k \in Nat |-> [v \in V |-> IF k \in 1 .. Slots THEN Turn(k, v) ELSE v]]
<1>0. Slots \in Nat /\ CpmRange \in Nat /\ CpmRange > 0
  BY GeigerAssumption
<1>1. ASSUME NEW k \in 1 .. Slots, NEW v \in V PROVE Turn(k, v) \in V
  BY OneTurn
<1>2. 0 \in V
  BY <1>0
<1> HIDE DEF V, Turn
<1>3. Steps(step, V)
  BY <1>1 DEF Steps
<1>4. PICK f : Reaches(f, V, 0, step, Slots)
  <2> HIDE DEF step
  <2> QED
    BY <1>0, <1>2, <1>3, Iterates, Zenon
<1>5. f \in [0 .. Slots -> V] /\ f[0] = 0
  BY <1>4 DEF Reaches
<1>6. ASSUME NEW k \in 1 .. Slots PROVE f[k] = Turn(k, f[k - 1])
  <2>1. f[k] = step[k][f[k - 1]]
    BY <1>4 DEF Reaches
  <2>2. k \in Nat /\ k - 1 \in 0 .. Slots
    BY <1>0
  <2>3. f[k - 1] \in V
    BY <1>5, <2>2
  <2> QED
    BY <2>1, <2>2, <2>3
<1>7. Loop(f, w, 0, Slots)
  <2>1. 0 + 1 = 1
    OBVIOUS
  <2> QED
    BY <1>5, <1>6, <2>1 DEF Loop, V, Turn
<1>8. Is(f)
  <2>1. ASSUME NEW n \in 0 .. Slots
        PROVE  f[n] = IF n = 0 THEN 0 ELSE Turn(n, f[n - 1])
    <3>1. CASE n = 0
      BY <1>5, <3>1
    <3>2. CASE n # 0
      <4>1. n \in 1 .. Slots
        BY <1>0, <3>2
      <4> QED
        BY <1>6, <3>2, <4>1
    <3> QED
      BY <3>1, <3>2
  <2> QED
    BY <1>5, <2>1
<1>9. Is(upto)
  BY <1>8, Zenon
<1>10. Total(w) = upto[Slots]
  BY DEF Total, Turn
<1> HIDE DEF upto
<1>11. ASSUME NEW h, Loop(h, w, 0, Slots), h[0] = 0 PROVE h[Slots] = upto[Slots]
  <2> DEFINE T == {m \in Nat : m <= Slots => h[m] = upto[m]}
  <2>1. \A n \in 0 .. Slots : upto[n] = IF n = 0 THEN 0 ELSE Turn(n, upto[n - 1])
    BY <1>9
  <2>2. 0 \in T
    BY <1>0, <1>11, <2>1
  <2>3. ASSUME NEW m \in T PROVE m + 1 \in T
    <3>1. SUFFICES ASSUME m + 1 <= Slots PROVE h[m + 1] = upto[m + 1]
      OBVIOUS
    <3> DEFINE k == m + 1
    <3>2. k \in 0 .. Slots /\ k # 0 /\ k \in 0 + 1 .. Slots /\ k - 1 = m /\ h[m] = upto[m]
      BY <1>0, <3>1
    <3> HIDE DEF k, T
    <3>3. h[k] = Turn(k, h[k - 1])
      BY <1>11, <3>2 DEF Loop, Turn
    <3>4. upto[k] = Turn(k, upto[k - 1])
      BY <2>1, <3>2
    <3>5. h[k] = upto[k]
      BY <3>2, <3>3, <3>4
    <3> QED
      BY <3>5 DEF k
  <2>4. T = Nat
    <3> HIDE DEF T
    <3>1. T \subseteq Nat
      BY DEF T
    <3> QED
      BY <2>2, <2>3, <3>1, Induct
  <2> QED
    BY <1>0, <2>4
<1> QED
  BY <1>5, <1>7, <1>10, <1>11

\* What was added up is the window's first slots as they are now.
SoFar == \E h : Loop(h, geiger_pulses, 0, slot) /\ h[0] = 0 /\ h[slot] = result
\* What is left of the window makes it the window as it was at the call.
AsAtCall ==
  \E h : Loop(h, geiger_pulses, slot, Slots) /\ h[slot] = result /\ h[Slots] = atCall

\* One of the two always holds while cpm() runs, and both until a tick.
CpmInv ==
  /\ geiger_pulses \in Pulses /\ slot \in 0 .. Slots
  /\ result \in 0 .. CpmRange - 1 /\ atCall \in 0 .. CpmRange - 1
  /\ mainAt \in {"geiger_init", "loop", "cpm"} /\ gated \in BOOLEAN /\ ticked \in BOOLEAN
  /\ mainAt = "cpm" => (SoFar \/ AsAtCall) /\ (~ticked => SoFar /\ AsAtCall)

\* A call starts with both.
LEMMA CallKeepsCpm ==
  ASSUME CpmInv, NEW logger \in BOOLEAN, Cpm(logger)
  PROVE  CpmInv'
<1>0. Slots \in Nat /\ CpmRange \in Nat /\ CpmRange > 0
  BY GeigerAssumption
<1>1. /\ geiger_pulses' = geiger_pulses /\ slot' = 0 /\ result' = 0
      /\ atCall' = Total(geiger_pulses) /\ mainAt' = "cpm"
      /\ gated' = logger /\ ticked' = FALSE
  BY DEF Cpm, interrupt, Window
<1>2. geiger_pulses \in Pulses
  BY DEF CpmInv
<1>3. PICK h : Loop(h, geiger_pulses, 0, Slots) /\ h[0] = 0
  BY <1>2, TotalIsLoop
<1>4. h[Slots] = Total(geiger_pulses) /\ h \in [0 .. Slots -> 0 .. CpmRange - 1]
  BY <1>2, <1>3, TotalIsLoop DEF Loop
<1>5. AsAtCall'
  BY <1>1, <1>3, <1>4 DEF AsAtCall
<1>6. SoFar'
  <2>1. Loop(h, geiger_pulses, 0, 0)
    BY <1>4 DEF Loop
  <2> QED
    BY <1>1, <1>3, <2>1 DEF SoFar
<1>7. atCall' \in 0 .. CpmRange - 1 /\ 0 \in 0 .. CpmRange - 1 /\ 0 \in 0 .. Slots
  BY <1>0, <1>1, <1>4
<1> QED
  BY <1>1, <1>2, <1>5, <1>6, <1>7 DEF CpmInv

\* A turn of cpm's loop keeps what there is of them.
LEMMA AddKeepsCpm == ASSUME CpmInv, AddSlot PROVE CpmInv'
<1>0. Slots \in Nat /\ CpmRange \in Nat /\ CpmRange > 0
  BY GeigerAssumption
<1> DEFINE k == slot + 1
<1>1. /\ geiger_pulses' = geiger_pulses /\ slot' = k /\ atCall' = atCall
      /\ mainAt = "cpm" /\ mainAt' = "cpm" /\ gated' = gated /\ ticked' = ticked
      /\ result' = (result + geiger_pulses[slot]) % CpmRange /\ slot < Slots
  BY DEF AddSlot, interrupt
<1>2. k \in 1 .. Slots /\ k - 1 = slot /\ slot \in 0 .. Slots /\ slot \in Nat /\ k \in 0 .. Slots
  BY <1>0, <1>1 DEF CpmInv
<1>3. result' = (result + geiger_pulses[k - 1]) % CpmRange
  BY <1>1, <1>2
<1>4. result' \in 0 .. CpmRange - 1
  BY <1>2, <1>3, OneTurn DEF CpmInv
<1>5. \A n : n \in 0 + 1 .. k <=> n \in 0 + 1 .. slot \/ n = k
  BY <1>2
<1>6. \A n \in 0 + 1 .. slot : n # k /\ n - 1 # k /\ n \in 0 .. Slots /\ n - 1 \in 0 .. Slots
  BY <1>0, <1>2
<1>7. \A n \in k + 1 .. Slots : n \in slot + 1 .. Slots
  BY <1>2
<1>8. k \in slot + 1 .. Slots
  BY <1>2
<1>9. k # k - 1 /\ k # 0
  BY <1>2
<1> HIDE DEF k
<1>10. ASSUME SoFar PROVE SoFar'
  <2>1. PICK h : Loop(h, geiger_pulses, 0, slot) /\ h[0] = 0 /\ h[slot] = result
    BY <1>10 DEF SoFar
  <2> DEFINE g == [h EXCEPT ![k] = result']
  <2>2. h \in [0 .. Slots -> 0 .. CpmRange - 1]
    BY <2>1 DEF Loop
  <2>3. /\ g \in [0 .. Slots -> 0 .. CpmRange - 1] /\ g[k] = result'
        /\ \A n \in 0 .. Slots : n # k => g[n] = h[n]
    BY <1>2, <1>4, <2>2
  <2> HIDE DEF g
  <2>4. g[0] = 0 /\ g[k - 1] = result
    BY <1>0, <1>2, <1>9, <2>1, <2>3
  <2>5. ASSUME NEW n \in 0 + 1 .. k
        PROVE  g[n] = (g[n - 1] + geiger_pulses[n - 1]) % CpmRange
    <3>1. CASE n = k
      BY <1>3, <2>3, <2>4, <3>1
    <3>2. CASE n \in 0 + 1 .. slot
      <4>1. g[n] = h[n] /\ g[n - 1] = h[n - 1]
        BY <1>6, <2>3, <3>2
      <4> QED
        BY <2>1, <3>2, <4>1 DEF Loop
    <3> QED
      BY <1>5, <3>1, <3>2
  <2>6. Loop(g, geiger_pulses, 0, k)
    BY <2>3, <2>5 DEF Loop
  <2> QED
    BY <1>1, <2>3, <2>4, <2>6 DEF SoFar
<1>11. ASSUME AsAtCall PROVE AsAtCall'
  <2>1. PICK h : Loop(h, geiger_pulses, slot, Slots) /\ h[slot] = result /\ h[Slots] = atCall
    BY <1>11 DEF AsAtCall
  <2>2. h[k] = result'
    BY <1>2, <1>3, <1>8, <2>1 DEF Loop
  <2>3. Loop(h, geiger_pulses, k, Slots)
    BY <1>7, <2>1 DEF Loop
  <2> QED
    BY <1>1, <2>1, <2>2, <2>3 DEF AsAtCall
<1> QED
  BY <1>1, <1>2, <1>4, <1>10, <1>11 DEF CpmInv

\* The interrupt changes a slot that was added up already, or one that was not.
LEMMA TickKeepsCpm ==
  ASSUME CpmInv, i \in Slot, TMR2 \in 0 .. Timer2Range - 1, RtccReads
  PROVE  CpmInv'
<1>0. Slots \in Nat
  BY GeigerAssumption
<1>1. /\ geiger_pulses' = [geiger_pulses EXCEPT ![i] = TMR2] /\ ticked' = TRUE
      /\ mainAt = "cpm" => ~ticked
      /\ UNCHANGED <<slot, result, atCall, mainAt, gated>>
  BY DEF RtccReads, main
<1>2. geiger_pulses' \in Pulses /\ \A s \in Slot : s # i => geiger_pulses'[s] = geiger_pulses[s]
  BY <1>1 DEF CpmInv, Pulses
<1>3. ASSUME mainAt = "cpm" PROVE SoFar' \/ AsAtCall'
  <2>1. SoFar /\ AsAtCall /\ slot \in 0 .. Slots
    BY <1>1, <1>3 DEF CpmInv
  <2>2. CASE i >= slot
    <3>1. PICK h : Loop(h, geiger_pulses, 0, slot) /\ h[0] = 0 /\ h[slot] = result
      BY <2>1 DEF SoFar
    <3>2. \A k \in 0 + 1 .. slot : k - 1 \in Slot /\ k - 1 # i
      BY <1>0, <2>1, <2>2 DEF Slot
    <3>3. Loop(h, geiger_pulses', 0, slot)
      BY <1>2, <3>1, <3>2 DEF Loop
    <3> QED
      BY <1>1, <3>1, <3>3 DEF SoFar
  <2>3. CASE i < slot
    <3>1. PICK h : Loop(h, geiger_pulses, slot, Slots) /\ h[slot] = result /\ h[Slots] = atCall
      BY <2>1 DEF AsAtCall
    <3>2. \A k \in slot + 1 .. Slots : k - 1 \in Slot /\ k - 1 # i
      BY <1>0, <2>1, <2>3 DEF Slot
    <3>3. Loop(h, geiger_pulses', slot, Slots)
      BY <1>2, <3>1, <3>2 DEF Loop
    <3> QED
      BY <1>1, <3>1, <3>3 DEF AsAtCall
  <2> QED
    BY <1>0, <2>1, <2>2, <2>3 DEF Slot
<1> QED
  BY <1>1, <1>2, <1>3 DEF CpmInv

\* Before the timer runs the slots are cleared.
LEMMA ClearKeepsCpm == ASSUME CpmInv, ClearSlot PROVE CpmInv'
<1>0. Slots \in Nat /\ Timer2Range \in Nat /\ Timer2Range > 0
  BY GeigerAssumption
<1>1. slot + 1 \in 0 .. Slots
  BY <1>0 DEF CpmInv, ClearSlot
<1>2. geiger_pulses' = [geiger_pulses EXCEPT ![slot] = 0] /\ 0 \in 0 .. Timer2Range - 1
  BY <1>0 DEF ClearSlot
<1>3. geiger_pulses' \in Pulses
  BY <1>2 DEF CpmInv, Pulses
<1> QED
  BY <1>1, <1>3 DEF CpmInv, ClearSlot

\* Every step keeps what there is.
LEMMA NextCpm ==
  ASSUME CpmInv, GateInv, PulseInv, [GeigerNext]_geigervars
  PROVE  CpmInv'
<1>1. CASE Pulse \/ RtccClears \/ UNCHANGED geigervars
  <2>1. UNCHANGED <<geiger_pulses, slot, result, atCall, mainAt, gated, ticked>>
    BY <1>1 DEF Pulse, RtccClears, geigervars, interrupt, main
  <2> QED
    BY <2>1 DEF CpmInv, SoFar, AsAtCall
<1>2. CASE RtccReads
  BY <1>2, TickKeepsCpm DEF GateInv, PulseInv
<1>3. CASE ClearSlot
  BY <1>3, ClearKeepsCpm
<1>4. CASE OpenTimer2 \/ CpmReturns
  BY <1>4 DEF CpmInv, OpenTimer2, CpmReturns, interrupt
<1>5. CASE \E logger \in BOOLEAN : Cpm(logger)
  BY <1>5, CallKeepsCpm
<1>6. CASE AddSlot
  BY <1>6, AddKeepsCpm
<1> QED
  BY <1>1, <1>2, <1>3, <1>4, <1>5, <1>6 DEF GeigerNext, _RtccHandler, Main

\* At its return there is nothing left to add.
LEMMA ReturnIsWindow == ASSUME CpmInv, CpmReturns PROVE result \in {atCall, Window}
<1>1. mainAt = "cpm" /\ slot = Slots /\ geiger_pulses \in Pulses
  BY DEF CpmReturns, CpmInv
<1>2. CASE SoFar
  BY <1>1, <1>2, TotalIsLoop DEF SoFar, Window
<1>3. CASE AsAtCall
  BY <1>1, <1>3 DEF AsAtCall
<1> QED
  BY <1>1, <1>2, <1>3 DEF CpmInv

\* The window, the gate and the timer together.
LEMMA GeigerInvariant == GeigerSpec => [](CpmInv /\ GateInv /\ PulseInv)
<1>1. GeigerInit => CpmInv /\ GateInv /\ PulseInv
  <2>1. GeigerInit => GateInv
    BY InitGate
  <2>2. GeigerInit => PulseInv
    BY GeigerAssumption DEF GeigerInit, PulseInv, CountedOnce
  <2>3. GeigerInit => CpmInv
    <3>1. 0 \in 0 .. Slots /\ 0 \in 0 .. CpmRange - 1 /\ 0 \in 0 .. Timer2Range - 1
      BY GeigerAssumption
    <3> QED
      BY <3>1 DEF GeigerInit, CpmInv, Pulses
  <2> QED
    BY <2>1, <2>2, <2>3
<1> QED
  BY <1>1, NextCpm, NextGate, PulsesKeep, PTL DEF GeigerSpec

(***************************************************************************)
(* Counter and window keep their widths, and the timer no pulse twice.     *)
(***************************************************************************)
THEOREM GeigerAlways == GeigerSpec => []GeigerInv
<1>1. CpmInv /\ GateInv /\ PulseInv => GeigerInv
  BY DEF CpmInv, GateInv, PulseInv, GeigerInv, GeigerTypeOK, Pulses
<1> QED
  BY <1>1, GeigerInvariant, PTL

(***************************************************************************)
(* What cpm() returns is the window as it was at its call or as it is at   *)
(* its return, although the interrupt changes a slot under it: for every   *)
(* size of window, wherever the loop and the window's end are.             *)
(***************************************************************************)
THEOREM CpmAlwaysTheWindow == GeigerSpec => CpmIsTheWindow
<1>1. CpmInv /\ [GeigerNext]_geigervars => [CpmReturns => result \in {atCall, Window}]_geigervars
  BY ReturnIsWindow
<1> QED
  BY <1>1, GeigerInvariant, PTL DEF GeigerSpec, CpmIsTheWindow

-----------------------------------------------------------------------------
(***************************************************************************)
(* Saves neither mix nor lose settings but those a power failure takes,    *)
(* for any number of words, values, pages and tokens.                      *)
(***************************************************************************)

\* The page has words, and 0 tells that none is being written.
LEMMA WordsNumber == /\ Words \in Nat /\ Words > 1
                     /\ 0 \in 0 .. Words /\ ~(0 > 0)
                     /\ \A n \in 0 .. Words : n = 0 \/ (n > 0 /\ n \in Word)
<1>1. Words \in Nat /\ Words > 1
  BY ConfigAssumption
<1> QED
  BY <1>1 DEF Word

\* A blank page and the factory settings are pages.
LEMMA BlankPage == Blank \in Contents /\ Factory \in Contents /\ {Password, Address, Fallback} \subseteq Word
<1>1. Blank \in Contents
  BY DEF Blank, Contents
<1>2. Factory \in [Word -> Value]
  BY ConfigAssumption DEF Word
<1>3. Factory \in Contents
  BY <1>2 DEF Contents
<1>4. {Password, Address, Fallback} \subseteq Word
  BY ConfigAssumption DEF Word
<1> QED
  BY <1>1, <1>3, <1>4

\* A page with some words changed is a page.
LEMMA LaidIsAPage ==
  ASSUME NEW book \in Contents, NEW S, NEW v \in Value \union {Erased, Mixed}
  PROVE  Laid(book, S, v) \in Contents
BY DEF Laid, Contents

\* So are the default settings, whatever the address is.
LEMMA DefaultsAreAPage == ASSUME StoreTypeOK PROVE loadDefaultSettings \in Contents
<1>1. AppConfig.MyIPAddr \in Value \union {Erased, Mixed}
  BY DEF StoreTypeOK
<1> QED
  BY <1>1, BlankPage, LaidIsAPage DEF loadDefaultSettings

\* Changing words of what was accepted changes those of what the page is to hold.
LEMMA LaidIsKept ==
  ASSUME StoreTypeOK, NEW S \in SUBSET Word, NEW v \in Value,
         accepted' = Laid(accepted, S, v), lost' = lost \ S
  PROVE  Kept' = Laid(Kept, S, v)
BY DEF Laid, Kept

\* What is lost is nowhere once all words are saved.
LEMMA NothingLost ==
  ASSUME NEW data \in Contents, accepted' = data, lost' = {}
  PROVE  Kept' = data
BY DEF Kept, Contents

\* When nothing is being written, the flash is what it is to be.
LEMMA AtRest ==
  ASSUME StoreInv, writing = 0
  PROVE  flash = Kept
<1>1. flash \in [Word -> Value \union {Erased, Mixed}]
  BY DEF StoreInv, StoreTypeOK, Contents
<1>2. \A w \in Word : flash[w] = Kept[w]
  BY DEF StoreInv, FlashIsAccepted
<1> QED
  BY <1>1, <1>2 DEF Kept

\* A new device.
LEMMA InitStore == StoreInit => StoreInv
<1> SUFFICES ASSUME StoreInit PROVE StoreInv
  OBVIOUS
<1>1. StoreTypeOK
  <2>1. writing \in 0 .. Words
    BY WordsNumber DEF StoreInit
  <2>2. AppConfig \in [MyIPAddr : Value \union {Erased, Mixed}, DefaultIPAddr : Value \union {Erased, Mixed}]
    BY ConfigAssumption DEF StoreInit, Unset
  <2> QED
    BY <2>1, <2>2, BlankPage DEF StoreInit, StoreTypeOK
<1>2. FlashIsAccepted
  BY DEF StoreInit, FlashIsAccepted, Kept, Blank
<1>3. SettingsAreWhole /\ SaveInv
  BY WordsNumber DEF StoreInit, SettingsAreWhole, SaveInv
<1> QED
  BY <1>1, <1>2, <1>3 DEF StoreInv

\* Starting a save of `data': the page is erased, nothing older is left.
LEMMA SaveStarts ==
  ASSUME NEW data \in Contents, eprom_write(data), Kept' = data
  PROVE  /\ flash' \in Contents /\ image' \in Contents
         /\ writing' \in 0 .. Words /\ writing' = 1 /\ image' = Kept'
         /\ FlashIsAccepted'
<1>1. Words \in Nat /\ Words > 1
  BY ConfigAssumption
<1>2. writing' = 1 /\ flash' = Blank /\ image' = data
  BY DEF eprom_write
<1>3. \A w \in Word : Blank[w] = Erased /\ ~(w < 1)
  BY <1>1 DEF Blank, Word
<1>4. FlashIsAccepted'
  BY <1>2, <1>3 DEF FlashIsAccepted
<1> QED
  BY <1>1, <1>2, <1>4, BlankPage

\* The defaults, saved whole.
LEMMA DefaultsAreSaved ==
  ASSUME StoreTypeOK, SaveDefaults
  PROVE  /\ flash' \in Contents /\ image' \in Contents /\ accepted' \in Contents
         /\ lost' \subseteq Word /\ writing' \in 0 .. Words /\ image' = Kept'
         /\ Kept' = loadDefaultSettings /\ FlashIsAccepted'
<1>1. loadDefaultSettings \in Contents
  BY DefaultsAreAPage
<1>2. eprom_write(loadDefaultSettings) /\ accepted' = loadDefaultSettings /\ lost' = {}
  BY DEF SaveDefaults
<1>3. Kept' = loadDefaultSettings
  BY <1>1, <1>2, NothingLost
<1> QED
  BY <1>1, <1>2, <1>3, SaveStarts

\* Every word is programmed once after the erase.
LEMMA WordKeepsStore == StoreInv /\ NVMWriteWord => StoreInv'
<1> SUFFICES ASSUME StoreInv, NVMWriteWord PROVE StoreInv'
  OBVIOUS
<1> USE DEF NVMWriteWord, StoreInv
<1>0. Words \in Nat /\ Words > 1
  BY ConfigAssumption
<1>a. writing \in Word /\ image = Kept
  <2>1. writing \in 0 .. Words /\ writing > 0
    BY DEF StoreTypeOK
  <2>2. writing \in Word
    BY <2>1, WordsNumber
  <2> QED
    BY <2>1, <2>2 DEF SaveInv
<1>1. /\ writing \in Word /\ flash[writing] = Erased /\ image = Kept
      /\ Words \in Nat
  BY <1>0, <1>a DEF FlashIsAccepted, Word
<1>2. flash' = [flash EXCEPT ![writing] = Kept[writing]]
  BY <1>1
<1>3. UNCHANGED <<config, AppConfig, token, form, restoring, accepted, lost, power>>
  BY DEF ram, web
<1>b. Kept' = Kept
  BY <1>3 DEF Kept
<1>4. StoreTypeOK'
  <2>1. Kept[writing] \in Value \union {Erased, Mixed}
    BY <1>1 DEF StoreTypeOK, Contents, Kept
  <2>2. flash' \in Contents /\ image' \in Contents
    BY <1>1, <1>2, <2>1, BlankPage DEF StoreTypeOK, Contents
  <2>3. writing' \in 0 .. Words
    BY <1>1 DEF Word
  <2> QED
    BY <1>3, <2>2, <2>3 DEF StoreTypeOK
<1>5. FlashIsAccepted'
  <2> SUFFICES ASSUME NEW w \in Word
               PROVE  flash'[w] = IF writing' = 0 \/ w < writing' THEN Kept[w] ELSE Erased
    BY <1>b DEF FlashIsAccepted
  <2>1. flash'[w] = IF w = writing THEN Kept[w] ELSE flash[w]
    BY <1>1, <1>2 DEF StoreTypeOK, Contents
  <2>2. flash[w] = IF w < writing THEN Kept[w] ELSE Erased
    BY DEF FlashIsAccepted
  <2> QED
    BY <1>1, <2>1, <2>2 DEF Word
<1>6. SettingsAreWhole' /\ SaveInv'
  BY <1>1, <1>3, <1>b DEF SettingsAreWhole, SaveInv
<1> QED
  BY <1>4, <1>5, <1>6

\* Booting reads the page, and saves the defaults when it is blank.
LEMMA BootKeepsStore == StoreInv /\ CheckAndLoadDefaults => StoreInv'
<1> SUFFICES ASSUME StoreInv, CheckAndLoadDefaults PROVE StoreInv'
  OBVIOUS
<1>1. CASE StartStack
  <2>1. Address \in Word /\ Fallback \in Word
    BY BlankPage
  <2>2. AppConfig' \in [MyIPAddr : Value \union {Erased, Mixed}, DefaultIPAddr : Value \union {Erased, Mixed}]
    BY <1>1, <2>1 DEF StartStack, StoreInv, StoreTypeOK, Contents
  <2>3. UNCHANGED <<flash, config, writing, image, token, form, restoring, accepted, lost>> /\ power' = "running"
    BY <1>1 DEF StartStack, web
  <2>4. Kept' = Kept
    BY <2>3 DEF Kept
  <2> QED
    BY <2>2, <2>3, <2>4 DEF StoreInv, StoreTypeOK, FlashIsAccepted, SettingsAreWhole, SaveInv
<1>2. CASE CheckDefaults
  <2>1. writing = 0 /\ flash = Kept
    <3>1. writing = 0
      BY <1>2, WordsNumber DEF CheckDefaults, StoreInv, SaveInv, StoreTypeOK
    <3> QED
      BY <3>1, AtRest
  <2>2. UNCHANGED <<AppConfig, token, form, restoring>> /\ power' = "boot"
    BY <1>2 DEF CheckDefaults, web
  <2>3. CASE flash = Blank
    <3>1. StoreTypeOK /\ SaveDefaults /\ config' = loadDefaultSettings
      BY <1>2, <2>3 DEF CheckDefaults, StoreInv
    <3>2. /\ flash' \in Contents /\ image' \in Contents /\ accepted' \in Contents
          /\ lost' \subseteq Word /\ writing' \in 0 .. Words /\ image' = Kept'
          /\ Kept' = loadDefaultSettings /\ FlashIsAccepted'
      BY <3>1, DefaultsAreSaved
    <3>3. loadDefaultSettings \in Contents
      BY <3>1, DefaultsAreAPage
    <3>4. StoreTypeOK'
      BY <2>2, <3>1, <3>2, <3>3 DEF StoreTypeOK
    <3> QED
      BY <2>2, <3>1, <3>2, <3>4 DEF StoreInv, SettingsAreWhole, SaveInv
  <2>4. CASE flash # Blank
    <3>1. config' = flash /\ UNCHANGED <<flash, writing, image, accepted, lost>>
      BY <1>2, <2>4 DEF CheckDefaults
    <3>2. Kept' = Kept
      BY <3>1 DEF Kept
    <3>3. StoreTypeOK' /\ FlashIsAccepted'
      BY <1>2, <2>2, <3>1, <3>2 DEF CheckDefaults, StoreInv, StoreTypeOK, FlashIsAccepted
    <3> QED
      BY <2>1, <2>2, <3>1, <3>2, <3>3, WordsNumber DEF StoreInv, SettingsAreWhole, SaveInv
  <2> QED
    BY <2>3, <2>4
<1> QED
  BY <1>1, <1>2 DEF CheckAndLoadDefaults

\* A restart leaves the page as it is: what a save has not reached is lost.
LEMMA RestartKeepsStore == StoreInv /\ Restart => StoreInv'
<1> SUFFICES ASSUME StoreInv, Restart PROVE StoreInv'
  OBVIOUS
<1>1. /\ writing' = 0 /\ power' = "off" /\ UNCHANGED <<flash, form, accepted>>
      /\ lost' = lost \union {w \in Word : writing > 0 /\ w >= writing}
  BY DEF Restart
<1>2. StoreTypeOK'
  <2>1. writing' \in 0 .. Words
    BY <1>1, WordsNumber
  <2>2. AppConfig' \in [MyIPAddr : Value \union {Erased, Mixed}, DefaultIPAddr : Value \union {Erased, Mixed}]
    BY ConfigAssumption DEF Restart, Unset
  <2> QED
    BY <1>1, <2>1, <2>2, BlankPage DEF Restart, StoreInv, StoreTypeOK
<1>3. FlashIsAccepted'
  <2> SUFFICES ASSUME NEW w \in Word PROVE flash[w] = Kept'[w]
    BY <1>1 DEF FlashIsAccepted
  <2>a. Words \in Nat /\ writing \in 0 .. Words
    BY WordsNumber DEF StoreInv, StoreTypeOK
  <2>1. writing \in Nat /\ w \in Nat
    BY <2>a DEF Word
  <2>2. flash[w] = IF writing = 0 \/ w < writing THEN Kept[w] ELSE Erased
    BY DEF StoreInv, FlashIsAccepted
  <2>3. Kept[w] = IF w \in lost THEN Erased ELSE accepted[w]
    BY DEF Kept
  <2>4. Kept'[w] = IF w \in lost' THEN Erased ELSE accepted[w]
    BY <1>1 DEF Kept
  <2>5. CASE writing = 0 \/ w < writing
    <3>1. ~(writing > 0 /\ w >= writing)
      BY <2>1, <2>5
    <3> QED
      BY <1>1, <2>2, <2>3, <2>4, <2>5, <3>1
  <2>6. CASE ~(writing = 0 \/ w < writing)
    <3>1. writing > 0 /\ w >= writing
      BY <2>1, <2>6
    <3> QED
      BY <1>1, <2>2, <2>4, <2>6, <3>1
  <2> QED
    BY <2>5, <2>6
<1> QED
  BY <1>1, <1>2, <1>3, WordsNumber DEF StoreInv, SettingsAreWhole, SaveInv

\* A new address in RAM changes nothing on the page.
LEMMA AddressKeepsStore ==
  ASSUME StoreInv, NEW granted \in Value \union {Erased, Mixed}, DHCPTask(granted)
  PROVE  StoreInv'
<1>1. UNCHANGED <<flash, config, writing, image, token, form, restoring, accepted, lost, power>>
  BY DEF DHCPTask, web
<1>2. AppConfig' \in [MyIPAddr : Value \union {Erased, Mixed}, DefaultIPAddr : Value \union {Erased, Mixed}]
  BY DEF DHCPTask, StoreInv, StoreTypeOK
<1>3. Kept' = Kept
  BY <1>1 DEF Kept
<1> QED
  BY <1>1, <1>2, <1>3 DEF StoreInv, StoreTypeOK, FlashIsAccepted, SettingsAreWhole, SaveInv

\* A form that is accepted saves its words and all others.
LEMMA FormKeepsStore ==
  ASSUME StoreInv, Idle, NEW S \in SUBSET Word, NEW v \in Value, Save(flash, S, v)
  PROVE  StoreInv'
<1>1. StoreTypeOK /\ flash = Kept /\ flash \in Contents /\ accepted \in Contents
  BY AtRest DEF Idle, StoreInv, StoreTypeOK
<1>2. /\ eprom_write(Laid(flash, S, v)) /\ accepted' = Laid(accepted, S, v) /\ lost' = lost \ S
      /\ UNCHANGED <<config, AppConfig, power, token, form, restoring>>
  BY DEF Save, ram, web
<1>3. Kept' = Laid(flash, S, v)
  BY <1>1, <1>2, LaidIsKept
<1>4. Laid(flash, S, v) \in Contents /\ accepted' \in Contents
  BY <1>1, <1>2, LaidIsAPage
<1>5. /\ flash' \in Contents /\ image' \in Contents
      /\ writing' \in 0 .. Words /\ image' = Kept' /\ FlashIsAccepted'
  BY <1>2, <1>3, <1>4, SaveStarts
<1>6. StoreTypeOK'
  BY <1>1, <1>2, <1>4, <1>5 DEF StoreTypeOK
<1>7. power' = "running"
  BY <1>2 DEF Idle
<1> QED
  BY <1>5, <1>6, <1>7 DEF StoreInv, SettingsAreWhole, SaveInv

\* A request changes the settings by a whole save, or not at all.
LEMMA RequestKeepsStore ==
  ASSUME StoreInv, NEW p \in Page, Request(p)
  PROVE  StoreInv'
<1>1. ASSUME NEW t \in Token, HTTPPrint_configToken(p, t) PROVE StoreInv'
  <2>1. UNCHANGED <<flash, config, AppConfig, power, writing, image, restoring, accepted, lost>>
    BY <1>1 DEF HTTPPrint_configToken, ram
  <2>2. Kept' = Kept
    BY <2>1 DEF Kept
  <2> QED
    BY <1>1, <2>1, <2>2 DEF HTTPPrint_configToken, StoreInv, StoreTypeOK, FlashIsAccepted, SettingsAreWhole, SaveInv
<1>2. CASE HTTPExecuteGet(p)
  <2>1. UNCHANGED <<flash, config, AppConfig, power, writing, image, token, form, accepted, lost>>
    BY <1>2 DEF HTTPExecuteGet, ram
  <2>2. Kept' = Kept
    BY <2>1 DEF Kept
  <2> QED
    BY <1>2, <2>1, <2>2 DEF HTTPExecuteGet, StoreInv, StoreTypeOK, FlashIsAccepted, SettingsAreWhole, SaveInv
<1>3. CASE HTTPPrint_restore(p)
  <2>1. /\ SaveDefaults /\ config' = loadDefaultSettings /\ restoring' = restoring \ {p}
        /\ UNCHANGED <<AppConfig, power, token, form>> /\ power = "running" /\ StoreTypeOK
    BY <1>3 DEF HTTPPrint_restore, Idle, StoreInv
  <2>2. /\ flash' \in Contents /\ image' \in Contents /\ accepted' \in Contents
        /\ lost' \subseteq Word /\ writing' \in 0 .. Words /\ image' = Kept' /\ FlashIsAccepted'
    BY <2>1, DefaultsAreSaved
  <2>3. StoreTypeOK'
    BY <2>1, <2>2, DefaultsAreAPage DEF StoreTypeOK
  <2> QED
    BY <2>1, <2>2, <2>3 DEF StoreInv, SettingsAreWhole, SaveInv
<1>4. ASSUME NEW w \in Word, NEW v \in Value, HTTPPostConfig(p, w, v) PROVE StoreInv'
  <2>1. SetBy(w) \in SUBSET Word
    BY BlankPage DEF SetBy
  <2> QED
    BY <1>4, <2>1, FormKeepsStore DEF HTTPPostConfig
<1>5. ASSUME NEW old \in Value, NEW new \in Value, HTTPPostPass(p, old, new) PROVE StoreInv'
  <2>1. {Password} \in SUBSET Word
    BY BlankPage
  <2> QED
    BY <1>5, <2>1, FormKeepsStore DEF HTTPPostPass
<1> QED
  BY <1>1, <1>2, <1>3, <1>4, <1>5 DEF Request

\* Every step keeps the invariant.
LEMMA NextStore == StoreInv /\ [StoreNext]_storevars => StoreInv'
<1> SUFFICES ASSUME StoreInv, [StoreNext]_storevars PROVE StoreInv'
  OBVIOUS
<1>1. CASE UNCHANGED storevars
  <2>1. UNCHANGED <<flash, config, AppConfig, power, writing, image, token, form, restoring, accepted, lost>>
    BY <1>1 DEF storevars, ram, web
  <2>2. Kept' = Kept
    BY <2>1 DEF Kept
  <2> QED
    BY <2>1, <2>2 DEF StoreInv, StoreTypeOK, FlashIsAccepted, SettingsAreWhole, SaveInv
<1>2. CASE StackTaskUnlinked
  <2>1. AppConfig.DefaultIPAddr \in Value \union {Erased, Mixed}
    BY DEF StoreInv, StoreTypeOK
  <2> QED
    BY <1>2, <2>1, AddressKeepsStore DEF StackTaskUnlinked
<1> QED
  BY <1>1, <1>2, WordKeepsStore, BootKeepsStore, RestartKeepsStore, RequestKeepsStore,
     AddressKeepsStore DEF StoreNext

(***************************************************************************)
(* The page, the copies in RAM, tokens and forms keep their types.         *)
(***************************************************************************)
THEOREM StoreTypeCorrect == StoreSpec => []StoreTypeOK
<1>1. StoreInv => StoreTypeOK
  BY DEF StoreInv
<1> QED
  BY <1>1, InitStore, NextStore, PTL DEF StoreSpec

(***************************************************************************)
(* No save loses another's settings, over any number of saves and restarts;*)
(* a power failure inside a save takes the words not reached, and only     *)
(* them.  A restore accepts the running address as the fallback.           *)
(***************************************************************************)
THEOREM FlashAlwaysAccepted == StoreSpec => []FlashIsAccepted
<1>1. StoreInv => FlashIsAccepted
  BY DEF StoreInv
<1> QED
  BY <1>1, InitStore, NextStore, PTL DEF StoreSpec

(***************************************************************************)
(* The device always starts on the settings last accepted, but for those   *)
(* that cut saves took.                                                    *)
(***************************************************************************)
THEOREM SettingsAlwaysWhole == StoreSpec => []SettingsAreWhole
<1>1. StoreInv => SettingsAreWhole
  BY DEF StoreInv
<1> QED
  BY <1>1, InitStore, NextStore, PTL DEF StoreSpec

-----------------------------------------------------------------------------
(***************************************************************************)
(* The keys: what is left in the timers never shortens a press or an       *)
(* interval, although the clock wraps.                                     *)
(***************************************************************************)

\* The time since t is a number of the clock, whichever of the two is smaller.
LEMMA TimeSince ==
  ASSUME NEW n \in Nat, n > 1, NEW m \in 0 .. n - 1, NEW t \in 0 .. n - 1
  PROVE  (m - t) % n = IF t <= m THEN m - t ELSE m - t + n
<1>1. ASSUME NEW x \in 0 .. n - 1 PROVE x % n = x
  BY <1>1, Increment
<1>2. CASE t <= m
  <2>1. m - t \in 0 .. n - 1
    BY <1>2
  <2> QED
    BY <1>1, <1>2, <2>1
<1>3. CASE ~(t <= m)
  <2>1. m - t + n \in 0 .. n - 1 /\ m - t \in -(n - 1) .. -1
    BY <1>3
  <2> DEFINE y == m - t
  <2>2. y \in Int /\ y < 0 /\ y + n > 0 /\ y + n < n
    BY <2>1
  <2> HIDE DEF y
  <2>3. y % n = y + n
    BY <2>2
  <2> QED
    BY <1>3, <2>3 DEF y
<1> QED
  BY <1>2, <1>3

\* A millisecond later it is one more, or starts again.
LEMMA TimeGoesOn ==
  ASSUME NEW n \in Nat, n > 1, NEW m \in 0 .. n - 1, NEW t \in 0 .. n - 1
  PROVE  LET s == (m - t) % n
         IN  /\ s \in 0 .. n - 1
             /\ (((m + 1) % n) - t) % n = IF s = n - 1 THEN 0 ELSE s + 1
<1> DEFINE s == (m - t) % n
           m1 == (m + 1) % n
<1>1. s = IF t <= m THEN m - t ELSE m - t + n
  BY TimeSince
<1>2. m1 \in 0 .. n - 1 /\ m1 = IF m = n - 1 THEN 0 ELSE m + 1
  BY Increment
<1>3. (m1 - t) % n = IF t <= m1 THEN m1 - t ELSE m1 - t + n
  <2> HIDE DEF m1
  <2> QED
    BY <1>2, TimeSince
<1> DEFINE s1 == (m1 - t) % n
<1> HIDE DEF s, m1, s1
<1>4. s1 = IF t <= m1 THEN m1 - t ELSE m1 - t + n
  BY <1>3 DEF s1
<1>5. s \in 0 .. n - 1 /\ s1 = IF s = n - 1 THEN 0 ELSE s + 1
  BY <1>1, <1>2, <1>4
<1> QED
  BY <1>5 DEF s, s1, m1

\* What the assumptions say of the clock
LEMMA ClockSizes ==
  /\ ClockRange \in Nat /\ ClockRange > 1 /\ Debounce \in Nat /\ LongPress \in Nat /\ Lasts \in Nat
  /\ MaxGap \in Nat /\ LongPress < ClockRange /\ Lasts < ClockRange /\ 0 \in 0 .. ClockRange - 1
BY KeysAssumption

(***************************************************************************)
(* While a key waits for its release, the timer has run for no longer than *)
(* the key was down; and the backlight's timer, when it runs, tells how    *)
(* long ago the push was, as long as that can be told.                     *)
(***************************************************************************)
KeysInv ==
  /\ KeysTypeOK /\ BacklightLasts
  /\ btnState = "WAIT_LONG" => down /\ Since(btnTimer) <= held
  /\ backlight_timer # 0 /\ sincePush < Ever => Since(backlight_timer) = sincePush

\* Nothing is pressed at the start, and no push is remembered.
LEMMA InitKeys == KeysInit => KeysInv
<1> SUFFICES ASSUME KeysInit PROVE KeysInv
  OBVIOUS
<1>1. ClockRange \in Nat /\ ClockRange > 1 /\ Lasts < ClockRange /\ Lasts \in Nat /\ MaxGap \in Nat
  BY ClockSizes
<1>2. Ever = ClockRange /\ 0 \in 0 .. Ever /\ Ever \in 0 .. Ever
  BY <1>1 DEF Ever
<1>5. /\ millis \in 0 .. ClockRange - 1 /\ idle = 0 /\ btnState = "IDLE" /\ btnTimer = 0
      /\ backlight_timer = 0 /\ lit = FALSE /\ down = FALSE /\ held = 0 /\ sincePush = Ever
  BY DEF KeysInit
<1>6. 0 \in 0 .. ClockRange - 1 /\ 0 \in 0 .. MaxGap
  BY <1>1
<1>3. KeysTypeOK
  BY <1>2, <1>5, <1>6 DEF KeysTypeOK
<1>4. BacklightLasts
  BY <1>1, <1>2 DEF KeysInit, BacklightLasts
<1> QED
  BY <1>2, <1>3, <1>4 DEF KeysInit, KeysInv

\* Time goes on for the timers as it does for the histories.
LEMMA MillisecondKeeps == KeysInv /\ Millisecond => KeysInv'
<1> SUFFICES ASSUME KeysInv, Millisecond PROVE KeysInv'
  OBVIOUS
<1>1. /\ ClockRange \in Nat /\ ClockRange > 1 /\ Lasts < ClockRange /\ Lasts \in Nat
      /\ MaxGap \in Nat
  BY ClockSizes
<1>2. /\ millis \in 0 .. ClockRange - 1 /\ idle \in 0 .. MaxGap /\ btnTimer \in 0 .. ClockRange - 1
      /\ backlight_timer \in 0 .. ClockRange - 1 /\ held \in 0 .. ClockRange
      /\ sincePush \in 0 .. ClockRange
  BY DEF KeysInv, KeysTypeOK, Ever
<1>3. /\ idle < MaxGap /\ idle' = idle + 1 /\ millis' = (millis + 1) % ClockRange
      /\ held' = (IF held < ClockRange THEN held + 1 ELSE held)
      /\ sincePush' = (IF sincePush < ClockRange THEN sincePush + 1 ELSE sincePush)
      /\ btnState' = btnState /\ btnTimer' = btnTimer /\ backlight_timer' = backlight_timer
      /\ lit' = lit /\ down' = down
  BY DEF Millisecond, Later, Ever, btn, light
<1>4. millis' \in 0 .. ClockRange - 1
  BY <1>1, <1>2, <1>3, Increment
<1>5. held' \in 0 .. ClockRange /\ sincePush' \in 0 .. ClockRange /\ idle' \in 0 .. MaxGap
  BY <1>1, <1>2, <1>3
<1>6. KeysTypeOK'
  BY <1>2, <1>3, <1>4, <1>5 DEF KeysInv, KeysTypeOK, Ever
<1>7. BacklightLasts'
  BY <1>1, <1>2, <1>3 DEF KeysInv, BacklightLasts
<1>8. ASSUME NEW t \in 0 .. ClockRange - 1
      PROVE  /\ (millis - t) % ClockRange \in 0 .. ClockRange - 1
             /\ (millis' - t) % ClockRange =
                  IF (millis - t) % ClockRange = ClockRange - 1 THEN 0
                  ELSE ((millis - t) % ClockRange) + 1
  BY <1>1, <1>2, <1>3, TimeGoesOn
<1>9. btnState' = "WAIT_LONG" => down' /\ (Since(btnTimer) <= held)'
  <2> SUFFICES ASSUME btnState' = "WAIT_LONG" PROVE down' /\ (Since(btnTimer) <= held)'
    OBVIOUS
  <2> DEFINE s == (millis - btnTimer) % ClockRange
             s1 == (millis' - btnTimer) % ClockRange
  <2>1. s \in 0 .. ClockRange - 1 /\ s1 = IF s = ClockRange - 1 THEN 0 ELSE s + 1
    BY <1>2, <1>8
  <2>2. down /\ s <= held
    BY <1>3 DEF KeysInv, Since
  <2> HIDE DEF s, s1
  <2>3. s1 <= held'
    BY <1>1, <1>2, <1>3, <2>1, <2>2
  <2> QED
    BY <1>3, <2>2, <2>3 DEF Since, s1
<1>10. backlight_timer' # 0 /\ sincePush' < Ever => (Since(backlight_timer) = sincePush)'
  <2> SUFFICES ASSUME backlight_timer' # 0, sincePush' < Ever
               PROVE  (Since(backlight_timer) = sincePush)'
    OBVIOUS
  <2> DEFINE s == (millis - backlight_timer) % ClockRange
             s1 == (millis' - backlight_timer) % ClockRange
  <2>1. s \in 0 .. ClockRange - 1 /\ s1 = IF s = ClockRange - 1 THEN 0 ELSE s + 1
    BY <1>2, <1>8
  <2>2. sincePush' < ClockRange
    BY DEF Ever
  <2>3. sincePush < ClockRange /\ sincePush' = sincePush + 1
    BY <1>1, <1>2, <1>3, <2>2
  <2>4. s = sincePush
    BY <1>3, <2>3 DEF KeysInv, Since, Ever
  <2> HIDE DEF s, s1
  <2>5. s1 = sincePush'
    BY <1>1, <1>2, <2>1, <2>2, <2>3, <2>4
  <2> QED
    BY <1>3, <2>5 DEF Since, s1
<1> QED
  BY <1>6, <1>7, <1>9, <1>10 DEF KeysInv

\* A pass of the main loop: a timer is set to now, or stays.
LEMMA HandleUiKeeps == KeysInv /\ HandleUi => KeysInv'
<1> SUFFICES ASSUME KeysInv, HandleUi PROVE KeysInv'
  OBVIOUS
<1>1. /\ ClockRange \in Nat /\ ClockRange > 1 /\ Lasts < ClockRange /\ Lasts \in Nat
      /\ MaxGap \in Nat /\ 0 \in 0 .. ClockRange - 1 /\ 0 \in 0 .. ClockRange /\ 0 \in 0 .. MaxGap
  BY ClockSizes
<1>2. /\ millis \in 0 .. ClockRange - 1 /\ btnTimer \in 0 .. ClockRange - 1
      /\ backlight_timer \in 0 .. ClockRange - 1 /\ held \in 0 .. ClockRange
      /\ sincePush \in 0 .. ClockRange /\ lit \in BOOLEAN /\ down \in BOOLEAN
  BY DEF KeysInv, KeysTypeOK, Ever
<1>3. PICK pressed \in BOOLEAN :
        /\ \/ Released(pressed)
           \/ /\ Press(pressed) \/ StillDown(pressed) \/ HeldLong(pressed) \/ ReleasedLate(pressed)
                 \/ Unmoved(pressed)
              /\ BacklightOff
        /\ idle' = 0 /\ down' = pressed /\ held' = IF pressed = down THEN held ELSE 0
        /\ UNCHANGED millis
  BY DEF HandleUi
<1>4. Since(millis) = 0
  <2>1. (millis - millis) % ClockRange = millis - millis
    BY <1>1, <1>2, TimeSince
  <2> QED
    BY <1>2, <2>1 DEF Since
<1>5. /\ btnTimer' \in 0 .. ClockRange - 1
      /\ btnState' \in {"IDLE", "DEBOUNCE", "WAIT_LONG", "WAIT_RELEASE"}
      /\ btnState' = "WAIT_LONG" => down' /\ btnTimer' \in {millis, btnTimer}
                                     /\ (btnTimer' # millis => btnState = "WAIT_LONG")
  <2>1. CASE Released(pressed)
    BY <1>2, <2>1 DEF Released
  <2>2. CASE Press(pressed) \/ StillDown(pressed) \/ HeldLong(pressed) \/ ReleasedLate(pressed)
    BY <1>1, <1>2, <1>3, <2>2 DEF Press, StillDown, HeldLong, ReleasedLate
  <2>3. CASE Unmoved(pressed)
    BY <1>2, <1>3, <2>3 DEF Unmoved, btn
  <2> QED
    BY <1>3, <2>1, <2>2, <2>3
<1>6. /\ held' \in {held, 0} /\ (down' = down => held' = held)
  BY <1>3
<1>7. btnState' = "WAIT_LONG" => down' /\ (Since(btnTimer) <= held)'
  <2> SUFFICES ASSUME btnState' = "WAIT_LONG" PROVE down' /\ (Since(btnTimer) <= held)'
    OBVIOUS
  <2>1. CASE btnTimer' = millis
    <3>1. Since(btnTimer)' = 0
      BY <1>3, <1>4, <2>1 DEF Since
    <3>2. 0 <= held'
      BY <1>2, <1>6
    <3> QED
      BY <1>5, <3>1, <3>2
  <2>2. CASE btnTimer' # millis
    <3>1. btnState = "WAIT_LONG" /\ btnTimer' = btnTimer /\ down'
      BY <1>5, <2>2
    <3>2. down /\ Since(btnTimer) <= held
      BY <3>1 DEF KeysInv
    <3>3. held' = held
      BY <1>2, <1>3, <3>1, <3>2
    <3>4. Since(btnTimer)' = Since(btnTimer)
      BY <1>3, <3>1 DEF Since
    <3> QED
      BY <3>1, <3>2, <3>3, <3>4
  <2> QED
    BY <2>1, <2>2
<1>8. /\ backlight_timer' \in 0 .. ClockRange - 1 /\ sincePush' \in 0 .. ClockRange /\ lit' \in BOOLEAN
      /\ sincePush' <= Lasts => lit'
      /\ backlight_timer' # 0 /\ sincePush' < Ever => Since(backlight_timer)' = sincePush'
  <2>1. CASE Released(pressed)
    <3>1. backlight_timer' = millis /\ lit' = TRUE /\ sincePush' = 0
      BY <2>1 DEF Released, Push
    <3>2. Since(backlight_timer)' = 0
      BY <1>3, <1>4, <3>1 DEF Since
    <3> QED
      BY <1>1, <1>2, <3>1, <3>2
  <2>2. CASE BacklightOff /\ backlight_timer # 0 /\ Since(backlight_timer) > Lasts
    <3>1. backlight_timer' = 0 /\ lit' = FALSE /\ sincePush' = sincePush
      BY <2>2 DEF BacklightOff
    <3>2. sincePush > Lasts
      <4>1. CASE sincePush < Ever
        BY <2>2, <4>1 DEF KeysInv
      <4>2. CASE ~(sincePush < Ever)
        BY <1>1, <1>2, <4>2 DEF Ever
      <4> QED
        BY <4>1, <4>2
    <3>3. ~(sincePush' <= Lasts)
      BY <1>1, <1>2, <3>1, <3>2
    <3>4. 0 \in 0 .. ClockRange - 1
      BY <1>1
    <3> QED
      BY <1>2, <3>1, <3>3, <3>4
  <2>3. CASE BacklightOff /\ ~(backlight_timer # 0 /\ Since(backlight_timer) > Lasts)
    <3>1. backlight_timer' = backlight_timer /\ lit' = lit /\ sincePush' = sincePush
      BY <2>3 DEF BacklightOff, light
    <3>2. Since(backlight_timer)' = Since(backlight_timer)
      BY <1>3, <3>1 DEF Since
    <3> QED
      BY <1>2, <3>1, <3>2 DEF KeysInv, BacklightLasts
  <2> QED
    BY <1>3, <2>1, <2>2, <2>3
<1>9. KeysTypeOK'
  BY <1>1, <1>2, <1>3, <1>5, <1>6, <1>8 DEF KeysTypeOK, Ever
<1>10. BacklightLasts'
  BY <1>8 DEF BacklightLasts
<1> QED
  BY <1>7, <1>8, <1>9, <1>10 DEF KeysInv

\* The invariant of the key and the backlight holds throughout.
LEMMA KeysInvariant == KeysSpec => []KeysInv
<1>1. KeysInv /\ [KeysNext]_keyvars => KeysInv'
  <2>1. KeysInv /\ UNCHANGED keyvars => KeysInv'
    BY DEF KeysInv, KeysTypeOK, BacklightLasts, Since, keyvars, btn, light
  <2> QED
    BY <2>1, MillisecondKeeps, HandleUiKeeps DEF KeysNext
<1> QED
  BY <1>1, InitKeys, PTL DEF KeysSpec

(***************************************************************************)
(* The backlight is on for five seconds after every push: for every width  *)
(* of the clock, wherever it stands and however long a pass takes.         *)
(***************************************************************************)
THEOREM BacklightAlwaysLasts == KeysSpec => [](KeysTypeOK /\ BacklightLasts)
<1>1. KeysInv => KeysTypeOK /\ BacklightLasts
  BY DEF KeysInv
<1> QED
  BY <1>1, KeysInvariant, PTL

(***************************************************************************)
(* A press counts as long only if the key was down at every sample for two *)
(* seconds, whatever an earlier contact left in the timer.                 *)
(***************************************************************************)
THEOREM LongPressAlwaysHeld == KeysSpec => LongPressIsHeld
<1>1. KeysInv /\ [KeysNext]_keyvars
        => [btnState' = "WAIT_RELEASE" /\ btnState # "WAIT_RELEASE" => down /\ held >= LongPress]_keyvars
  <2>1. SUFFICES ASSUME KeysInv, KeysNext, btnState' = "WAIT_RELEASE", btnState # "WAIT_RELEASE"
                 PROVE  down /\ held >= LongPress
    OBVIOUS
  <2>2. PICK pressed \in BOOLEAN : HeldLong(pressed)
    BY <2>1 DEF KeysNext, Millisecond, HandleUi, Press, StillDown, ReleasedLate, Unmoved, Released, btn
  <2>3. btnState = "WAIT_LONG" /\ Since(btnTimer) >= LongPress
    BY <2>2 DEF HeldLong
  <2>4. down /\ Since(btnTimer) <= held
    BY <2>1, <2>3 DEF KeysInv
  <2> DEFINE s == Since(btnTimer)
  <2>5. s \in 0 .. ClockRange - 1 /\ held \in 0 .. ClockRange
    BY <2>1, ClockSizes, TimeGoesOn DEF KeysInv, KeysTypeOK, Since, Ever
  <2> HIDE DEF s
  <2>6. s >= LongPress /\ s <= held
    BY <2>3, <2>4 DEF s
  <2>7. held >= LongPress
    BY <2>5, <2>6, ClockSizes
  <2> QED
    BY <2>4, <2>7
<1> QED
  BY <1>1, KeysInvariant, PTL DEF KeysSpec, LongPressIsHeld

-----------------------------------------------------------------------------
(***************************************************************************)
(* The calendar.  CalInv keeps the date s of the last answer: the chip has *)
(* counted on from it in its own month, or gone over into the next one.    *)
(* Until 2060: from then on the tens of tm_year do not fit the register.   *)
(***************************************************************************)

\* A date that gmtime gives.
Date == {d \in [year : FirstYear .. LastYear, mon : 0 .. 11, mday : 1 .. 31] :
           d.mday <= Length(d.year, d.mon)}

\* Day d of month m as mktime counts it.
DayNumber(y, m, d) == Mktime([year |-> y, mon |-> m, mday |-> d])

\* What SNTPClient writes, or the chip has counted up to.
Holds(y, m, d) == rtcc = [year |-> ByteToBcd(y), mon |-> ByteToBcd(m), mday |-> ByteToBcd(d)]

\* Month m and day d of a chip that was set to s and has counted n days.
CountedOn(s, m, d, n) ==
  \/ m = s.mon /\ d = s.mday + n
  \/ m = s.mon + 1 /\ \E e \in s.mday .. 31 : ChipMayEnd(s.mon, e) /\ d = n - (e - s.mday)

\* The clock and the date it was set to.
SetTo(s, m, d) ==
  /\ Holds(s.year, m, d) /\ CountedOn(s, m, d, stale)
  /\ Mktime(today) = Mktime(s) + stale
  /\ stale = 0 => today = s
  /\ stale = 1 => today = Following(s)

\* A clock that was never set is left alone.
CalInv ==
  /\ today \in Date /\ rtccSet \in BOOLEAN /\ stale \in 0 .. MaxStale
  /\ rtccSet => \E s \in Date, m \in 0 .. 12, d \in 1 .. 31 : SetTo(s, m, d)
  /\ ~rtccSet => Holds(0, 1, 1)

\* A byte is written in BCD and read back, up to 159.
LEMMA BcdBack == \A x \in 0 .. 159 : BcdToByte(ByteToBcd(x)) = x
BY DEF BcdToByte, ByteToBcd

\* The lengths of the months.
LEMMA Lengths ==
  ASSUME NEW y \in Nat, NEW m \in 0 .. 11
  PROVE  /\ Length(y, m) \in 28 .. 31
         /\ m = 1 => Length(y, m) = IF y % 4 = 0 THEN 29 ELSE 28
         /\ m \in {3, 5, 8, 10} => Length(y, m) = 30
         /\ m \notin {1, 3, 5, 8, 10} => Length(y, m) = 31
BY DEF Length

\* The days before the months.
LEMMA MonthByMonth ==
  ASSUME NEW y \in Nat, NEW m \in 0 .. 10
  PROVE  /\ DaysBefore(y, m + 1) = DaysBefore(y, m) + Length(y, m) /\ DaysBefore(y, m) \in Nat
         /\ DaysBefore(y, 0) = 0 /\ DaysBefore(y, 11) = 334 + (IF y % 4 = 0 THEN 1 ELSE 0)
<1> DEFINE b == <<0, 31, 59, 90, 120, 151, 181, 212, 243, 273, 304, 334>>
<1>1. /\ b[1] = 0 /\ b[2] = 31 /\ b[3] = 59 /\ b[4] = 90 /\ b[5] = 120 /\ b[6] = 151
      /\ b[7] = 181 /\ b[8] = 212 /\ b[9] = 243 /\ b[10] = 273 /\ b[11] = 304 /\ b[12] = 334
  OBVIOUS
<1>2. \A k \in 0 .. 11 : DaysBefore(y, k) = b[k + 1] + (IF k > 1 /\ y % 4 = 0 THEN 1 ELSE 0)
  BY DEF DaysBefore
<1> HIDE DEF b
<1>3. CASE m \in {0, 1, 2, 3, 4, 5}
  BY <1>1, <1>2, <1>3, Lengths
<1>4. CASE m \in {6, 7, 8, 9, 10}
  BY <1>1, <1>2, <1>4, Lengths
<1>5. DaysBefore(y, 0) = 0 /\ DaysBefore(y, 11) = 334 + (IF y % 4 = 0 THEN 1 ELSE 0)
  BY <1>1, <1>2
<1> QED
  BY <1>3, <1>4, <1>5

\* The days before the years.
LEMMA YearByYear ==
  ASSUME NEW y \in 101 .. 199
  PROVE  /\ (y + 1 - 101) \div 4 = (y - 101) \div 4 + (IF y % 4 = 0 THEN 1 ELSE 0)
         /\ (y - 101) \div 4 \in Nat
OBVIOUS

\* mktime counts the days of a month, and goes on with the next one.
LEMMA MonthAfterMonth ==
  ASSUME NEW y \in 101 .. 199, NEW m \in 0 .. 11
  PROVE  /\ DayNumber(y, m, 1) \in Int /\ DayNumber(y, m + 1, 1) = DayNumber(y, m, 1) + Length(y, m)
         /\ \A d \in Int : /\ DayNumber(y, m, d) = DayNumber(y, m, 1) + d - 1
                           /\ DayNumber(y, m + 1, d) = DayNumber(y, m + 1, 1) + d - 1
<1> DEFINE Years(x) == 365 * (x - 101) + (x - 101) \div 4
<1>1. /\ m \div 12 = 0 /\ m % 12 = m /\ 12 \div 12 = 1 /\ 12 % 12 = 0 /\ y \in Nat /\ m \in Nat
      /\ m < 11 => (m + 1) \div 12 = 0 /\ (m + 1) % 12 = m + 1
  OBVIOUS
<1>2. /\ Years(y) \in Int /\ Years(y + 1) \in Int
      /\ Years(y + 1) = Years(y) + 365 + (IF y % 4 = 0 THEN 1 ELSE 0)
  <2>1. /\ (y - 101) \div 4 \in Nat /\ (y + 1 - 101) \div 4 \in Nat
        /\ (y + 1 - 101) \div 4 = (y - 101) \div 4 + (IF y % 4 = 0 THEN 1 ELSE 0)
    BY YearByYear
  <2> QED
    BY <2>1
<1>3. DaysBefore(y, 11) = 334 + (IF y % 4 = 0 THEN 1 ELSE 0) /\ DaysBefore(y + 1, 0) = 0
      /\ DaysBefore(y, m) \in Nat
  <2>1. DaysBefore(y, 11) = 334 + (IF y % 4 = 0 THEN 1 ELSE 0) /\ DaysBefore(y + 1, 0) = 0
    <3>1. 0 \in 0 .. 10 /\ y + 1 \in Nat /\ y \in Nat
      OBVIOUS
    <3> QED
      BY <3>1, MonthByMonth
  <2>2. m < 11 => DaysBefore(y, m) \in Nat
    <3>1. m < 11 => m \in 0 .. 10
      OBVIOUS
    <3> QED
      BY <1>1, <3>1, MonthByMonth
  <2> QED
    BY <2>1, <2>2
<1>4. \A d \in Int : DayNumber(y, m, d) = Years(y) + DaysBefore(y, m) + d - 1
  BY <1>1, YearByYear DEF DayNumber, Mktime
<1>5. CASE m < 11
  <2>1. \A d \in Int : DayNumber(y, m + 1, d) = Years(y) + DaysBefore(y, m + 1) + d - 1
    <3> DEFINE x == m + 1
    <3>1. x \div 12 = 0 /\ x % 12 = x /\ y + 0 = y /\ x \in Int /\ y \in Int
      BY <1>1, <1>5
    <3> HIDE DEF x
    <3>2. \A d \in Int : DayNumber(y, x, d) = Years(y) + DaysBefore(y, x) + d - 1
      <4> SUFFICES ASSUME NEW d \in Int PROVE DayNumber(y, x, d) = Years(y) + DaysBefore(y, x) + d - 1
        OBVIOUS
      <4>1. DayNumber(y, x, d) = 365 * (y + x \div 12 - 101) + (y + x \div 12 - 101) \div 4
                                 + DaysBefore(y + x \div 12, x % 12) + d - 1
        BY <3>1 DEF DayNumber, Mktime
      <4> QED
        BY <3>1, <4>1
    <3> QED
      BY <3>2 DEF x
  <2>2. DaysBefore(y, m + 1) = DaysBefore(y, m) + Length(y, m) /\ Length(y, m) \in Int
    <3>1. m \in 0 .. 10
      BY <1>5
    <3>2. Length(y, m) \in 28 .. 31
      BY <1>1, Lengths
    <3>3. DaysBefore(y, m + 1) = DaysBefore(y, m) + Length(y, m)
      BY <1>1, <3>1, MonthByMonth, Zenon
    <3> QED
      BY <3>2, <3>3
  <2> HIDE DEF Years
  <2> QED
    BY <1>2, <1>3, <1>4, <2>1, <2>2
<1>6. CASE m = 11
  <2>1. \A d \in Int : DayNumber(y, m + 1, d) = Years(y + 1) + DaysBefore(y + 1, 0) + d - 1
    BY <1>1, <1>6, YearByYear DEF DayNumber, Mktime
  <2>2. Length(y, m) = 31
    BY <1>1, <1>6, Lengths
  <2> HIDE DEF Years
  <2> QED
    BY <1>2, <1>3, <1>4, <1>6, <2>1, <2>2
<1> QED
  BY <1>5, <1>6

\* The day after a date is a date, and mktime's next day.
LEMMA DayAfterDay ==
  ASSUME NEW d \in Date
  PROVE  /\ Following(d).year <= LastYear => Following(d) \in Date
         /\ Mktime(Following(d)) = Mktime(d) + 1
         /\ Mktime(d) \in Int
<1> DEFINE y == d.year
           m == d.mon
           k == d.mday
           n == Length(y, m)
<1>1. y \in 101 .. 199 /\ m \in 0 .. 11 /\ k \in 1 .. 31 /\ k <= n /\ n \in 28 .. 31 /\ y \in FirstYear .. LastYear
      /\ d = [year |-> y, mon |-> m, mday |-> k]
  BY CalendarAssumption, Lengths DEF Date
<1>2. Mktime(d) = DayNumber(y, m, k)
  BY <1>1 DEF DayNumber
<1> DEFINE next(a, b, c) == [year |-> a, mon |-> b, mday |-> c]
<1>3. ASSUME NEW a \in FirstYear .. LastYear, NEW b \in 0 .. 11, NEW c \in 1 .. 31, c <= Length(a, b)
      PROVE  next(a, b, c) \in Date
  BY <1>3 DEF Date
<1>4. ASSUME NEW a \in FirstYear .. LastYear, NEW b \in 0 .. 11 PROVE next(a, b, 1) \in Date
  <2>1. a \in Nat /\ 1 \in 1 .. 31
    BY CalendarAssumption
  <2>2. Length(a, b) \in 28 .. 31
    BY <2>1, Lengths
  <2>3. 1 <= Length(a, b)
    BY <2>2
  <2> HIDE DEF next
  <2> QED
    BY <1>3, <2>1, <2>3
<1>8. k < n \/ k = n
  BY <1>1
<1>9. Following(d) = IF k < n THEN next(y, m, k + 1) ELSE IF m < 11 THEN next(y, m + 1, 1)
                     ELSE next(y + 1, 0, 1)
  <2>1. d \in [year : FirstYear .. LastYear, mon : 0 .. 11, mday : 1 .. 31]
    BY DEF Date
  <2>2. [d EXCEPT !.mday = d.mday + 1] = next(y, m, k + 1)
    BY <2>1
  <2> HIDE DEF next
  <2> QED
    BY <2>2, Zenon DEF Following, next
<1>10. DayNumber(y + 1, 0, 1) = DayNumber(y, 12, 1)
  <2>1. 12 \div 12 = 1 /\ 12 % 12 = 0 /\ 0 \div 12 = 0 /\ 0 % 12 = 0 /\ y + 1 + 0 = y + 1
    BY <1>1
  <2> HIDE DEF y
  <2> QED
    BY <2>1 DEF DayNumber, Mktime
<1>11. \A a, b, c : Mktime(next(a, b, c)) = DayNumber(a, b, c)
  BY DEF DayNumber
<1>12. /\ DayNumber(y, m, 1) \in Int /\ DayNumber(y, m + 1, 1) = DayNumber(y, m, 1) + n
       /\ \A x \in Int : DayNumber(y, m, x) = DayNumber(y, m, 1) + x - 1
  <2> HIDE DEF y, m, k
  <2>1. y \in 101 .. 199 /\ m \in 0 .. 11
    BY <1>1
  <2> QED
    BY <2>1, MonthAfterMonth
<1> HIDE DEF y, m, k, n, next
<1>13. k \in Int /\ k + 1 \in Int /\ n \in Int /\ y \in Int
  BY <1>1
<1>14. DayNumber(y, m, k) = DayNumber(y, m, 1) + k - 1 /\ DayNumber(y, m, k + 1) = DayNumber(y, m, 1) + k
  BY <1>12, <1>13
<1>15. Mktime(d) \in Int
  BY <1>2, <1>12, <1>13, <1>14
<1>5. CASE k < n
  <2>1. Following(d) = next(y, m, k + 1)
    BY <1>5, <1>9
  <2>2. k + 1 \in 1 .. 31 /\ k + 1 <= n
    BY <1>1, <1>5
  <2>3. next(y, m, k + 1) \in Date
    BY <1>1, <1>3, <2>2 DEF n
  <2>4. Mktime(Following(d)) = DayNumber(y, m, k + 1)
    BY <1>11, <2>1
  <2> QED
    BY <1>2, <1>12, <1>13, <1>14, <1>15, <2>1, <2>3, <2>4
<1>6. CASE k = n /\ m < 11
  <2>1. Following(d) = next(y, m + 1, 1)
    BY <1>6, <1>9, <1>13
  <2>2. Mktime(Following(d)) = DayNumber(y, m + 1, 1)
    BY <1>11, <2>1
  <2>3. m + 1 \in 0 .. 11
    BY <1>1, <1>6
  <2>4. next(y, m + 1, 1) \in Date
    BY <1>1, <1>4, <2>3
  <2> QED
    BY <1>2, <1>6, <1>12, <1>13, <1>14, <1>15, <2>1, <2>2, <2>4
<1>7. CASE k = n /\ m = 11
  <2>1. Following(d) = next(y + 1, 0, 1)
    BY <1>7, <1>9, <1>13
  <2>2. Following(d).year = y + 1
    BY <2>1 DEF next
  <2>3. Mktime(Following(d)) = DayNumber(y, m + 1, 1)
    BY <1>7, <1>10, <1>11, <2>1
  <2>4. y + 1 <= LastYear => y + 1 \in FirstYear .. LastYear /\ 0 \in 0 .. 11
    BY <1>1, CalendarAssumption
  <2>5. y + 1 <= LastYear => next(y + 1, 0, 1) \in Date
    BY <1>4, <2>4
  <2> QED
    BY <1>2, <1>7, <1>12, <1>13, <1>14, <1>15, <2>1, <2>2, <2>3, <2>5
<1>16. m < 11 \/ m = 11
  BY <1>1
<1> QED
  BY <1>5, <1>6, <1>7, <1>8, <1>15, <1>16

\* A clock that was just set shows the date.
LEMMA SetToToday ==
  ASSUME CalInv, RtccSetTimeDate PROVE CalInv'
<1> DEFINE s == today
<1>1. s \in Date /\ s.mon \in 0 .. 12 /\ s.mday \in 1 .. 31 /\ Mktime(s) \in Int /\ s.mday + 0 = s.mday
      /\ Mktime(s) + 0 = Mktime(s)
  BY DayAfterDay DEF CalInv, Date
<1>2. today' = s /\ rtccSet' = TRUE /\ stale' = 0 /\ Holds(s.year, s.mon, s.mday)'
  BY DEF RtccSetTimeDate, Holds
<1>3. CountedOn(s, s.mon, s.mday, 0)
  BY <1>1 DEF CountedOn
<1>4. SetTo(s, s.mon, s.mday)'
  BY <1>1, <1>2, <1>3 DEF SetTo
<1>5. 0 \in 0 .. MaxStale
  BY CalendarAssumption
<1> QED
  BY <1>1, <1>2, <1>4, <1>5 DEF CalInv

\* The chip in a day: it counts on from the date that it was set to.
LEMMA ChipGoesOn ==
  ASSUME NEW s \in Date, NEW n \in 0 .. 29, NEW m \in 0 .. 12, NEW d \in 1 .. 31, CountedOn(s, m, d, n)
  PROVE  /\ ChipMayGoOn(m, d) => d + 1 \in 1 .. 31 /\ CountedOn(s, m, d + 1, n + 1)
         /\ ChipMayEnd(m, d) /\ m < 12 => m + 1 \in 0 .. 12 /\ CountedOn(s, m + 1, 1, n + 1)
<1>1. s.mon \in 0 .. 11 /\ s.mday \in 1 .. 31 /\ s.mday <= Length(s.year, s.mon) /\ s.year \in Nat
  BY CalendarAssumption DEF Date
<1> DEFINE mo == s.mon
           k == s.mday
<1>2. mo = 1 => k <= 29
  BY <1>1, Lengths
<1> HIDE DEF mo, k
<1>3. mo \in 0 .. 11 /\ k \in 1 .. 31
  BY <1>1 DEF mo, k
<1>4. ASSUME ChipMayGoOn(m, d) PROVE d + 1 \in 1 .. 31 /\ CountedOn(s, m, d + 1, n + 1)
  <2>1. d < 31
    BY <1>4 DEF ChipMayGoOn
  <2>2. CASE m = mo /\ d = k + n
    <3>1. d + 1 = k + (n + 1)
      BY <1>3, <2>2
    <3> QED
      BY <2>1, <2>2, <3>1 DEF CountedOn, mo, k
  <2>3. ASSUME m = mo + 1, NEW e \in k .. 31, ChipMayEnd(mo, e), d = n - (e - k)
        PROVE  CountedOn(s, m, d + 1, n + 1)
    <3>1. d + 1 = (n + 1) - (e - k)
      BY <1>3, <2>3
    <3> QED
      BY <2>3, <3>1 DEF CountedOn, mo, k
  <2> QED
    BY <2>1, <2>2, <2>3 DEF CountedOn, mo, k
<1>5. ASSUME ChipMayEnd(m, d), m < 12 PROVE m + 1 \in 0 .. 12 /\ CountedOn(s, m + 1, 1, n + 1)
  <2>1. CASE m = mo /\ d = k + n
    <3>1. d \in k .. 31 /\ 1 = (n + 1) - (d - k)
      BY <1>3, <2>1
    <3>2. CountedOn(s, mo + 1, 1, n + 1)
      BY <1>5, <2>1, <3>1 DEF CountedOn, mo, k
    <3> QED
      BY <1>5, <2>1, <3>2
  <2>2. ASSUME m = mo + 1, NEW e \in k .. 31, ChipMayEnd(mo, e), d = n - (e - k)
        PROVE  FALSE
    <3>1. d <= 29 /\ m # 0
      BY <1>3, <2>2
    <3>2. m = 2 /\ d >= 28
      BY <1>5, <3>1 DEF ChipMayEnd
    <3>3. mo = 1
      BY <1>3, <2>2, <3>2
    <3>4. e = 31
      BY <2>2, <3>3 DEF ChipMayEnd
    <3> QED
      BY <1>2, <1>3, <2>2, <3>2, <3>3, <3>4
  <2> QED
    BY <1>5, <2>1, <2>2 DEF CountedOn, mo, k
<1> QED
  BY <1>4, <1>5

\* Every midnight.
LEMMA MidnightKeeps ==
  ASSUME CalInv, Midnight, LastYear <= 159 PROVE CalInv'
<1>1. today' = Following(today) /\ today'.year <= LastYear /\ today \in Date /\ rtccSet' = rtccSet
      /\ stale' = (IF rtccSet THEN stale + 1 ELSE 0) /\ stale \in 0 .. MaxStale
      /\ MaxStale \in 1 .. 30 /\ rtccSet \in BOOLEAN
  BY CalendarAssumption DEF CalInv, Midnight
<1>2. today' \in Date /\ Mktime(today') = Mktime(today) + 1 /\ Mktime(today) \in Int
  BY <1>1, DayAfterDay
<1>3. CASE ~rtccSet
  <2>1. stale' = 0 /\ ~rtccSet' /\ rtcc' = rtcc
    BY <1>1, <1>3 DEF Midnight, ChipCounts
  <2>2. 0 \in 0 .. MaxStale /\ Holds(0, 1, 1)'
    BY <1>1, <1>3, <2>1 DEF CalInv, Holds
  <2> QED
    BY <1>1, <1>2, <2>1, <2>2, <1>3 DEF CalInv
<1>4. CASE rtccSet
  <2>1. stale < MaxStale /\ stale' = stale + 1
    BY <1>1, <1>4 DEF Midnight
  <2>2. stale \in 0 .. 29 /\ stale' \in 0 .. MaxStale /\ stale' # 0
    BY <1>1, <2>1
  <2>3. PICK s \in Date, m \in 0 .. 12, d \in 1 .. 31 : SetTo(s, m, d)
    BY <1>4 DEF CalInv
  <2>4. Holds(s.year, m, d) /\ CountedOn(s, m, d, stale)
        /\ Mktime(today) = Mktime(s) + stale /\ (stale = 0 => today = s)
    BY <2>3 DEF SetTo
  <2>5. Mktime(s) \in Int
    BY DayAfterDay
  <2>6. Mktime(today') = Mktime(s) + stale'
    BY <1>1, <1>2, <2>1, <2>4, <2>5
  <2>7. stale' = 1 => today' = Following(s)
    BY <1>1, <2>1, <2>4
  <2>8. BcdToByte(rtcc.mon) = m /\ BcdToByte(rtcc.mday) = d
    BY <2>4, BcdBack DEF Holds
  <2>9. ASSUME NEW m2 \in 0 .. 12, NEW d2 \in 1 .. 31, CountedOn(s, m2, d2, stale + 1), Holds(s.year, m2, d2)'
        PROVE  CalInv'
    <3>1. SetTo(s, m2, d2)'
      BY <2>1, <2>2, <2>6, <2>7, <2>9 DEF SetTo
    <3> QED
      BY <1>1, <1>2, <1>4, <2>2, <3>1 DEF CalInv
  <2>10. CASE ChipMayGoOn(m, d) /\ rtcc' = [rtcc EXCEPT !.mday = ByteToBcd(d + 1)]
    <3>1. Holds(s.year, m, d + 1)'
      BY <2>4, <2>10 DEF Holds
    <3> QED
      BY <2>2, <2>4, <2>9, <2>10, <3>1, ChipGoesOn
  <2>11. CASE ChipMayEnd(m, d) /\ m < 12
              /\ rtcc' = [year |-> rtcc.year, mon |-> ByteToBcd(m + 1), mday |-> ByteToBcd(1)]
    <3>1. Holds(s.year, m + 1, 1)'
      BY <2>4, <2>11 DEF Holds
    <3>2. m + 1 \in 0 .. 12 /\ CountedOn(s, m + 1, 1, stale + 1)
      BY <2>2, <2>4, <2>11, ChipGoesOn
    <3>3. 1 \in 1 .. 31
      OBVIOUS
    <3> QED
      BY <2>9, <3>1, <3>2, <3>3
  <2> QED
    BY <1>4, <2>8, <2>10, <2>11 DEF Midnight, ChipCounts
<1> QED
  BY <1>1, <1>3, <1>4

\* What mktime makes of the registers, against today.
LEMMA HowFarAhead ==
  ASSUME CalInv, rtccSet, LastYear <= 159, NEW s \in Date, NEW m \in 0 .. 12, NEW d \in 1 .. 31, SetTo(s, m, d)
  PROVE  \/ Ahead = 0
         \/ \E e \in s.mday .. 31 : ChipMayEnd(s.mon, e) /\ Ahead = Length(s.year, s.mon) - e
                                    /\ stale >= 1 /\ (stale = 1 => e = s.mday)
<1> DEFINE y == s.year
           mo == s.mon
           k == s.mday
           len == Length(y, mo)
<1>1. /\ y \in 101 .. 159 /\ mo \in 0 .. 11 /\ k \in 1 .. 31 /\ s = [year |-> y, mon |-> mo, mday |-> k]
      /\ stale \in Nat
  BY CalendarAssumption DEF Date, CalInv
<1>2. /\ rtcc = [year |-> ByteToBcd(y), mon |-> ByteToBcd(m), mday |-> ByteToBcd(d)]
      /\ CountedOn(s, m, d, stale) /\ Mktime(today) = Mktime(s) + stale
  BY DEF SetTo, Holds
<1>3. RtccGetTm = [year |-> y, mon |-> m, mday |-> d]
  <2> HIDE DEF y
  <2>1. y \in 0 .. 159 /\ m \in 0 .. 159 /\ d \in 0 .. 159
    BY <1>1
  <2> QED
    BY <1>2, <2>1, BcdBack DEF RtccGetTm
<1>4. Ahead = DayNumber(y, m, d) - (DayNumber(y, mo, k) + stale)
  <2>1. Mktime(s) = DayNumber(y, mo, k)
    BY <1>1 DEF DayNumber
  <2> HIDE DEF y, mo, k
  <2> QED
    BY <1>2, <1>3, <2>1 DEF Ahead, DayNumber
<1> HIDE DEF y, mo, k
<1>5. len \in 28 .. 31
  BY <1>1, Lengths
<1>6. /\ DayNumber(y, mo, 1) \in Int /\ DayNumber(y, mo + 1, 1) = DayNumber(y, mo, 1) + len
      /\ DayNumber(y, mo, k) = DayNumber(y, mo, 1) + k - 1
      /\ DayNumber(y, mo, d) = DayNumber(y, mo, 1) + d - 1
      /\ DayNumber(y, mo + 1, d) = DayNumber(y, mo + 1, 1) + d - 1
  <2>1. y \in 101 .. 199 /\ mo \in 0 .. 11 /\ k \in Int /\ d \in Int
    BY <1>1
  <2> QED
    BY <2>1, MonthAfterMonth
<1> HIDE DEF len
<1>7. CASE m = mo /\ d = k + stale
  <2>1. Ahead = 0
    BY <1>1, <1>4, <1>6, <1>7
  <2> QED
    BY <2>1
<1>8. ASSUME m = mo + 1, NEW e \in k .. 31, ChipMayEnd(mo, e), d = stale - (e - k)
      PROVE  Ahead = len - e /\ stale >= 1 /\ (stale = 1 => e = k)
  BY <1>1, <1>4, <1>5, <1>6, <1>8
<1>9. (m = mo /\ d = k + stale) \/ \E e \in k .. 31 : m = mo + 1 /\ ChipMayEnd(mo, e) /\ d = stale - (e - k)
  BY <1>2 DEF CountedOn, mo, k
<1> QED
  BY <1>7, <1>8, <1>9 DEF mo, k, len, y

\* The registers have the types that BCD gives them.
LEMMA CalendarTypes == ASSUME CalInv PROVE CalendarTypeOK
<1>1. today \in [year : FirstYear .. LastYear, mon : 0 .. 11, mday : 1 .. 31]
  BY DEF CalInv, Date
<1>2. \E y \in 0 .. 199, m \in 0 .. 12, d \in 1 .. 31 : Holds(y, m, d)
  <2>1. CASE ~rtccSet
    <3>1. 0 \in 0 .. 199 /\ 1 \in 0 .. 12 /\ 1 \in 1 .. 31
      OBVIOUS
    <3> QED
      BY <2>1, <3>1 DEF CalInv
  <2>2. CASE rtccSet
    <3>1. PICK s \in Date, m \in 0 .. 12, d \in 1 .. 31 : SetTo(s, m, d)
      BY <2>2 DEF CalInv
    <3>2. s.year \in 0 .. 199
      BY CalendarAssumption DEF Date
    <3> QED
      BY <3>1, <3>2 DEF SetTo
  <2> QED
    BY <2>1, <2>2
<1>3. rtcc \in [year : InBcd(0 .. 199), mon : InBcd(0 .. 12), mday : InBcd(1 .. 31)]
  <2>1. PICK y \in 0 .. 199, m \in 0 .. 12, d \in 1 .. 31 : Holds(y, m, d)
    BY <1>2
  <2>2. ByteToBcd(y) \in InBcd(0 .. 199) /\ ByteToBcd(m) \in InBcd(0 .. 12) /\ ByteToBcd(d) \in InBcd(1 .. 31)
    BY DEF InBcd
  <2> QED
    BY <2>1, <2>2 DEF Holds
<1> QED
  BY <1>1, <1>3 DEF CalInv, CalendarTypeOK

\* What follows from CalInv.
LEMMA TrustTheClock ==
  ASSUME CalInv, LastYear <= 159 PROVE CalendarInv
<1>1. ASSUME rtccSet, Ahead # 0
      PROVE  \E s \in Date : \E e \in s.mday .. 31 :
               /\ ChipMayEnd(s.mon, e) /\ Ahead = Length(s.year, s.mon) - e
               /\ stale >= 1 /\ (stale = 1 => e = s.mday /\ today = Following(s))
  <2>1. PICK s \in Date, m \in 0 .. 12, d \in 1 .. 31 : SetTo(s, m, d)
    BY <1>1 DEF CalInv
  <2>2. stale = 1 => today = Following(s)
    BY <2>1 DEF SetTo
  <2> QED
    BY <1>1, <2>1, <2>2, HowFarAhead
<1>2. ASSUME rtccSet, Ahead # 0
      PROVE  /\ Ahead \in -3 .. 3 /\ stale # 0
             /\ stale <= 1 => \/ today.mon \in {0, 2} /\ today.mday >= 29
                              \/ today.mon \in {4, 6, 9, 11} /\ today.mday = 31
  <2>1. PICK s \in Date : \E e \in s.mday .. 31 :
               /\ ChipMayEnd(s.mon, e) /\ Ahead = Length(s.year, s.mon) - e
               /\ stale >= 1 /\ (stale = 1 => e = s.mday /\ today = Following(s))
    BY <1>2, <1>1
  <2>2. PICK e \in s.mday .. 31 :
               /\ ChipMayEnd(s.mon, e) /\ Ahead = Length(s.year, s.mon) - e
               /\ stale >= 1 /\ (stale = 1 => e = s.mday /\ today = Following(s))
    BY <2>1
  <2> DEFINE mo == s.mon
             k == s.mday
             len == Length(s.year, s.mon)
  <2>3. mo \in 0 .. 11 /\ k \in 1 .. 31 /\ k <= len /\ s.year \in Nat /\ stale \in Nat
        /\ s \in [year : FirstYear .. LastYear, mon : 0 .. 11, mday : 1 .. 31]
    BY CalendarAssumption DEF Date, CalInv
  <2>4. /\ len \in 28 .. 31 /\ (mo = 1 => len <= 29) /\ (mo \in {3, 5, 8, 10} => len = 30)
        /\ mo \notin {1, 3, 5, 8, 10} => len = 31
    BY <2>3, Lengths
  <2>5. Following(s) = IF k < len THEN [s EXCEPT !.mday = k + 1]
                       ELSE IF mo < 11 THEN [year |-> s.year, mon |-> mo + 1, mday |-> 1]
                       ELSE [year |-> s.year + 1, mon |-> 0, mday |-> 1]
    BY DEF Following
  <2>6. k < len => Following(s).mon = mo /\ Following(s).mday = k + 1
    BY <2>3, <2>5
  <2>7. ChipMayEnd(mo, e) /\ Ahead = len - e /\ e \in k .. 31 /\ stale >= 1
        /\ (stale = 1 => e = k /\ today = Following(s))
    BY <2>2
  <2> HIDE DEF mo, k, len
  <2>8. /\ e >= 28 /\ (mo \in {4, 6, 9, 11} => e >= 30)
        /\ mo \notin {0, 2, 4, 6, 9, 11} => e = 31
    BY <2>3, <2>7 DEF ChipMayEnd
  <2>9. Ahead \in -3 .. 3
    BY <2>3, <2>4, <2>7, <2>8
  <2>10. ASSUME stale = 1
         PROVE  k < len /\ mo \in {0, 2, 4, 6, 9, 11} /\ k >= 28 /\ (mo \in {4, 6, 9, 11} => k = 30)
    <3>1. e = k
      BY <2>7, <2>10
    <3>2. k < len
      BY <1>2, <2>3, <2>4, <2>7, <3>1
    <3> QED
      BY <2>3, <2>4, <2>8, <3>1, <3>2
  <2>11. stale <= 1 => stale = 1
    BY <2>3, <2>7
  <2>12. stale = 1 => \/ today.mon \in {0, 2} /\ today.mday >= 29
                      \/ today.mon \in {4, 6, 9, 11} /\ today.mday = 31
    BY <2>3, <2>6, <2>7, <2>10
  <2> QED
    BY <2>7, <2>9, <2>11, <2>12
<1> QED
  BY <1>2, CalendarTypes DEF CalendarInv, TimestampIsNear, WrongOnlyAtMonthEnd

(***************************************************************************)
(* CalendarInv: until 2060 the timestamp is right when the clock is set,   *)
(* three days off at most for a month, and with an answer a day wrong at   *)
(* the ends of some months only, for every span of years.                  *)
(***************************************************************************)
THEOREM CalendarAlways == ASSUME LastYear <= 159 PROVE CalendarSpec => []CalendarInv
<1>1. ASSUME CalendarInit PROVE CalInv
  <2>1. today \in [year : FirstYear .. FirstYear + 3, mon : {0}, mday : {1}] /\ rtccSet = FALSE
        /\ stale = 0 /\ rtcc = [year |-> 0, mon |-> 1, mday |-> 1]
    BY <1>1 DEF CalendarInit
  <2>2. ByteToBcd(0) = 0 /\ ByteToBcd(1) = 1
    BY DEF ByteToBcd
  <2>3. today.year \in FirstYear .. LastYear /\ today.mon = 0 /\ today.mday = 1
    BY <2>1, CalendarAssumption
  <2>4. Length(today.year, 0) = 31 /\ 0 \in 0 .. 11 /\ 1 \in 1 .. 31
    BY DEF Length
  <2>5. today \in Date
    BY <2>1, <2>3, <2>4 DEF Date
  <2> QED
    <3>1. Holds(0, 1, 1)
      BY <2>1, <2>2, Zenon DEF Holds
    <3>2. 0 \in 0 .. MaxStale
      BY CalendarAssumption
    <3> QED
      BY <2>1, <2>5, <3>1, <3>2 DEF CalInv
<1>2. ASSUME CalInv, [CalendarNext]_calendarvars PROVE CalInv'
  <2>1. CASE UNCHANGED calendarvars
    BY <1>2, <2>1 DEF CalInv, calendarvars, SetTo, Holds
  <2> QED
    BY <1>2, <2>1, SetToToday, MidnightKeeps DEF CalendarNext
<1> QED
  BY <1>1, <1>2, TrustTheClock, PTL DEF CalendarSpec

-----------------------------------------------------------------------------
(***************************************************************************)
(* Rings of n cells.  The head is the cell written last and the tail the   *)
(* one read last, so that n - 1 cells can be filled.                       *)
(***************************************************************************)

\* The cell that follows, and the one d places on.
Around(n, k) == IF k + 1 < n THEN k + 1 ELSE 0
Onward(n, k, d) == IF k + d < n THEN k + d ELSE k + d - n

\* How many cells there are from t to h.
Apart(n, h, t) == IF t <= h THEN h - t ELSE h - t + n

\* A ring of n cells with values of C.
RingOf(n, C) == [buf : [0 .. n - 1 -> C], head : 0 .. n - 1, tail : 0 .. n - 1]

\* How many of its cells are filled, and the one that comes d places after the tail.
Filled(n, r) == Apart(n, r.head, r.tail)
NthOf(n, r, d) == r.buf[Onward(n, r.tail, d)]

\* Cells and distances, modulo n.
LEMMA RingNumbers ==
  ASSUME NEW n \in Nat, n > 1, NEW h \in 0 .. n - 1, NEW t \in 0 .. n - 1
  PROVE  /\ Apart(n, h, t) \in 0 .. n - 1 /\ Around(n, h) \in 0 .. n - 1
         /\ h = t <=> Apart(n, h, t) = 0
         /\ Around(n, h) = t <=> Apart(n, h, t) = n - 1
         /\ Around(n, h) # t => Apart(n, Around(n, h), t) = Apart(n, h, t) + 1
         /\ Onward(n, t, Apart(n, h, t)) = h
         /\ \A d \in 0 .. n - 1 : Onward(n, t, d) \in 0 .. n - 1
         /\ \A d \in 0 .. n - 1 : d # Apart(n, h, t) => Onward(n, t, d) # h
         /\ \A d \in 0 .. n - 2 : Onward(n, Around(n, t), d) = Onward(n, t, d + 1)
BY DEF Apart, Around, Onward

\* One is read.
LEMMA OneLess ==
  ASSUME NEW n \in Nat, n > 1, NEW h \in 0 .. n - 1, NEW t \in 0 .. n - 1, h # t
  PROVE  Apart(n, h, Around(n, t)) = Apart(n, h, t) - 1
BY DEF Apart, Around

\* The fields are what they are; all cells but one are filled at most.
LEMMA AnyRingSizes ==
  ASSUME NEW n \in Nat, n > 1, NEW C, NEW r \in RingOf(n, C)
  PROVE  /\ r.head \in 0 .. n - 1 /\ r.tail \in 0 .. n - 1 /\ r.buf \in [0 .. n - 1 -> C]
         /\ Filled(n, r) \in 0 .. n - 1
         /\ \A d \in 0 .. n - 1 : NthOf(n, r, d) \in C
         /\ r.head = r.tail <=> Filled(n, r) = 0
         /\ Around(n, r.head) = r.tail <=> Filled(n, r) = n - 1
<1>1. r.head \in 0 .. n - 1 /\ r.tail \in 0 .. n - 1 /\ r.buf \in [0 .. n - 1 -> C]
  BY DEF RingOf
<1>2. \A d \in 0 .. n - 1 : Onward(n, r.tail, d) \in 0 .. n - 1
  BY <1>1, RingNumbers
<1>3. Filled(n, r) \in 0 .. n - 1 /\ (r.head = r.tail <=> Filled(n, r) = 0)
      /\ (Around(n, r.head) = r.tail <=> Filled(n, r) = n - 1)
  <2> DEFINE h == r.head
             t == r.tail
  <2>1. h \in 0 .. n - 1 /\ t \in 0 .. n - 1
    BY <1>1
  <2> HIDE DEF h, t
  <2>2. Apart(n, h, t) \in 0 .. n - 1 /\ (h = t <=> Apart(n, h, t) = 0)
        /\ (Around(n, h) = t <=> Apart(n, h, t) = n - 1)
    BY <2>1, RingNumbers
  <2> QED
    BY <2>2 DEF Filled, h, t
<1>4. \A d \in 0 .. n - 1 : NthOf(n, r, d) \in C
  BY <1>1, <1>2 DEF NthOf
<1> QED
  BY <1>1, <1>3, <1>4

\* What is stored comes behind what is there.
LEMMA AnyRingStores ==
  ASSUME NEW n \in Nat, n > 1, NEW C, NEW r \in RingOf(n, C), NEW m \in C, Around(n, r.head) # r.tail,
         NEW q, q = [buf |-> [r.buf EXCEPT ![Around(n, r.head)] = m], head |-> Around(n, r.head), tail |-> r.tail]
  PROVE  /\ q \in RingOf(n, C) /\ q.head # q.tail
         /\ Filled(n, q) = Filled(n, r) + 1 /\ NthOf(n, q, Filled(n, r) + 1) = m
         /\ \A d \in 0 .. Filled(n, r) : NthOf(n, q, d) = NthOf(n, r, d)
<1> DEFINE h == r.head
           t == r.tail
           g == Around(n, h)
           w == Filled(n, r)
<1>1. h \in 0 .. n - 1 /\ t \in 0 .. n - 1 /\ r.buf \in [0 .. n - 1 -> C] /\ g # t
      /\ q.buf = [r.buf EXCEPT ![g] = m] /\ q.head = g /\ q.tail = t
  BY DEF RingOf
<1>2. g \in 0 .. n - 1 /\ w \in 0 .. n - 1 /\ Filled(n, q) = w + 1 /\ w + 1 \in 0 .. n - 1
  <2>1. w = Apart(n, h, t) /\ Filled(n, q) = Apart(n, g, t)
    BY <1>1 DEF Filled
  <2> HIDE DEF w, g, h, t
  <2>2. g \in 0 .. n - 1 /\ w \in 0 .. n - 1 /\ Apart(n, g, t) = w + 1
    BY <1>1, <2>1, RingNumbers DEF g
  <2>3. Apart(n, g, t) \in 0 .. n - 1
    BY <1>1, <2>2, RingNumbers
  <2> QED
    BY <2>1, <2>2, <2>3
<1>3. q \in RingOf(n, C)
  BY <1>1, <1>2 DEF RingOf
<1> HIDE DEF h, t, g, w
<1>4. Filled(n, q) = Apart(n, g, t)
  BY <1>1 DEF Filled
<1>5. Onward(n, t, w + 1) = g
  BY <1>1, <1>2, <1>4, RingNumbers
<1>6. \A d \in 0 .. w : Onward(n, t, d) # g
  <2>1. \A d \in 0 .. w : d \in 0 .. n - 1 /\ d # w + 1
    BY <1>2
  <2>2. \A d \in 0 .. n - 1 : d # Apart(n, g, t) => Onward(n, t, d) # g
    BY <1>1, <1>2, RingNumbers
  <2> QED
    BY <1>2, <1>4, <2>1, <2>2
<1>7. NthOf(n, q, w + 1) = m /\ \A d \in 0 .. w : NthOf(n, q, d) = NthOf(n, r, d)
  <2>1. \A d : NthOf(n, q, d) = q.buf[Onward(n, t, d)] /\ NthOf(n, r, d) = r.buf[Onward(n, t, d)]
    BY <1>1 DEF NthOf, t
  <2>2. \A d \in 0 .. w : Onward(n, t, d) \in 0 .. n - 1
    <3>1. \A d \in 0 .. w : d \in 0 .. n - 1
      BY <1>2
    <3> QED
      BY <1>1, <3>1, RingNumbers
  <2>3. q.buf[g] = m /\ \A c \in 0 .. n - 1 : c # g => q.buf[c] = r.buf[c]
    BY <1>1, <1>2
  <2>4. NthOf(n, q, w + 1) = m
    BY <1>5, <2>1, <2>3
  <2>5. ASSUME NEW d \in 0 .. w PROVE NthOf(n, q, d) = NthOf(n, r, d)
    BY <1>6, <2>1, <2>2, <2>3
  <2> QED
    BY <2>4, <2>5
<1> QED
  BY <1>1, <1>2, <1>3, <1>7 DEF w

\* The tail moves on to the one that has waited longest.
LEMMA AnyRingAdvances ==
  ASSUME NEW n \in Nat, n > 1, NEW C, NEW r \in RingOf(n, C), r.head # r.tail,
         NEW q, q = [r EXCEPT !.tail = Around(n, r.tail)]
  PROVE  /\ q \in RingOf(n, C) /\ Filled(n, q) = Filled(n, r) - 1
         /\ \A d \in 0 .. Filled(n, q) : NthOf(n, q, d) = NthOf(n, r, d + 1)
<1> DEFINE h == r.head
           t == r.tail
           u == Around(n, t)
           w == Filled(n, r)
<1>1. h \in 0 .. n - 1 /\ t \in 0 .. n - 1 /\ h # t /\ u \in 0 .. n - 1
  BY RingNumbers DEF RingOf
<1>2. q.head = h /\ q.tail = u /\ q.buf = r.buf /\ q \in RingOf(n, C)
  BY <1>1 DEF RingOf
<1>3. w = Apart(n, h, t) /\ Filled(n, q) = Apart(n, h, u)
  BY <1>2 DEF Filled
<1> HIDE DEF h, t, u, w
<1>4. Filled(n, q) = w - 1 /\ w \in 0 .. n - 1
  <2>1. Apart(n, h, t) \in 0 .. n - 1
    BY <1>1, RingNumbers
  <2>2. Apart(n, h, Around(n, t)) = Apart(n, h, t) - 1
    BY <1>1, OneLess
  <2> QED
    BY <1>3, <2>1, <2>2 DEF u
<1>5. \A d \in 0 .. w - 1 : d \in 0 .. n - 2
  BY <1>4
<1>6. \A d \in 0 .. w - 1 : Onward(n, u, d) = Onward(n, t, d + 1)
  <2>1. \A d \in 0 .. n - 2 : Onward(n, u, d) = Onward(n, t, d + 1)
    BY <1>1, RingNumbers DEF u
  <2> QED
    BY <1>5, <2>1
<1>7. \A d : NthOf(n, q, d) = r.buf[Onward(n, u, d)] /\ NthOf(n, r, d) = r.buf[Onward(n, t, d)]
  BY <1>2 DEF NthOf, t
<1> QED
  BY <1>2, <1>4, <1>6, <1>7 DEF w

\* The ring as it is emptied: its tail and its cells stay.
LEMMA AnyRingEmpties ==
  ASSUME NEW n \in Nat, n > 1, NEW C, NEW r \in RingOf(n, C), NEW q, q = [r EXCEPT !.head = r.tail]
  PROVE  q \in RingOf(n, C) /\ Filled(n, q) = 0 /\ q.head = q.tail /\ \A d : NthOf(n, q, d) = NthOf(n, r, d)
<1>1. q \in RingOf(n, C) /\ q.head = r.tail /\ q.tail = r.tail /\ q.buf = r.buf
  BY DEF RingOf
<1>2. Filled(n, q) = 0
  BY <1>1, AnyRingSizes
<1> QED
  BY <1>1, <1>2 DEF NthOf
-----------------------------------------------------------------------------
(***************************************************************************)
(* The console.  What waits in the ring is numbered on and on, after what  *)
(* was taken, until the tail passes the head; and as long as nothing is    *)
(* thrown away it is the rest of the wire, with as many ends of lines in   *)
(* it as ascii_line counts.                                                *)
(***************************************************************************)

\* A cell of the ring, and the ring.
Item == [char : Char \cup {0}, nr : Nat]
Ring == RingOf(RxSize, Item)

\* How many characters wait in it, and the one that comes d places after the tail.
Waiting(r) == Filled(RxSize, r)
Nth(r, d) == NthOf(RxSize, r, d)

\* What AnyRingSizes says of it; the next cell is the next one or the first.
LEMMA RingSizes ==
  ASSUME NEW r \in Ring
  PROVE  /\ RxSize \in Nat /\ RxSize > 1 /\ r.head \in 0 .. RxSize - 1 /\ r.tail \in 0 .. RxSize - 1
         /\ r.buf \in [0 .. RxSize - 1 -> Item]
         /\ Waiting(r) \in 0 .. RxSize - 1
         /\ \A d \in 0 .. RxSize - 1 : Nth(r, d) \in Item
         /\ \A k \in 0 .. RxSize - 1 : RxMask(k + 1) = Around(RxSize, k)
         /\ r.head = r.tail <=> Waiting(r) = 0
<1>1. RxSize \in Nat /\ RxSize > 1 /\ r \in RingOf(RxSize, Item)
  BY ConsoleAssumption DEF Ring
<1>2. \A k \in 0 .. RxSize - 1 : RxMask(k + 1) = Around(RxSize, k)
  BY <1>1, Increment DEF RxMask, Around
<1>3. /\ r.head \in 0 .. RxSize - 1 /\ r.tail \in 0 .. RxSize - 1
      /\ r.buf \in [0 .. RxSize - 1 -> Item]
      /\ Waiting(r) \in 0 .. RxSize - 1
      /\ \A d \in 0 .. RxSize - 1 : Nth(r, d) \in Item
      /\ r.head = r.tail <=> Waiting(r) = 0
  BY <1>1, AnyRingSizes, Zenon DEF Waiting, Nth
<1> QED
  BY <1>1, <1>2, <1>3

\* The interrupt stores a character behind those that wait.
LEMMA RingStores ==
  ASSUME NEW r \in Ring, NEW m \in Item, RxMask(r.head + 1) # r.tail,
         NEW q, q = [buf |-> [r.buf EXCEPT ![RxMask(r.head + 1)] = m], head |-> RxMask(r.head + 1), tail |-> r.tail]
  PROVE  /\ q \in Ring /\ q.head # q.tail /\ Waiting(q) = Waiting(r) + 1 /\ Nth(q, Waiting(r) + 1) = m
         /\ \A d \in 0 .. Waiting(r) : Nth(q, d) = Nth(r, d)
<1>1. RxSize \in Nat /\ RxSize > 1 /\ r \in RingOf(RxSize, Item) /\ RxMask(r.head + 1) = Around(RxSize, r.head)
  BY RingSizes DEF Ring
<1>2. q = [buf |-> [r.buf EXCEPT ![Around(RxSize, r.head)] = m], head |-> Around(RxSize, r.head), tail |-> r.tail]
      /\ Around(RxSize, r.head) # r.tail
  BY <1>1
<1>3. /\ q \in RingOf(RxSize, Item) /\ q.head # q.tail
      /\ Filled(RxSize, q) = Filled(RxSize, r) + 1 /\ NthOf(RxSize, q, Filled(RxSize, r) + 1) = m
      /\ \A d \in 0 .. Filled(RxSize, r) : NthOf(RxSize, q, d) = NthOf(RxSize, r, d)
  BY <1>1, <1>2, AnyRingStores
<1> QED
  BY <1>3 DEF Ring, Waiting, Nth

\* uart_getc moves the tail to the character that has waited longest.
LEMMA RingAdvances ==
  ASSUME NEW r \in Ring, r.head # r.tail, NEW q, q = [r EXCEPT !.tail = RxMask(r.tail + 1)]
  PROVE  /\ q \in Ring /\ Waiting(q) = Waiting(r) - 1
         /\ \A d \in 0 .. Waiting(q) : Nth(q, d) = Nth(r, d + 1)
<1>1. RxSize \in Nat /\ RxSize > 1 /\ r \in RingOf(RxSize, Item) /\ RxMask(r.tail + 1) = Around(RxSize, r.tail)
  BY RingSizes DEF Ring
<1>2. q = [r EXCEPT !.tail = Around(RxSize, r.tail)]
  BY <1>1, Zenon
<1>3. /\ q \in RingOf(RxSize, Item) /\ Filled(RxSize, q) = Filled(RxSize, r) - 1
      /\ \A d \in 0 .. Filled(RxSize, q) : NthOf(RxSize, q, d) = NthOf(RxSize, r, d + 1)
  BY <1>1, <1>2, AnyRingAdvances
<1> QED
  BY <1>3 DEF Ring, Waiting, Nth

\* The ring as it is emptied.
LEMMA RingEmpties ==
  ASSUME NEW r \in Ring, NEW q, q = [r EXCEPT !.head = r.tail]
  PROVE  q \in Ring /\ Waiting(q) = 0 /\ q.head = q.tail /\ \A d : Nth(q, d) = Nth(r, d)
<1>1. RxSize \in Nat /\ RxSize > 1 /\ r \in RingOf(RxSize, Item)
  BY RingSizes DEF Ring
<1>2. /\ q \in RingOf(RxSize, Item) /\ Filled(RxSize, q) = 0 /\ q.head = q.tail
      /\ \A d : NthOf(RxSize, q, d) = NthOf(RxSize, r, d)
  BY <1>1, AnyRingEmpties
<1> QED
  BY <1>2 DEF Ring, Waiting, Nth

\* The character at the tail.
LEMMA AtTheTail == ASSUME NEW r \in Ring PROVE Nth(r, 0) = r.buf[r.tail]
<1>1. Onward(RxSize, r.tail, 0) = r.tail
  BY RingSizes DEF Onward
<1> QED
  BY <1>1 DEF Nth, NthOf

\* The first place that counts: while it reads, the character that the tail is at.
First == IF reader = "read" THEN 0 ELSE 1
Places == First .. Waiting(rx)

\* Types, those of the history too.
ConsoleTypes ==
  /\ rx \in Ring /\ wire \in Seq(Char) /\ taken \in Seq(Nat) /\ ended \in Seq(Char)
  /\ str \in Seq({Letter}) /\ ascii_line \in 0 .. CountRange - 1 /\ count \in 0 .. CountRange - 1
  /\ registered \in BOOLEAN /\ upset \in BOOLEAN /\ overrun \in BOOLEAN
  /\ reader \in {"idle", "test", "advance", "read", "finish", "decrement"}

\* What waits was received in that order, after what was taken.
InOrder ==
  /\ reader = "advance" => rx.head # rx.tail
  /\ \A j \in DOMAIN taken : taken[j] <= Len(wire)
  /\ \A j, k \in DOMAIN taken : j < k => taken[j] < taken[k]
  /\ \A d \in Places : Nth(rx, d).nr <= Len(wire) /\ \A j \in DOMAIN taken : taken[j] < Nth(rx, d).nr
  /\ \A d, e \in Places : d < e => Nth(rx, d).nr < Nth(rx, e).nr

\* How many characters have left the ring.
Left == IF reader = "read" THEN Len(taken) + 1 ELSE Len(taken)

\* What became of those that were taken.
Done ==
  IF reader = "idle" THEN ended
  ELSE IF reader \in {"finish", "decrement"} THEN ended \o Append(str, CarriageReturn)
  ELSE ended \o str

\* The ends of lines in w after the first n characters, and those not counted down yet.
Ends(w, n) == {k \in n + 1 .. Len(w) : w[k] = CarriageReturn}
Taking == IF reader \in {"finish", "decrement"} THEN 1 ELSE 0
Counted == Cardinality(Ends(wire, Len(taken))) + Taking

\* Nothing is missing between what was taken and what waits.
NothingMissing ==
  /\ reader = "advance" => rx.head # rx.tail
  /\ Left + Waiting(rx) = Len(wire)
  /\ \A d \in Places : Nth(rx, d).char = wire[Left + d]
  /\ Len(Done) = Len(taken) /\ \A k \in 1 .. Len(Done) : Done[k] = wire[k]
  /\ Counted % CountRange = ascii_line
  /\ reader \in {"test", "advance", "read"} => Ends(wire, Len(taken)) # {}
  /\ reader = "decrement" => count = ascii_line

\* The invariant.
ConsInv == ConsoleTypes /\ (~overrun => InOrder) /\ (~upset => NothingMissing)

\* The interrupt stores a character, or empties the ring that is full.
LEMMA InterruptStores ==
  ASSUME ConsoleTypes, Interrupt
  PROVE  \E c \in Char :
           /\ wire' = Append(wire, c) /\ wire' \in Seq(Char) /\ Len(wire') = Len(wire) + 1
           /\ rx' \in Ring /\ (\A d \in 0 .. Waiting(rx) : Nth(rx', d) = Nth(rx, d))
           /\ \/ /\ RxMask(rx.head + 1) # rx.tail /\ Waiting(rx') = Waiting(rx) + 1
                 /\ Nth(rx', Waiting(rx) + 1) = [char |-> c, nr |-> Len(wire) + 1]
                 /\ ascii_line' = (IF c = CarriageReturn THEN (ascii_line + 1) % CountRange ELSE ascii_line)
                 /\ upset' = (upset \/ (c = CarriageReturn /\ reader = "decrement")) /\ overrun' = overrun
                 /\ rx'.head # rx'.tail
              \/ /\ Waiting(rx') = 0 /\ ascii_line' = ascii_line /\ upset' = TRUE
                 /\ overrun' = (overrun \/ reader = "advance")
<1>1. PICK c \in Char :
        LET m == [char |-> c, nr |-> Len(wire) + 1]
            full == RxMask(rx.head + 1) = rx.tail
        IN /\ wire' = Append(wire, c) /\ rx' = Stored(m)
           /\ ascii_line' = IF c = CarriageReturn /\ ~full THEN (ascii_line + 1) % CountRange ELSE ascii_line
           /\ upset' = (upset \/ full \/ (c = CarriageReturn /\ reader = "decrement"))
           /\ overrun' = (overrun \/ (full /\ reader = "advance"))
  BY DEF Interrupt
<1> DEFINE m == [char |-> c, nr |-> Len(wire) + 1]
<1>2. wire \in Seq(Char) /\ rx \in Ring /\ Len(wire) \in Nat /\ m \in Item
  BY DEF ConsoleTypes, Item
<1>3. wire' = Append(wire, c) /\ wire' \in Seq(Char) /\ Len(wire') = Len(wire) + 1
  BY <1>1, <1>2
<1>4. CASE RxMask(rx.head + 1) = rx.tail
  <2>1. rx' = [rx EXCEPT !.head = rx.tail]
    BY <1>1, <1>4 DEF Stored
  <2> HIDE DEF m
  <2> QED
    BY <1>1, <1>2, <1>3, <1>4, <2>1, RingEmpties
<1>5. CASE RxMask(rx.head + 1) # rx.tail
  <2>1. rx' = [buf |-> [rx.buf EXCEPT ![RxMask(rx.head + 1)] = m], head |-> RxMask(rx.head + 1), tail |-> rx.tail]
    BY <1>1, <1>5 DEF Stored
  <2> HIDE DEF m
  <2>3. /\ rx' \in Ring /\ rx'.head # rx'.tail
        /\ Waiting(rx') = Waiting(rx) + 1 /\ Nth(rx', Waiting(rx) + 1) = m
        /\ \A d \in 0 .. Waiting(rx) : Nth(rx', d) = Nth(rx, d)
    BY <1>2, <1>5, <2>1, RingStores
  <2>5. /\ ascii_line' = (IF c = CarriageReturn THEN (ascii_line + 1) % CountRange ELSE ascii_line)
        /\ upset' = (upset \/ (c = CarriageReturn /\ reader = "decrement"))
    BY <1>1, <1>5, Zenon
  <2>6. overrun' = overrun
    BY <1>1, <1>5 DEF ConsoleTypes
  <2>7. Nth(rx', Waiting(rx) + 1) = [char |-> c, nr |-> Len(wire) + 1]
    BY <2>3 DEF m
  <2> QED
    BY <1>3, <1>5, <2>3, <2>5, <2>6, <2>7, Zenon
<1> QED
  BY <1>4, <1>5

\* The types, and what the history has in it.
LEMMA TypesKept == ASSUME ConsoleTypes, [ConsoleNext]_consolevars PROVE ConsoleTypes'
<1>1. rx \in Ring /\ CountRange \in Nat /\ CountRange > 1 /\ taken \in Seq(Nat) /\ ended \in Seq(Char)
      /\ str \in Seq({Letter}) /\ ascii_line \in 0 .. CountRange - 1 /\ count \in 0 .. CountRange - 1
  BY ConsoleAssumption DEF ConsoleTypes
<1>2. \A x \in 0 .. CountRange - 1 : (x + 1) % CountRange \in 0 .. CountRange - 1
                                     /\ (x + CountRange - 1) % CountRange \in 0 .. CountRange - 1
  BY <1>1
<1>3. CASE Interrupt
  <2>1. rx' \in Ring /\ wire' \in Seq(Char) /\ upset' \in BOOLEAN /\ overrun' \in BOOLEAN
        /\ ascii_line' \in 0 .. CountRange - 1
    <3>1. PICK c \in Char :
           /\ wire' \in Seq(Char) /\ rx' \in Ring
           /\ \/ /\ ascii_line' = (IF c = CarriageReturn THEN (ascii_line + 1) % CountRange ELSE ascii_line)
                 /\ upset' = (upset \/ (c = CarriageReturn /\ reader = "decrement")) /\ overrun' = overrun
              \/ /\ ascii_line' = ascii_line /\ upset' = TRUE
                 /\ overrun' = (overrun \/ reader = "advance")
      BY <1>3, InterruptStores, Zenon
    <3>2. upset' \in BOOLEAN /\ overrun' \in BOOLEAN
      BY <3>1 DEF ConsoleTypes
    <3>3. ascii_line' \in 0 .. CountRange - 1
      BY <1>1, <1>2, <3>1
    <3> QED
      BY <3>1, <3>2, <3>3
  <2> QED
    BY <1>3, <2>1 DEF ConsoleTypes, Interrupt, local
<1>4. CASE Event
  <2>1. rx' \in Ring /\ str' \in Seq({Letter}) /\ reader' \in {"idle", "test"} /\ upset' \in BOOLEAN
    <3>1. CASE registered
      <4>1. << >> \in Seq({Letter})
        OBVIOUS
      <4> QED
        BY <1>1, <1>4, <3>1, <4>1 DEF Event, ConsoleTypes
    <3>2. CASE ~registered
      BY <1>1, <1>4, <3>2, RingEmpties DEF Event, ConsoleTypes
    <3> QED
      BY <3>1, <3>2
  <2>2. UNCHANGED <<ascii_line, registered, count, wire, taken, ended, overrun>>
    BY <1>4 DEF Event, past
  <2> QED
    BY <2>1, <2>2 DEF ConsoleTypes
<1>5. CASE Test
  <2>1. reader' \in {"finish", "advance"}
    BY <1>5 DEF Test
  <2>2. UNCHANGED <<rx, ascii_line, registered, str, count, wire, taken, ended, upset, overrun>>
    BY <1>5 DEF Test, ring, past, havoc
  <2> QED
    BY <2>1, <2>2 DEF ConsoleTypes
<1>6. CASE Advance
  <2>1. RxMask(rx.tail + 1) \in 0 .. RxSize - 1
    <3>1. rx.tail \in 0 .. RxSize - 1 /\ RxSize \in Nat /\ RxMask(rx.tail + 1) = Around(RxSize, rx.tail)
      BY <1>1, RingSizes
    <3> QED
      BY <3>1 DEF Around
  <2>2. rx' \in Ring
    BY <1>1, <1>6, <2>1 DEF Advance, Ring, RingOf
  <2> QED
    BY <1>6, <2>2 DEF ConsoleTypes, Advance, past, havoc
<1>7. CASE Read
  <2> DEFINE m == rx.buf[rx.tail]
  <2>1. m \in Item
    BY <1>1, RingSizes
  <2>2. taken' = Append(taken, m.nr) /\ m.nr \in Nat
    BY <1>7, <2>1 DEF Read, Item
  <2>3. (str' = str /\ reader' = "finish") \/ (str' = Append(str, m.char) /\ m.char = Letter /\ reader' = "test")
    BY <1>7 DEF Read
  <2> HIDE DEF m
  <2>4. taken' \in Seq(Nat) /\ str' \in Seq({Letter})
    <3>1. taken' \in Seq(Nat)
      BY <1>1, <2>2
    <3>2. Letter \in {Letter} /\ (str' = str \/ str' = Append(str, Letter))
      BY <2>3
    <3>3. str' \in Seq({Letter})
      <4> HIDE DEF Letter
      <4> QED
        BY <1>1, <3>2
    <3> QED
      BY <3>1, <3>3
  <2> QED
    BY <1>7, <2>3, <2>4 DEF ConsoleTypes, Read, ring
<1>8. CASE Finish
  BY <1>8 DEF ConsoleTypes, Finish, ring, past, havoc
<1>9. CASE Decrement
  <2>1. ended' \in Seq(Char)
    <3>1. Letter \in Char /\ CarriageReturn \in Char /\ ended' = ended \o Append(str, CarriageReturn)
      BY <1>9 DEF Decrement, Char
    <3>2. str \in Seq(Char)
      BY <1>1, <3>1
    <3> QED
      BY <1>1, <3>1, <3>2
  <2>2. ascii_line' \in 0 .. CountRange - 1
    BY <1>1, <1>2, <1>9 DEF Decrement
  <2> QED
    BY <1>9, <2>1, <2>2 DEF ConsoleTypes, Decrement, havoc
<1>10. CASE UNCHANGED consolevars
  BY <1>10 DEF ConsoleTypes, consolevars, ring, local, past, havoc
<1> QED
  BY <1>3, <1>4, <1>5, <1>6, <1>7, <1>8, <1>9, <1>10 DEF ConsoleNext, UartGetStr

\* A step that takes and stores nothing: what waits is what waited, k places on.
LEMMA SameOrder ==
  ASSUME ConsoleTypes, ConsoleTypes', InOrder, taken' = taken, Len(wire) <= Len(wire'), NEW k \in {0, 1},
         \A d \in Places' : d + k \in Places /\ Nth(rx', d) = Nth(rx, d + k),
         reader' = "advance" => rx'.head # rx'.tail
  PROVE  InOrder'
<1>1. Len(wire) \in Int /\ Len(wire') \in Int /\ \A j \in DOMAIN taken : taken[j] \in Int
  BY DEF ConsoleTypes
<1>2. Waiting(rx) \in 0 .. RxSize - 1 /\ Waiting(rx') \in 0 .. RxSize - 1 /\ RxSize \in Nat
      /\ \A d \in 0 .. RxSize - 1 : Nth(rx, d) \in Item
  BY RingSizes DEF ConsoleTypes
<1>3. \A d \in Places : d \in Int /\ Nth(rx, d).nr \in Int
  <2> SUFFICES ASSUME NEW d \in Places PROVE d \in Int /\ Nth(rx, d).nr \in Int
    OBVIOUS
  <2>1. d \in 0 .. RxSize - 1
    BY <1>2 DEF Places, First
  <2> QED
    BY <1>2, <2>1 DEF Item
<1>4. \A d \in Places' : d \in Int
  BY <1>2 DEF Places, First
<1>5. ASSUME NEW d \in Places'
      PROVE  Nth(rx', d).nr <= Len(wire') /\ \A j \in DOMAIN taken : taken[j] < Nth(rx', d).nr
  <2>1. d + k \in Places /\ Nth(rx', d) = Nth(rx, d + k)
    OBVIOUS
  <2>2. Nth(rx, d + k).nr <= Len(wire) /\ \A j \in DOMAIN taken : taken[j] < Nth(rx, d + k).nr
    BY <2>1 DEF InOrder
  <2>3. Nth(rx, d + k).nr \in Int
    BY <1>3, <2>1
  <2> QED
    BY <1>1, <2>1, <2>2, <2>3
<1>6. ASSUME NEW d \in Places', NEW e \in Places', d < e PROVE Nth(rx', d).nr < Nth(rx', e).nr
  <2>1. d + k \in Places /\ Nth(rx', d) = Nth(rx, d + k) /\ e + k \in Places /\ Nth(rx', e) = Nth(rx, e + k)
    OBVIOUS
  <2>2. d + k < e + k
    BY <1>4, <1>6
  <2> QED
    BY <2>1, <2>2 DEF InOrder
<1>7. /\ \A j \in DOMAIN taken : taken[j] <= Len(wire)
      /\ \A j, l \in DOMAIN taken : j < l => taken[j] < taken[l]
  BY DEF InOrder
<1>8. \A j \in DOMAIN taken : taken[j] <= Len(wire')
  BY <1>1, <1>7
<1> QED
  BY <1>5, <1>6, <1>7, <1>8 DEF InOrder

\* A character stored behind those that wait.
LEMMA StoredInOrder ==
  ASSUME ConsoleTypes, ConsoleTypes', InOrder, taken' = taken, reader' = reader, Len(wire') = Len(wire) + 1,
         \A d \in 0 .. Waiting(rx) : Nth(rx', d) = Nth(rx, d),
         Waiting(rx') = Waiting(rx) + 1, Nth(rx', Waiting(rx) + 1).nr = Len(wire) + 1,
         rx'.head # rx'.tail
  PROVE  InOrder'
<1> DEFINE w == Waiting(rx)
           n == Len(wire)
<1>1. n \in Int /\ Len(wire') = n + 1 /\ (\A j \in DOMAIN taken : taken[j] \in Int)
      /\ w \in Nat /\ Waiting(rx') = w + 1
  <2>1. rx \in Ring /\ wire \in Seq(Char) /\ taken \in Seq(Nat)
    BY DEF ConsoleTypes
  <2>2. RxSize \in Nat /\ w \in 0 .. RxSize - 1
    BY <2>1, RingSizes
  <2> HIDE DEF w
  <2>3. w \in Nat
    BY <2>2
  <2>4. \A j \in DOMAIN taken : taken[j] \in Int
    BY <2>1
  <2>5. n \in Int
    BY <2>1
  <2> QED
    BY <2>3, <2>4, <2>5 DEF w
<1>2. \A d \in 0 .. w : Nth(rx, d).nr \in Int
  <2>1. w \in 0 .. RxSize - 1 /\ RxSize \in Nat /\ \A d \in 0 .. RxSize - 1 : Nth(rx, d) \in Item
    BY RingSizes DEF ConsoleTypes
  <2> HIDE DEF w
  <2>2. \A d \in 0 .. w : d \in 0 .. RxSize - 1
    BY <2>1
  <2> QED
    BY <2>1, <2>2 DEF Item
<1> HIDE DEF w, n
<1>3. ASSUME NEW d \in Places'
      PROVE  /\ d \in Int
             /\ \/ d \in Places /\ d \in 0 .. w /\ Nth(rx', d) = Nth(rx, d)
                \/ d = w + 1 /\ Nth(rx', d).nr = n + 1
  <2>1. d \in First .. w + 1 /\ First \in {0, 1}
    BY <1>1 DEF Places, First
  <2>2. CASE d = w + 1
    BY <1>1, <2>1, <2>2 DEF w, n
  <2>3. CASE d # w + 1
    <3>1. d \in First .. w /\ d \in 0 .. w
      BY <1>1, <2>1, <2>3
    <3> QED
      BY <3>1 DEF Places, w
  <2> QED
    BY <2>2, <2>3
<1>4. /\ \A j \in DOMAIN taken : taken[j] <= n
      /\ \A j, l \in DOMAIN taken : j < l => taken[j] < taken[l]
      /\ \A d \in Places : Nth(rx, d).nr <= n /\ \A j \in DOMAIN taken : taken[j] < Nth(rx, d).nr
      /\ \A d, e \in Places : d < e => Nth(rx, d).nr < Nth(rx, e).nr
  BY DEF InOrder, n
<1>5. ASSUME NEW d \in Places'
      PROVE  Nth(rx', d).nr <= n + 1 /\ \A j \in DOMAIN taken : taken[j] < Nth(rx', d).nr
  <2>1. CASE d \in Places /\ d \in 0 .. w /\ Nth(rx', d) = Nth(rx, d)
    BY <1>1, <1>2, <1>4, <2>1
  <2>2. CASE d = w + 1 /\ Nth(rx', d).nr = n + 1
    BY <1>1, <1>4, <2>2
  <2> QED
    BY <1>3, <2>1, <2>2
<1>6. ASSUME NEW d \in Places', NEW e \in Places', d < e PROVE Nth(rx', d).nr < Nth(rx', e).nr
  <2>1. CASE e \in Places /\ e \in 0 .. w /\ Nth(rx', e) = Nth(rx, e)
    <3>1. d \in Places /\ Nth(rx', d) = Nth(rx, d)
      BY <1>1, <1>3, <1>6, <2>1
    <3> QED
      BY <1>4, <1>6, <2>1, <3>1
  <2>2. CASE e = w + 1 /\ Nth(rx', e).nr = n + 1
    <3>1. d \in Places /\ d \in 0 .. w /\ Nth(rx', d) = Nth(rx, d)
      BY <1>1, <1>3, <1>6, <2>2
    <3> QED
      BY <1>1, <1>2, <1>4, <2>2, <3>1
  <2> QED
    BY <1>3, <2>1, <2>2
<1>7. \A j \in DOMAIN taken : taken[j] <= n + 1
  BY <1>1, <1>4
<1> QED
  BY <1>1, <1>4, <1>5, <1>6, <1>7 DEF InOrder

\* Every step but the emptying between uart_getc's test and store.
LEMMA OrderKept ==
  ASSUME ConsoleTypes, InOrder, [ConsoleNext]_consolevars, ~overrun' PROVE InOrder'
<1>1. ConsoleTypes' /\ rx \in Ring /\ rx' \in Ring /\ Len(wire) \in Int
  BY TypesKept DEF ConsoleTypes
<1>2. Waiting(rx) \in Nat /\ Waiting(rx') \in Nat /\ (rx.head = rx.tail <=> Waiting(rx) = 0)
  BY <1>1, RingSizes
<1>3. ASSUME taken' = taken, wire' = wire, rx' = rx, First' = First \/ First' = 1, reader' # "advance"
      PROVE  InOrder'
  <2>1. \A d \in Places' : d + 0 \in Places /\ Nth(rx', d) = Nth(rx, d + 0)
    BY <1>2, <1>3 DEF Places, First
  <2> QED
    BY <1>1, <1>3, <2>1, SameOrder
<1>4. CASE Interrupt
  <2>1. taken' = taken /\ reader' = reader /\ First' = First
    BY <1>4 DEF Interrupt, local, First
  <2>2. PICK c \in Char :
          /\ Len(wire') = Len(wire) + 1
          /\ \A d \in 0 .. Waiting(rx) : Nth(rx', d) = Nth(rx, d)
          /\ \/ /\ Waiting(rx') = Waiting(rx) + 1
                /\ Nth(rx', Waiting(rx) + 1) = [char |-> c, nr |-> Len(wire) + 1]
                /\ rx'.head # rx'.tail
             \/ Waiting(rx') = 0 /\ overrun' = (overrun \/ reader = "advance")
    BY <1>4, InterruptStores
  <2>3. CASE /\ Waiting(rx') = Waiting(rx) + 1
             /\ Nth(rx', Waiting(rx) + 1) = [char |-> c, nr |-> Len(wire) + 1]
             /\ rx'.head # rx'.tail
    <3>1. Nth(rx', Waiting(rx) + 1).nr = Len(wire) + 1
      BY <2>3
    <3> QED
      BY <1>1, <2>1, <2>2, <2>3, <3>1, StoredInOrder
  <2>4. CASE Waiting(rx') = 0 /\ overrun' = (overrun \/ reader = "advance")
    <3>1. reader' # "advance"
      BY <2>1, <2>4
    <3>2. \A d \in Places' : d + 0 \in Places /\ d \in 0 .. Waiting(rx) /\ d + 0 = d
      BY <1>2, <2>1, <2>4 DEF Places, First
    <3>3. Len(wire) <= Len(wire')
      BY <1>1, <2>2
    <3> QED
      BY <1>1, <2>1, <2>2, <3>1, <3>2, <3>3, SameOrder
  <2> QED
    BY <2>2, <2>3, <2>4
<1>5. CASE Event
  <2>1. CASE registered
    BY <1>3, <1>5, <2>1 DEF Event, past, First
  <2>2. CASE ~registered
    <3>1. rx' = [rx EXCEPT !.head = rx.tail] /\ taken' = taken /\ wire' = wire /\ reader' = reader /\ reader = "idle"
      BY <1>5, <2>2 DEF Event, past
    <3>2. Waiting(rx') = 0 /\ \A d : Nth(rx', d) = Nth(rx, d)
      BY <1>1, <3>1, RingEmpties
    <3>3. \A d \in Places' : d + 0 \in Places /\ Nth(rx', d) = Nth(rx, d + 0)
      BY <1>2, <3>1, <3>2 DEF Places, First
    <3> QED
      BY <1>1, <3>1, <3>3, SameOrder
  <2> QED
    BY <2>1, <2>2
<1>6. CASE Test
  <2>1. taken' = taken /\ wire' = wire /\ rx' = rx /\ First' = First /\ (reader' = "advance" => rx.head # rx.tail)
    BY <1>6 DEF Test, past, ring, First
  <2>2. \A d \in Places' : d + 0 \in Places /\ Nth(rx', d) = Nth(rx, d + 0)
    BY <1>2, <2>1 DEF Places, First
  <2> QED
    BY <1>1, <2>1, <2>2, SameOrder
<1>7. CASE Advance
  <2>1. taken' = taken /\ wire' = wire /\ rx' = [rx EXCEPT !.tail = RxMask(rx.tail + 1)] /\ First' = 0
        /\ First = 1 /\ rx.head # rx.tail /\ reader' # "advance"
    BY <1>7 DEF Advance, past, First, InOrder
  <2>2. Waiting(rx') = Waiting(rx) - 1 /\ \A d \in 0 .. Waiting(rx') : Nth(rx', d) = Nth(rx, d + 1)
    BY <1>1, <2>1, RingAdvances
  <2>3. \A d \in Places' : d + 1 \in Places /\ Nth(rx', d) = Nth(rx, d + 1)
    BY <1>2, <2>1, <2>2 DEF Places
  <2> QED
    BY <1>1, <2>1, <2>3, SameOrder
<1>8. CASE Read
  <2> DEFINE m == rx.buf[rx.tail]
             x == m.nr
             l == Len(taken)
  <2>1. taken' = Append(taken, x) /\ rx' = rx /\ wire' = wire /\ First = 0 /\ First' = 1 /\ reader' # "advance"
    BY <1>8 DEF Read, ring, First
  <2>2. m = Nth(rx, 0) /\ x \in Nat
    <3>1. rx.tail \in 0 .. RxSize - 1 /\ RxSize \in Nat
      BY <1>1, RingSizes
    <3>2. Nth(rx, 0) = rx.buf[rx.tail]
      BY <1>1, AtTheTail
    <3> QED
      BY <1>1, <3>1, <3>2, RingSizes DEF Item
  <2>3. 0 \in Places /\ Places' \subseteq Places /\ \A d \in Places' : 0 < d
    BY <1>2, <2>1 DEF Places
  <2> HIDE DEF m
  <2>4. x <= Len(wire) /\ (\A j \in DOMAIN taken : taken[j] < x) /\ \A d \in Places' : x < Nth(rx, d).nr
    BY <2>2, <2>3 DEF InOrder
  <2> HIDE DEF x
  <2>5. taken \in Seq(Nat) /\ l \in Nat /\ DOMAIN taken = 1 .. l
    BY DEF ConsoleTypes
  <2>6. DOMAIN taken' = 1 .. l + 1 /\ \A j \in 1 .. l + 1 : taken'[j] = IF j <= l THEN taken[j] ELSE x
    BY <2>1, <2>2, <2>5
  <2> HIDE DEF l
  <2>7. \A j \in DOMAIN taken' : (j \in DOMAIN taken /\ taken'[j] = taken[j]) \/ (j = l + 1 /\ taken'[j] = x)
    BY <2>5, <2>6
  <2>8. \A j \in DOMAIN taken' : taken'[j] <= Len(wire')
    BY <2>1, <2>4, <2>7 DEF InOrder
  <2>9. \A j, k \in DOMAIN taken' : j < k => taken'[j] < taken'[k]
    <3> SUFFICES ASSUME NEW j \in DOMAIN taken', NEW k \in DOMAIN taken', j < k PROVE taken'[j] < taken'[k]
      OBVIOUS
    <3>1. j \in DOMAIN taken /\ taken'[j] = taken[j]
      BY <2>5, <2>6
    <3> QED
      BY <2>4, <2>7, <3>1 DEF InOrder
  <2>10. \A d \in Places' : Nth(rx', d).nr <= Len(wire') /\ \A j \in DOMAIN taken' : taken'[j] < Nth(rx', d).nr
    BY <2>1, <2>3, <2>4, <2>7 DEF InOrder
  <2>11. \A d, e \in Places' : d < e => Nth(rx', d).nr < Nth(rx', e).nr
    BY <2>1, <2>3 DEF InOrder
  <2> QED
    BY <2>1, <2>8, <2>9, <2>10, <2>11 DEF InOrder
<1>9. CASE Finish
  BY <1>3, <1>9 DEF Finish, past, ring, First
<1>10. CASE Decrement
  BY <1>3, <1>10 DEF Decrement, First
<1>11. CASE UNCHANGED consolevars
  BY <1>11 DEF InOrder, consolevars, ring, local, past, Places, First
<1> QED
  BY <1>4, <1>5, <1>6, <1>7, <1>8, <1>9, <1>10, <1>11 DEF ConsoleNext, UartGetStr

\* There are so many ends of lines, and one that is received is one more.
LEMMA EndsCounted ==
  ASSUME NEW w \in Seq(Char), NEW n \in Nat
  PROVE  /\ IsFiniteSet(Ends(w, n)) /\ Cardinality(Ends(w, n)) \in Nat
         /\ Cardinality(Ends(w, n)) = 0 <=> Ends(w, n) = {}
<1> DEFINE k == Len(w)
           S == {x \in n + 1 .. k : w[x] = CarriageReturn}
<1>1. k \in Int /\ n + 1 \in Int
  OBVIOUS
<1> HIDE DEF k
<1>2. IsFiniteSet(n + 1 .. k)
  BY <1>1, FS_Interval
<1>3. IsFiniteSet(S)
  <2>1. S \subseteq n + 1 .. k
    OBVIOUS
  <2> QED
    BY <1>2, <2>1, FS_Subset
<1>4. S = Ends(w, n)
  BY DEF k, Ends
<1> HIDE DEF S
<1> QED
  BY <1>3, <1>4, FS_CardinalityType, FS_EmptySet

\* A character received counts if it ends a line.
LEMMA EndsReceived ==
  ASSUME NEW w \in Seq(Char), NEW c \in Char, NEW n \in 0 .. Len(w)
  PROVE  /\ Ends(w, n) \subseteq Ends(Append(w, c), n)
         /\ Cardinality(Ends(Append(w, c), n)) = Cardinality(Ends(w, n)) + (IF c = CarriageReturn THEN 1 ELSE 0)
<1> DEFINE k == Len(w)
           v == Append(w, c)
<1>1. k \in Nat /\ Len(v) = k + 1 /\ v[k + 1] = c /\ (\A x \in 1 .. k : v[x] = w[x]) /\ n \in 0 .. k
  OBVIOUS
<1>2. Ends(w, n) = {x \in n + 1 .. k : w[x] = CarriageReturn} /\ Ends(v, n) = {x \in n + 1 .. k + 1 : v[x] = CarriageReturn}
  BY <1>1 DEF Ends
<1>3. IsFiniteSet(Ends(w, n)) /\ Cardinality(Ends(w, n)) \in Nat
  BY EndsCounted
<1> HIDE DEF k, v
<1>4. \A x \in n + 1 .. k : v[x] = w[x] /\ x # k + 1
  BY <1>1
<1>5. n + 1 .. k + 1 = (n + 1 .. k) \cup {k + 1} /\ k + 1 \notin n + 1 .. k
  BY <1>1
<1>6. Ends(w, n) \subseteq Ends(v, n)
  BY <1>2, <1>4, <1>5
<1>7. CASE c = CarriageReturn
  <2>1. Ends(v, n) = Ends(w, n) \cup {k + 1} /\ k + 1 \notin Ends(w, n)
    BY <1>1, <1>2, <1>4, <1>5, <1>7
  <2>2. Cardinality(Ends(v, n)) = Cardinality(Ends(w, n)) + 1
    BY <1>3, <2>1, FS_AddElement
  <2> QED
    BY <1>6, <1>7, <2>2 DEF v
<1>8. CASE c # CarriageReturn
  <2>1. Ends(v, n) = Ends(w, n)
    BY <1>1, <1>2, <1>4, <1>5, <1>8
  <2>2. Cardinality(Ends(v, n)) = Cardinality(Ends(w, n)) + 0
    BY <1>3, <2>1
  <2> QED
    BY <1>6, <1>8, <2>2 DEF v
<1> QED
  BY <1>7, <1>8

\* A character taken counts no more.
LEMMA EndsTaken ==
  ASSUME NEW w \in Seq(Char), NEW n \in Nat, n < Len(w)
  PROVE  Cardinality(Ends(w, n)) = Cardinality(Ends(w, n + 1)) + (IF w[n + 1] = CarriageReturn THEN 1 ELSE 0)
<1> DEFINE k == Len(w)
           m == n + 1
<1>1. k \in Nat /\ n < k
  OBVIOUS
<1>2. Ends(w, n) = {x \in n + 1 .. k : w[x] = CarriageReturn} /\ Ends(w, m) = {x \in m + 1 .. k : w[x] = CarriageReturn}
  BY DEF Ends
<1>3. IsFiniteSet(Ends(w, m)) /\ Cardinality(Ends(w, m)) \in Nat
  BY EndsCounted
<1> HIDE DEF k
<1>4. n + 1 .. k = (m + 1 .. k) \cup {m} /\ m \notin m + 1 .. k
  BY <1>1
<1> HIDE DEF m
<1>5. CASE w[m] = CarriageReturn
  <2>1. Ends(w, n) = Ends(w, m) \cup {m} /\ m \notin Ends(w, m)
    BY <1>2, <1>4, <1>5
  <2>2. Cardinality(Ends(w, n)) = Cardinality(Ends(w, m)) + 1
    BY <1>3, <2>1, FS_AddElement
  <2> QED
    BY <1>5, <2>2 DEF m
<1>6. CASE w[m] # CarriageReturn
  <2>1. Ends(w, n) = Ends(w, m)
    BY <1>2, <1>4, <1>6
  <2>2. Cardinality(Ends(w, n)) = Cardinality(Ends(w, m)) + 0
    BY <1>3, <2>1
  <2> QED
    BY <1>6, <2>2 DEF m
<1> QED
  BY <1>5, <1>6

\* What is left of a multiple and a remainder.
LEMMA Remainder ==
  ASSUME NEW n \in Nat, n > 0, NEW p \in Int, NEW r \in 0 .. n - 1
  PROVE  ((n * p) + r) % n = r
OBVIOUS

\* One up and one down, modulo the range of the counter.
LEMMA UpAndDown ==
  ASSUME NEW n \in Nat, n > 1, NEW x \in Nat
  PROVE  /\ (x + 1) % n = ((x % n) + 1) % n
         /\ x % n = (((x + 1) % n) + n - 1) % n
<1> DEFINE r == x % n
           p == x \div n
<1>1. r \in 0 .. n - 1 /\ p \in Int /\ x = (n * p) + r
  OBVIOUS
<1> HIDE DEF r, p
<1>2. CASE r + 1 < n
  <2>1. (x + 1) % n = r + 1
    <3>1. x + 1 = (n * p) + (r + 1) /\ r + 1 \in 0 .. n - 1
      BY <1>1, <1>2
    <3> QED
      BY <1>1, <3>1, Remainder
  <2>2. (r + 1) % n = r + 1
    BY <1>1, <1>2
  <2>3. (r + n) % n = r
    <3>1. r + n = (n * 1) + r
      BY <1>1
    <3> QED
      BY <1>1, <3>1, Remainder
  <2>4. r + 1 + n - 1 = r + n
    BY <1>1
  <2> QED
    BY <2>1, <2>2, <2>3, <2>4 DEF r
<1>3. CASE r + 1 = n
  <2>1. (x + 1) % n = 0
    <3>1. x + 1 = (n * (p + 1)) + 0 /\ p + 1 \in Int
      BY <1>1, <1>3
    <3> QED
      BY <1>1, <3>1, Remainder
  <2>2. (r + 1) % n = 0 /\ (0 + n - 1) % n = r
    BY <1>1, <1>3
  <2> QED
    BY <2>1, <2>2 DEF r
<1> QED
  BY <1>1, <1>2, <1>3

\* The numbers of NothingMissing, and where a character is.
LEMMA Numbers ==
  ASSUME ConsoleTypes, NothingMissing
  PROVE  /\ Len(taken) \in Nat /\ Len(wire) \in Nat /\ Waiting(rx) \in Nat /\ Len(taken) <= Len(wire)
         /\ CountRange \in Nat /\ CountRange > 1 /\ wire \in Seq(Char) /\ rx \in Ring
         /\ IsFiniteSet(Ends(wire, Len(taken))) /\ Cardinality(Ends(wire, Len(taken))) \in Nat
         /\ Cardinality(Ends(wire, Len(taken))) = 0 <=> Ends(wire, Len(taken)) = {}
         /\ rx.head = rx.tail <=> Waiting(rx) = 0
<1>1. CountRange \in Nat /\ CountRange > 1 /\ wire \in Seq(Char) /\ rx \in Ring /\ taken \in Seq(Nat)
  BY ConsoleAssumption DEF ConsoleTypes
<1>2. Len(taken) \in Nat /\ Len(wire) \in Nat
  BY <1>1
<1>3. Waiting(rx) \in Nat /\ (rx.head = rx.tail <=> Waiting(rx) = 0)
  <2>1. RxSize \in Nat /\ Waiting(rx) \in 0 .. RxSize - 1 /\ (rx.head = rx.tail <=> Waiting(rx) = 0)
    BY <1>1, RingSizes
  <2> QED
    BY <2>1
<1>4. Left + Waiting(rx) = Len(wire) /\ (Left = Len(taken) \/ Left = Len(taken) + 1)
  BY DEF NothingMissing, Left
<1>5. Len(taken) <= Len(wire)
  BY <1>2, <1>3, <1>4
<1> QED
  BY <1>1, <1>2, <1>3, <1>5, EndsCounted

\* A character stored: it waits, and counts if it ends a line.
LEMMA StoredNotMissing ==
  ASSUME ConsoleTypes, NothingMissing, NEW c \in Char,
         UNCHANGED <<reader, str, count, taken, ended>>, ~(c = CarriageReturn /\ reader = "decrement"),
         wire' = Append(wire, c), rx'.head # rx'.tail,
         \A d \in 0 .. Waiting(rx) : Nth(rx', d) = Nth(rx, d),
         Waiting(rx') = Waiting(rx) + 1, Nth(rx', Waiting(rx) + 1).char = c,
         ascii_line' = (IF c = CarriageReturn THEN (ascii_line + 1) % CountRange ELSE ascii_line)
  PROVE  NothingMissing'
<1> DEFINE l == Len(taken)
           n == Len(wire)
           w == Waiting(rx)
           e == Cardinality(Ends(wire, l))
<1>1. l \in Nat /\ n \in Nat /\ w \in Nat /\ l <= n /\ CountRange \in Nat /\ CountRange > 1 /\ wire \in Seq(Char)
      /\ e \in Nat
  BY Numbers
<1>2. Left' = Left /\ First' = First /\ Done' = Done /\ Taking' = Taking /\ Taking \in {0, 1} /\ First \in {0, 1}
      /\ Left \in {l, l + 1} /\ taken' = taken
  BY DEF Left, First, Done, Taking
<1>3. Left + w = n /\ Len(Done) = l /\ (\A k \in 1 .. Len(Done) : Done[k] = wire[k])
      /\ (\A d \in First .. w : Nth(rx, d).char = wire[Left + d]) /\ (e + Taking) % CountRange = ascii_line
  BY DEF NothingMissing, Counted, Places
<1>4. Len(wire') = n + 1 /\ wire'[n + 1] = c /\ \A k \in 1 .. n : wire'[k] = wire[k]
  BY <1>1
<1>5. l \in 0 .. Len(wire)
  BY <1>1
<1>6. Ends(wire, l) \subseteq Ends(wire', l)
      /\ Cardinality(Ends(wire', l)) = e + (IF c = CarriageReturn THEN 1 ELSE 0)
  BY <1>1, <1>5, EndsReceived
<1> HIDE DEF n, w
<1>7. Left' + Waiting(rx') = Len(wire')
  <2>1. Waiting(rx') = w + 1
    BY DEF w
  <2>2. Left \in Int /\ w \in Int /\ n \in Int /\ Left + w = n
    BY <1>1, <1>2, <1>3
  <2> DEFINE x == Left
  <2> HIDE DEF x
  <2>3. x \in Int /\ w \in Int /\ n \in Int /\ x + w = n => x + (w + 1) = n + 1
    OBVIOUS
  <2> QED
    BY <1>2, <1>4, <2>1, <2>2, <2>3 DEF x
<1>8. ASSUME NEW d \in Places' PROVE Nth(rx', d).char = wire'[Left' + d]
  <2>1. d \in First .. w + 1 /\ Left \in Int
    BY <1>1, <1>2 DEF Places, w
  <2>2. CASE d = w + 1
    <3>1. Left + d = n + 1
      BY <1>1, <1>3, <2>1, <2>2
    <3>2. Nth(rx', d).char = c
      BY <2>2 DEF w
    <3> QED
      BY <1>2, <1>4, <3>1, <3>2
  <2>3. CASE d # w + 1
    <3>1. d \in First .. w /\ d \in 0 .. w
      BY <1>1, <1>2, <2>1, <2>3
    <3>2. Left + d \in 1 .. n
      <4>1. d > 0 \/ Left = l + 1
        BY <1>1, <1>2, <3>1 DEF First, Left
      <4> QED
        BY <1>1, <1>2, <1>3, <2>1, <3>1, <4>1
    <3>3. Nth(rx', d) = Nth(rx, d) /\ Nth(rx, d).char = wire[Left + d]
      BY <1>3, <3>1 DEF w
    <3> QED
      BY <1>2, <1>4, <3>2, <3>3
  <2> QED
    BY <2>2, <2>3
<1>9. Len(Done') = Len(taken') /\ \A k \in 1 .. Len(Done') : Done'[k] = wire'[k]
  <2>1. \A k \in 1 .. l : k \in 1 .. n
    BY <1>1
  <2> QED
    BY <1>2, <1>3, <1>4, <2>1
<1>10. Counted' % CountRange = ascii_line'
  <2>1. Counted' = Cardinality(Ends(wire', l)) + Taking
    BY <1>2 DEF Counted
  <2> DEFINE f == Cardinality(Ends(wire', l))
             g == Taking
  <2>2. f = e + (IF c = CarriageReturn THEN 1 ELSE 0) /\ Counted' = f + g /\ g \in {0, 1}
    BY <1>2, <1>6, <2>1
  <2>3. (e + g) % CountRange = ascii_line
    BY <1>3
  <2> HIDE DEF f, g, e
  <2>4. CASE c = CarriageReturn
    <3>1. Counted' = (e + g) + 1 /\ e + g \in Nat
      BY <1>1, <2>2, <2>4
    <3> QED
      BY <1>1, <2>3, <2>4, <3>1, UpAndDown
  <2>5. CASE c # CarriageReturn
    <3>1. Counted' = e + g
      BY <1>1, <2>2, <2>5
    <3> QED
      BY <2>3, <2>5, <3>1
  <2> QED
    BY <2>4, <2>5
<1>11. reader' \in {"test", "advance", "read"} => Ends(wire', Len(taken')) # {}
  BY <1>2, <1>6 DEF NothingMissing
<1>12. reader' = "decrement" => count' = ascii_line'
  BY DEF NothingMissing
<1>13. reader' = "advance" => rx'.head # rx'.tail
  OBVIOUS
<1> QED
  BY <1>7, <1>8, <1>9, <1>10, <1>11, <1>12, <1>13 DEF NothingMissing

\* A character read: what waits comes after it, and it is passed on or ends the line.
LEMMA ReadNotMissing ==
  ASSUME ConsoleTypes, NothingMissing, Read, ~upset'
  PROVE  NothingMissing'
<1> DEFINE l == Len(taken)
           n == Len(wire)
           w == Waiting(rx)
           m == rx.buf[rx.tail]
           c == m.char
           e == Cardinality(Ends(wire, l))
           f == Cardinality(Ends(wire, l + 1))
<1>1. l \in Nat /\ n \in Nat /\ w \in Nat /\ l <= n /\ CountRange \in Nat /\ CountRange > 1 /\ wire \in Seq(Char)
      /\ rx \in Ring /\ (e = 0 <=> Ends(wire, l) = {})
  BY Numbers
<1>2. reader = "read" /\ taken' = Append(taken, m.nr) /\ c # AboveAscii
      /\ UNCHANGED <<rx, ascii_line, count, wire, ended>>
  BY DEF Read, ring
<1>3. Left = l + 1 /\ First = 0 /\ Taking = 0 /\ Done = ended \o str
  BY <1>2 DEF Left, First, Taking, Done
<1>4. (l + 1) + w = n /\ (\A d \in 0 .. w : Nth(rx, d).char = wire[(l + 1) + d])
      /\ Len(Done) = l /\ (\A k \in 1 .. Len(Done) : Done[k] = wire[k])
      /\ (e + 0) % CountRange = ascii_line /\ Ends(wire, l) # {}
  BY <1>2, <1>3 DEF NothingMissing, Counted, Places
<1>5. taken' \in Seq(Nat) /\ Len(taken') = l + 1
  <2>1. rx.buf \in [0 .. RxSize - 1 -> Item] /\ rx.tail \in 0 .. RxSize - 1 /\ taken \in Seq(Nat)
    BY <1>1, RingSizes DEF ConsoleTypes
  <2>2. m.nr \in Nat
    BY <2>1 DEF Item
  <2> HIDE DEF m
  <2> QED
    BY <1>2, <2>1, <2>2
<1>6. c = wire[l + 1] /\ c \in {Letter, CarriageReturn}
  <2>1. rx.tail \in 0 .. RxSize - 1 /\ RxSize \in Nat
    BY <1>1, RingSizes
  <2>3. m = Nth(rx, 0)
    BY <1>1, AtTheTail
  <2>4. 0 \in 0 .. w /\ (l + 1) + 0 = l + 1 /\ l + 1 \in 1 .. n
    BY <1>1, <1>4
  <2>5. c = wire[l + 1]
    <3>1. Nth(rx, 0).char = wire[(l + 1) + 0]
      BY <1>4, <2>4
    <3> QED
      BY <2>3, <2>4, <3>1
  <2>6. wire[l + 1] \in Char
    <3> HIDE DEF l, n
    <3>1. wire[l + 1] \in Char
      BY <1>1, <2>4 DEF n
    <3> QED
      BY <3>1
  <2> QED
    BY <1>2, <2>5, <2>6 DEF Char
<1>7. e = f + (IF c = CarriageReturn THEN 1 ELSE 0) /\ f \in Nat
  <2>1. l < Len(wire) /\ l + 1 \in Nat
    BY <1>1, <1>4
  <2> QED
    BY <1>1, <1>6, <2>1, EndsCounted, EndsTaken
<1>8. /\ str' = (IF c = Letter THEN Append(str, c) ELSE str)
      /\ reader' = (IF c = Letter THEN "test" ELSE "finish")
  BY DEF Read
<1>9. First' = 1 /\ Left' = l + 1 /\ Done' = Append(Done, c)
  <2>1. First' = 1 /\ Left' = l + 1
    BY <1>5, <1>8 DEF First, Left
  <2>2. Done' = ended \o Append(str, c)
    BY <1>2, <1>6, <1>8 DEF Done
  <2>3. ended \in Seq(Char) /\ str \in Seq(Char) /\ c \in Char
    <3>1. ended \in Seq(Char) /\ str \in Seq({Letter})
      BY DEF ConsoleTypes
    <3>2. Letter \in Char /\ c \in Char
      BY <1>6 DEF Char
    <3> QED
      BY <3>1, <3>2
  <2>4. ended \o Append(str, c) = Append(ended \o str, c)
    BY <2>3
  <2> QED
    BY <1>3, <2>1, <2>2, <2>4
<1> HIDE DEF c, m
<1>10. Left' + Waiting(rx') = Len(wire')
  BY <1>2, <1>4, <1>9
<1>11. ASSUME NEW d \in Places' PROVE Nth(rx', d).char = wire'[Left' + d]
  <2>1. d \in 0 .. w
    <3>1. d \in 1 .. w
      BY <1>2, <1>9 DEF Places
    <3> QED
      BY <1>1, <3>1
  <2> QED
    BY <1>2, <1>4, <1>9, <2>1
<1>12. Len(Done') = Len(taken') /\ \A k \in 1 .. Len(Done') : Done'[k] = wire'[k]
  <2> DEFINE s == Done
  <2>1. s \in Seq(Char) /\ c \in Char
    <3>1. ended \in Seq(Char) /\ str \in Seq({Letter}) /\ Letter \in Char
      BY DEF ConsoleTypes, Char
    <3>2. c \in Char
      BY <1>6 DEF Char
    <3>3. ended \o str \in Seq(Char)
      BY <3>1
    <3> QED
      BY <1>3, <3>2, <3>3
  <2>2. Len(s) = l /\ \A k \in 1 .. l : s[k] = wire[k]
    BY <1>4
  <2> HIDE DEF s, l
  <2>3. Len(Append(s, c)) = l + 1 /\ \A k \in 1 .. l + 1 : Append(s, c)[k] = IF k <= l THEN s[k] ELSE c
    BY <2>1, <2>2
  <2>4. \A k \in 1 .. l + 1 : (k \in 1 .. l /\ k <= l) \/ (k = l + 1 /\ ~(k <= l))
    BY <1>1
  <2>5. \A k \in 1 .. l + 1 : Append(s, c)[k] = wire[k]
    BY <1>6, <2>2, <2>3, <2>4
  <2> QED
    BY <1>2, <1>5, <1>9, <2>3, <2>5 DEF s
<1>13. Taking' = (IF c = CarriageReturn THEN 1 ELSE 0)
  BY <1>6, <1>8 DEF Taking, Letter, CarriageReturn
<1>14. Ends(wire', Len(taken')) = Ends(wire, l + 1) /\ (reader' = "test" => Ends(wire', Len(taken')) # {})
  <2>1. Ends(wire', Len(taken')) = Ends(wire, l + 1)
    BY <1>2, <1>5
  <2>2. reader' = "test" => e = f
    BY <1>6, <1>7, <1>8 DEF Letter, CarriageReturn
  <2>3. f = 0 <=> Ends(wire, l + 1) = {}
    <3>1. l + 1 \in Nat
      BY <1>1
    <3> QED
      BY <1>1, <3>1, EndsCounted
  <2> QED
    BY <1>1, <1>4, <2>1, <2>2, <2>3
<1>15. Counted' % CountRange = ascii_line'
  <2>1. Counted' = f + (IF c = CarriageReturn THEN 1 ELSE 0)
    BY <1>13, <1>14 DEF Counted
  <2>2. Counted' = e /\ e + 0 = e
    BY <1>7, <2>1
  <2> QED
    BY <1>2, <1>4, <2>2
<1>16. reader' \in {"test", "finish"}
  BY <1>8
<1> QED
  BY <1>10, <1>11, <1>12, <1>14, <1>15, <1>16 DEF NothingMissing

\* Every step that throws nothing away.
LEMMA NothingMissed ==
  ASSUME ConsoleTypes, NothingMissing, [ConsoleNext]_consolevars, ~upset' PROVE NothingMissing'
<1> DEFINE l == Len(taken)
           n == Len(wire)
           w == Waiting(rx)
           e == Cardinality(Ends(wire, l))
<1>1. l \in Nat /\ n \in Nat /\ w \in Nat /\ l <= n /\ CountRange \in Nat /\ CountRange > 1 /\ wire \in Seq(Char)
      /\ rx \in Ring /\ e \in Nat /\ (e = 0 <=> Ends(wire, l) = {}) /\ (rx.head = rx.tail <=> w = 0)
  BY Numbers
<1>2. /\ Left + w = n /\ (\A d \in Places : Nth(rx, d).char = wire[Left + d])
      /\ Len(Done) = l /\ (\A k \in 1 .. Len(Done) : Done[k] = wire[k])
      /\ (e + Taking) % CountRange = ascii_line
      /\ (reader = "decrement" => count = ascii_line)
      /\ (reader \in {"test", "advance", "read"} => Ends(wire, l) # {})
      /\ (reader = "advance" => rx.head # rx.tail)
  BY DEF NothingMissing, Counted
<1>3. CASE Interrupt
  <2>1. PICK c \in Char :
          /\ wire' = Append(wire, c)
          /\ \A d \in 0 .. Waiting(rx) : Nth(rx', d) = Nth(rx, d)
          /\ \/ /\ Waiting(rx') = Waiting(rx) + 1
                /\ Nth(rx', Waiting(rx) + 1) = [char |-> c, nr |-> Len(wire) + 1]
                /\ ascii_line' = (IF c = CarriageReturn THEN (ascii_line + 1) % CountRange ELSE ascii_line)
                /\ upset' = (upset \/ (c = CarriageReturn /\ reader = "decrement"))
                /\ rx'.head # rx'.tail
             \/ upset' = TRUE
    BY <1>3, InterruptStores, Zenon
  <2>2. UNCHANGED <<reader, str, count, taken, ended>>
    BY <1>3 DEF Interrupt, local
  <2>3. /\ Waiting(rx') = Waiting(rx) + 1
        /\ Nth(rx', Waiting(rx) + 1) = [char |-> c, nr |-> Len(wire) + 1]
        /\ ascii_line' = (IF c = CarriageReturn THEN (ascii_line + 1) % CountRange ELSE ascii_line)
        /\ ~(c = CarriageReturn /\ reader = "decrement") /\ rx'.head # rx'.tail
    BY <2>1, Zenon
  <2>4. Nth(rx', Waiting(rx) + 1).char = c
    BY <2>3
  <2> QED
    BY <2>1, <2>2, <2>3, <2>4, StoredNotMissing
<1>4. CASE Event
  <2>1. registered /\ reader = "idle" /\ ascii_line # 0 /\ reader' = "test" /\ str' = << >>
        /\ UNCHANGED <<rx, ascii_line, count, wire, taken, ended>>
    BY <1>4 DEF Event, past
  <2>2. ended \in Seq(Char) /\ ended \o << >> = ended
    BY DEF ConsoleTypes
  <2>3. Left' = Left /\ First' = First /\ Done' = Done /\ Taking = 0 /\ Taking' = 0
    BY <2>1, <2>2 DEF Left, First, Done, Taking
  <2>4. Ends(wire, l) # {}
    <3>1. (e + 0) % CountRange # 0
      BY <1>2, <2>1, <2>3
    <3> HIDE DEF e
    <3>2. e # 0
      <4>1. 0 % CountRange = 0
        BY <1>1
      <4> QED
        BY <3>1, <4>1
    <3> QED
      BY <1>1, <3>2
  <2> QED
    BY <1>2, <2>1, <2>3, <2>4 DEF NothingMissing, Counted, Places
<1>5. CASE Test
  <2>1. reader = "test" /\ reader' = (IF rx.head = rx.tail THEN "finish" ELSE "advance")
        /\ UNCHANGED <<rx, ascii_line, str, count, wire, taken, ended>>
    BY <1>5 DEF Test, ring, past
  <2>2. Left = l
    BY <2>1 DEF Left
  <2>3. rx.head # rx.tail
    <3> SUFFICES ASSUME w = 0 PROVE FALSE
      BY <1>1
    <3>1. l = n
      BY <1>1, <1>2, <2>2
    <3>2. Ends(wire, l) = {}
      <4>1. l + 1 .. n = {}
        BY <1>1, <3>1
      <4> QED
        BY <4>1 DEF Ends
    <3> QED
      BY <1>2, <2>1, <3>2
  <2>4. Left' = Left /\ First' = First /\ Done' = Done /\ Taking' = Taking /\ reader' = "advance"
    BY <2>1, <2>3 DEF Left, First, Done, Taking
  <2> QED
    BY <1>2, <2>1, <2>3, <2>4 DEF NothingMissing, Counted, Places
<1>6. CASE Advance
  <2>1. reader = "advance" /\ reader' = "read" /\ rx' = [rx EXCEPT !.tail = RxMask(rx.tail + 1)]
        /\ UNCHANGED <<ascii_line, str, count, wire, taken, ended>> /\ rx.head # rx.tail
    BY <1>2, <1>6 DEF Advance, past
  <2>2. rx' \in Ring
    BY <1>6, TypesKept DEF ConsoleNext, UartGetStr, ConsoleTypes
  <2>3. Waiting(rx') = w - 1 /\ \A d \in 0 .. Waiting(rx') : Nth(rx', d) = Nth(rx, d + 1)
    BY <1>1, <2>1, <2>2, RingAdvances
  <2>4. Left = l /\ Left' = l + 1 /\ First = 1 /\ First' = 0 /\ Done' = Done /\ Taking' = Taking
    BY <2>1 DEF Left, First, Done, Taking
  <2> HIDE DEF l, w, n
  <2>5. Left' + Waiting(rx') = n
    BY <1>1, <1>2, <2>3, <2>4
  <2>6. ASSUME NEW d \in Places' PROVE Nth(rx', d).char = wire[Left' + d]
    <3>0. d \in 0 .. w - 1
      BY <2>3, <2>4 DEF Places
    <3>1. d + 1 \in 1 .. w /\ l + (d + 1) = (l + 1) + d
      BY <1>1, <3>0
    <3>2. d + 1 \in Places
      BY <2>4, <3>1 DEF Places, w
    <3>3. Nth(rx', d) = Nth(rx, d + 1) /\ Nth(rx, d + 1).char = wire[l + (d + 1)]
      BY <1>2, <2>3, <2>4, <3>0, <3>1, <3>2
    <3> QED
      BY <2>4, <3>1, <3>3
  <2> QED
    BY <1>2, <2>1, <2>4, <2>5, <2>6 DEF NothingMissing, Counted, l, n
<1>7. CASE Read
  BY <1>7, ReadNotMissing
<1>8. CASE Finish
  <2>1. reader = "finish" /\ reader' = "decrement" /\ count' = ascii_line
        /\ UNCHANGED <<rx, ascii_line, str, wire, taken, ended>>
    BY <1>8 DEF Finish, ring, past
  <2>2. Left' = Left /\ First' = First /\ Done' = Done /\ Taking' = Taking
    BY <2>1 DEF Left, First, Done, Taking
  <2> QED
    BY <1>2, <2>1, <2>2 DEF NothingMissing, Counted, Places
<1>9. CASE Decrement
  <2>1. reader = "decrement" /\ reader' = "idle" /\ ascii_line' = (count + CountRange - 1) % CountRange
        /\ ended' = ended \o Append(str, CarriageReturn) /\ UNCHANGED <<rx, wire, taken>>
    BY <1>9 DEF Decrement
  <2>2. Left' = Left /\ First' = First /\ Done' = Done /\ Taking = 1 /\ Taking' = 0
    BY <2>1 DEF Left, First, Done, Taking
  <2>3. Counted' % CountRange = ascii_line'
    <3>1. Counted' = e + 0
      BY <2>1, <2>2 DEF Counted
    <3>2. (e + 1) % CountRange = count
      BY <1>2, <2>1, <2>2
    <3> HIDE DEF e
    <3>3. Counted' = e
      BY <1>1, <3>1
    <3> QED
      BY <1>1, <2>1, <3>2, <3>3, UpAndDown
  <2> QED
    BY <1>2, <2>1, <2>2, <2>3 DEF NothingMissing, Places
<1>10. CASE UNCHANGED consolevars
  BY <1>10 DEF NothingMissing, consolevars, ring, local, past, Counted, Taking, Left, Places, First, Done
<1> QED
  BY <1>3, <1>4, <1>5, <1>6, <1>7, <1>8, <1>9, <1>10 DEF ConsoleNext, UartGetStr

\* What was thrown away or emptied stays so.
LEMMA UpsetStays == ASSUME ConsoleTypes, [ConsoleNext]_consolevars PROVE (upset => upset') /\ (overrun => overrun')
<1>1. upset \in BOOLEAN /\ overrun \in BOOLEAN
  BY DEF ConsoleTypes
<1>2. CASE Interrupt
  <2>1. PICK c \in Char :
          \/ upset' = (upset \/ (c = CarriageReturn /\ reader = "decrement")) /\ overrun' = overrun
          \/ upset' = TRUE /\ overrun' = (overrun \/ reader = "advance")
    BY <1>2, InterruptStores, Zenon
  <2>2. CASE upset' = (upset \/ (c = CarriageReturn /\ reader = "decrement")) /\ overrun' = overrun
    BY <2>2
  <2>3. CASE upset' = TRUE /\ overrun' = (overrun \/ reader = "advance")
    BY <2>3
  <2> QED
    BY <2>1, <2>2, <2>3
<1>3. CASE Event
  BY <1>3 DEF Event
<1>4. CASE Read
  BY <1>4 DEF Read
<1>6. CASE Test \/ Advance \/ Finish \/ Decrement
  BY <1>6 DEF Test, Advance, Finish, Decrement, havoc
<1>5. CASE UNCHANGED consolevars
  BY <1>5 DEF consolevars, havoc
<1> QED
  BY <1>2, <1>3, <1>4, <1>5, <1>6 DEF ConsoleNext, UartGetStr

\* After reset.
LEMMA ConsoleStarts == ConsoleInit => ConsInv
<1> SUFFICES ASSUME ConsoleInit PROVE ConsInv
  OBVIOUS
<1>1. RxSize \in Nat /\ RxSize > 1 /\ CountRange \in Nat /\ CountRange > 1 /\ Callback \subseteq BOOLEAN
  BY ConsoleAssumption
<1>2. rx = [buf |-> [o \in 0 .. RxSize - 1 |-> NoChar], head |-> 0, tail |-> 0]
      /\ reader = "idle" /\ wire = << >> /\ taken = << >> /\ ended = << >> /\ ascii_line = 0
      /\ str = << >> /\ count = 0 /\ registered \in Callback /\ upset = FALSE /\ overrun = FALSE
  BY DEF ConsoleInit
<1>3. NoChar \in Item
  BY DEF NoChar, Item
<1>4. ConsoleTypes
  <2>1. rx \in Ring
    <3>1. 0 \in 0 .. RxSize - 1
      BY <1>1
    <3> QED
      BY <1>2, <1>3, <3>1 DEF Ring, RingOf
  <2>2. 0 \in 0 .. CountRange - 1
    BY <1>1
  <2>3. << >> \in Seq(Char) /\ << >> \in Seq(Nat) /\ << >> \in Seq({Letter})
    OBVIOUS
  <2> QED
    BY <1>1, <1>2, <2>1, <2>2, <2>3 DEF ConsoleTypes
<1>5. Waiting(rx) = 0 /\ Places = {} /\ Left = 0 /\ Done = << >> /\ Taking = 0
  <2>1. Waiting(rx) = 0
    BY <1>2 DEF Waiting, Filled, Apart
  <2>2. First = 1 /\ Left = 0 /\ Done = << >> /\ Taking = 0
    BY <1>2 DEF First, Left, Done, Taking
  <2> QED
    BY <2>1, <2>2 DEF Places
<1>6. InOrder
  BY <1>2, <1>5 DEF InOrder
<1>7. NothingMissing
  <2>1. Ends(wire, Len(taken)) = {}
    <3>1. 0 + 1 .. 0 = {}
      OBVIOUS
    <3> QED
      BY <1>2, <3>1 DEF Ends
  <2>2. Counted = 0 /\ 0 % CountRange = 0
    BY <1>1, <1>5, <2>1, FS_EmptySet DEF Counted
  <2> QED
    BY <1>2, <1>5, <2>2 DEF NothingMissing
<1> QED
  BY <1>4, <1>6, <1>7 DEF ConsInv

\* What the invariant says of the properties.
LEMMA ConsInvSuffices == ConsInv => ConsoleInv
<1> SUFFICES ASSUME ConsInv PROVE ConsoleInv
  OBVIOUS
<1>1. ConsoleTypes /\ rx \in Ring
  BY DEF ConsInv, ConsoleTypes
<1>2. ConsoleTypeOK
  <2>1. rx.head \in 0 .. RxSize - 1 /\ rx.tail \in 0 .. RxSize - 1
        /\ \A o \in 0 .. RxSize - 1 : rx.buf[o] \in Item
    BY <1>1, RingSizes
  <2>2. \A o \in 0 .. RxSize - 1 : rx.buf[o].char \in Char \cup {NoChar.char}
    BY <2>1 DEF Item, NoChar
  <2> QED
    BY <1>1, <2>1, <2>2 DEF ConsoleTypeOK, ConsoleTypes
<1>3. StringsAreLines
  <2> SUFFICES ASSUME ~upset PROVE Len(ended) <= Len(wire) /\ ended = SubSeq(wire, 1, Len(ended))
    BY DEF StringsAreLines
  <2>1. NothingMissing
    BY DEF ConsInv
  <2>2. Len(Done) = Len(taken) /\ (\A k \in 1 .. Len(Done) : Done[k] = wire[k]) /\ Len(taken) <= Len(wire)
        /\ Len(taken) \in Nat /\ wire \in Seq(Char) /\ ended \in Seq(Char)
    BY <1>1, <2>1, Numbers DEF NothingMissing, ConsoleTypes
  <2>3. Len(ended) <= Len(Done) /\ \A k \in 1 .. Len(ended) : Done[k] = ended[k]
    <3>1. str \in Seq(Char) /\ CarriageReturn \in Char
      <4>1. str \in Seq({Letter}) /\ Letter \in Char /\ CarriageReturn \in Char
        BY <1>1 DEF ConsoleTypes, Char
      <4> QED
        BY <4>1
    <3>2. Done = ended \/ Done = ended \o Append(str, CarriageReturn) \/ Done = ended \o str
      BY DEF Done
    <3>3. Append(str, CarriageReturn) \in Seq(Char)
      BY <3>1
    <3>4. ASSUME NEW s \in Seq(Char), Done = ended \o s
          PROVE  Len(ended) <= Len(Done) /\ \A k \in 1 .. Len(ended) : Done[k] = ended[k]
      BY <2>2, <3>4
    <3>5. CASE Done = ended
      BY <2>2, <3>5
    <3> QED
      BY <3>1, <3>2, <3>3, <3>4, <3>5
  <2> DEFINE x == Len(ended)
             s == SubSeq(wire, 1, x)
  <2>4. x \in Nat /\ x <= Len(wire) /\ \A k \in 1 .. x : ended[k] = wire[k]
    <3>1. x \in Nat
      BY <2>2
    <3>2. \A k \in 1 .. x : k \in 1 .. Len(Done)
      BY <2>2, <2>3, <3>1
    <3> QED
      BY <2>2, <2>3, <3>1, <3>2
  <2> HIDE DEF x
  <2>5. s \in Seq(Char) /\ Len(s) = x /\ \A k \in 1 .. x : s[k] = wire[k]
    BY <2>2, <2>4
  <2>6. ended = s
    BY <2>2, <2>4, <2>5 DEF x
  <2> QED
    BY <2>4, <2>6 DEF x
<1>4. NoneTwice
  BY DEF NoneTwice, ConsInv, InOrder
<1> QED
  BY <1>2, <1>3, <1>4 DEF ConsoleInv

(***************************************************************************)
(* For every size of the ring and every range of ascii_line, with the      *)
(* interrupt between any two accesses of the reader: the strings given to  *)
(* the callback are the lines received as long as none was lost, and       *)
(* uart_getc returns nothing twice as long as the ring was not emptied     *)
(* under it.                                                               *)
(***************************************************************************)
THEOREM ConsoleAlways == ConsoleSpec => []ConsoleInv
<1>1. ConsInv /\ [ConsoleNext]_consolevars => ConsInv'
  <2> SUFFICES ASSUME ConsInv, [ConsoleNext]_consolevars PROVE ConsInv'
    OBVIOUS
  <2>1. ConsoleTypes /\ ConsoleTypes' /\ (upset => upset') /\ (overrun => overrun')
    BY TypesKept, UpsetStays DEF ConsInv
  <2>2. ASSUME ~overrun' PROVE InOrder'
    BY <2>1, <2>2, OrderKept DEF ConsInv
  <2>3. ASSUME ~upset' PROVE NothingMissing'
    BY <2>1, <2>3, NothingMissed DEF ConsInv
  <2> QED
    BY <2>1, <2>2, <2>3 DEF ConsInv
<1> QED
  BY <1>1, ConsoleStarts, ConsInvSuffices, PTL DEF ConsoleSpec
-----------------------------------------------------------------------------
(***************************************************************************)
(* The display.  Between the bytes that were queued before it and its end, *)
(* a picture is worked off in order; a queue that overflows holds the end  *)
(* of the picture only, and no command without its column.                 *)
(***************************************************************************)

\* The queue, how many bytes wait in it, and the one that is due d-th.
LcdRing == RingOf(ByteRange, Byte)
Queued(q) == Filled(ByteRange, q)
Due(q, d) == NthOf(ByteRange, q, d)

\* The mask of 512 and the width of 8 bits together are one step around 256 cells.
LEMMA LcdIndexGoesAround ==
  ASSUME NEW k \in 0 .. ByteRange - 1
  PROVE  LcdNextIndex(k) = Around(ByteRange, k)
<1>1. ByteRange \in Nat /\ ByteRange > 1 /\ LcdBufSize \in Nat /\ LcdBufSize > 0 /\ LcdBufSize % ByteRange = 0
  BY LcdAssumption
<1>2. LcdBufSize >= ByteRange
  BY <1>1
<1> DEFINE x == (k + 1) % LcdBufSize
<1>3. k + 1 \in Nat /\ k + 1 <= LcdBufSize
  BY <1>1, <1>2
<1>4. x = IF k + 1 < LcdBufSize THEN k + 1 ELSE 0
  BY <1>1, <1>3
<1>5. LcdNextIndex(k) = x % ByteRange
  BY DEF LcdNextIndex
<1> HIDE DEF x
<1>6. x % ByteRange = IF k + 1 < ByteRange THEN k + 1 ELSE 0
  <2>1. CASE k + 1 < ByteRange
    BY <1>1, <1>2, <1>4, <2>1
  <2>2. CASE k + 1 = ByteRange
    BY <1>1, <1>2, <1>4, <2>2
  <2> QED
    BY <1>1, <2>1, <2>2
<1> QED
  BY <1>5, <1>6 DEF Around

\* What AnyRingSizes says of the queue.
LEMMA QueueSizes ==
  ASSUME NEW q \in LcdRing
  PROVE  /\ ByteRange \in Nat /\ ByteRange > 1 /\ q \in RingOf(ByteRange, Byte)
         /\ q.head \in 0 .. ByteRange - 1 /\ q.tail \in 0 .. ByteRange - 1
         /\ Queued(q) \in 0 .. ByteRange - 1
         /\ \A d \in 0 .. ByteRange - 1 : Due(q, d) \in Byte
         /\ LcdIsEmpty(q) <=> Queued(q) = 0
         /\ LcdNextIndex(q.head) = q.tail <=> Queued(q) = ByteRange - 1
         /\ LcdNextIndex(q.head) = Around(ByteRange, q.head)
         /\ LcdNextIndex(q.tail) = Around(ByteRange, q.tail)
<1>1. ByteRange \in Nat /\ ByteRange > 1 /\ q \in RingOf(ByteRange, Byte)
  BY LcdAssumption DEF LcdRing
<1>2. /\ q.head \in 0 .. ByteRange - 1 /\ q.tail \in 0 .. ByteRange - 1
      /\ Filled(ByteRange, q) \in 0 .. ByteRange - 1
      /\ \A d \in 0 .. ByteRange - 1 : NthOf(ByteRange, q, d) \in Byte
      /\ q.head = q.tail <=> Filled(ByteRange, q) = 0
      /\ Around(ByteRange, q.head) = q.tail <=> Filled(ByteRange, q) = ByteRange - 1
  BY <1>1, AnyRingSizes
<1>3. LcdNextIndex(q.head) = Around(ByteRange, q.head) /\ LcdNextIndex(q.tail) = Around(ByteRange, q.tail)
  BY <1>2, LcdIndexGoesAround
<1> QED
  BY <1>1, <1>2, <1>3 DEF Queued, Due, LcdIsEmpty

\* lcd_buf_put stores a byte behind the others, or empties the queue that is full.
LEMMA LcdPuts ==
  ASSUME NEW q \in LcdRing, NEW byte \in Byte
  PROVE  LET r == LcdBufPut(q, byte)
         IN  /\ r \in LcdRing
             /\ \/ Queued(q) = ByteRange - 1 /\ Queued(r) = 0
                \/ /\ Queued(q) < ByteRange - 1 /\ Queued(r) = Queued(q) + 1 /\ Due(r, Queued(q) + 1) = byte
                   /\ \A d \in 0 .. Queued(q) : Due(r, d) = Due(q, d)
<1> DEFINE r == LcdBufPut(q, byte)
<1>1. /\ ByteRange \in Nat /\ ByteRange > 1 /\ q \in RingOf(ByteRange, Byte) /\ Queued(q) \in 0 .. ByteRange - 1
      /\ LcdNextIndex(q.head) = q.tail <=> Queued(q) = ByteRange - 1
      /\ LcdNextIndex(q.head) = Around(ByteRange, q.head)
  BY QueueSizes
<1>2. CASE LcdNextIndex(q.head) = q.tail
  <2>1. r = [q EXCEPT !.head = q.tail]
    BY <1>2 DEF LcdBufPut
  <2> HIDE DEF r
  <2>2. r \in RingOf(ByteRange, Byte) /\ Filled(ByteRange, r) = 0
    BY <1>1, <2>1, AnyRingEmpties
  <2> QED
    BY <1>1, <1>2, <2>2 DEF LcdRing, Queued, r
<1>3. CASE LcdNextIndex(q.head) # q.tail
  <2>1. r = [buf |-> [q.buf EXCEPT ![Around(ByteRange, q.head)] = byte], head |-> Around(ByteRange, q.head),
             tail |-> q.tail] /\ Around(ByteRange, q.head) # q.tail
    BY <1>1, <1>3 DEF LcdBufPut, LcdStored
  <2> HIDE DEF r
  <2>2. /\ r \in RingOf(ByteRange, Byte)
        /\ Filled(ByteRange, r) = Filled(ByteRange, q) + 1 /\ NthOf(ByteRange, r, Filled(ByteRange, q) + 1) = byte
        /\ \A d \in 0 .. Filled(ByteRange, q) : NthOf(ByteRange, r, d) = NthOf(ByteRange, q, d)
    BY <1>1, <2>1, AnyRingStores
  <2>3. Queued(q) < ByteRange - 1
    BY <1>1, <1>3
  <2> QED
    BY <2>2, <2>3 DEF LcdRing, Queued, Due, r
<1> QED
  BY <1>2, <1>3

\* lcd_buf_get takes the byte that is due, and the others move up.
LEMMA LcdTakes ==
  ASSUME NEW q \in LcdRing, ~LcdIsEmpty(q)
  PROVE  /\ LcdBufGet(q) = Due(q, 1) /\ LcdTaken(q) \in LcdRing /\ Queued(q) > 0
         /\ Queued(LcdTaken(q)) = Queued(q) - 1
         /\ \A d \in 0 .. Queued(q) - 1 : Due(LcdTaken(q), d) = Due(q, d + 1)
<1>1. /\ ByteRange \in Nat /\ ByteRange > 1 /\ q \in RingOf(ByteRange, Byte) /\ Queued(q) \in 0 .. ByteRange - 1
      /\ LcdNextIndex(q.tail) = Around(ByteRange, q.tail) /\ q.head # q.tail /\ Queued(q) > 0
      /\ q.tail \in 0 .. ByteRange - 1
  <2>1. Queued(q) \in 0 .. ByteRange - 1 /\ Queued(q) # 0 /\ ByteRange \in Nat
    BY QueueSizes
  <2>2. Queued(q) > 0
    BY <2>1
  <2> QED
    BY <2>2, QueueSizes DEF LcdIsEmpty
<1>2. LcdBufGet(q) = Due(q, 1)
  <2>1. Onward(ByteRange, q.tail, 1) = Around(ByteRange, q.tail)
    BY <1>1 DEF Onward, Around
  <2> QED
    BY <1>1, <2>1 DEF LcdBufGet, Due, NthOf
<1> DEFINE r == LcdTaken(q)
<1>3. r = [q EXCEPT !.tail = Around(ByteRange, q.tail)]
  <2>1. LcdTaken(q) = [q EXCEPT !.tail = LcdNextIndex(q.tail)]
    BY DEF LcdTaken
  <2> QED
    BY <1>1, <2>1, Zenon
<1> HIDE DEF r
<1>4. /\ r \in RingOf(ByteRange, Byte) /\ Filled(ByteRange, r) = Filled(ByteRange, q) - 1
      /\ \A d \in 0 .. Filled(ByteRange, r) : NthOf(ByteRange, r, d) = NthOf(ByteRange, q, d + 1)
  BY <1>1, <1>3, AnyRingAdvances
<1> QED
  BY <1>1, <1>2, <1>4 DEF LcdRing, Queued, Due, r

\* What n bytes of b make of the queue q: all are behind it, or it overflowed at the j-th and only
\* those after it are there.
Made(q, b, n, r) ==
  /\ r \in LcdRing
  /\ \/ /\ Queued(r) = Queued(q) + n
        /\ \A d \in 1 .. Queued(q) : Due(r, d) = Due(q, d)
        /\ \A k \in 1 .. n : Due(r, Queued(q) + k) = b[k]
     \/ /\ Queued(q) + n > ByteRange - 1
        /\ \E j \in 1 .. n : Queued(r) = n - j /\ \A k \in j + 1 .. n : Due(r, k - j) = b[k]

\* One byte more.
LEMMA OneByteMore ==
  ASSUME NEW q \in LcdRing, NEW b \in Seq(Byte), NEW n \in Nat, n + 1 <= Len(b), NEW r, Made(q, b, n, r)
  PROVE  Made(q, b, n + 1, LcdBufPut(r, b[n + 1]))
<1> DEFINE m == n + 1
           s == LcdBufPut(r, b[m])
           x == Queued(q)
           y == Queued(r)
           z == Queued(s)
<1>1. r \in LcdRing /\ b[m] \in Byte /\ m \in Nat /\ m = n + 1 /\ ByteRange \in Nat /\ ByteRange > 1
  BY QueueSizes DEF Made
<1>2. x \in Nat /\ x <= ByteRange - 1 /\ y \in Nat
  <2>1. x \in 0 .. ByteRange - 1 /\ y \in 0 .. ByteRange - 1
    BY <1>1, QueueSizes
  <2> HIDE DEF x, y
  <2> QED
    BY <1>1, <2>1
<1> HIDE DEF m
<1>3. /\ s \in LcdRing
      /\ \/ y = ByteRange - 1 /\ z = 0
         \/ /\ y < ByteRange - 1 /\ z = y + 1 /\ Due(s, y + 1) = b[m]
            /\ \A d \in 0 .. y : Due(s, d) = Due(r, d)
  BY <1>1, LcdPuts
<1> HIDE DEF s, x, y, z
<1>4. CASE y = ByteRange - 1 /\ z = 0
  <2>1. x + m > ByteRange - 1
    <3>1. CASE y = x + n
      BY <1>1, <1>2, <1>4, <3>1
    <3>2. CASE x + n > ByteRange - 1
      BY <1>1, <1>2, <3>2
    <3> QED
      BY <3>1, <3>2 DEF Made, x, y
  <2>2. m \in 1 .. m /\ z = m - m /\ m + 1 .. m = {}
    BY <1>1, <1>4
  <2> QED
    BY <1>3, <2>1, <2>2 DEF Made, m, s, x, z
<1>5. CASE /\ y < ByteRange - 1 /\ z = y + 1 /\ Due(s, y + 1) = b[m]
           /\ \A d \in 0 .. y : Due(s, d) = Due(r, d)
  <2>1. CASE /\ y = x + n /\ \A d \in 1 .. x : Due(r, d) = Due(q, d)
             /\ \A k \in 1 .. n : Due(r, x + k) = b[k]
    <3>1. z = x + m
      BY <1>1, <1>2, <1>5, <2>1
    <3>2. ASSUME NEW d \in 1 .. x PROVE Due(s, d) = Due(q, d)
      <4>1. d \in 0 .. y
        BY <1>1, <1>2, <2>1
      <4> QED
        BY <1>5, <2>1, <4>1
    <3>3. ASSUME NEW k \in 1 .. m PROVE Due(s, x + k) = b[k]
      <4>1. CASE k = m
        <5>1. x + k = y + 1
          BY <1>1, <1>2, <2>1, <4>1
        <5> QED
          BY <1>5, <4>1, <5>1
      <4>2. CASE k # m
        <5>1. k \in 1 .. n /\ x + k \in 0 .. y
          BY <1>1, <1>2, <2>1, <4>2
        <5> QED
          BY <1>5, <2>1, <5>1
      <4> QED
        BY <4>1, <4>2
    <3> QED
      BY <1>3, <3>1, <3>2, <3>3 DEF Made, m, s, x, z
  <2>2. CASE /\ x + n > ByteRange - 1
             /\ \E j \in 1 .. n : y = n - j /\ \A k \in j + 1 .. n : Due(r, k - j) = b[k]
    <3>1. PICK j \in 1 .. n : y = n - j /\ \A k \in j + 1 .. n : Due(r, k - j) = b[k]
      BY <2>2
    <3>2. j \in 1 .. m /\ z = m - j /\ x + m > ByteRange - 1
      BY <1>1, <1>2, <1>5, <2>2, <3>1
    <3>3. ASSUME NEW k \in j + 1 .. m PROVE Due(s, k - j) = b[k]
      <4>1. CASE k = m
        <5>1. k - j = y + 1
          BY <1>1, <1>2, <3>1, <4>1
        <5> QED
          BY <1>5, <4>1, <5>1
      <4>2. CASE k # m
        <5>1. k \in j + 1 .. n /\ k - j \in 0 .. y
          BY <1>1, <1>2, <3>1, <4>2
        <5> QED
          BY <1>5, <3>1, <5>1
      <4> QED
        BY <4>1, <4>2
    <3> QED
      BY <1>3, <3>2, <3>3 DEF Made, m, s, x, z
  <2> QED
    BY <2>1, <2>2 DEF Made, x, y
<1> QED
  BY <1>3, <1>4, <1>5

\* All the bytes of b.
LEMMA AllBytes ==
  ASSUME NEW q \in LcdRing, NEW b \in Seq(Byte)
  PROVE  Made(q, b, Len(b), LcdPutAll(q, b))
<1> DEFINE V == LcdRing
           l == Len(b)
           Is(f) == f = [n \in 0 .. l |-> IF n = 0 THEN q ELSE LcdBufPut(f[n - 1], b[n])]
           after == CHOOSE f : Is(f)
           step == [k \in Nat |-> [v \in V |-> IF k \in 1 .. l THEN LcdBufPut(v, b[k]) ELSE v]]
<1>0. l \in Nat /\ q \in V /\ \A k \in 1 .. l : b[k] \in Byte
  OBVIOUS
<1>1. LcdPutAll(q, b) = after[l]
  BY DEF LcdPutAll
<1>2. ASSUME NEW k \in 1 .. l, NEW v \in V PROVE LcdBufPut(v, b[k]) \in V
  BY <1>0, LcdPuts
<1> HIDE DEF V, l
<1>3. Steps(step, V)
  BY <1>2 DEF Steps
<1>4. PICK f : Reaches(f, V, q, step, l)
  <2> HIDE DEF step
  <2> QED
    BY <1>0, <1>3, Iterates, Zenon
<1>5. f \in [0 .. l -> V] /\ f[0] = q
  BY <1>4 DEF Reaches
<1>6. ASSUME NEW k \in 1 .. l PROVE f[k] = LcdBufPut(f[k - 1], b[k])
  <2>1. f[k] = step[k][f[k - 1]]
    BY <1>4 DEF Reaches
  <2>2. k \in Nat /\ k - 1 \in 0 .. l
    BY <1>0
  <2>3. f[k - 1] \in V
    BY <1>5, <2>2
  <2> QED
    BY <2>1, <2>2, <2>3
<1>7. Is(f)
  <2>1. ASSUME NEW n \in 0 .. l
        PROVE  f[n] = IF n = 0 THEN q ELSE LcdBufPut(f[n - 1], b[n])
    <3>1. CASE n = 0
      BY <1>5, <3>1
    <3>2. CASE n # 0
      <4>1. n \in 1 .. l
        BY <1>0, <3>2
      <4> QED
        BY <1>6, <3>2, <4>1
    <3> QED
      BY <3>1, <3>2
  <2> QED
    BY <1>5, <2>1
<1>8. Is(after)
  BY <1>7, Zenon
<1> HIDE DEF after
<1>9. \A n \in 0 .. l : after[n] = IF n = 0 THEN q ELSE LcdBufPut(after[n - 1], b[n])
  BY <1>8
<1> DEFINE T == {m \in Nat : m <= l => Made(q, b, m, after[m])}
<1>10. 0 \in T
  <2>1. after[0] = q
    BY <1>0, <1>9
  <2>2. Queued(q) \in Int
    <3>1. Queued(q) \in 0 .. ByteRange - 1
      BY QueueSizes
    <3> QED
      BY <3>1
  <2>3. Queued(q) = Queued(q) + 0 /\ 1 .. 0 = {}
    BY <2>2
  <2>4. Made(q, b, 0, q)
    BY <2>3 DEF Made
  <2> QED
    BY <2>1, <2>4
<1>11. ASSUME NEW m \in T PROVE m + 1 \in T
  <2> DEFINE k == m + 1
  <2>1. SUFFICES ASSUME k <= l PROVE Made(q, b, k, after[k])
    OBVIOUS
  <2>2. k \in 0 .. l /\ k # 0 /\ k - 1 = m /\ m \in Nat /\ Made(q, b, m, after[m])
    BY <1>0, <2>1
  <2>3. after[k] = LcdBufPut(after[m], b[k])
    <3> HIDE DEF k, T
    <3> QED
      BY <1>9, <2>2
  <2>4. m + 1 <= Len(b)
    BY <2>1 DEF l
  <2> QED
    BY <2>2, <2>3, <2>4, OneByteMore
<1>12. T = Nat
  <2> HIDE DEF T
  <2>1. T \subseteq Nat
    BY DEF T
  <2> QED
    BY <1>10, <1>11, <2>1, Induct
<1>13. Made(q, b, l, after[l])
  BY <1>0, <1>12
<1> QED
  BY <1>1, <1>13 DEF l

\* One sequence after another.
LEMMA Concatenation ==
  ASSUME NEW s \in Seq(Byte), NEW t \in Seq(Byte), NEW m, Len(s) = m, NEW n, Len(t) = n
  PROVE  /\ s \o t \in Seq(Byte) /\ Len(s \o t) = m + n
         /\ \A k \in 1 .. m : (s \o t)[k] = s[k]
         /\ \A k \in 1 .. n : (s \o t)[m + k] = t[k]
OBVIOUS

\* The same of r.
Joins(r, s, m, t, n) == Len(s) = m /\ Len(t) = n /\ r = s \o t

\* What that makes.
LEMMA OneAfterAnother ==
  ASSUME NEW s \in Seq(Byte), NEW t \in Seq(Byte), NEW m, NEW n, NEW r, Joins(r, s, m, t, n)
  PROVE  /\ r \in Seq(Byte) /\ Len(r) = m + n
         /\ \A k \in 1 .. m : r[k] = s[k]
         /\ \A k \in 1 .. n : r[m + k] = t[k]
<1>1. Len(s) = m /\ Len(t) = n
  BY DEF Joins
<1>2. r = s \o t
  BY DEF Joins
<1>3. r \in Seq(Byte) /\ Len(r) = m + n
  BY <1>1, <1>2, Concatenation
<1>4. \A k \in 1 .. m : r[k] = s[k]
  BY <1>1, <1>2, Concatenation
<1>5. \A k \in 1 .. n : r[m + k] = t[k]
  BY <1>1, <1>2, Concatenation
<1> QED
  BY <1>3, <1>4, <1>5

\* Two rows that a page may have.
Rowpair(rows) == \A o \in {1, 2} : rows[o] \in Seq(Text) /\ Len(rows[o]) <= RowLength

\* The bytes: a command's column, its row, a letter.
Column == [kind |-> "column"]
LocateRow(r) == [kind |-> "locate", row |-> r]
Letter1(t) == [kind |-> "char", letter |-> t]

\* What the display writes of two rows, byte by byte.
LEMMA PictureBytes ==
  ASSUME NEW rows, Rowpair(rows)
  PROVE  LET p == Picture(rows)
             n1 == Len(rows[1])
             n2 == Len(rows[2])
         IN  /\ p \in Seq(Byte) /\ n1 \in Nat /\ n2 \in Nat /\ Len(p) = 5 + n1 + n2
             /\ p[1] = [kind |-> "cls"] /\ p[2] = LocateRow(0) /\ p[3] = Column
             /\ \A k \in 1 .. n1 : p[3 + k] = Letter1(rows[1][k])
             /\ p[4 + n1] = LocateRow(1) /\ p[5 + n1] = Column
             /\ \A k \in 1 .. n2 : p[5 + n1 + k] = Letter1(rows[2][k])
<1> DEFINE n1 == Len(rows[1])
           n2 == Len(rows[2])
           c == << [kind |-> "cls"] >>
           l0 == Locate(0)
           l1 == Locate(1)
           s1 == Letters(rows[1])
           s2 == Letters(rows[2])
<1>1. n1 \in Nat /\ n2 \in Nat /\ rows[1] \in Seq(Text) /\ rows[2] \in Seq(Text)
      /\ DOMAIN rows[1] = 1 .. n1 /\ DOMAIN rows[2] = 1 .. n2
  <2>1. rows[1] \in Seq(Text) /\ rows[2] \in Seq(Text)
    BY DEF Rowpair
  <2> QED
    BY <2>1
<1>2. /\ [kind |-> "cls"] \in Byte /\ Column \in Byte /\ LocateRow(0) \in Byte /\ LocateRow(1) \in Byte
      /\ \A t \in Text : Letter1(t) \in Byte
  BY DEF Byte, Column, LocateRow, Letter1
<1>3. /\ \A k \in 1 .. n1 : s1[k] = Letter1(rows[1][k])
      /\ \A k \in 1 .. n2 : s2[k] = Letter1(rows[2][k])
      /\ s1 = [k \in 1 .. n1 |-> Letter1(rows[1][k])] /\ s2 = [k \in 1 .. n2 |-> Letter1(rows[2][k])]
  BY <1>1 DEF Letters, Letter1
<1>4. l0 = << LocateRow(0), Column >> /\ l1 = << LocateRow(1), Column >>
  BY DEF Locate, LocateRow, Column, Zero0
<1>5. Picture(rows) = c \o l0 \o s1 \o l1 \o s2
  BY DEF Picture
<1> HIDE DEF l0, l1, s1, s2
<1>6. c \in Seq(Byte) /\ l0 \in Seq(Byte) /\ l1 \in Seq(Byte) /\ Len(c) = 1 /\ Len(l0) = 2 /\ Len(l1) = 2
      /\ c[1] = [kind |-> "cls"] /\ l0[1] = LocateRow(0) /\ l0[2] = Column /\ l1[1] = LocateRow(1) /\ l1[2] = Column
  BY <1>2, <1>4
<1>7. s1 \in Seq(Byte) /\ s2 \in Seq(Byte) /\ Len(s1) = n1 /\ Len(s2) = n2
  <2>1. \A k \in 1 .. n1 : rows[1][k] \in Text
    BY <1>1
  <2>2. \A k \in 1 .. n2 : rows[2][k] \in Text
    BY <1>1
  <2> HIDE DEF n1, n2
  <2> QED
    BY <1>1, <1>2, <1>3, <2>1, <2>2
<1> HIDE DEF c, n1, n2
<1> DEFINE a == c \o l0
           b == a \o s1
           d == b \o l1
           e == d \o s2
<1> HIDE DEF a, b, d, e
<1>8. a \in Seq(Byte) /\ Len(a) = 3 /\ a[1] = [kind |-> "cls"] /\ a[2] = LocateRow(0) /\ a[3] = Column
  <2> DEFINE x == Len(c)
             y == Len(l0)
  <2>1. x = 1 /\ y = 2 /\ Joins(a, c, x, l0, y)
    BY <1>6 DEF Joins, a
  <2> HIDE DEF x, y
  <2>2. a \in Seq(Byte) /\ Len(a) = x + y /\ (\A k \in 1 .. x : a[k] = c[k]) /\ \A k \in 1 .. y : a[x + k] = l0[k]
    <3>1. c \in Seq(Byte) /\ l0 \in Seq(Byte) /\ Joins(a, c, x, l0, y)
      BY <1>6, <2>1
    <3> QED
      BY <3>1, OneAfterAnother
  <2>3. 1 \in 1 .. x /\ 1 \in 1 .. y /\ 2 \in 1 .. y /\ x + y = 3
    BY <2>1
  <2>4. a[1] = c[1] /\ a[x + 1] = l0[1] /\ a[x + 2] = l0[2]
    BY <2>2, <2>3
  <2>5. x + 1 = 2 /\ x + 2 = 3
    BY <2>1
  <2> QED
    BY <1>6, <2>2, <2>3, <2>4, <2>5, Zenon
<1>9. b \in Seq(Byte) /\ Len(b) = 3 + n1 /\ (\A k \in 1 .. 3 : b[k] = a[k]) /\ \A k \in 1 .. n1 : b[3 + k] = s1[k]
  <2>1. Joins(b, a, 3, s1, n1)
    BY <1>7, <1>8 DEF Joins, b
  <2>2. a \in Seq(Byte) /\ s1 \in Seq(Byte)
    BY <1>7, <1>8
  <2> QED
    BY <2>1, <2>2, OneAfterAnother
<1>10. d \in Seq(Byte) /\ Len(d) = 5 + n1 /\ (\A k \in 1 .. 3 + n1 : d[k] = b[k])
       /\ d[4 + n1] = l1[1] /\ d[5 + n1] = l1[2]
  <2>1. d \in Seq(Byte) /\ Len(d) = (3 + n1) + 2 /\ (\A k \in 1 .. 3 + n1 : d[k] = b[k])
        /\ \A k \in 1 .. 2 : d[(3 + n1) + k] = l1[k]
    <3>1. Joins(d, b, 3 + n1, l1, 2)
      BY <1>6, <1>9 DEF Joins, d
    <3>2. b \in Seq(Byte) /\ l1 \in Seq(Byte)
      BY <1>6, <1>9
    <3> QED
      BY <3>1, <3>2, OneAfterAnother
  <2>2. (3 + n1) + 1 = 4 + n1 /\ (3 + n1) + 2 = 5 + n1 /\ 1 \in 1 .. 2 /\ 2 \in 1 .. 2
    BY <1>1
  <2>3. d[(3 + n1) + 1] = l1[1] /\ d[(3 + n1) + 2] = l1[2]
    BY <2>1, <2>2
  <2> QED
    BY <2>1, <2>2, <2>3
<1>11. e \in Seq(Byte) /\ Len(e) = (5 + n1) + n2 /\ (\A k \in 1 .. 5 + n1 : e[k] = d[k])
       /\ \A k \in 1 .. n2 : e[(5 + n1) + k] = s2[k]
  <2>1. Joins(e, d, 5 + n1, s2, n2)
    BY <1>7, <1>10 DEF Joins, e
  <2>2. d \in Seq(Byte) /\ s2 \in Seq(Byte)
    BY <1>7, <1>10
  <2> QED
    BY <2>1, <2>2, OneAfterAnother
<1>12. (\A k \in 1 .. 3 + n1 : k \in 1 .. 5 + n1) /\ (\A k \in 1 .. n1 : 3 + k \in 1 .. 3 + n1)
       /\ 1 \in 1 .. 3 + n1 /\ 2 \in 1 .. 3 + n1 /\ 3 \in 1 .. 3 + n1 /\ 4 + n1 \in 1 .. 5 + n1 /\ 5 + n1 \in 1 .. 5 + n1
  BY <1>1
<1>13. Picture(rows) = e
  BY <1>5 DEF a, b, d, e
<1>14. e[1] = [kind |-> "cls"] /\ e[2] = LocateRow(0) /\ e[3] = Column
       /\ e[4 + n1] = LocateRow(1) /\ e[5 + n1] = Column
  <2>1. e[1] = d[1] /\ e[2] = d[2] /\ e[3] = d[3] /\ e[4 + n1] = d[4 + n1] /\ e[5 + n1] = d[5 + n1]
        /\ d[1] = b[1] /\ d[2] = b[2] /\ d[3] = b[3]
    BY <1>10, <1>11, <1>12
  <2>2. b[1] = a[1] /\ b[2] = a[2] /\ b[3] = a[3]
    BY <1>9
  <2>3. d[4 + n1] = LocateRow(1) /\ d[5 + n1] = Column
    BY <1>6, <1>10
  <2>4. e[1] = [kind |-> "cls"] /\ e[2] = LocateRow(0) /\ e[3] = Column
    BY <1>8, <2>1, <2>2, Zenon
  <2>5. e[4 + n1] = LocateRow(1) /\ e[5 + n1] = Column
    BY <2>1, <2>3, Zenon
  <2> QED
    BY <2>4, <2>5, Zenon
<1>15. \A k \in 1 .. n1 : e[3 + k] = Letter1(rows[1][k])
  <2> SUFFICES ASSUME NEW k \in 1 .. n1 PROVE e[3 + k] = Letter1(rows[1][k])
    OBVIOUS
  <2> DEFINE x == 3 + k
  <2>1. x \in 1 .. 3 + n1 /\ x \in 1 .. 5 + n1
    BY <1>1 DEF n1
  <2>2. b[x] = s1[k] /\ s1[k] = Letter1(rows[1][k])
    BY <1>3, <1>9 DEF n1
  <2> HIDE DEF x
  <2>3. e[x] = d[x] /\ d[x] = b[x]
    BY <1>10, <1>11, <2>1
  <2> QED
    BY <2>2, <2>3 DEF x
<1>16. \A k \in 1 .. n2 : e[5 + n1 + k] = Letter1(rows[2][k])
  BY <1>3, <1>11
<1> QED
  BY <1>1, <1>11, <1>13, <1>14, <1>15, <1>16 DEF n1, n2

-----------------------------------------------------------------------------
\* The screen as it is with a letters of the first row and b of the second.
Shows(a, b) ==
  screen = [p \in 0 .. 2 * RowLength - 1 |->
              IF p < a THEN picture[1][p + 1]
              ELSE IF RowLength <= p /\ p < RowLength + b THEN picture[2][p - RowLength + 1]
              ELSE "blank"]

\* What j bytes of the picture have made of it.
Shown(j) ==
  \/ j = 1 /\ address = 0 /\ Shows(0, 0)
  \/ \E a \in 0 .. Len(picture[1]) : j = 3 + a /\ address = a /\ Shows(a, 0)
  \/ \E b \in 0 .. Len(picture[2]) :
       /\ j = 5 + Len(picture[1]) + b /\ Shows(Len(picture[1]), b)
       /\ b < Len(picture[2]) => address = RowLength + b

\* The whole picture waits behind other bytes, or j bytes of it are worked off.
Program == Picture(picture)
Whole ==
  /\ Len(Program) <= Queued(lcd)
  /\ \A k \in 1 .. Len(Program) : Due(lcd, Queued(lcd) - Len(Program) + k) = Program[k]
Behind(j) ==
  /\ Queued(lcd) = Len(Program) - j /\ Shown(j)
  /\ \A k \in j + 1 .. Len(Program) : Due(lcd, k - j) = Program[k]

\* No command waits without its column.
Paired(q) ==
  \A d \in 1 .. Queued(q) :
    Due(q, d).kind = "locate" => d < Queued(q) /\ Due(q, d + 1).kind = "column"

\* The invariant.
DisplayInv ==
  /\ LcdTypeOK /\ Rowpair(picture) /\ Paired(lcd)
  /\ fits => Whole \/ \E j \in 1 .. Len(Program) : Behind(j)

\* What bytes there are.
LEMMA ByteKinds ==
  ASSUME NEW b \in Byte
  PROVE  /\ b.kind \in {"cls", "locate", "column", "char"}
         /\ b.kind = "locate" => b.row \in {0, 1}
         /\ b.kind = "char" => b.letter \in Text
BY DEF Byte

\* A picture's bytes by their kind; every command in it has its column.
LEMMA PictureKinds ==
  ASSUME NEW rows, Rowpair(rows), NEW k \in 1 .. Len(Picture(rows)), Picture(rows)[k].kind = "locate"
  PROVE  k < Len(Picture(rows)) /\ Picture(rows)[k + 1].kind = "column"
<1> DEFINE p == Picture(rows)
           n1 == Len(rows[1])
           n2 == Len(rows[2])
<1>1. /\ n1 \in Nat /\ n2 \in Nat /\ Len(p) = 5 + n1 + n2
      /\ p[1] = [kind |-> "cls"] /\ p[2] = LocateRow(0) /\ p[3] = Column
      /\ \A o \in 1 .. n1 : p[3 + o] = Letter1(rows[1][o])
      /\ p[4 + n1] = LocateRow(1) /\ p[5 + n1] = Column
      /\ \A o \in 1 .. n2 : p[5 + n1 + o] = Letter1(rows[2][o])
  BY PictureBytes
<1>2. p[k].kind = "locate" /\ k \in 1 .. Len(p)
  OBVIOUS
<1> HIDE DEF p, n1, n2
<1>3. p[1].kind # "locate" /\ p[3].kind = "column" /\ p[5 + n1].kind = "column"
  <2>1. p[1].kind = "cls" /\ p[3].kind = "column" /\ p[5 + n1].kind = "column"
    BY <1>1 DEF Column
  <2> QED
    BY <2>1
<1>4. ASSUME NEW o \in 1 .. n1 PROVE p[3 + o].kind # "locate"
  <2>1. p[3 + o] = Letter1(rows[1][o])
    BY <1>1
  <2>2. Letter1(rows[1][o]).kind = "char"
    BY DEF Letter1
  <2> QED
    BY <2>1, <2>2
<1>5. ASSUME NEW o \in 1 .. n2 PROVE p[5 + n1 + o].kind # "locate"
  <2>1. p[5 + n1 + o] = Letter1(rows[2][o])
    BY <1>1
  <2>2. Letter1(rows[2][o]).kind = "char"
    BY DEF Letter1
  <2> QED
    BY <2>1, <2>2
<1>6. k # 1 /\ k # 3 /\ k # 5 + n1
  BY <1>2, <1>3
<1>7. ~(k \in 4 .. 3 + n1)
  <2> SUFFICES ASSUME k \in 4 .. 3 + n1 PROVE FALSE
    OBVIOUS
  <2> DEFINE o == k - 3
  <2>1. o \in 1 .. n1 /\ 3 + o = k
    BY <1>1
  <2> HIDE DEF o
  <2> QED
    BY <1>2, <1>4, <2>1
<1>8. ~(k \in 6 + n1 .. 5 + n1 + n2)
  <2> SUFFICES ASSUME k \in 6 + n1 .. 5 + n1 + n2 PROVE FALSE
    OBVIOUS
  <2> DEFINE o == k - 5 - n1
  <2>1. o \in 1 .. n2 /\ 5 + n1 + o = k
    BY <1>1
  <2> HIDE DEF o
  <2> QED
    BY <1>2, <1>5, <2>1
<1>9. k \in 1 .. 5 + n1 + n2
  BY <1>1, <1>2
<1>10. k = 2 \/ k = 4 + n1
  BY <1>1, <1>6, <1>7, <1>8, <1>9
<1>11. k < 5 + n1 + n2 /\ (k + 1 = 3 \/ k + 1 = 5 + n1)
  BY <1>1, <1>10
<1> QED
  BY <1>1, <1>3, <1>11 DEF p

\* What the history of Display measures is the room in the ring.
LEMMA RoomIsLeft == ASSUME lcd \in LcdRing PROVE Room = ByteRange - 1 - Queued(lcd)
<1> DEFINE h == lcd.head
           t == lcd.tail
           u == h + ByteRange - t
<1>1. ByteRange \in Nat /\ ByteRange > 1 /\ h \in 0 .. ByteRange - 1 /\ t \in 0 .. ByteRange - 1
  BY QueueSizes
<1>2. Room = ByteRange - 1 - (u % ByteRange)
  BY DEF Room
<1>3. Queued(lcd) = IF t <= h THEN h - t ELSE h - t + ByteRange
  BY DEF Queued, Filled, Apart
<1> HIDE DEF h, t
<1>4. u % ByteRange = IF t <= h THEN h - t ELSE h - t + ByteRange
  <2>1. CASE t <= h
    <3> DEFINE d == h - t
    <3>1. d \in 0 .. ByteRange - 1 /\ u = (ByteRange * 1) + d
      BY <1>1, <2>1
    <3> HIDE DEF d, u
    <3>2. u % ByteRange = d
      BY <1>1, <3>1, Remainder
    <3> QED
      BY <2>1, <3>2 DEF d
  <2>2. CASE ~(t <= h)
    <3> HIDE DEF u
    <3>1. u \in 0 .. ByteRange - 1 /\ u = h - t + ByteRange
      BY <1>1, <2>2 DEF u
    <3>2. u % ByteRange = u
      BY <1>1, <3>1
    <3> QED
      BY <2>2, <3>1, <3>2
  <2> QED
    BY <2>1, <2>2
<1> QED
  BY <1>2, <1>3, <1>4

\* A page: what waits stays whole, and a picture that finds room is all there.
LEMMA DisplayKeeps == ASSUME DisplayInv, Display PROVE DisplayInv'
<1>1. lcd \in LcdRing /\ Rowpair(picture) /\ Paired(lcd)
  BY DEF DisplayInv, LcdTypeOK, LcdRing, RingOf
<1>2. PICK first \in Rows, second \in Rows :
        /\ picture' = <<first, second>>
        /\ fits' = (Len(Picture(<<first, second>>)) <= Room)
        /\ lcd' = LcdPutAll(lcd, Picture(<<first, second>>))
        /\ UNCHANGED <<screen, address>>
  BY DEF Display
<1> DEFINE rows == <<first, second>>
           p == Picture(rows)
           l == Len(p)
           x == Queued(lcd)
           y == Queued(lcd')
<1>3. Rowpair(rows)
  <2>1. ASSUME NEW r \in Rows PROVE r \in Seq(Text) /\ Len(r) <= RowLength
    <3>1. PICK n \in 0 .. RowLength, t \in Text : r = [o \in 1 .. n |-> t]
      BY DEF Rows
    <3>2. n \in Nat /\ RowLength \in Nat /\ n <= RowLength
      BY LcdAssumption
    <3> QED
      BY <3>1, <3>2
  <2>2. rows[1] = first /\ rows[2] = second
    OBVIOUS
  <2> QED
    BY <2>1, <2>2 DEF Rowpair
<1>4. picture' = rows /\ fits' = (l <= Room) /\ lcd' = LcdPutAll(lcd, p)
  BY <1>2
<1> HIDE DEF rows
<1>5. p \in Seq(Byte) /\ l \in Nat
  <2>1. p \in Seq(Byte)
    BY <1>3, PictureBytes
  <2> HIDE DEF p
  <2> QED
    BY <2>1
<1>6. ASSUME NEW k \in 1 .. l, p[k].kind = "locate" PROVE k < l /\ p[k + 1].kind = "column"
  BY <1>3, <1>6, PictureKinds
<1> HIDE DEF p
<1>7. Made(lcd, p, l, lcd')
  BY <1>1, <1>4, <1>5, AllBytes
<1>8. x \in Nat /\ x <= ByteRange - 1 /\ ByteRange \in Nat
  <2>1. x \in 0 .. ByteRange - 1 /\ ByteRange \in Nat
    BY <1>1, QueueSizes
  <2> HIDE DEF x
  <2> QED
    BY <2>1
<1> HIDE DEF l, x, y
<1>9. /\ lcd' \in LcdRing
      /\ \/ /\ y = x + l /\ (\A d \in 1 .. x : Due(lcd', d) = Due(lcd, d))
            /\ \A k \in 1 .. l : Due(lcd', x + k) = p[k]
         \/ /\ x + l > ByteRange - 1
            /\ \E j \in 1 .. l : y = l - j /\ \A k \in j + 1 .. l : Due(lcd', k - j) = p[k]
  BY <1>7 DEF Made, x, y
<1>10. CASE /\ y = x + l /\ (\A d \in 1 .. x : Due(lcd', d) = Due(lcd, d))
            /\ \A k \in 1 .. l : Due(lcd', x + k) = p[k]
  <2>1. ASSUME NEW d \in 1 .. y, Due(lcd', d).kind = "locate"
        PROVE  d < y /\ Due(lcd', d + 1).kind = "column"
    <3>1. CASE d \in 1 .. x
      <4>1. d < x /\ Due(lcd, d + 1).kind = "column"
        BY <1>1, <1>10, <2>1, <3>1 DEF Paired, x
      <4>2. d + 1 \in 1 .. x /\ d < y
        BY <1>5, <1>8, <1>10, <3>1, <4>1
      <4> QED
        BY <1>10, <4>1, <4>2
    <3>2. CASE ~(d \in 1 .. x)
      <4> DEFINE k == d - x
      <4>1. k \in 1 .. l /\ x + k = d /\ x + (k + 1) = d + 1
        BY <1>5, <1>8, <1>10, <3>2
      <4> HIDE DEF k
      <4>2. p[k].kind = "locate"
        BY <1>10, <2>1, <4>1
      <4>3. k < l /\ p[k + 1].kind = "column"
        BY <1>6, <4>1, <4>2
      <4>4. k + 1 \in 1 .. l /\ d < y
        BY <1>5, <1>8, <1>10, <4>1, <4>3
      <4> QED
        BY <1>10, <4>1, <4>3, <4>4
    <3> QED
      BY <3>1, <3>2
  <2>2. Whole'
    <3>1. Program' = p
      BY <1>4 DEF Program, p
    <3>2. l <= y /\ \A k \in 1 .. l : y - l + k = x + k
      BY <1>5, <1>8, <1>10
    <3> QED
      BY <1>10, <3>1, <3>2 DEF Whole, l, y
  <2>3. Paired(lcd)'
    BY <2>1 DEF Paired, y
  <2>4. LcdTypeOK'
    <3>1. fits' \in BOOLEAN
      BY <1>4
    <3> QED
      BY <1>2, <1>9, <3>1 DEF DisplayInv, LcdTypeOK, LcdRing, RingOf
  <2>5. Rowpair(picture)'
    BY <1>3, <1>4 DEF Rowpair
  <2> QED
    BY <2>2, <2>3, <2>4, <2>5 DEF DisplayInv
<1>11. CASE /\ x + l > ByteRange - 1
            /\ \E j \in 1 .. l : y = l - j /\ \A k \in j + 1 .. l : Due(lcd', k - j) = p[k]
  <2>1. PICK j \in 1 .. l : y = l - j /\ \A k \in j + 1 .. l : Due(lcd', k - j) = p[k]
    BY <1>11
  <2>2. ~fits'
    <3>1. Room = ByteRange - 1 - x
      BY <1>1, RoomIsLeft DEF x
    <3>2. ~(l <= Room)
      BY <1>5, <1>8, <1>11, <3>1
    <3> QED
      BY <1>4, <3>2
  <2>3. ASSUME NEW d \in 1 .. y, Due(lcd', d).kind = "locate"
        PROVE  d < y /\ Due(lcd', d + 1).kind = "column"
    <3> DEFINE k == d + j
    <3>1. k \in j + 1 .. l /\ k \in 1 .. l /\ k - j = d /\ (k + 1) - j = d + 1
      BY <1>5, <2>1
    <3> HIDE DEF k
    <3>2. p[k].kind = "locate"
      BY <2>1, <2>3, <3>1
    <3>3. k < l /\ p[k + 1].kind = "column"
      BY <1>6, <3>1, <3>2
    <3>4. k + 1 \in j + 1 .. l /\ d < y
      BY <1>5, <2>1, <3>1, <3>3
    <3>5. Due(lcd', (k + 1) - j) = p[k + 1]
      BY <2>1, <3>4
    <3> QED
      BY <3>1, <3>3, <3>4, <3>5
  <2>4. Paired(lcd)'
    BY <2>3 DEF Paired, y
  <2>5. LcdTypeOK'
    <3>1. fits' \in BOOLEAN
      BY <1>4
    <3> QED
      BY <1>2, <1>9, <3>1 DEF DisplayInv, LcdTypeOK, LcdRing, RingOf
  <2>6. Rowpair(picture)'
    BY <1>3, <1>4 DEF Rowpair
  <2> QED
    BY <2>2, <2>4, <2>5, <2>6 DEF DisplayInv
<1> QED
  BY <1>9, <1>10, <1>11

-----------------------------------------------------------------------------
\* lcd_handle has worked off n bytes; the controller's memory is s and its address counter a.
Works(n, s, a) ==
  /\ lcd' \in LcdRing /\ n <= Queued(lcd) /\ Queued(lcd') = Queued(lcd) - n
  /\ \A d \in 0 .. Queued(lcd) - n : Due(lcd', d) = Due(lcd, d + n)
  /\ screen' = s /\ address' = a
  /\ UNCHANGED <<picture, fits>>

\* What one call of lcd_handle does, by the byte that is due.
LEMMA HandleWorks ==
  ASSUME DisplayInv, Handle
  PROVE  LET b == Due(lcd, 1)
         IN  /\ Queued(lcd) > 0 /\ b \in Byte
             /\ b.kind = "cls" => Works(1, BlankScreen, 0)
             /\ b.kind = "locate" => Works(2, screen, IF b.row = 0 THEN 0 ELSE RowLength)
             /\ b.kind = "column" => Works(1, screen, address)
             /\ b.kind = "char" =>
                  Works(1, [screen EXCEPT ![address] = b.letter], (address + 1) % (2 * RowLength))
<1> DEFINE b == Due(lcd, 1)
           q == LcdTaken(lcd)
           x == Queued(lcd)
<1>1. lcd \in LcdRing /\ Paired(lcd) /\ ~LcdIsEmpty(lcd) /\ UNCHANGED <<picture, fits>>
  BY DEF DisplayInv, LcdTypeOK, LcdRing, RingOf, Handle
<1>2. /\ LcdBufGet(lcd) = b /\ q \in LcdRing /\ x > 0 /\ Queued(q) = x - 1
      /\ \A d \in 0 .. x - 1 : Due(q, d) = Due(lcd, d + 1)
  BY <1>1, LcdTakes
<1>3. b \in Byte /\ x \in Nat
  <2>1. x \in 0 .. ByteRange - 1 /\ ByteRange \in Nat /\ ByteRange > 1
        /\ \A d \in 0 .. ByteRange - 1 : Due(lcd, d) \in Byte
    BY <1>1, QueueSizes
  <2> HIDE DEF x
  <2>2. 1 \in 0 .. ByteRange - 1 /\ x \in Nat
    BY <2>1
  <2> QED
    BY <2>1, <2>2
<1>4. /\ b.kind = "cls" => lcd' = q /\ screen' = BlankScreen /\ address' = 0
      /\ b.kind = "locate" =>
           /\ lcd' = LcdTaken(q) /\ UNCHANGED screen
           /\ address' = (b.row * RowLength + (IF LcdBufGet(q).kind = "column" THEN 0 ELSE 1)) % (2 * RowLength)
      /\ b.kind = "column" => lcd' = q /\ UNCHANGED <<screen, address>>
      /\ b.kind = "char" => /\ lcd' = q /\ screen' = [screen EXCEPT ![address] = b.letter]
                            /\ address' = (address + 1) % (2 * RowLength)
  <2> DEFINE c == LcdBufGet(lcd)
  <2>1. \/ c.kind = "cls" /\ lcd' = q /\ screen' = BlankScreen /\ address' = 0
        \/ /\ c.kind = "locate"
           /\ lcd' = LcdTaken(q) /\ UNCHANGED screen
           /\ address' = (c.row * RowLength + (IF LcdBufGet(q).kind = "column" THEN 0 ELSE 1)) % (2 * RowLength)
        \/ c.kind = "column" /\ lcd' = q /\ UNCHANGED <<screen, address>>
        \/ /\ c.kind = "char"
           /\ lcd' = q /\ screen' = [screen EXCEPT ![address] = c.letter]
           /\ address' = (address + 1) % (2 * RowLength)
    BY DEF Handle
  <2>2. c = b
    BY <1>2
  <2> HIDE DEF c, b, q
  <2> QED
    BY <2>1, <2>2
<1>5. ASSUME lcd' = q, NEW s, NEW a, screen' = s, address' = a
      PROVE  Works(1, s, a)
  <2>1. 1 <= x
    BY <1>2, <1>3
  <2> HIDE DEF q, x
  <2>2. /\ lcd' \in LcdRing /\ 1 <= x /\ Queued(lcd') = x - 1
        /\ \A d \in 0 .. x - 1 : Due(lcd', d) = Due(lcd, d + 1)
    BY <1>2, <1>5, <2>1
  <2> QED
    BY <1>1, <1>5, <2>2 DEF Works, x
<1>6. CASE b.kind = "locate"
  <2>1. x > 1 /\ Due(lcd, 2).kind = "column"
    <3>1. 1 \in 1 .. x /\ 1 + 1 = 2
      BY <1>2, <1>3
    <3>2. 1 < x /\ Due(lcd, 1 + 1).kind = "column"
      BY <1>1, <1>6, <3>1 DEF Paired
    <3> QED
      BY <1>3, <3>1, <3>2
  <2>2. ~LcdIsEmpty(q)
    <3>1. Queued(q) # 0
      <4> HIDE DEF x, q
      <4> QED
        BY <1>2, <1>3, <2>1
    <3> QED
      BY <1>2, <3>1, QueueSizes
  <2>3. /\ LcdBufGet(q) = Due(q, 1) /\ LcdTaken(q) \in LcdRing /\ Queued(LcdTaken(q)) = Queued(q) - 1
        /\ \A d \in 0 .. Queued(q) - 1 : Due(LcdTaken(q), d) = Due(q, d + 1)
    BY <1>2, <2>2, LcdTakes
  <2> HIDE DEF b, q, x
  <2>4. LcdBufGet(q).kind = "column"
    <3>1. 1 \in 0 .. x - 1 /\ 1 + 1 = 2
      BY <1>3, <2>1
    <3>2. Due(q, 1) = Due(lcd, 2)
      BY <1>2, <3>1
    <3> QED
      BY <2>1, <2>3, <3>2
  <2>5. address' = IF b.row = 0 THEN 0 ELSE RowLength
    <3>1. address' = (b.row * RowLength + 0) % (2 * RowLength)
      BY <1>4, <1>6, <2>4
    <3>2. b.row \in {0, 1} /\ RowLength \in Nat /\ RowLength > 0
      BY <1>3, <1>6, ByteKinds, LcdAssumption
    <3>3. CASE b.row = 0
      <4>1. address' = 0 % (2 * RowLength)
        BY <3>1, <3>2, <3>3
      <4> QED
        BY <3>2, <3>3, <4>1
    <3>4. CASE b.row = 1
      <4>1. address' = RowLength % (2 * RowLength)
        BY <3>1, <3>2, <3>4
      <4>2. RowLength % (2 * RowLength) = RowLength
        BY <3>2
      <4> QED
        BY <3>4, <4>1, <4>2
    <3> QED
      BY <3>2, <3>3, <3>4
  <2>6. lcd' = LcdTaken(q) /\ screen' = screen
    BY <1>4, <1>6
  <2>7. Queued(lcd') = x - 2 /\ 2 <= x
    BY <1>2, <1>3, <2>1, <2>3, <2>6
  <2>8. ASSUME NEW d \in 0 .. x - 2 PROVE Due(lcd', d) = Due(lcd, d + 2)
    <3> DEFINE e == d + 1
    <3>1. d \in 0 .. Queued(q) - 1 /\ e \in 0 .. x - 1 /\ e + 1 = d + 2
      BY <1>2, <1>3, <2>1
    <3>2. Due(lcd', d) = Due(q, e)
      BY <2>3, <2>6, <3>1
    <3> HIDE DEF e
    <3>3. Due(q, e) = Due(lcd, e + 1)
      BY <1>2, <3>1
    <3> QED
      BY <3>1, <3>2, <3>3
  <2>9. Works(2, screen, IF b.row = 0 THEN 0 ELSE RowLength)
    BY <1>1, <2>3, <2>5, <2>6, <2>7, <2>8 DEF Works, x
  <2> QED
    BY <1>2, <1>3, <1>6, <2>9 DEF b, x
<1>7. CASE b.kind # "locate"
  <2> HIDE DEF b, q, x
  <2>1. b.kind = "cls" => Works(1, BlankScreen, 0)
    BY <1>4, <1>5
  <2>2. b.kind = "column" => Works(1, screen, address)
    BY <1>4, <1>5
  <2>3. b.kind = "char" => Works(1, [screen EXCEPT ![address] = b.letter], (address + 1) % (2 * RowLength))
    BY <1>4, <1>5
  <2> QED
    BY <1>2, <1>3, <1>7, <2>1, <2>2, <2>3 DEF b, x
<1> QED
  BY <1>6, <1>7

\* No command is parted from its column by it.
LEMMA StaysPaired ==
  ASSUME lcd \in LcdRing, Paired(lcd), NEW n \in {1, 2}, NEW s, NEW a, Works(n, s, a)
  PROVE  Paired(lcd)'
<1> DEFINE x == Queued(lcd)
           y == Queued(lcd')
<1>1. x \in Nat
  <2>1. x \in 0 .. ByteRange - 1
    BY QueueSizes
  <2> QED
    BY <2>1
<1>2. n <= x /\ y = x - n /\ \A d \in 0 .. x - n : Due(lcd', d) = Due(lcd, d + n)
  BY DEF Works
<1> HIDE DEF x, y
<1>3. ASSUME NEW d \in 1 .. y, Due(lcd', d).kind = "locate"
      PROVE  d < y /\ Due(lcd', d + 1).kind = "column"
  <2> DEFINE k == d + n
  <2>1. d \in 0 .. x - n /\ k \in 1 .. x /\ (d < y <=> k < x)
    BY <1>1, <1>2
  <2>2. Due(lcd, k).kind = "locate"
    BY <1>2, <1>3, <2>1
  <2> HIDE DEF k
  <2>3. k < x /\ Due(lcd, k + 1).kind = "column"
    BY <2>1, <2>2 DEF Paired, x
  <2>4. d + 1 \in 0 .. x - n /\ k + 1 = (d + 1) + n
    BY <1>1, <1>2, <2>1, <2>3 DEF k
  <2>5. Due(lcd', d + 1) = Due(lcd, (d + 1) + n)
    BY <1>2, <2>4
  <2> QED
    BY <2>1, <2>3, <2>4, <2>5
<1> QED
  BY <1>3 DEF Paired, y

\* A picture of which j bytes are worked off is one of which j + n are.
LEMMA FurtherBehind ==
  ASSUME Rowpair(picture), NEW j \in 1 .. Len(Program), Behind(j), NEW n \in {1, 2}, NEW s, NEW a, Works(n, s, a),
         Shown(j + n)'
  PROVE  (\E h \in 1 .. Len(Program) : Behind(h))'
<1> DEFINE l == Len(Program)
           x == Queued(lcd)
           y == Queued(lcd')
           h == j + n
<1>1. l \in Nat /\ j \in 1 .. l
  <2>1. Program \in Seq(Byte)
    BY PictureBytes DEF Program
  <2> QED
    BY <2>1
<1>2. Program' = Program
  BY DEF Works, Program
<1>3. n <= x /\ y = x - n /\ \A d \in 0 .. x - n : Due(lcd', d) = Due(lcd, d + n)
  BY DEF Works
<1>4. x = l - j /\ \A k \in j + 1 .. l : Due(lcd, k - j) = Program[k]
  BY DEF Behind
<1> HIDE DEF l, x, y
<1>5. h \in 1 .. l /\ y = l - h
  BY <1>1, <1>3, <1>4
<1>6. ASSUME NEW k \in h + 1 .. l PROVE Due(lcd', k - h) = Program[k]
  <2> DEFINE d == k - h
  <2>1. d \in 0 .. x - n /\ d + n = k - j /\ k \in j + 1 .. l
    BY <1>1, <1>3, <1>4
  <2> HIDE DEF d
  <2>2. Due(lcd', d) = Due(lcd, d + n)
    BY <1>3, <2>1
  <2>3. Due(lcd, k - j) = Program[k]
    BY <1>4, <2>1
  <2> QED
    BY <2>1, <2>2, <2>3 DEF d
<1> HIDE DEF h
<1>7. Shown(h)'
  BY DEF h
<1>8. Behind(h)'
  BY <1>2, <1>5, <1>6, <1>7 DEF Behind, l, y
<1> QED
  BY <1>2, <1>5, <1>8 DEF l

\* The screen gains the letter that comes next.
LEMMA LetterIsShown ==
  ASSUME RowLength \in Nat, NEW a \in Nat, NEW b \in Nat, NEW t, Shows(a, b),
         NEW o \in 0 .. 2 * RowLength - 1, screen' = [screen EXCEPT ![o] = t], picture' = picture
  PROVE  /\ (a < RowLength /\ b = 0 /\ o = a /\ t = picture[1][a + 1]) => Shows(a + 1, 0)'
         /\ (a <= RowLength /\ b < RowLength /\ o = RowLength + b /\ t = picture[2][b + 1]) => Shows(a, b + 1)'
<1> DEFINE D == 0 .. 2 * RowLength - 1
           Cell(x, y, p) == IF p < x THEN picture[1][p + 1]
                            ELSE IF RowLength <= p /\ p < RowLength + y THEN picture[2][p - RowLength + 1]
                            ELSE "blank"
<1>1. screen = [p \in D |-> Cell(a, b, p)]
  BY DEF Shows
<1>2. screen' = [p \in D |-> IF p = o THEN t ELSE Cell(a, b, p)]
  BY <1>1
<1>3. ASSUME NEW x, NEW y, \A p \in D : (IF p = o THEN t ELSE Cell(a, b, p)) = Cell(x, y, p)
      PROVE  Shows(x, y)'
  <2>1. screen' = [p \in D |-> Cell(x, y, p)]
    BY <1>2, <1>3
  <2> QED
    BY <2>1 DEF Shows
<1>4. CASE a < RowLength /\ b = 0 /\ o = a /\ t = picture[1][a + 1]
  <2>1. ASSUME NEW p \in D PROVE (IF p = o THEN t ELSE Cell(a, b, p)) = Cell(a + 1, 0, p)
    <3>1. CASE p = o
      BY <1>4, <3>1
    <3>2. CASE p # o
      <4>1. (p < a <=> p < a + 1) /\ RowLength + b = RowLength + 0
        BY <1>4, <3>2
      <4> QED
        BY <3>2, <4>1
    <3> QED
      BY <3>1, <3>2
  <2>2. Shows(a + 1, 0)'
    BY <1>3, <2>1
  <2>3. ~(b < RowLength /\ o = RowLength + b)
    BY <1>4
  <2> QED
    BY <2>2, <2>3
<1>5. CASE a <= RowLength /\ b < RowLength /\ o = RowLength + b /\ t = picture[2][b + 1]
  <2>1. ASSUME NEW p \in D PROVE (IF p = o THEN t ELSE Cell(a, b, p)) = Cell(a, b + 1, p)
    <3>1. CASE p = o
      <4>1. ~(p < a) /\ RowLength <= p /\ p < RowLength + (b + 1) /\ p - RowLength + 1 = b + 1
        BY <1>5, <3>1
      <4> QED
        BY <1>5, <3>1, <4>1
    <3>2. CASE p # o
      <4>1. RowLength <= p => (p < RowLength + b <=> p < RowLength + (b + 1))
        BY <1>5, <3>2
      <4> QED
        BY <3>2, <4>1
    <3> QED
      BY <3>1, <3>2
  <2>2. Shows(a, b + 1)'
    BY <1>3, <2>1
  <2>3. ~(a < RowLength /\ b = 0 /\ o = a)
    BY <1>5
  <2> QED
    BY <2>2, <2>3
<1> QED
  BY <1>4, <1>5

\* Types, and what waits, whatever is due.
LEMMA HandleKeepsTypes ==
  ASSUME DisplayInv, Handle
  PROVE  LcdTypeOK' /\ Rowpair(picture)' /\ Paired(lcd)'
<1> DEFINE b == Due(lcd, 1)
<1>1. lcd \in LcdRing /\ Paired(lcd) /\ Rowpair(picture) /\ fits \in BOOLEAN
      /\ screen \in [Place -> Text \cup {"blank"}] /\ address \in Place /\ RowLength \in Nat /\ RowLength > 0
  BY LcdAssumption DEF DisplayInv, LcdTypeOK, LcdRing, RingOf
<1>2. /\ b \in Byte
      /\ b.kind = "cls" => Works(1, BlankScreen, 0)
      /\ b.kind = "locate" => Works(2, screen, IF b.row = 0 THEN 0 ELSE RowLength)
      /\ b.kind = "column" => Works(1, screen, address)
      /\ b.kind = "char" =>
           Works(1, [screen EXCEPT ![address] = b.letter], (address + 1) % (2 * RowLength))
  BY HandleWorks
<1> HIDE DEF b
<1>3. b.kind \in {"cls", "locate", "column", "char"} /\ (b.kind = "char" => b.letter \in Text)
  BY <1>2, ByteKinds
<1>4. ASSUME NEW n \in {1, 2}, NEW s, NEW a, Works(n, s, a), s \in [Place -> Text \cup {"blank"}], a \in Place
      PROVE  LcdTypeOK' /\ Rowpair(picture)' /\ Paired(lcd)'
  <2>1. Paired(lcd)'
    BY <1>1, <1>4, StaysPaired
  <2>2. LcdTypeOK'
    BY <1>1, <1>4 DEF Works, LcdTypeOK, LcdRing, RingOf
  <2>3. Rowpair(picture)'
    BY <1>1, <1>4 DEF Works, Rowpair
  <2> QED
    BY <2>1, <2>2, <2>3
<1>5. BlankScreen \in [Place -> Text \cup {"blank"}]
  BY DEF BlankScreen
<1>6. 0 \in Place /\ RowLength \in Place /\ (address + 1) % (2 * RowLength) \in Place
  <2> DEFINE m == 2 * RowLength
  <2>1. m \in Nat /\ m > 0 /\ RowLength \in 0 .. m - 1 /\ Place = 0 .. m - 1 /\ address + 1 \in Int
    BY <1>1 DEF Place
  <2> HIDE DEF m
  <2>2. (address + 1) % m \in 0 .. m - 1
    BY <2>1
  <2> QED
    BY <2>1, <2>2 DEF m
<1>7. CASE b.kind = "cls"
  BY <1>2, <1>4, <1>5, <1>6, <1>7
<1>8. CASE b.kind = "locate"
  BY <1>1, <1>2, <1>4, <1>6, <1>8
<1>9. CASE b.kind = "column"
  BY <1>1, <1>2, <1>4, <1>9
<1>10. CASE b.kind = "char"
  <2>1. [screen EXCEPT ![address] = b.letter] \in [Place -> Text \cup {"blank"}]
    BY <1>1, <1>3, <1>10
  <2> QED
    BY <1>2, <1>4, <1>6, <1>10, <2>1
<1> QED
  BY <1>3, <1>7, <1>8, <1>9, <1>10

\* What is known of the picture's bytes.
LEMMA ProgramBytes ==
  ASSUME Rowpair(picture)
  PROVE  LET n1 == Len(picture[1])
             n2 == Len(picture[2])
         IN  /\ n1 \in Nat /\ n2 \in Nat /\ Len(Program) = 5 + n1 + n2 /\ n1 <= RowLength /\ n2 <= RowLength
             /\ Program[1].kind = "cls"
             /\ Program[2].kind = "locate" /\ Program[2].row = 0
             /\ Program[4 + n1].kind = "locate" /\ Program[4 + n1].row = 1
             /\ \A k \in 1 .. n1 : Program[3 + k].kind = "char" /\ Program[3 + k].letter = picture[1][k]
             /\ \A k \in 1 .. n2 : Program[5 + n1 + k].kind = "char" /\ Program[5 + n1 + k].letter = picture[2][k]
<1> DEFINE n1 == Len(picture[1])
           n2 == Len(picture[2])
           p == Program
<1>1. /\ n1 \in Nat /\ n2 \in Nat /\ Len(p) = 5 + n1 + n2
      /\ p[1] = [kind |-> "cls"] /\ p[2] = LocateRow(0) /\ p[4 + n1] = LocateRow(1)
      /\ \A k \in 1 .. n1 : p[3 + k] = Letter1(picture[1][k])
      /\ \A k \in 1 .. n2 : p[5 + n1 + k] = Letter1(picture[2][k])
  BY PictureBytes DEF Program
<1>2. n1 <= RowLength /\ n2 <= RowLength
  BY DEF Rowpair
<1> HIDE DEF p, n1, n2
<1>3. p[1].kind = "cls" /\ p[2].kind = "locate" /\ p[2].row = 0 /\ p[4 + n1].kind = "locate" /\ p[4 + n1].row = 1
  <2>1. LocateRow(0).kind = "locate" /\ LocateRow(0).row = 0 /\ LocateRow(1).kind = "locate" /\ LocateRow(1).row = 1
    BY DEF LocateRow
  <2>2. p[1].kind = "cls"
    BY <1>1
  <2> QED
    BY <1>1, <2>1, <2>2
<1>4. ASSUME NEW t PROVE Letter1(t).kind = "char" /\ Letter1(t).letter = t
  BY DEF Letter1
<1>5. \A k \in 1 .. n1 : p[3 + k].kind = "char" /\ p[3 + k].letter = picture[1][k]
  BY <1>1, <1>4
<1>6. \A k \in 1 .. n2 : p[5 + n1 + k].kind = "char" /\ p[5 + n1 + k].letter = picture[2][k]
  BY <1>1, <1>4
<1> QED
  BY <1>1, <1>2, <1>3, <1>5, <1>6 DEF p, n1, n2

\* A picture that waits whole stays whole, or its first byte clears the screen.
LEMMA WholeGoesOn ==
  ASSUME DisplayInv, Handle, Whole
  PROVE  (Whole \/ \E j \in 1 .. Len(Program) : Behind(j))'
<1> DEFINE b == Due(lcd, 1)
           x == Queued(lcd)
           y == Queued(lcd')
           l == Len(Program)
<1>1. lcd \in LcdRing /\ Paired(lcd) /\ Rowpair(picture)
  BY DEF DisplayInv, LcdTypeOK, LcdRing, RingOf
<1>2. /\ x > 0 /\ b \in Byte
      /\ b.kind = "cls" => Works(1, BlankScreen, 0)
      /\ b.kind = "locate" => Works(2, screen, IF b.row = 0 THEN 0 ELSE RowLength)
      /\ b.kind = "column" => Works(1, screen, address)
      /\ b.kind = "char" =>
           Works(1, [screen EXCEPT ![address] = b.letter], (address + 1) % (2 * RowLength))
  BY HandleWorks
<1>3. x \in Nat
  <2>1. x \in 0 .. ByteRange - 1
    BY <1>1, QueueSizes
  <2> HIDE DEF x
  <2> QED
    BY <2>1
<1>4. l \in Nat /\ l >= 5 /\ Program[1].kind = "cls"
  <2> DEFINE n1 == Len(picture[1])
             n2 == Len(picture[2])
  <2>1. n1 \in Nat /\ n2 \in Nat /\ l = 5 + n1 + n2 /\ Program[1].kind = "cls"
    BY <1>1, ProgramBytes
  <2> HIDE DEF n1, n2, l
  <2> QED
    BY <2>1
<1>5. l <= x /\ \A k \in 1 .. l : Due(lcd, x - l + k) = Program[k]
  BY DEF Whole
<1> HIDE DEF b, x, y, l
<1>6. b.kind \in {"cls", "locate", "column", "char"}
  BY <1>2, ByteKinds
<1>7. ASSUME NEW n \in {1, 2}, NEW s, NEW a, Works(n, s, a)
      PROVE  n <= x /\ y = x - n /\ Program' = Program /\ \A d \in 0 .. x - n : Due(lcd', d) = Due(lcd, d + n)
  BY <1>7 DEF Works, Program, x, y
<1>8. ASSUME NEW n \in {1, 2}, NEW s, NEW a, Works(n, s, a), l + n <= x
      PROVE  Whole'
  <2>1. l <= y
    BY <1>3, <1>4, <1>7, <1>8
  <2>2. ASSUME NEW k \in 1 .. l PROVE Due(lcd', y - l + k) = Program[k]
    <3> DEFINE d == y - l + k
    <3>1. d \in 0 .. x - n /\ d + n = x - l + k
      BY <1>3, <1>4, <1>7, <1>8
    <3> HIDE DEF d
    <3>2. Due(lcd', d) = Due(lcd, d + n)
      BY <1>7, <1>8, <3>1
    <3> QED
      BY <1>5, <3>1, <3>2 DEF d
  <2>3. Program' = Program
    BY <1>7, <1>8
  <2> QED
    BY <2>1, <2>2, <2>3 DEF Whole, l, y
<1>9. CASE x > l + 1
  <2>1. l + 1 <= x /\ l + 2 <= x
    BY <1>3, <1>4, <1>9
  <2> QED
    BY <1>2, <1>6, <1>8, <2>1
<1>10. CASE x = l + 1
  <2>1. b.kind # "locate"
    <3> SUFFICES ASSUME b.kind = "locate" PROVE FALSE
      OBVIOUS
    <3>1. 1 \in 1 .. x /\ 1 + 1 = 2 /\ x - l + 1 = 2 /\ 1 \in 1 .. l
      BY <1>3, <1>4, <1>10
    <3>2. Due(lcd, 2).kind = "column"
      BY <1>1, <3>1 DEF Paired, x, b
    <3>3. Due(lcd, 2) = Program[1]
      BY <1>5, <3>1
    <3> QED
      BY <1>4, <3>2, <3>3
  <2>2. l + 1 <= x
    BY <1>3, <1>4, <1>10
  <2> QED
    BY <1>2, <1>6, <1>8, <2>1, <2>2
<1>11. CASE x = l
  <2>1. x - l + 1 = 1 /\ 1 \in 1 .. l
    BY <1>3, <1>4, <1>11
  <2>2. b.kind = "cls"
    <3>1. b = Program[1]
      BY <1>5, <2>1 DEF b
    <3> QED
      BY <1>4, <3>1
  <2>3. Works(1, BlankScreen, 0)
    BY <1>2, <2>2
  <2>4. 1 <= x /\ y = x - 1 /\ Program' = Program /\ \A d \in 0 .. x - 1 : Due(lcd', d) = Due(lcd, d + 1)
    BY <1>7, <2>3
  <2>5. Shown(1)'
    <3>1. screen' = BlankScreen /\ address' = 0 /\ RowLength \in Nat
      BY <2>3, LcdAssumption DEF Works
    <3>2. screen' = [p \in 0 .. 2 * RowLength - 1 |-> "blank"]
      BY <3>1 DEF BlankScreen, Place
    <3>3. Shows(0, 0)'
      <4>1. \A p \in 0 .. 2 * RowLength - 1 : ~(p < 0) /\ ~(RowLength <= p /\ p < RowLength + 0)
        BY <3>1
      <4> QED
        BY <3>2, <4>1 DEF Shows
    <3> QED
      BY <3>1, <3>3 DEF Shown
  <2>6. ASSUME NEW k \in 2 .. l PROVE Due(lcd', k - 1) = Program[k]
    <3> DEFINE d == k - 1
    <3>1. d \in 0 .. x - 1 /\ d + 1 = x - l + k /\ k \in 1 .. l
      BY <1>3, <1>4, <1>11
    <3> HIDE DEF d
    <3>2. Due(lcd', d) = Due(lcd, d + 1)
      BY <2>4, <3>1
    <3> QED
      BY <1>5, <3>1, <3>2 DEF d
  <2>7. y = l - 1 /\ 1 + 1 = 2
    BY <1>11, <2>4
  <2>8. Behind(1)'
    BY <2>4, <2>5, <2>6, <2>7 DEF Behind, l, y
  <2> QED
    BY <2>1, <2>4, <2>8 DEF l
<1> QED
  BY <1>3, <1>4, <1>5, <1>9, <1>10, <1>11

\* A picture half worked off goes on where it is.
LEMMA BehindGoesOn ==
  ASSUME DisplayInv, Handle, NEW j \in 1 .. Len(Program), Behind(j)
  PROVE  (\E h \in 1 .. Len(Program) : Behind(h))'
<1> DEFINE b == Due(lcd, 1)
           x == Queued(lcd)
           l == Len(Program)
<1>0. PICK n1, n2 : n1 = Len(picture[1]) /\ n2 = Len(picture[2])
  OBVIOUS
<1>1. lcd \in LcdRing /\ Rowpair(picture) /\ RowLength \in Nat /\ RowLength > 0
  BY LcdAssumption DEF DisplayInv, LcdTypeOK, LcdRing, RingOf
<1>2. /\ x > 0
      /\ b.kind = "locate" => Works(2, screen, IF b.row = 0 THEN 0 ELSE RowLength)
      /\ b.kind = "char" =>
           Works(1, [screen EXCEPT ![address] = b.letter], (address + 1) % (2 * RowLength))
  BY HandleWorks
<1>3. /\ n1 \in Nat /\ n2 \in Nat /\ l = 5 + n1 + n2 /\ n1 <= RowLength /\ n2 <= RowLength
      /\ Program[2].kind = "locate" /\ Program[2].row = 0
      /\ Program[4 + n1].kind = "locate" /\ Program[4 + n1].row = 1
      /\ \A k \in 1 .. n1 : Program[3 + k].kind = "char" /\ Program[3 + k].letter = picture[1][k]
      /\ \A k \in 1 .. n2 : Program[5 + n1 + k].kind = "char" /\ Program[5 + n1 + k].letter = picture[2][k]
  BY <1>0, <1>1, ProgramBytes
<1>4. x = l - j /\ Shown(j) /\ \A k \in j + 1 .. l : Due(lcd, k - j) = Program[k]
  BY DEF Behind
<1> HIDE DEF b, x, l
<1>5. j \in 1 .. l
  BY DEF l
<1>6. j < l /\ b = Program[j + 1]
  <2>1. x > 0 /\ x = l - j /\ n1 \in Nat /\ n2 \in Nat /\ l = 5 + n1 + n2
    BY <1>2, <1>3, <1>4
  <2>2. j < l /\ j + 1 \in j + 1 .. l /\ (j + 1) - j = 1
    BY <1>5, <2>1
  <2> QED
    BY <1>4, <2>2 DEF b
<1>7. ASSUME NEW n \in {1, 2}, NEW s, NEW a, Works(n, s, a), Shown(j + n)'
      PROVE  (\E h \in 1 .. Len(Program) : Behind(h))'
  BY <1>1, <1>7, FurtherBehind
<1>8. ASSUME NEW n, NEW s, NEW a, Works(n, s, a)
      PROVE  screen' = s /\ address' = a /\ picture' = picture
  BY <1>8 DEF Works
<1>9. CASE j = 1 /\ address = 0 /\ Shows(0, 0)
  <2>1. b.kind = "locate" /\ b.row = 0
    BY <1>3, <1>6, <1>9
  <2>2. Works(2, screen, 0)
    BY <1>2, <2>1
  <2>3. screen' = screen /\ address' = 0 /\ picture' = picture
    BY <1>8, <2>2
  <2>4. Shows(0, 0)'
    BY <1>9, <2>3 DEF Shows
  <2>5. j + 2 = 3 + 0 /\ 0 \in 0 .. n1 /\ 2 \in {1, 2}
    BY <1>3, <1>9
  <2>6. 0 \in 0 .. Len(picture'[1])
    BY <1>0, <2>3, <2>5
  <2>7. Shown(j + 2)'
    BY <2>3, <2>4, <2>5, <2>6 DEF Shown
  <2> QED
    BY <1>7, <2>2, <2>5, <2>7
<1>10. CASE \E a \in 0 .. n1 : j = 3 + a /\ address = a /\ Shows(a, 0)
  <2>1. PICK a \in 0 .. n1 : j = 3 + a /\ address = a /\ Shows(a, 0)
    BY <1>10
  <2>2. CASE a < n1
    <3> DEFINE k == a + 1
               m == 2 * RowLength
    <3>1. k \in 1 .. n1 /\ j + 1 = 3 + k /\ k = a + 1 /\ a \in Nat /\ a < RowLength
          /\ m \in Nat /\ k \in 0 .. m - 1 /\ a \in 0 .. m - 1
      BY <1>1, <1>3, <2>1, <2>2
    <3>2. k % m = k
      <4> HIDE DEF k, m
      <4> QED
        BY <3>1
    <3>3. address + 1 = k
      BY <2>1
    <3> HIDE DEF k, m
    <3>4. b.kind = "char" /\ b.letter = picture[1][k]
      BY <1>3, <1>6, <3>1
    <3>5. Works(1, [screen EXCEPT ![address] = b.letter], (address + 1) % m)
      BY <1>2, <3>4 DEF m
    <3>6. screen' = [screen EXCEPT ![a] = b.letter] /\ address' = k /\ picture' = picture
      <4>1. screen' = [screen EXCEPT ![address] = b.letter] /\ address' = (address + 1) % m /\ picture' = picture
        BY <1>8, <3>5
      <4> QED
        BY <2>1, <3>2, <3>3, <4>1
    <3>7. Shows(k, 0)'
      <4>1. b.letter = picture[1][a + 1] /\ a \in 0 .. 2 * RowLength - 1
        BY <3>1, <3>4 DEF m
      <4>2. Shows(a + 1, 0)'
        BY <1>1, <2>1, <3>1, <3>6, <4>1, LetterIsShown
      <4> QED
        BY <3>1, <4>2
    <3>8. k \in 0 .. Len(picture'[1])
      <4>1. k \in 0 .. n1
        BY <1>3, <3>1
      <4> QED
        BY <1>0, <3>6, <4>1
    <3>9. Shown(j + 1)'
      BY <3>1, <3>6, <3>7, <3>8 DEF Shown
    <3> QED
      BY <1>7, <3>5, <3>9
  <2>3. CASE a = n1
    <3>1. j + 1 = 4 + n1 /\ j + 2 = 5 + n1 + 0 /\ RowLength + 0 = RowLength /\ 0 \in 0 .. n2 /\ 2 \in {1, 2}
      BY <1>1, <1>3, <2>1, <2>3
    <3>2. b.kind = "locate" /\ b.row = 1
      BY <1>3, <1>6, <3>1
    <3>3. Works(2, screen, RowLength)
      <4>1. Works(2, screen, IF b.row = 0 THEN 0 ELSE RowLength)
        BY <1>2, <3>2
      <4>2. (IF b.row = 0 THEN 0 ELSE RowLength) = RowLength
        BY <3>2
      <4> QED
        BY <4>1, <4>2
    <3>4. screen' = screen /\ address' = RowLength /\ picture' = picture
      BY <1>8, <3>3
    <3>5. Shows(n1, 0)'
      BY <2>1, <2>3, <3>4 DEF Shows
    <3>6. 0 \in 0 .. Len(picture'[2]) /\ Len(picture'[1]) = n1
      BY <1>0, <3>1, <3>4
    <3>7. Shown(j + 2)'
      BY <3>1, <3>4, <3>5, <3>6 DEF Shown
    <3> QED
      BY <1>7, <3>1, <3>3, <3>7
  <2> QED
    BY <1>3, <2>1, <2>2, <2>3
<1>11. CASE \E o \in 0 .. n2 : /\ j = 5 + n1 + o /\ Shows(n1, o)
                               /\ o < n2 => address = RowLength + o
  <2>1. PICK o \in 0 .. n2 : /\ j = 5 + n1 + o /\ Shows(n1, o)
                             /\ o < n2 => address = RowLength + o
    BY <1>11
  <2> DEFINE k == o + 1
             m == 2 * RowLength
             c == RowLength + o
  <2>2. k \in 1 .. n2 /\ j + 1 = 5 + n1 + k /\ k = o + 1 /\ o \in Nat /\ o < RowLength /\ k \in 0 .. n2
        /\ m \in Nat /\ c \in 0 .. m - 1 /\ o < n2 /\ m > 0
    BY <1>1, <1>3, <1>6, <2>1
  <2>3. address = c /\ (address + 1) % m = (c + 1) % m
    BY <2>1, <2>2
  <2>4. k < n2 => (c + 1) % m = RowLength + k
    <3> DEFINE g == c + 1
    <3>1. k < n2 => g \in 0 .. m - 1 /\ g = RowLength + k
      <4>1. RowLength \in Nat /\ n2 \in Nat /\ n2 <= RowLength /\ k \in Nat /\ k = o + 1 /\ o \in Nat
        BY <1>1, <1>3, <2>2
      <4>2. g = RowLength + k
        BY <4>1
      <4> HIDE DEF k, g
      <4>3. k < n2 => g < m
        BY <4>1, <4>2
      <4>4. g \in Nat
        BY <4>1, <4>2
      <4> QED
        BY <2>2, <4>2, <4>3, <4>4
    <3> HIDE DEF m, g
    <3>2. k < n2 => g % m = g
      BY <2>2, <3>1
    <3> QED
      BY <3>1, <3>2 DEF g
  <2> HIDE DEF k, m
  <2>5. b.kind = "char" /\ b.letter = picture[2][k]
    BY <1>3, <1>6, <2>2
  <2>6. Works(1, [screen EXCEPT ![address] = b.letter], (address + 1) % m)
    BY <1>2, <2>5 DEF m
  <2>7. screen' = [screen EXCEPT ![c] = b.letter] /\ address' = (c + 1) % m /\ picture' = picture
    <3>1. screen' = [screen EXCEPT ![address] = b.letter] /\ address' = (address + 1) % m /\ picture' = picture
      BY <1>8, <2>6
    <3> QED
      BY <2>3, <3>1
  <2>8. Shows(n1, k)'
    <3>1. b.letter = picture[2][o + 1] /\ c \in 0 .. 2 * RowLength - 1 /\ c = RowLength + o
      BY <2>2, <2>5 DEF m
    <3>2. Shows(n1, o + 1)'
      BY <1>1, <1>3, <2>1, <2>2, <2>7, <3>1, LetterIsShown
    <3> QED
      BY <2>2, <3>2
  <2>9. k \in 0 .. Len(picture'[2]) /\ Len(picture'[1]) = n1 /\ Len(picture'[2]) = n2
    BY <1>0, <2>2, <2>7
  <2>10. k < n2 => address' = RowLength + k
    BY <2>4, <2>7
  <2>11. Shown(j + 1)'
    BY <2>2, <2>8, <2>9, <2>10 DEF Shown
  <2> QED
    BY <1>7, <2>6, <2>11
<1> QED
  BY <1>0, <1>4, <1>9, <1>10, <1>11 DEF Shown

\* lcd_handle keeps the invariant.
LEMMA HandleKeeps == ASSUME DisplayInv, Handle PROVE DisplayInv'
<1>1. LcdTypeOK' /\ Rowpair(picture)' /\ Paired(lcd)'
  BY HandleKeepsTypes
<1>2. ASSUME fits' PROVE (Whole \/ \E j \in 1 .. Len(Program) : Behind(j))'
  <2>1. fits
    BY <1>2 DEF Handle
  <2>2. CASE Whole
    BY <2>2, WholeGoesOn
  <2>3. CASE \E j \in 1 .. Len(Program) : Behind(j)
    <3>1. (\E j \in 1 .. Len(Program) : Behind(j))'
      BY <2>3, BehindGoesOn
    <3> QED
      BY <3>1
  <2> QED
    BY <2>1, <2>2, <2>3 DEF DisplayInv
<1> QED
  BY <1>1, <1>2 DEF DisplayInv

\* The blank screen is what five bytes of an empty picture make.
LEMMA DisplayStarts == LcdInit => DisplayInv
<1> SUFFICES ASSUME LcdInit PROVE DisplayInv
  OBVIOUS
<1>1. RowLength \in Nat /\ RowLength > 0 /\ ByteRange \in Nat /\ ByteRange > 1
  BY LcdAssumption
<1>2. LcdTypeOK
  <2>1. Zero0 \in Byte /\ 0 \in 0 .. ByteRange - 1 /\ 0 \in Place
    BY <1>1 DEF Zero0, Byte, Place
  <2>2. lcd = [buf |-> [o \in 0 .. ByteRange - 1 |-> Zero0], head |-> 0, tail |-> 0]
    BY DEF LcdInit
  <2>3. [o \in 0 .. ByteRange - 1 |-> Zero0] \in [0 .. ByteRange - 1 -> Byte]
    BY <2>1
  <2>4. screen \in [Place -> Text \cup {"blank"}] /\ address \in Place /\ fits \in BOOLEAN
    BY <2>1 DEF LcdInit, BlankScreen
  <2> QED
    BY <2>1, <2>2, <2>3, <2>4 DEF LcdTypeOK
<1>3. Queued(lcd) = 0
  BY DEF LcdInit, Queued, Filled, Apart
<1>4. Paired(lcd)
  BY <1>3 DEF Paired
<1>5. Rowpair(picture) /\ Len(picture[1]) = 0 /\ Len(picture[2]) = 0
  <2>1. picture[1] = <<>> /\ picture[2] = <<>>
    BY DEF LcdInit
  <2>2. <<>> \in Seq(Text) /\ Len(<<>>) = 0
    OBVIOUS
  <2>3. Len(picture[1]) = 0 /\ Len(picture[2]) = 0
    BY <2>1, <2>2
  <2>4. picture[1] \in Seq(Text) /\ picture[2] \in Seq(Text)
    BY <2>1, <2>2
  <2>5. ASSUME NEW o \in {1, 2} PROVE picture[o] \in Seq(Text) /\ Len(picture[o]) = 0
    <3>1. CASE o = 1
      BY <2>3, <2>4, <3>1
    <3>2. CASE o = 2
      BY <2>3, <2>4, <3>2
    <3> QED
      BY <3>1, <3>2
  <2>6. 0 <= RowLength
    BY <1>1
  <2>7. Rowpair(picture)
    BY <2>5, <2>6 DEF Rowpair
  <2> QED
    BY <2>3, <2>7
<1>6. Len(Program) = 5
  <2>1. Len(Program) = 5 + Len(picture[1]) + Len(picture[2])
    BY <1>5, PictureBytes DEF Program
  <2> QED
    BY <1>5, <2>1
<1>7. Shows(0, 0)
  <2>1. screen = [p \in 0 .. 2 * RowLength - 1 |-> "blank"]
    BY DEF LcdInit, BlankScreen, Place
  <2>2. \A p \in 0 .. 2 * RowLength - 1 : ~(p < 0) /\ ~(RowLength <= p /\ p < RowLength + 0)
    BY <1>1
  <2> QED
    BY <2>1, <2>2 DEF Shows
<1>8. Shown(5)
  <2>1. 0 \in 0 .. Len(picture[2]) /\ 5 = 5 + Len(picture[1]) + 0 /\ ~(0 < Len(picture[2])) /\ Shows(Len(picture[1]), 0)
    BY <1>5, <1>7
  <2> QED
    BY <2>1 DEF Shown
<1>9. Behind(5) /\ 5 \in 1 .. Len(Program)
  BY <1>3, <1>6, <1>8 DEF Behind
<1> QED
  BY <1>2, <1>4, <1>5, <1>9 DEF DisplayInv

\* What it says of a queue that is worked off, and of the command that is due.
LEMMA DisplayMeans == DisplayInv => LcdInv
<1> SUFFICES ASSUME DisplayInv PROVE LcdInv
  OBVIOUS
<1> DEFINE n1 == Len(picture[1])
           n2 == Len(picture[2])
           l == Len(Program)
           x == Queued(lcd)
<1>1. LcdTypeOK /\ lcd \in LcdRing /\ Rowpair(picture) /\ Paired(lcd) /\ RowLength \in Nat /\ RowLength > 0
  BY LcdAssumption DEF DisplayInv, LcdTypeOK, LcdRing, RingOf
<1>2. n1 \in Nat /\ n2 \in Nat /\ l = 5 + n1 + n2 /\ n1 <= RowLength /\ n2 <= RowLength
  BY <1>1, ProgramBytes
<1>3. ASSUME LcdIsEmpty(lcd), fits PROVE Shows(n1, n2)
  <2>1. x = 0
    BY <1>1, <1>3, QueueSizes
  <2>2. ~Whole
    <3>1. ~(l <= x)
      <4> HIDE DEF l, x, n1, n2
      <4> QED
        BY <1>2, <2>1
    <3> QED
      BY <3>1 DEF Whole
  <2>3. PICK j \in 1 .. l : Behind(j)
    BY <1>3, <2>2 DEF DisplayInv
  <2>4. x = l - j /\ Shown(j)
    BY <2>3 DEF Behind
  <2> HIDE DEF n1, n2, l, x
  <2>5. j = 5 + n1 + n2
    BY <1>2, <2>1, <2>3, <2>4
  <2>6. j # 1 /\ \A a \in 0 .. n1 : j # 3 + a
    BY <1>2, <2>5
  <2>7. \A o \in 0 .. n2 : j = 5 + n1 + o => o = n2
    BY <1>2, <2>5
  <2>8. \E o \in 0 .. n2 : j = 5 + n1 + o /\ Shows(n1, o)
    BY <2>4, <2>6 DEF Shown, n1, n2
  <2> QED
    BY <2>7, <2>8
<1>4. ShownAsWritten
  <2> SUFFICES ASSUME LcdIsEmpty(lcd), fits, NEW row \in {0, 1}, NEW o \in 0 .. RowLength - 1
               PROVE  screen[row * RowLength + o] =
                        IF o < Len(picture[row + 1]) THEN picture[row + 1][o + 1] ELSE "blank"
    BY DEF ShownAsWritten
  <2>1. screen = [p \in 0 .. 2 * RowLength - 1 |->
                    IF p < n1 THEN picture[1][p + 1]
                    ELSE IF RowLength <= p /\ p < RowLength + n2 THEN picture[2][p - RowLength + 1]
                    ELSE "blank"]
    BY <1>3 DEF Shows
  <2> HIDE DEF l, x
  <2>2. CASE row = 0
    <3>1. row * RowLength + o = o /\ row + 1 = 1 /\ o \in 0 .. 2 * RowLength - 1 /\ ~(RowLength <= o)
      BY <1>1, <2>2
    <3>2. screen[o] = IF o < n1 THEN picture[1][o + 1] ELSE "blank"
      BY <2>1, <3>1
    <3> QED
      BY <3>1, <3>2
  <2>3. CASE row = 1
    <3> DEFINE p == RowLength + o
    <3>1. row * RowLength + o = p /\ row + 1 = 2 /\ p \in 0 .. 2 * RowLength - 1 /\ RowLength <= p
          /\ ~(p < n1) /\ p - RowLength + 1 = o + 1 /\ (p < RowLength + n2 <=> o < n2)
      BY <1>1, <1>2, <2>3
    <3> HIDE DEF p, n1, n2
    <3>2. screen[p] = IF o < n2 THEN picture[2][o + 1] ELSE "blank"
      BY <2>1, <3>1
    <3> QED
      BY <3>1, <3>2 DEF n2
  <2> QED
    BY <2>2, <2>3
<1>5. CommandsAreWhole
  <2> SUFFICES ASSUME LcdBufGet(lcd).kind = "locate" PROVE LcdBufGet(LcdTaken(lcd)).kind = "column"
    BY DEF CommandsAreWhole
  <2>1. ~LcdIsEmpty(lcd)
    <3>1. Zero0.kind # "locate"
      BY DEF Zero0
    <3> QED
      BY <3>1 DEF LcdBufGet
  <2> DEFINE q == LcdTaken(lcd)
  <2>2. /\ LcdBufGet(lcd) = Due(lcd, 1) /\ q \in LcdRing /\ x > 0 /\ Queued(q) = x - 1
        /\ \A d \in 0 .. x - 1 : Due(q, d) = Due(lcd, d + 1)
    BY <1>1, <2>1, LcdTakes
  <2>3. x \in Nat
    <3>1. x \in 0 .. ByteRange - 1
      BY <1>1, QueueSizes
    <3> HIDE DEF x
    <3> QED
      BY <3>1
  <2>4. x > 1 /\ Due(lcd, 2).kind = "column"
    <3>1. 1 \in 1 .. x /\ 1 + 1 = 2
      BY <2>2, <2>3
    <3>2. 1 < x /\ Due(lcd, 1 + 1).kind = "column"
      BY <1>1, <2>2, <3>1 DEF Paired
    <3> QED
      BY <2>3, <3>1, <3>2
  <2> HIDE DEF x, q
  <2>5. ~LcdIsEmpty(q)
    <3>1. Queued(q) # 0
      BY <2>2, <2>3, <2>4
    <3> QED
      BY <2>2, <3>1, QueueSizes
  <2>6. LcdBufGet(q) = Due(q, 1)
    BY <2>2, <2>5, LcdTakes
  <2>7. 1 \in 0 .. x - 1 /\ 1 + 1 = 2
    BY <2>3, <2>4
  <2>8. Due(q, 1) = Due(lcd, 2)
    BY <2>2, <2>7
  <2> QED
    BY <2>4, <2>6, <2>8 DEF q
<1> QED
  BY <1>1, <1>4, <1>5 DEF LcdInv

(***************************************************************************)
(* LcdInv: once the queue is worked off the controller shows the picture   *)
(* written last, if lcd_buf_put found room for all of it; whatever an      *)
(* overflow threw away, no lcd_locate is parted from its column.           *)
(***************************************************************************)
THEOREM LcdAlways == LcdSpec => []LcdInv
<1>1. DisplayInv /\ [LcdNext]_lcdvars => DisplayInv'
  <2> SUFFICES ASSUME DisplayInv, [LcdNext]_lcdvars PROVE DisplayInv'
    OBVIOUS
  <2>1. CASE Display
    BY <2>1, DisplayKeeps
  <2>2. CASE Handle
    BY <2>2, HandleKeeps
  <2>3. CASE UNCHANGED lcdvars
    <3>1. UNCHANGED <<lcd, screen, address, picture, fits>>
      BY <2>3 DEF lcdvars
    <3> QED
      BY <3>1 DEF DisplayInv, LcdTypeOK, Rowpair, Paired, Whole, Behind, Shown, Shows, Program
  <2> QED
    BY <2>1, <2>2, <2>3 DEF LcdNext
<1> QED
  BY <1>1, DisplayStarts, DisplayMeans, PTL DEF LcdSpec

=============================================================================
