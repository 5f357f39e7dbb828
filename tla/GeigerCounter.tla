---------------------------- MODULE GeigerCounter ----------------------------
(***************************************************************************)
(* The measurement: timer 2 counts the pulses of the tube, the one-second  *)
(* interrupt of time.c moves the count into a window of sixty slots, and   *)
(* the main loop sums the window with cpm() while the interrupt may come   *)
(* at any moment.  The loggers measure only when uptime() > 60.            *)
(***************************************************************************)
EXTENDS Integers

CONSTANTS Slots,         \* slots of the window, and seconds of the gate: 60
          Timer2Range,   \* values of TMR2 and of a slot: 2^16
          CpmRange,      \* values of cpm(): 2^16
          UptimeRange,   \* values of upt: 2^32
          MaxPulses,     \* bound: pulses of one second
          BootTicks      \* bound: seconds from the first interrupt to geiger_init

ASSUME GeigerAssumption ==
  /\ Slots \in Nat /\ Slots > 0 /\ MaxPulses \in 1 .. Timer2Range - 1
  /\ BootTicks \in Nat /\ BootTicks < 2
  /\ \A r \in {Timer2Range, CpmRange, UptimeRange} : r \in Nat /\ r > Slots

VARIABLES
  geiger_pulses, i, upt,   \* time.c, written by the interrupt
  TMR2, counting,          \* timer 2, and whether OpenTimer2 started it
  isr,                     \* what is left of _RtccHandler
  mainAt, slot, result, gated, \* the main loop: where, cpm's loop, whose call
  seen,                    \* history: pulses since the interrupt read TMR2,
  measured,                \*   slots filled while the timer was counting,
  atCall, ticked           \*   the sum when cpm was called, a tick since

interrupt == <<geiger_pulses, i, upt, isr, measured>>
main == <<mainAt, slot, result, gated, atCall>>
geigervars == <<interrupt, TMR2, counting, seen, main, ticked>>

Slot == 0 .. Slots - 1

\* What cpm's loop makes of slots w that do not change while it runs
Total(w) ==
  LET upto[n \in 0 .. Slots] == IF n = 0 THEN 0 ELSE (upto[n - 1] + w[n - 1]) % CpmRange
  IN upto[Slots]

Window == Total(geiger_pulses)

GeigerInit ==
  /\ geiger_pulses = [s \in Slot |-> 0] /\ i = 0 /\ upt = 0 /\ isr = "idle"
  /\ TMR2 = 0 /\ counting = FALSE
  /\ mainAt = "geiger_init" /\ slot = 0 /\ result = 0 /\ gated = FALSE
  /\ seen = 0 /\ measured = {} /\ atCall = 0 /\ ticked = FALSE

-----------------------------------------------------------------------------
(* The tube and the interrupt; the timer counts between its two halves too *)

Pulse ==
  /\ counting /\ seen < MaxPulses
  /\ TMR2' = (TMR2 + 1) % Timer2Range /\ seen' = seen + 1
  /\ UNCHANGED <<interrupt, counting, main, ticked>>

\* mutant: the window is shifted instead of overwritten at i
RtccReadsShifting ==
  /\ isr = "idle" /\ (mainAt = "cpm" => ~ticked)
  /\ ~counting => upt < BootTicks
  /\ isr' = "clear"
  /\ geiger_pulses' = [s \in Slot |-> IF s = Slots - 1 THEN TMR2 ELSE geiger_pulses[s + 1]]
  /\ measured' = IF counting THEN measured \union {i} ELSE measured \ {i}
  /\ seen' = 0 /\ ticked' = TRUE
  /\ UNCHANGED <<i, upt, TMR2, counting, main>>

\* cpm() takes much less than a second: one tick at most comes during a call.
RtccReads ==
  /\ isr = "idle" /\ (mainAt = "cpm" => ~ticked)
  /\ ~counting => upt < BootTicks
  /\ isr' = "clear" /\ geiger_pulses' = [geiger_pulses EXCEPT ![i] = TMR2]
  /\ measured' = IF counting THEN measured \union {i} ELSE measured \ {i}
  /\ seen' = 0 /\ ticked' = TRUE
  /\ UNCHANGED <<i, upt, TMR2, counting, main>>

\* mutant: the timer runs on
RtccRunsOn ==
  /\ isr = "clear" /\ isr' = "idle"
  /\ i' = (i + 1) % Slots /\ upt' = (upt + 1) % UptimeRange
  /\ UNCHANGED <<geiger_pulses, measured, TMR2, counting, seen, main, ticked>>

RtccClears ==
  /\ isr = "clear" /\ isr' = "idle"
  /\ TMR2' = 0 /\ i' = (i + 1) % Slots /\ upt' = (upt + 1) % UptimeRange
  /\ UNCHANGED <<geiger_pulses, measured, counting, seen, main, ticked>>

_RtccHandler == RtccReads \/ RtccClears

-----------------------------------------------------------------------------
(* The main loop, which runs when the interrupt is not being served *)

\* geiger_init, with interrupts already enabled
ClearSlot ==
  /\ isr = "idle" /\ mainAt = "geiger_init" /\ slot < Slots
  /\ geiger_pulses' = [geiger_pulses EXCEPT ![slot] = 0] /\ slot' = slot + 1
  /\ UNCHANGED <<i, upt, isr, measured, TMR2, counting, seen, mainAt, result, gated, atCall, ticked>>

OpenTimer2 ==
  /\ isr = "idle" /\ mainAt = "geiger_init" /\ slot = Slots
  /\ TMR2' = 0 /\ counting' = TRUE /\ mainAt' = "loop"
  /\ UNCHANGED <<interrupt, seen, slot, result, gated, atCall, ticked>>

\* mutant: the gate opens a second early
MayMeasureEarly == upt >= Slots

\* handle_usb_log, handle_mqtt_log and constructJSON ask for more than a window.
MayMeasure == upt > Slots

\* cpm() is called by a logger, or by the display, which does not ask.
Cpm(logger) ==
  /\ isr = "idle" /\ mainAt = "loop" /\ (logger => MayMeasure)
  /\ mainAt' = "cpm" /\ slot' = 0 /\ result' = 0 /\ gated' = logger
  /\ atCall' = Window /\ ticked' = FALSE
  /\ UNCHANGED <<interrupt, TMR2, counting, seen>>

AddSlot ==
  /\ isr = "idle" /\ mainAt = "cpm" /\ slot < Slots
  /\ result' = (result + geiger_pulses[slot]) % CpmRange /\ slot' = slot + 1
  /\ UNCHANGED <<interrupt, TMR2, counting, seen, mainAt, gated, atCall, ticked>>

CpmReturns ==
  /\ isr = "idle" /\ mainAt = "cpm" /\ slot = Slots
  /\ mainAt' = "loop"
  /\ UNCHANGED <<interrupt, TMR2, counting, seen, slot, result, gated, atCall, ticked>>

Main == ClearSlot \/ OpenTimer2 \/ (\E logger \in BOOLEAN : Cpm(logger)) \/ AddSlot \/ CpmReturns

GeigerNext == Pulse \/ _RtccHandler \/ Main

GeigerSpec == GeigerInit /\ [][GeigerNext]_geigervars

-----------------------------------------------------------------------------
(* Properties *)

GeigerTypeOK ==
  /\ geiger_pulses \in [Slot -> 0 .. Timer2Range - 1] /\ i \in Slot
  /\ upt \in 0 .. UptimeRange - 1 /\ isr \in {"idle", "clear"}
  /\ TMR2 \in 0 .. Timer2Range - 1 /\ counting \in BOOLEAN
  /\ mainAt \in {"geiger_init", "loop", "cpm"} /\ slot \in 0 .. Slots
  /\ result \in 0 .. CpmRange - 1 /\ gated \in BOOLEAN
  /\ seen \in 0 .. MaxPulses /\ measured \subseteq Slot
  /\ atCall \in 0 .. CpmRange - 1 /\ ticked \in BOOLEAN

(***************************************************************************)
(* No pulse is counted in two seconds: the timer holds at most the pulses  *)
(* seen since it was last read.  (It may hold fewer: those that come       *)
(* between the interrupt's read and its clear are lost.)                   *)
(***************************************************************************)
CountedOnce == isr = "idle" => TMR2 <= seen

(***************************************************************************)
(* What a logger reports is a measurement of a full minute: when the gate  *)
(* uptime() > 60 opens, every slot was filled while the timer counted,     *)
(* although interrupts and uptime run before geiger_init.                  *)
(***************************************************************************)
LoggedWindowIsMeasured == mainAt = "cpm" /\ gated => measured = Slot

(***************************************************************************)
(* cpm() adds up slots that change under it, and still returns the window  *)
(* as it was at its call or as it is at its return.                        *)
(***************************************************************************)
CpmIsTheWindow == [][CpmReturns => result \in {atCall, Window}]_geigervars

(***************************************************************************)
(* Counter and window hold what was counted, within their widths.          *)
(***************************************************************************)
GeigerInv == GeigerTypeOK /\ CountedOnce

(***************************************************************************)
(* Why: before the window is full, the next slot is the uptime, and the    *)
(* slots from the one after the boot's up to it are measured.              *)
(***************************************************************************)
Filling ==
  /\ upt <= Slots /\ i = upt % Slots
  /\ ~counting => upt <= BootTicks /\ (isr = "clear" => upt < BootTicks)
  /\ \A s \in Slot : BootTicks <= s /\ s < upt => s \in measured
  /\ isr = "clear" /\ counting => i \in measured

GateInv ==
  /\ i \in Slot /\ upt \in 0 .. UptimeRange - 1 /\ measured \subseteq Slot
  /\ isr \in {"idle", "clear"} /\ counting \in BOOLEAN
  /\ counting <=> mainAt # "geiger_init"
  /\ (counting /\ measured = Slot) \/ Filling
  /\ LoggedWindowIsMeasured

=============================================================================
