-------------------------------- MODULE Keys --------------------------------
(***************************************************************************)
(* A key and the backlight: button_handle of btn/buttons_i2c.c and the     *)
(* part of handle_ui of lcd/display.c around it.  Each pass of the main    *)
(* loop samples the key once; the millisecond counter wraps.               *)
(***************************************************************************)
EXTENDS Integers

CONSTANTS ClockRange,     \* values of millis(): 2^32
          Debounce,       \* 20 ms
          LongPress,      \* 2000 ms
          Lasts,          \* the backlight: 5000 ms
          MaxGap          \* bound: milliseconds from one pass to the next

ASSUME KeysAssumption ==
  /\ {ClockRange, Debounce, LongPress, Lasts, MaxGap} \subseteq Nat \ {0}
  /\ Debounce < LongPress /\ LongPress < ClockRange /\ Lasts + MaxGap + 1 < ClockRange

VARIABLES
  millis,
  btnState, btnTimer,     \* btn->state, btn->timer
  backlight_timer,
  lit,                    \* the backlight's pin of the port expander
  idle,                   \* milliseconds since the last pass
  down, held,             \* history: the last sample, and since when it is that
  sincePush               \* history: time since push_proc last ran

btn == <<btnState, btnTimer>>
light == <<backlight_timer, lit>>
keyvars == <<millis, btn, light, idle, down, held, sincePush>>

Ever == ClockRange        \* bound of the history variables
Later(t) == IF t < Ever THEN t + 1 ELSE t

\* mutant: a difference that does not wrap with the clock, as in UDP.c:414
SinceUnwrapped(t) == millis - t

Since(t) == (millis - t) % ClockRange

\* The clock may stand anywhere when a key is first used.
KeysInit ==
  /\ millis \in 0 .. ClockRange - 1
  /\ btnState = "IDLE" /\ btnTimer = 0 /\ backlight_timer = 0 /\ lit = FALSE
  /\ idle = 0 /\ down = FALSE /\ held = 0 /\ sincePush = Ever

Millisecond ==
  /\ idle < MaxGap /\ idle' = idle + 1
  /\ millis' = (millis + 1) % ClockRange
  /\ held' = Later(held) /\ sincePush' = Later(sincePush)
  /\ UNCHANGED <<btn, light, down>>

-----------------------------------------------------------------------------
(* button_handle; pressed is what the port showed in this pass *)

Press(pressed) ==
  /\ pressed /\ btnState = "IDLE"
  /\ btnState' = "DEBOUNCE" /\ btnTimer' = millis

\* mutant: the long press is timed from the first contact
StillDownSinceContact(pressed) ==
  /\ pressed /\ btnState = "DEBOUNCE" /\ Since(btnTimer) >= Debounce
  /\ btnState' = "WAIT_LONG" /\ btnTimer' = btnTimer

StillDown(pressed) ==
  /\ pressed /\ btnState = "DEBOUNCE" /\ Since(btnTimer) >= Debounce
  /\ btnState' = "WAIT_LONG" /\ btnTimer' = millis

\* long_proc is NULL for every key.
HeldLong(pressed) ==
  /\ pressed /\ btnState = "WAIT_LONG" /\ Since(btnTimer) >= LongPress
  /\ btnState' = "WAIT_RELEASE" /\ btnTimer' = 0

ReleasedLate(pressed) ==
  /\ ~pressed /\ btnState = "WAIT_RELEASE"
  /\ btnState' = "IDLE" /\ btnTimer' = btnTimer

\* A contact that ends in DEBOUNCE is not forgotten.
Unmoved(pressed) ==
  /\ \/ btnState = "IDLE" /\ ~pressed
     \/ btnState = "DEBOUNCE" /\ (~pressed \/ Since(btnTimer) < Debounce)
     \/ btnState = "WAIT_LONG" /\ pressed /\ Since(btnTimer) < LongPress
     \/ btnState = "WAIT_RELEASE" /\ pressed
  /\ UNCHANGED btn

\* push_proc, key1_func and the others: backlight_on, and a page
Push == backlight_timer' = millis /\ lit' = TRUE /\ sincePush' = 0

Released(pressed) ==
  /\ ~pressed /\ btnState = "WAIT_LONG"
  /\ btnState' = "IDLE" /\ btnTimer' = btnTimer /\ Push

-----------------------------------------------------------------------------
(* handle_ui *)

BacklightOff ==
  /\ IF backlight_timer # 0 /\ Since(backlight_timer) > Lasts
     THEN backlight_timer' = 0 /\ lit' = FALSE
     ELSE UNCHANGED light
  /\ UNCHANGED sincePush

HandleUi ==
  \E pressed \in BOOLEAN :
    /\ \/ Released(pressed)
       \/ /\ Press(pressed) \/ StillDown(pressed) \/ HeldLong(pressed) \/ ReleasedLate(pressed)
             \/ Unmoved(pressed)
          /\ BacklightOff
    /\ idle' = 0 /\ down' = pressed /\ held' = IF pressed = down THEN held ELSE 0
    /\ UNCHANGED millis

KeysNext == Millisecond \/ HandleUi

KeysSpec == KeysInit /\ [][KeysNext]_keyvars

\* The main loop calls handle_ui for ever, and time goes on.
FairKeys == KeysSpec /\ WF_keyvars(Millisecond) /\ WF_keyvars(idle = MaxGap /\ HandleUi)

-----------------------------------------------------------------------------
(* Properties *)

KeysTypeOK ==
  /\ millis \in 0 .. ClockRange - 1 /\ idle \in 0 .. MaxGap
  /\ btnState \in {"IDLE", "DEBOUNCE", "WAIT_LONG", "WAIT_RELEASE"}
  /\ btnTimer \in 0 .. ClockRange - 1 /\ backlight_timer \in 0 .. ClockRange - 1
  /\ {lit, down} \subseteq BOOLEAN /\ {held, sincePush} \subseteq 0 .. Ever

(***************************************************************************)
(* A press counts as long, and is not a push, only if the key was down at  *)
(* every sample for two seconds, whatever was left in the timer by a       *)
(* contact that bounced long ago.                                          *)
(***************************************************************************)
LongPressIsHeld ==
  [][btnState' = "WAIT_RELEASE" /\ btnState # "WAIT_RELEASE"
       => down /\ held >= LongPress]_keyvars

(***************************************************************************)
(* The backlight stays on for five seconds after every push, although the  *)
(* clock may wrap in between and zero stands for an idle timer.            *)
(***************************************************************************)
BacklightLasts == sincePush <= Lasts => lit

(***************************************************************************)
(* The backlight goes out by itself, across a wrap of the clock too,       *)
(* except after a push in the one millisecond in which the clock is 0.     *)
(***************************************************************************)
BacklightGoesOut == lit /\ backlight_timer # 0 ~> ~lit \/ sincePush = 0

(***************************************************************************)
(* The backlight is on for the five seconds after a push and not for ever, *)
(* wherever the clock stands.                                              *)
(***************************************************************************)
BacklightTimed == [](KeysTypeOK /\ BacklightLasts) /\ BacklightGoesOut

=============================================================================
