------------------------------- MODULE Console -------------------------------
(***************************************************************************)
(* The receiver of uart/uart.c: the interrupt fills a ring and counts the  *)
(* ends of lines, the main loop takes a line when one is counted.  The     *)
(* interrupt comes between any two accesses of the reader.                 *)
(***************************************************************************)
EXTENDS Integers, Sequences

CONSTANTS RxSize,         \* UART_RX_BUF_SIZE
          CountRange,     \* values of ascii_line: 256
          Callback,       \* values uart_rx_str_event_callback may have: set or not
          MaxReceived     \* bound: characters received

ASSUME ConsoleAssumption ==
  /\ RxSize \in Nat \ {0, 1} /\ CountRange \in Nat \ {0, 1} /\ MaxReceived \in Nat
  /\ Callback \subseteq BOOLEAN /\ Callback # {}

VARIABLES
  rx,                 \* UART_RxBuf, UART_RxHead, UART_RxTail
  ascii_line,
  registered,         \* a callback is set
  reader,             \* where the main loop is
  str, count,         \* its locals: string so far, ascii_line as it was read
  wire,               \* history: characters received, each with its number
  taken,              \* history: numbers of the characters uart_getc returned
  ended,              \* history: strings given to the callback, a CR after each
  upset,              \* history: characters were thrown away, a count was lost,
                      \* or a character above 127 ended a string
  overrun             \* history: the ring was emptied between uart_getc's test and store

ring == <<rx, ascii_line>>
local == <<reader, str, count>>
past == <<wire, taken, ended>>
havoc == <<upset, overrun>>
consolevars == <<ring, registered, local, past, havoc>>

Letter == 1
CarriageReturn == 13
AboveAscii == -128                   \* a char above 127
Char == {Letter, CarriageReturn, AboveAscii} \* 0 and 10 are not stored

RxMask(i) == i % RxSize
NoChar == [char |-> 0, nr |-> 0]

ConsoleInit ==
  /\ rx = [buf |-> [i \in 0 .. RxSize - 1 |-> NoChar], head |-> 0, tail |-> 0]
  /\ ascii_line = 0 /\ registered \in Callback
  /\ reader = "idle" /\ str = << >> /\ count = 0
  /\ wire = << >> /\ taken = << >> /\ ended = << >> /\ upset = FALSE /\ overrun = FALSE

-----------------------------------------------------------------------------
(* IntUart1Handler, for one character *)

Stored(m) ==
  IF RxMask(rx.head + 1) = rx.tail THEN [rx EXCEPT !.head = rx.tail]
  ELSE [buf |-> [rx.buf EXCEPT ![RxMask(rx.head + 1)] = m], head |-> RxMask(rx.head + 1), tail |-> rx.tail]

Interrupt ==
  /\ Len(wire) < MaxReceived
  /\ \E char \in Char :
       LET m == [char |-> char, nr |-> Len(wire) + 1]
           full == RxMask(rx.head + 1) = rx.tail
       IN /\ wire' = Append(wire, char) /\ rx' = Stored(m)
          /\ ascii_line' = IF char = CarriageReturn /\ ~full THEN (ascii_line + 1) % CountRange ELSE ascii_line
          /\ upset' = (upset \/ full \/ (char = CarriageReturn /\ reader = "decrement"))
          /\ overrun' = (overrun \/ (full /\ reader = "advance"))
  /\ UNCHANGED <<registered, local, taken, ended>>

-----------------------------------------------------------------------------
(* UART_RX_STR_EVENT, uart_get_str and uart_getc *)

Event ==
  /\ reader = "idle" /\ ascii_line # 0
  /\ IF registered
     THEN reader' = "test" /\ str' = << >> /\ UNCHANGED <<rx, upset>>
     ELSE rx' = [rx EXCEPT !.head = rx.tail] /\ upset' = TRUE /\ UNCHANGED <<reader, str>>
  /\ UNCHANGED <<ascii_line, registered, count, past, overrun>>

Test ==
  /\ reader = "test"
  /\ reader' = IF rx.head = rx.tail THEN "finish" ELSE "advance"
  /\ UNCHANGED <<ring, registered, str, count, past, havoc>>

Advance ==
  /\ reader = "advance" /\ reader' = "read"
  /\ rx' = [rx EXCEPT !.tail = RxMask(@ + 1)]
  /\ UNCHANGED <<ascii_line, registered, str, count, past, havoc>>

\* A line ends with 13, or what is a negative char.
Read ==
  /\ reader = "read"
  /\ LET m == rx.buf[rx.tail]
     IN /\ taken' = Append(taken, m.nr)
        /\ IF m.char = Letter THEN reader' = "test" /\ str' = Append(str, m.char)
                              ELSE reader' = "finish" /\ str' = str
        /\ upset' = (upset \/ m.char = AboveAscii)
  /\ UNCHANGED <<ring, registered, count, wire, ended, overrun>>

\* ascii_line-- is a load and a store; then the callback is called.
Finish ==
  /\ reader = "finish" /\ reader' = "decrement" /\ count' = ascii_line
  /\ UNCHANGED <<ring, registered, str, past, havoc>>

\* mutant: an empty line is not counted down
DecrementNonEmpty ==
  /\ reader = "decrement" /\ reader' = "idle"
  /\ ascii_line' = IF str = << >> THEN count ELSE (count + CountRange - 1) % CountRange
  /\ ended' = ended \o Append(str, CarriageReturn)
  /\ UNCHANGED <<rx, registered, str, count, wire, taken, havoc>>

Decrement ==
  /\ reader = "decrement" /\ reader' = "idle"
  /\ ascii_line' = (count + CountRange - 1) % CountRange
  /\ ended' = ended \o Append(str, CarriageReturn)
  /\ UNCHANGED <<rx, registered, str, count, wire, taken, havoc>>

UartGetStr == Test \/ Advance \/ Read \/ Finish \/ Decrement

ConsoleNext == Interrupt \/ Event \/ UartGetStr

ConsoleSpec == ConsoleInit /\ [][ConsoleNext]_consolevars

-----------------------------------------------------------------------------
(* Properties *)

ConsoleTypeOK ==
  /\ rx.head \in 0 .. RxSize - 1 /\ rx.tail \in 0 .. RxSize - 1
  /\ \A i \in 0 .. RxSize - 1 : rx.buf[i].char \in Char \cup {NoChar.char}
  /\ ascii_line \in 0 .. CountRange - 1 /\ count \in 0 .. CountRange - 1 /\ str \in Seq({Letter})
  /\ {registered, upset, overrun} \subseteq BOOLEAN
  /\ reader \in {"idle", "test", "advance", "read", "finish", "decrement"}

(***************************************************************************)
(* Until the first overflow, and unless a line ended while the counter was *)
(* being decremented, the strings given to the callback are the lines that *)
(* were received, one for one and complete; empty lines are strings too.   *)
(***************************************************************************)
StringsAreLines ==
  ~upset => Len(ended) <= Len(wire) /\ ended = SubSeq(wire, 1, Len(ended))

(***************************************************************************)
(* uart_getc never returns a character twice or after a later one, unless  *)
(* the interrupt emptied the full ring after getc had found it not empty:  *)
(* the tail then passes the head, and all that is left behind comes again. *)
(***************************************************************************)
NoneTwice == ~overrun => \A i, j \in DOMAIN taken : i < j => taken[i] < taken[j]

(***************************************************************************)
(* The ring and its line counter as the reader sees them, under an         *)
(* interrupt that may come between any two of its accesses.                *)
(***************************************************************************)
ConsoleInv == ConsoleTypeOK /\ StringsAreLines /\ NoneTwice

=============================================================================
