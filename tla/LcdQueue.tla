------------------------------ MODULE LcdQueue ------------------------------
(***************************************************************************)
(* The display of lcd/hd44780.c: lcd/display.c writes a whole picture into *)
(* the queue of commands and characters, lcd_handle takes one of them per  *)
(* pass of the main loop.  The cursors of the queue are bytes, its mask is *)
(* that of twice as many slots, and a queue that is full is emptied.       *)
(***************************************************************************)
EXTENDS Integers, Sequences

CONSTANTS LcdBufSize,     \* LCD_BUF_SIZE: 512
          ByteRange,      \* values of LCD_Head and LCD_Tail: 256
          RowLength,      \* of the controller's memory: 40
          Text            \* what a picture may say; one letter stands for a text

ASSUME LcdAssumption ==
  /\ ByteRange \in Nat \ {0, 1} /\ RowLength \in Nat \ {0}
  /\ LcdBufSize \in Nat \ {0} /\ LcdBufSize % ByteRange = 0

VARIABLES
  lcd,                    \* LCD_Buf, LCD_Head, LCD_Tail
  screen, address,        \* the controller: its memory, its address counter
  picture,                \* history: the two rows last written
  fits                    \* history: no byte of it was thrown away

lcdvars == <<lcd, screen, address, picture, fits>>

Place == 0 .. 2 * RowLength - 1
BlankScreen == [p \in Place |-> "blank"]
Byte == {[kind |-> "cls"]} \cup {[kind |-> "locate", row |-> r] : r \in {0, 1}}
        \cup {[kind |-> "column"]} \cup {[kind |-> "char", letter |-> t] : t \in Text}
Zero0 == [kind |-> "column"]    \* the byte 0: every lcd_locate names column 0

LcdInit ==
  /\ lcd = [buf |-> [i \in 0 .. ByteRange - 1 |-> Zero0], head |-> 0, tail |-> 0]
  /\ screen = BlankScreen /\ address = 0
  /\ picture = << <<>>, <<>> >> /\ fits = TRUE

\* (i + 1) & LCD_BUF_MASK, in a uint8_t
LcdNextIndex(i) == ((i + 1) % LcdBufSize) % ByteRange

LcdStored(q, byte) ==
  [buf |-> [q.buf EXCEPT ![LcdNextIndex(q.head)] = byte], head |-> LcdNextIndex(q.head), tail |-> q.tail]

\* mutant: only the byte that finds no room is lost
LcdBufPutOrDrop(q, byte) ==
  IF LcdNextIndex(q.head) = q.tail THEN q
  ELSE LcdStored(q, byte)

LcdBufPut(q, byte) ==
  IF LcdNextIndex(q.head) = q.tail THEN [q EXCEPT !.head = q.tail]
  ELSE LcdStored(q, byte)

\* lcd_buf_put for one byte after the other
LcdPutAll(q, bytes) ==
  LET after[n \in 0 .. Len(bytes)] == IF n = 0 THEN q ELSE LcdBufPut(after[n - 1], bytes[n])
  IN after[Len(bytes)]

LcdIsEmpty(q) == q.head = q.tail
LcdBufGet(q) == IF LcdIsEmpty(q) THEN Zero0 ELSE q.buf[LcdNextIndex(q.tail)]
LcdTaken(q) == IF LcdIsEmpty(q) THEN q ELSE [q EXCEPT !.tail = LcdNextIndex(@)]

-----------------------------------------------------------------------------
(* The display's pages: the timer of a page, or a key *)

Locate(row) == << [kind |-> "locate", row |-> row], Zero0 >>
Letters(row) == [i \in DOMAIN row |-> [kind |-> "char", letter |-> row[i]]]

Picture(rows) ==
  << [kind |-> "cls"] >> \o Locate(0) \o Letters(rows[1]) \o Locate(1) \o Letters(rows[2])

Room == LET used == (lcd.head + ByteRange - lcd.tail) % ByteRange IN ByteRange - 1 - used

Rows == {[i \in 1 .. l |-> t] : l \in 0 .. RowLength, t \in Text}

Display ==
  /\ \E first, second \in Rows :
       /\ picture' = <<first, second>>
       /\ fits' = (Len(Picture(<<first, second>>)) <= Room)
       /\ lcd' = LcdPutAll(lcd, Picture(<<first, second>>))
  /\ UNCHANGED <<screen, address>>

-----------------------------------------------------------------------------
(* lcd_handle and the controller *)

Handle ==
  /\ ~LcdIsEmpty(lcd)
  /\ LET b == LcdBufGet(lcd) q == LcdTaken(lcd)
     IN \/ b.kind = "cls" /\ lcd' = q /\ screen' = BlankScreen /\ address' = 0
        \/ /\ b.kind = "locate"
           /\ lcd' = LcdTaken(q) /\ UNCHANGED screen
           /\ address' = (b.row * RowLength + (IF LcdBufGet(q).kind = "column" THEN 0 ELSE 1)) % (2 * RowLength)
        \/ b.kind = "column" /\ lcd' = q /\ UNCHANGED <<screen, address>>
        \/ /\ b.kind = "char"
           /\ lcd' = q /\ screen' = [screen EXCEPT ![address] = b.letter]
           /\ address' = (address + 1) % (2 * RowLength)
  /\ UNCHANGED <<picture, fits>>

LcdNext == Display \/ Handle

LcdSpec == LcdInit /\ [][LcdNext]_lcdvars

\* The main loop calls lcd_handle for ever.
FairLcd == LcdSpec /\ WF_lcdvars(Handle)

-----------------------------------------------------------------------------
(* Properties *)

LcdTypeOK ==
  /\ lcd \in [buf : [0 .. ByteRange - 1 -> Byte], head : 0 .. ByteRange - 1, tail : 0 .. ByteRange - 1]
  /\ screen \in [Place -> Text \cup {"blank"}] /\ address \in Place /\ fits \in BOOLEAN

(***************************************************************************)
(* When the queue has been worked off the screen shows the picture written *)
(* last, if that found room: whatever was thrown away before, even between *)
(* the two bytes of a command, leaves nothing behind.                      *)
(***************************************************************************)
ShownAsWritten ==
  LcdIsEmpty(lcd) /\ fits =>
    \A row \in {0, 1} :
      \A i \in 0 .. RowLength - 1 :
        screen[row * RowLength + i] =
          IF i < Len(picture[row + 1]) THEN picture[row + 1][i + 1] ELSE "blank"

(***************************************************************************)
(* lcd_locate's command is never parted from its column byte.              *)
(***************************************************************************)
CommandsAreWhole ==
  LcdBufGet(lcd).kind = "locate" => LcdBufGet(LcdTaken(lcd)).kind = "column"

(***************************************************************************)
(* The queue and the screen behind it, whatever an overflow threw away.    *)
(***************************************************************************)
LcdInv == LcdTypeOK /\ ShownAsWritten /\ CommandsAreWhole

=============================================================================
