CONSTANTS
  Low = 4
  High = 3
  Slots = 3
  Timer2Range = 4
  CpmRange = 4
  UptimeRange = 5
  MaxPulses = 2
  BootTicks = 1
  Words = 4
  Password = 1
  Address = 3
  Fallback = 4
  Value = {"factory", "other"}
  Factory <- MCFactory
  NoAddress = "other"
  Erased = Erased
  Mixed = Mixed
  Page = {p1}
  Token = {"t1"}
  RxSize = 4
  CountRange = 4
  Callback = {TRUE, FALSE}
  MaxReceived = 6
  LcdBufSize = 20
  ByteRange = 10
  RowLength = 1
  Text = {a}
  ClockRange = 12
  Debounce = 1
  LongPress = 3
  Lasts = 4
  MaxGap = 2
  FirstYear = 124
  LastYear = 129
  MaxStale = 30
  Connections = 2
  File = {"index", "config", "style"}
  Content <- MCContent
  Protected = {"index"}
  Form = {"config"}
  Script <- MCScript
  RxFifo = 3
  TxFifo = 2
SPECIFICATION BoardSpec
INVARIANTS
  GeigerInv
  LoggedWindowIsMeasured
  FlashIsAccepted
  SettingsAreWhole
  ConsoleInv
  LcdInv
  CalendarInv
  HttpInv
  AnswerIsWhole
PROPERTIES
  AnswerIsTheirs
  CopyIsSynchronized
  CpmIsTheWindow
  LongPressIsHeld
  BacklightTimed
