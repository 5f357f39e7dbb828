------------------------------- MODULE MCBoard -------------------------------
(***************************************************************************)
(* Small instances of the modules of the board, and of the web server with *)
(* two clients, for TLC, side by side: a behaviour is one of one of them,  *)
(* which `part' names, while the others rest in an initial state.          *)
(***************************************************************************)
EXTENDS TickTimer, GeigerCounter, ConfigStore, Console, LcdQueue, Keys, Calendar, HttpServer

MCFactory == [w \in 1 .. Words |-> "factory"]

(* What clients may send to the web server *)

Get(page) == [kind |-> "request", method |-> "GET", page |-> page, overlong |-> "nothing"]
Post(page) == [Get(page) EXCEPT !.method = "POST"]
Header(kind) == [kind |-> kind]
Credentials(right) == [kind |-> "password", right |-> right]
ContentLength(n) == [kind |-> "length", n |-> n]
CutLine == Header("part")
DataByte == Header("byte")
EmptyLine == Header("end")

MCScript == [c \in 1 .. 2 |->
  IF c = 2 THEN {<<Get("style"), EmptyLine>>}
  ELSE {<<CutLine, Get("index"), Credentials(TRUE), EmptyLine>>,
        <<Get("index"), EmptyLine>>,
        <<[Get("index") EXCEPT !.overlong = "name"], EmptyLine>>,
        <<[Get("index") EXCEPT !.overlong = "arguments"], EmptyLine>>,
        <<Post("config"), ContentLength(2), EmptyLine, DataByte, DataByte>>,
        <<Post("config"), ContentLength(1), EmptyLine, DataByte, DataByte>>,
        <<Post("config"), ContentLength(4), EmptyLine>>,
        <<Post("style"), Header("overlength"), EmptyLine>>,
        <<Post("none"), EmptyLine, DataByte>>}]

MCContent == [p \in {"index", "config", "style"} |->
  CASE p = "index" -> <<"text", "var", "text">> [] p = "config" -> <<"text", "text">>
    [] p = "style" -> <<"text">>]

VARIABLE part

Of(name, A) ==
  /\ part = name /\ A /\ part' = part
  /\ part # "tick" => UNCHANGED tickvars
  /\ part # "geiger" => UNCHANGED geigervars
  /\ part # "config" => UNCHANGED storevars
  /\ part # "console" => UNCHANGED consolevars
  /\ part # "lcd" => UNCHANGED lcdvars
  /\ part # "keys" => UNCHANGED keyvars
  /\ part # "calendar" => UNCHANGED calendarvars
  /\ part # "web" => UNCHANGED httpvars

boardvars == <<part, tickvars, geigervars, storevars, consolevars, lcdvars, keyvars, calendarvars,
  httpvars>>

BoardInit ==
  /\ part \in {"tick", "geiger", "config", "console", "lcd", "keys", "calendar", "web"}
  /\ TickInit /\ GeigerInit /\ StoreInit /\ ConsoleInit /\ LcdInit /\ KeysInit /\ CalendarInit
  /\ HttpInit
  /\ part # "console" => registered
  /\ part # "keys" => millis = 0
  /\ part # "calendar" => today.year = FirstYear

\* Only the characters of Console come to an end.
WireIsSilent ==
  /\ part = "console" /\ Len(wire) = MaxReceived /\ reader = "idle" /\ ascii_line = 0
  /\ UNCHANGED boardvars

\* The watchdog is the matter of MCStack.
WebNext == HTTPServer \/ \E c \in Conn : StackTask(c)

\* Nothing runs any more when a form is read without end.
WebIsStuck == part = "web" /\ stuck /\ UNCHANGED boardvars

BoardNext ==
  \/ Of("tick", TickNext) \/ Of("geiger", GeigerNext) \/ Of("config", StoreNext)
  \/ Of("console", ConsoleNext) \/ Of("lcd", LcdNext) \/ Of("keys", KeysNext)
  \/ Of("calendar", CalendarNext) \/ Of("web", WebNext)
  \/ WireIsSilent \/ WebIsStuck

\* That of FairKeys.
BoardFairness ==
  /\ WF_boardvars(Of("keys", Millisecond)) /\ WF_boardvars(Of("keys", idle = MaxGap /\ HandleUi))

BoardSpec == BoardInit /\ [][BoardNext]_boardvars /\ BoardFairness

=============================================================================
