------------------------------ MODULE HttpServer ------------------------------
(***************************************************************************)
(* The web server of net/HTTP2.c.  The main loop runs the stack, in which  *)
(* the sockets change, and then HTTPServer, which visits the connections   *)
(* in turn and lets HTTPProcess take each as far as it goes.  One curHTTP  *)
(* is shared: HTTPLoadConn stores it and loads that of the connection at   *)
(* hand.  What a client sends is a sequence of lines, bytes of a body and  *)
(* pieces of lines; arguments and cookies are left out.                    *)
(***************************************************************************)
EXTENDS Integers, Sequences

CONSTANTS
  Connections,  \* how many have a socket
  File,         \* of the file system; None is a name it does not hold
  Content,      \* of each page: "text" and "var", a dynamic variable
  Protected,    \* pages for which HTTPNeedsAuth asks for a password
  Form,         \* pages whose data the application reads
  Script,       \* of each connection: what a client may send on it
  RxFifo,       \* what a receive FIFO that was given the rest holds
  TxFifo        \* what a transmit FIFO holds

None == "none"
Conn == 1 .. Connections

\* A line, a byte of a body, or a piece of a line
Piece ==
  [kind : {"request"}, method : {"GET", "POST"}, page : File \cup {None},
    overlong : {"nothing", "name", "arguments"}]
    \cup [kind : {"password"}, right : BOOLEAN] \cup [kind : {"length"}, n : Nat]
    \cup [kind : {"overlength", "other", "end", "byte", "part"}]

ASSUME HttpAssumption ==
  /\ Connections \in Nat \ {0} /\ None \notin File
  /\ \A c \in Conn : Script[c] \subseteq Seq(Piece)
  /\ Content \in [File -> Seq({"text", "var"})] /\ {Protected, Form} \subseteq SUBSET File
  /\ {RxFifo, TxFifo} \subseteq Nat \ {0, 1}

VARIABLES
  sm,             \* httpStubs[].sm
  curHTTPID, curHTTP,
  saved,          \* the HTTP_CONNs in the RAM of the Ethernet controller
  visiting,       \* conn, the loop of HTTPServer
  processing,     \* HTTPProcess is running
  handles,        \* MPFS handles in use
  sock,           \* the TCP sockets
  timer,          \* the watchdog: "fresh" was set in the last visit, "running", "over";
                  \* where no request is under way "fresh" stands for any value
  client,         \* at the other end: what is still to send and whether it stays
                  \* within its Content-Length; history: the page it asked for, whether
                  \* it was answered, spoke afterwards, lost part of the answer, and
                  \* whether the stack ended the connection before the server did
  stuck           \* a form is read without end

httpvars == <<sm, curHTTPID, curHTTP, saved, visiting, processing, handles, sock, timer, client, stuck>>
context == <<curHTTPID, curHTTP, saved>>

Closed == [file |-> None, offsets |-> FALSE, status |-> "GET", authorized |-> TRUE,
           byteCount |-> 0, at |-> 1]

Listening(reset) == [state |-> "listen", wasReset |-> reset, rx |-> <<>>, rest |-> "both", tx |-> 0]

Nobody == [script |-> <<>>, polite |-> TRUE, asked |-> None,
           answered |-> FALSE, late |-> FALSE, lost |-> FALSE, hungUp |-> FALSE]

HttpInit ==
  /\ sm = [c \in Conn |-> "IDLE"] /\ curHTTPID = 1 /\ curHTTP = Closed
  /\ saved = [c \in Conn |-> Closed] /\ visiting = 1 /\ processing = FALSE /\ handles = 0
  /\ sock = [c \in Conn |-> Listening(TRUE)] /\ timer = [c \in Conn |-> "fresh"]
  /\ client = [c \in Conn |-> Nobody] /\ stuck = FALSE

-----------------------------------------------------------------------------
(* The clients, the stack and time *)

\* No more than its Content-Length follows a header.
Polite(script) ==
  \A i, j \in DOMAIN script :
    i < j /\ script[i].kind = "length" /\ script[j].kind = "end" => Len(script) - j <= script[i].n

\* With all the rest given to transmission one byte can still be received.
RxRoom(s) == IF s.rest = "tx" THEN 1 ELSE RxFifo

\* Before the first connection is visited the rest of the main loop runs.
Outside == visiting = 1 /\ ~processing /\ ~stuck
server == <<sm, context, visiting, processing, handles, stuck>>

Connect(c) ==
  /\ Outside /\ sock[c].state = "listen"
  /\ sock' = [sock EXCEPT ![c].state = "open"]
  /\ \E s \in Script[c] : client' = [client EXCEPT ![c] = [Nobody EXCEPT !.script = s, !.polite = Polite(s)]]
  /\ UNCHANGED <<server, timer>>

\* Of a line that does not fit the first byte comes alone.
PieceArrives(c) ==
  /\ Outside /\ sock[c].state \in {"open", "closing"} /\ client[c].script # <<>>
  /\ Len(sock[c].rx) < RxRoom(sock[c])
  /\ LET t == Head(client[c].script)
         fits == sock[c].rest # "tx" \/ t.kind \in {"byte", "part"}
     IN /\ sock' = [sock EXCEPT ![c].rx = Append(@, IF fits THEN t ELSE [kind |-> "part"])]
        /\ client' = [client EXCEPT ![c].script = IF fits THEN Tail(@) ELSE @,
                                    ![c].late = @ \/ client[c].answered]
  /\ UNCHANGED <<server, timer>>

Acknowledges(c) ==
  /\ Outside /\ sock[c].tx > 0 /\ sock' = [sock EXCEPT ![c].tx = @ - 1]
  /\ UNCHANGED <<server, timer, client>>

\* The client's FIN; it sends no more.
HalfCloses(c) ==
  /\ Outside /\ sock[c].state = "open"
  /\ sock' = [sock EXCEPT ![c].state = "half"]
  /\ client' = [client EXCEPT ![c].script = <<>>]
  /\ UNCHANGED <<server, timer>>

\* The stack sends its own FIN: TCP_CLOSE_WAIT_TIMEOUT after the client's, or when what
\* it sent was repeated TCP_MAX_RETRIES times.
StackHangsUp(c) ==
  /\ Outside
  /\ sock[c].state = "half" \/ (sock[c].state = "open" /\ sock[c].tx > 0)
  /\ sock' = [sock EXCEPT ![c].state = "closing"]
  /\ client' = [client EXCEPT ![c].hungUp = TRUE]
  /\ UNCHANGED <<server, timer>>

\* A reset, both FINs, or a time-out of the stack: CloseSocket.
SocketCloses(c) ==
  /\ Outside /\ sock[c].state # "listen"
  /\ sock' = [sock EXCEPT ![c] = [Listening(TRUE) EXCEPT !.rest = sock[c].rest]]
  /\ client' = [client EXCEPT ![c] = Nobody]
  /\ UNCHANGED <<server, timer>>

Expires(c) ==
  /\ Outside /\ timer[c] = "running" /\ timer' = [timer EXCEPT ![c] = "over"]
  /\ UNCHANGED <<server, sock, client>>

StackTask(c) ==
  \/ Connect(c) \/ PieceArrives(c) \/ Acknowledges(c) \/ HalfCloses(c) \/ StackHangsUp(c)
  \/ SocketCloses(c)

-----------------------------------------------------------------------------
(* Sockets, files and contexts *)

Used(ctx) == (IF ctx.file = None THEN 0 ELSE 1) + (IF ctx.offsets THEN 1 ELSE 0)

\* mutant: the handle of the index stays open
CloseFileOnly(ctx) ==
  /\ curHTTP' = [Closed EXCEPT !.offsets = ctx.offsets]
  /\ handles' = IF ctx.file = None THEN handles ELSE handles - 1

\* What else an idle connection has in its record is not read before it is set.
CloseFiles(ctx) ==
  /\ curHTTP' = Closed
  /\ handles' = handles - Used(ctx)

Record(c) == IF c = curHTTPID THEN curHTTP ELSE saved[c]

\* The copy of the one that is loaded is not read again.
HTTPLoadConn(c) ==
  /\ curHTTPID' = c
  /\ saved' = IF c = curHTTPID THEN saved ELSE [saved EXCEPT ![curHTTPID] = curHTTP, ![c] = Closed]

\* What is not yet acknowledged is thrown away.
TxEmptied(c) == client' = [client EXCEPT ![c].lost = @ \/ sock[c].tx > 0]

\* A second call, or one after the stack's own FIN, resets the connection.
TCPDisconnect(c) ==
  IF sock[c].state \in {"open", "half"}
  THEN sock' = [sock EXCEPT ![c].state = "closing", ![c].rx = <<>>] /\ UNCHANGED client
  ELSE sock' = [sock EXCEPT ![c] = [Listening(TRUE) EXCEPT !.rest = sock[c].rest]] /\ TxEmptied(c)

-----------------------------------------------------------------------------
(* HTTPServer *)

NextConn(c) == (c % Connections) + 1

Visits(c) == visiting = c /\ ~processing /\ ~stuck
NothingToDo(c) == sm[c] = "IDLE" /\ sock[c].rx = <<>>

\* mutant: a socket is looked at when it has something to say
WasResetAndIdle(c) == sock[c].wasReset /\ sock[c].state = "listen"

TCPWasReset(c) == sock[c].wasReset

Forgets(c) ==
  /\ Visits(c) /\ TCPWasReset(c)
  /\ HTTPLoadConn(c) /\ CloseFiles(Record(c)) /\ sm' = [sm EXCEPT ![c] = "IDLE"]
  /\ sock' = [sock EXCEPT ![c].wasReset = FALSE,
                          ![c].rest = IF @ = "rx" /\ sock[c].rx # <<>> THEN @ ELSE "both",
                          ![c].tx = 0]
  /\ TxEmptied(c) /\ timer' = [timer EXCEPT ![c] = "fresh"]
  /\ processing' = (sock[c].rx # <<>>)
  /\ visiting' = IF processing' THEN c ELSE NextConn(c)
  /\ stuck' = stuck

Skips(c) ==
  /\ Visits(c) /\ ~TCPWasReset(c) /\ NothingToDo(c) /\ visiting' = NextConn(c)
  /\ UNCHANGED <<sm, context, processing, handles, sock, timer, client, stuck>>

TakesUp(c) ==
  /\ Visits(c) /\ ~TCPWasReset(c) /\ ~NothingToDo(c)
  /\ HTTPLoadConn(c) /\ curHTTP' = Record(c) /\ processing' = TRUE
  /\ UNCHANGED <<sm, visiting, handles, sock, timer, client, stuck>>

-----------------------------------------------------------------------------
(* HTTPProcess, one state at a time; only the stack's turn comes between visits *)

c1 == curHTTPID
received == sock[c1].rx

In(state) == processing /\ ~stuck /\ sm[c1] = state

\* smHTTP, and whether HTTPProcess goes on with it
Goes(state) ==
  /\ sm' = [sm EXCEPT ![c1] = state]
  /\ UNCHANGED <<curHTTPID, saved, visiting, processing, stuck>>

Returns(state) ==
  /\ sm' = [sm EXCEPT ![c1] = state] /\ processing' = FALSE /\ visiting' = NextConn(c1)
  /\ UNCHANGED <<curHTTPID, saved, stuck>>

Answer(status) == curHTTP' = [curHTTP EXCEPT !.status = status] /\ Goes("SERVE_HEADERS")

Rearm == timer' = [timer EXCEPT ![c1] = "fresh"]

\* The request is received with all the rest given to reception.
StartsRequest ==
  /\ In("IDLE") /\ Goes("PARSE_REQUEST") /\ Rearm
  /\ curHTTP' = [curHTTP EXCEPT !.authorized = TRUE, !.byteCount = 0]
  /\ sock' = [sock EXCEPT ![c1].rest = "rx", ![c1].tx = 0] /\ TxEmptied(c1)
  /\ UNCHANGED handles

Newlines == {i \in DOMAIN received : received[i].kind \notin {"part", "byte"}}
LineEnd == CHOOSE i \in Newlines : \A j \in Newlines : i <= j
Line == received[LineEnd]
AfterLine == SubSeq(received, LineEnd + 1, Len(received))
TakesLine == sock' = [sock EXCEPT ![c1].rx = AfterLine]

\* mutant: the state stays as it is
TimesOutInPlace ==
  /\ TCPDisconnect(c1) /\ Goes(sm[c1])
  /\ UNCHANGED <<curHTTP, timer, handles>>

TimesOut ==
  /\ TCPDisconnect(c1) /\ Goes("DISCONNECT")
  /\ UNCHANGED <<curHTTP, timer, handles>>

NoLine ==
  \/ timer[c1] = "over" /\ TimesOut
  \/ /\ timer[c1] # "over" /\ Len(received) >= RxRoom(sock[c1]) /\ Answer("overflow")
     /\ UNCHANGED <<timer, sock, client, handles>>
  \/ /\ timer[c1] # "over" /\ Len(received) < RxRoom(sock[c1]) /\ Returns(sm[c1])
     /\ timer' = [timer EXCEPT ![c1] = "running"]
     /\ UNCHANGED <<curHTTP, sock, client, handles>>

WaitsForLine == (In("PARSE_REQUEST") \/ In("PARSE_HEADERS")) /\ Newlines = {} /\ NoLine

IsRequest == Line.kind = "request" /\ \A i \in 1 .. LineEnd : received[i].kind # "byte"

RefusesRequest ==
  /\ In("PARSE_REQUEST") /\ Newlines # {} /\ ~IsRequest /\ Rearm
  /\ Answer("not implemented") /\ UNCHANGED <<sock, client, handles>>

\* No file is opened for a name that is too long.
RefusesName ==
  /\ In("PARSE_REQUEST") /\ Newlines # {} /\ IsRequest /\ Line.overlong = "name" /\ Rearm
  /\ Answer("overflow") /\ UNCHANGED <<sock, client, handles>>

\* The file is opened, and its index if it has one.
OpensFile ==
  /\ In("PARSE_REQUEST") /\ Newlines # {} /\ IsRequest /\ Line.overlong # "name" /\ Rearm
  /\ LET there == Line.page \in File
         index == there /\ \E i \in DOMAIN Content[Line.page] : Content[Line.page][i] = "var"
     IN /\ curHTTP' = [curHTTP EXCEPT !.status = IF Line.overlong = "arguments" THEN "overflow" ELSE Line.method,
                         !.file = IF there THEN Line.page ELSE None,
                         !.offsets = IF index THEN TRUE ELSE @,
                         !.authorized = Line.page \notin Protected]
        /\ handles' = handles + (IF there THEN 1 ELSE 0) + (IF index THEN 1 ELSE 0)
  /\ client' = [client EXCEPT ![c1].asked = Line.page]
  /\ IF Line.overlong = "arguments" THEN Goes("SERVE_HEADERS") /\ UNCHANGED sock
                                    ELSE Goes("PARSE_HEADERS") /\ TakesLine

\* After a length of too many digits the other headers are still read.
ParsesHeader ==
  /\ In("PARSE_HEADERS") /\ Newlines # {} /\ Rearm /\ TakesLine
  /\ curHTTP' = [curHTTP EXCEPT
       !.status = IF Line.kind = "overlength" THEN "bad request" ELSE @,
       !.authorized = @ \/ (Line.kind = "password" /\ Line.right),
       !.byteCount = CASE Line.kind = "length" -> Line.n [] Line.kind = "overlength" -> 0 [] OTHER -> @]
  /\ Goes(IF Line.kind = "end" THEN "AUTHENTICATE" ELSE "PARSE_HEADERS")
  /\ UNCHANGED <<client, handles>>

\* HTTPExecuteGet never waits, and leaves no cookies behind.
Authenticates ==
  /\ In("AUTHENTICATE") /\ UNCHANGED <<timer, sock, client, handles>>
  /\ IF curHTTP.authorized THEN Goes("PROCESS_POST") /\ UNCHANGED curHTTP
                           ELSE Answer("unauthorized")

-----------------------------------------------------------------------------
(* The body of the request *)

TCPIsGetReady == Len(received)
HasForm == curHTTP.status = "POST" /\ curHTTP.file \in Form

NeedsData == HasForm /\ TCPIsGetReady < curHTTP.byteCount /\ curHTTP.byteCount <= RxRoom(sock[c1])

\* HTTP_IO_NEED_DATA; the watchdog starts anew at every visit and never expires.
WaitsForBody ==
  /\ In("PROCESS_POST") /\ NeedsData /\ Returns("PROCESS_POST") /\ Rearm
  /\ UNCHANGED <<curHTTP, sock, client, handles>>

\* A field that is refused ends the reading, and may lie behind the end of the form.
ReadsForm ==
  /\ In("PROCESS_POST") /\ HasForm /\ ~NeedsData /\ curHTTP.byteCount <= RxRoom(sock[c1])
  /\ \E n \in 0 .. TCPIsGetReady :
       /\ (n = 0) = (curHTTP.byteCount = 0)
       /\ sock' = [sock EXCEPT ![c1].rx = SubSeq(received, n + 1, Len(received))]
  /\ Goes("PROCESS_REQUEST")
  /\ UNCHANGED <<curHTTP, timer, client, handles>>

\* The last field is looked for without end when it is not the last in the FIFO.
ReadsFormForEver ==
  /\ In("PROCESS_POST") /\ HasForm /\ ~NeedsData /\ curHTTP.byteCount \in 1 .. RxRoom(sock[c1])
  /\ TCPIsGetReady # curHTTP.byteCount /\ stuck' = TRUE
  /\ UNCHANGED <<sm, context, visiting, processing, handles, sock, timer, client>>

\* A form too large for the FIFO is left unread.
SkipsBody ==
  /\ In("PROCESS_POST") /\ (HasForm => curHTTP.byteCount > RxRoom(sock[c1]))
  /\ Goes("PROCESS_REQUEST") /\ UNCHANGED <<curHTTP, timer, sock, client, handles>>

-----------------------------------------------------------------------------
(* The answer *)

ProcessesRequest ==
  /\ In("PROCESS_REQUEST") /\ UNCHANGED <<timer, sock, client, handles>>
  /\ IF curHTTP.file = None THEN Answer("not found")
     ELSE Goes("SERVE_HEADERS") /\ curHTTP' = [curHTTP EXCEPT !.byteCount = 0, !.at = 1]

\* TCPIsPutReady
PutReady == IF sock[c1].state \in {"open", "half"} THEN TxFifo - sock[c1].tx ELSE 0

\* All the rest of the FIFOs is given to transmission, and what was received is dropped.
ServesHeaders ==
  /\ In("SERVE_HEADERS") /\ UNCHANGED <<curHTTP, timer, handles>>
  /\ sock' = [sock EXCEPT ![c1].rx = <<>>, ![c1].rest = "tx",
                          ![c1].tx = IF sock[c1].state \in {"open", "half"} THEN 1 ELSE 0]
  /\ client' = [client EXCEPT ![c1].answered = TRUE, ![c1].lost = @ \/ sock[c1].tx > 0]
  /\ IF curHTTP.status \in {"GET", "POST"} THEN Goes("SERVE_BODY") ELSE Returns("DISCONNECT")

TextFrom(content, i, n) == i + n - 1 <= Len(content) /\ \A j \in i .. i + n - 1 : content[j] = "text"

\* HTTPSendFile, and what SM_HTTP_SERVE_BODY does with its result
ServesBody ==
  /\ In("SERVE_BODY") /\ UNCHANGED <<timer, client>>
  /\ LET content == Content[curHTTP.file]
         Fits(n) == TextFrom(content, curHTTP.at, n)
         n == CHOOSE n \in 0 .. PutReady : Fits(n) /\ (n = PutReady \/ ~Fits(n + 1))
         at == curHTTP.at + n
         var == at <= Len(content) /\ content[at] = "var"
         last == var /\ \A j \in at + 1 .. Len(content) : content[j] # "var"
         eof == at > Len(content) /\ n < PutReady
         Proceeds(state) == IF eof \/ n = PutReady THEN Returns(state) ELSE Goes(state)
     IN /\ sock' = [sock EXCEPT ![c1].tx = @ + n]
        /\ curHTTP' = [curHTTP EXCEPT !.at = IF var THEN at + 1 ELSE at,
                         !.offsets = @ /\ ~last, !.file = IF eof THEN None ELSE @]
        /\ handles' = IF eof \/ last THEN handles - 1 ELSE handles
        /\ Proceeds(CASE eof -> "DISCONNECT" [] var -> "SEND_FROM_CALLBACK" [] OTHER -> "SERVE_BODY")

\* HTTPPrint; the callbacks finish their output at once.
SendsFromCallback ==
  /\ In("SEND_FROM_CALLBACK") /\ UNCHANGED <<curHTTP, timer, client, handles>>
  /\ IF PutReady = 0 THEN Returns("SEND_FROM_CALLBACK") /\ UNCHANGED sock
     ELSE Goes("SERVE_BODY") /\ sock' = [sock EXCEPT ![c1].tx = @ + 1]

\* mutant: the state is not left
DisconnectsAgain ==
  /\ In("DISCONNECT") /\ CloseFiles(curHTTP) /\ TCPDisconnect(c1) /\ Returns("DISCONNECT") /\ Rearm

Disconnects ==
  /\ In("DISCONNECT") /\ CloseFiles(curHTTP) /\ TCPDisconnect(c1) /\ Returns("IDLE") /\ Rearm

HTTPProcess ==
  \/ StartsRequest \/ WaitsForLine \/ RefusesRequest \/ RefusesName \/ OpensFile
  \/ ParsesHeader \/ Authenticates
  \/ WaitsForBody \/ ReadsForm \/ ReadsFormForEver \/ SkipsBody
  \/ ProcessesRequest \/ ServesHeaders \/ ServesBody \/ SendsFromCallback \/ Disconnects

HTTPServer == (\E c \in Conn : Forgets(c) \/ Skips(c) \/ TakesUp(c)) \/ HTTPProcess

HttpNext == HTTPServer \/ \E c \in Conn : StackTask(c) \/ Expires(c)

HttpSpec == HttpInit /\ [][HttpNext]_httpvars

\* The main loop runs for ever, and time goes on.
HttpFairness == WF_httpvars(HTTPServer) /\ \A c \in Conn : SF_httpvars(Expires(c))

FairHttp == HttpSpec /\ HttpFairness

-----------------------------------------------------------------------------
(* Properties *)

HttpTypeOK ==
  /\ sm \in [Conn -> {"IDLE", "PARSE_REQUEST", "PARSE_HEADERS", "AUTHENTICATE", "PROCESS_POST",
                      "PROCESS_REQUEST", "SERVE_HEADERS", "SERVE_BODY", "SEND_FROM_CALLBACK", "DISCONNECT"}]
  /\ curHTTPID \in Conn /\ visiting \in Conn /\ {processing, stuck} \subseteq BOOLEAN
  /\ \A c \in Conn : /\ Len(sock[c].rx) <= RxFifo /\ sock[c].tx \in 0 .. TxFifo
                     /\ Record(c).file \in File \cup {None} /\ Record(c).byteCount \in Nat

(***************************************************************************)
(* Whatever becomes of a connection in the middle of a request, an idle    *)
(* one has no file open, and every handle of the pool is one that a        *)
(* connection will give back.                                              *)
(***************************************************************************)
HandlesAccountedFor ==
  /\ LET UsedUpTo[c \in 0 .. Connections] == IF c = 0 THEN 0 ELSE Used(Record(c)) + UsedUpTo[c - 1]
     IN handles = UsedUpTo[Connections]
  /\ \A c \in Conn : sm[c] = "IDLE" => Used(Record(c)) = 0

(***************************************************************************)
(* What goes into the body of an answer is the page that the client now at *)
(* the other end has asked for, although one record serves all connections *)
(* and a socket may change hands between two visits.                       *)
(***************************************************************************)
AnswerIsTheirs ==
  [][\A c \in Conn : sm[c] = "SERVE_BODY" /\ sock'[c].tx > sock[c].tx
       => c = curHTTPID /\ curHTTP.file = client[c].asked]_httpvars

(***************************************************************************)
(* No part of an answer is thrown away before the client has it, unless    *)
(* more of what the client sends comes after the answer began, what the    *)
(* server takes for another request, or the stack sent its own FIN before  *)
(* the server did: the server's one TCPDisconnect then is the second.      *)
(***************************************************************************)
AnswerIsWhole == \A c \in Conn : client[c].lost => client[c].late \/ client[c].hungUp

(***************************************************************************)
(* Reading a form comes to an end, in however many pieces it arrives, if   *)
(* nothing follows it.                                                     *)
(***************************************************************************)
FormsEnd == stuck => ~client[curHTTPID].polite

(***************************************************************************)
(* A connection on which nothing more arrives does not stay in the middle  *)
(* of a line.                                                              *)
(***************************************************************************)
WatchdogWorks ==
  \A c \in Conn : (sm[c] \in {"PARSE_REQUEST", "PARSE_HEADERS"})
                    ~> (stuck \/ sm[c] \notin {"PARSE_REQUEST", "PARSE_HEADERS"})

(***************************************************************************)
(* Between any two visits the connections account for the files that are   *)
(* open, and the server is not caught in reading a form.                   *)
(***************************************************************************)
HttpInv == HttpTypeOK /\ HandlesAccountedFor /\ FormsEnd

=============================================================================
