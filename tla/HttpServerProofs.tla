-------------------------- MODULE HttpServerProofs --------------------------
(***************************************************************************)
(* The HTTP server.  WebInv relates, for every connection, the state       *)
(* machine, the socket, the client and the record, loaded or saved;        *)
(* FilesInv and SumInv count the MPFS handles; FormInv bounds what a       *)
(* client that sends no more than its Content-Length can still send.       *)
(***************************************************************************)
EXTENDS HttpServer, Recursion, TLAPS

-----------------------------------------------------------------------------
\* The states of a connection: between requests, reading one, sending its answer, hanging up.
Places == {"IDLE", "PARSE_REQUEST", "PARSE_HEADERS", "AUTHENTICATE", "PROCESS_POST",
           "PROCESS_REQUEST", "SERVE_HEADERS", "SERVE_BODY", "SEND_FROM_CALLBACK", "DISCONNECT"}
\* The states that send the body of an answer.
Serving == {"SERVE_BODY", "SEND_FROM_CALLBACK"}
\* The states between the start of a request and its answer.
Asking == Places \ (Serving \cup {"IDLE", "DISCONNECT"})
\* What curHTTP.httpStatus is set to.
Statuses == {"GET", "POST", "overflow", "not implemented", "bad request",
             "unauthorized", "not found"}

\* What HTTPServer keeps of a connection.
HttpConn ==
  [file : File \cup {None}, offsets : BOOLEAN, status : Statuses, authorized : BOOLEAN,
   byteCount : Nat, at : Nat]
\* A socket as the stack keeps it.
Socket ==
  [state : {"listen", "open", "half", "closing"}, wasReset : BOOLEAN, rx : Seq(Piece),
   rest : {"both", "rx", "tx"}, tx : 0 .. TxFifo]
\* The browser at the other end.
Client ==
  [script : Seq(Piece), polite : BOOLEAN, asked : File \cup {None}, answered : BOOLEAN,
   late : BOOLEAN, lost : BOOLEAN, hungUp : BOOLEAN]

\* The socket k of a connection in state s.
SocketOK(s, k) ==
  /\ Len(k.rx) <= RxFifo
  /\ k.state = "listen" => k.rx = << >> /\ k.tx = 0
  /\ k.state = "listen" /\ ~k.wasReset => s = "IDLE"
  /\ k.wasReset \/ s \in Asking => k.tx = 0
\* What its client l has seen: an answer before bytes of it wait; bytes that wait in a
\* connection that ends before the server is done; and loss only after it spoke again or
\* the stack hung up.
ClientOK(s, k, l) ==
  /\ k.tx > 0 => l.answered
  /\ l.answered /\ k.rx # << >> => l.late
  /\ k.tx > 0 /\ s # "IDLE" => k.state \in {"open", "half"} \/ l.hungUp
  /\ l.lost => l.late \/ l.hungUp
\* Its record r: the file is the one that was asked for, and is open while it is sent.
RecordOK(s, k, l, r) ==
  /\ s = "IDLE" => r.file = None /\ ~r.offsets
  /\ r.file # None /\ ~k.wasReset => r.file = l.asked
  /\ s \in Serving \/ (s = "SERVE_HEADERS" /\ r.status \in {"GET", "POST"}) =>
       r.file # None /\ r.at \in 1 .. Len(Content[r.file]) + 1
  /\ s \in Serving /\ ~k.wasReset => l.answered
\* A connection as a whole.
ConnOK(s, k, l, r) ==
  /\ s \in Places /\ k \in Socket /\ l \in Client /\ r \in HttpConn
  /\ SocketOK(s, k) /\ ClientOK(s, k, l) /\ RecordOK(s, k, l, r)

\* While HTTPProcess runs, its connection's socket has something to say.
Running ==
  processing =>
    /\ sm[curHTTPID] = "IDLE" => sock[curHTTPID].rx # << >>
    /\ sock[curHTTPID].wasReset => sm[curHTTPID] = "DISCONNECT"

\* The server: its connections one by one, and HTTPProcess.
WebInv ==
  /\ sm \in [Conn -> Places] /\ sock \in [Conn -> Socket] /\ client \in [Conn -> Client]
  /\ saved \in [Conn -> HttpConn] /\ curHTTP \in HttpConn
  /\ curHTTPID \in Conn /\ visiting \in Conn /\ processing \in BOOLEAN /\ stuck \in BOOLEAN
  /\ \A c \in Conn : ConnOK(sm[c], sock[c], client[c], Record(c))
  /\ Running

\* The sizes, and the connection after another.
LEMMA HttpSizes ==
  /\ TxFifo \in Nat /\ TxFifo > 1 /\ RxFifo \in Nat /\ RxFifo > 1
  /\ Connections \in Nat /\ Connections > 0 /\ 1 \in Conn
  /\ \A c \in Conn : NextConn(c) \in Conn
BY HttpAssumption DEF Conn, NextConn

\* A step that changes one connection.
LEMMA OneConn ==
  ASSUME WebInv, NEW c \in Conn,
         sm' \in [Conn -> Places], sock' \in [Conn -> Socket], client' \in [Conn -> Client],
         saved' \in [Conn -> HttpConn], curHTTP' \in HttpConn, curHTTPID' \in Conn,
         visiting' \in Conn, processing' \in BOOLEAN, stuck' \in BOOLEAN,
         \A d \in Conn : d # c => /\ sm'[d] = sm[d] /\ sock'[d] = sock[d]
                                  /\ client'[d] = client[d] /\ Record(d)' = Record(d),
         ConnOK(sm'[c], sock'[c], client'[c], Record(c)'),
         Running'
  PROVE  WebInv'
<1>1. ASSUME NEW d \in Conn PROVE ConnOK(sm'[d], sock'[d], client'[d], Record(d)')
  <2>1. CASE d = c
    BY <2>1
  <2>2. CASE d # c
    <3>1. ConnOK(sm[d], sock[d], client[d], Record(d))
      BY DEF WebInv
    <3>2. /\ sm'[d] = sm[d] /\ sock'[d] = sock[d]
          /\ client'[d] = client[d] /\ Record(d)' = Record(d)
      BY <2>2
    <3> QED
      BY <3>1, <3>2
  <2> QED
    BY <2>1, <2>2
<1> QED
  BY <1>1 DEF WebInv

\* Replacing one value of a function.
LEMMA OneValue ==
  ASSUME NEW D, NEW R, NEW f \in [D -> R], NEW c \in D, NEW v \in R,
         NEW g, g = [f EXCEPT ![c] = v]
  PROVE  g \in [D -> R] /\ g[c] = v /\ \A d \in D : d # c => g[d] = f[d]
OBVIOUS

\* A step of HTTPProcess, by what it makes of its connection.
LEMMA ProcessConn ==
  ASSUME WebInv, NEW s, NEW k, NEW l, NEW r, ConnOK(s, k, l, r),
         sm' = [sm EXCEPT ![curHTTPID] = s], sock' = [sock EXCEPT ![curHTTPID] = k],
         client' = [client EXCEPT ![curHTTPID] = l], curHTTP' = r,
         curHTTPID' = curHTTPID, saved' = saved,
         visiting' \in Conn, processing' \in BOOLEAN, stuck' \in BOOLEAN,
         processing' => (s = "IDLE" => k.rx # << >>) /\ (k.wasReset => s = "DISCONNECT")
  PROVE  WebInv'
<1> SUFFICES ASSUME NEW c \in Conn, c = curHTTPID PROVE WebInv'
  BY DEF WebInv
<1>1. /\ sm \in [Conn -> Places] /\ sock \in [Conn -> Socket]
      /\ client \in [Conn -> Client] /\ saved \in [Conn -> HttpConn]
  BY DEF WebInv
<1>2. s \in Places /\ k \in Socket /\ l \in Client /\ r \in HttpConn
  BY DEF ConnOK
<1>3. sm' \in [Conn -> Places] /\ sm'[c] = s /\ \A d \in Conn : d # c => sm'[d] = sm[d]
  BY <1>1, <1>2
<1>4. sock' \in [Conn -> Socket] /\ sock'[c] = k /\ \A d \in Conn : d # c => sock'[d] = sock[d]
  BY <1>1, <1>2
<1>5. client' \in [Conn -> Client] /\ client'[c] = l
      /\ \A d \in Conn : d # c => client'[d] = client[d]
  BY <1>1, <1>2
<1>6. Record(c)' = r /\ (\A d \in Conn : d # c => Record(d)' = Record(d))
  BY DEF Record
<1>7. Running'
  BY <1>3, <1>4 DEF Running
<1>8. ConnOK(sm'[c], sock'[c], client'[c], Record(c)')
  BY <1>3, <1>4, <1>5, <1>6
<1> QED
  BY <1>1, <1>2, <1>3, <1>4, <1>5, <1>6, <1>7, <1>8, OneConn

\* A step of the rest of the main loop.
LEMMA StackConn ==
  ASSUME WebInv, NEW c \in Conn, Outside, UNCHANGED server,
         NEW k, NEW l, ConnOK(sm[c], k, l, Record(c)),
         sock' = [sock EXCEPT ![c] = k], client' = [client EXCEPT ![c] = l]
  PROVE  WebInv'
<1>1. /\ sm \in [Conn -> Places] /\ sock \in [Conn -> Socket]
      /\ client \in [Conn -> Client] /\ saved \in [Conn -> HttpConn]
  BY DEF WebInv
<1>2. k \in Socket /\ l \in Client
  BY DEF ConnOK
<1>3. UNCHANGED <<sm, curHTTPID, curHTTP, saved, visiting, processing, stuck>>
  BY DEF server, context
<1>4. sock' \in [Conn -> Socket] /\ sock'[c] = k /\ \A d \in Conn : d # c => sock'[d] = sock[d]
  BY <1>1, <1>2
<1>5. client' \in [Conn -> Client] /\ client'[c] = l
      /\ \A d \in Conn : d # c => client'[d] = client[d]
  BY <1>1, <1>2
<1>6. \A d \in Conn : Record(d)' = Record(d)
  BY <1>3 DEF Record
<1>7. Running'
  BY <1>3 DEF Running, Outside
<1>8. ConnOK(sm'[c], sock'[c], client'[c], Record(c)')
  BY <1>3, <1>4, <1>5, <1>6
<1>9. /\ sm' \in [Conn -> Places] /\ saved' \in [Conn -> HttpConn] /\ curHTTP' \in HttpConn
      /\ curHTTPID' \in Conn /\ visiting' \in Conn /\ processing' \in BOOLEAN /\ stuck' \in BOOLEAN
  BY <1>3 DEF WebInv
<1>10. \A d \in Conn : d # c => /\ sm'[d] = sm[d] /\ sock'[d] = sock[d]
                                /\ client'[d] = client[d] /\ Record(d)' = Record(d)
  BY <1>3, <1>4, <1>5, <1>6
<1> QED
  BY <1>4, <1>5, <1>7, <1>8, <1>9, <1>10, OneConn

\* A socket that nobody is connected to.
LEMMA ListeningOK ==
  ASSUME NEW rest \in {"both", "rx", "tx"}, NEW reset \in BOOLEAN
  PROVE  /\ [Listening(reset) EXCEPT !.rest = rest] \in Socket
         /\ [Listening(reset) EXCEPT !.rest = rest].wasReset = reset
         /\ [Listening(reset) EXCEPT !.rest = rest].state = "listen"
         /\ [Listening(reset) EXCEPT !.rest = rest].rx = << >>
         /\ [Listening(reset) EXCEPT !.rest = rest].tx = 0
<1>1. << >> \in Seq(Piece) /\ 0 \in 0 .. TxFifo
  BY HttpSizes
<1> QED
  BY <1>1 DEF Listening, Socket

\* Nobody at the other end.
LEMMA NobodyOK == Nobody \in Client /\ ~Nobody.answered /\ ~Nobody.late /\ ~Nobody.lost
                 /\ ~Nobody.hungUp
BY DEF Nobody, Client

\* A piece that is received, whole or the first byte of it.
LEMMA PieceKept ==
  ASSUME NEW script \in Seq(Piece), script # << >>
  PROVE  Head(script) \in Piece /\ Tail(script) \in Seq(Piece) /\ [kind |-> "part"] \in Piece
BY DEF Piece

\* The clients and the stack.
LEMMA StackKeeps == ASSUME WebInv, NEW c \in Conn, StackTask(c) PROVE WebInv'
<1> DEFINE k == sock[c]
           l == client[c]
<1>1. ConnOK(sm[c], k, l, Record(c)) /\ k \in Socket /\ l \in Client
      /\ sock \in [Conn -> Socket] /\ client \in [Conn -> Client]
  BY DEF WebInv
<1>2. k.rx \in Seq(Piece) /\ k.tx \in 0 .. TxFifo /\ k.rest \in {"both", "rx", "tx"}
      /\ l.script \in Seq(Piece) /\ l.answered \in BOOLEAN
  BY <1>1 DEF Socket, Client
<1>3. CASE Connect(c)
  <2>1. PICK s \in Script[c] : client' = [client EXCEPT ![c] = [Nobody EXCEPT !.script = s, !.polite = Polite(s)]]
    BY <1>3 DEF Connect
  <2> DEFINE k2 == [k EXCEPT !.state = "open"]
             p == Polite(s)
             l2 == [Nobody EXCEPT !.script = s, !.polite = p]
  <2>2. s \in Seq(Piece)
    BY HttpAssumption
  <2>3. p \in BOOLEAN
    BY DEF Polite
  <2> HIDE DEF p
  <2>4. l2 \in Client /\ ~l2.answered /\ ~l2.late /\ ~l2.lost
    BY <2>2, <2>3 DEF Nobody, Client
  <2>5. /\ k2 \in Socket /\ k2.state = "open" /\ k2.wasReset = k.wasReset
        /\ k2.rx = k.rx /\ k2.tx = k.tx
    BY <1>1 DEF Socket
  <2>6. k.state = "listen" /\ Outside /\ UNCHANGED server /\ sock' = [sock EXCEPT ![c] = k2]
    BY <1>3 DEF Connect
  <2>7. client' = [client EXCEPT ![c] = l2]
    BY <2>1 DEF p
  <2> HIDE DEF k, k2, l, l2
  <2>8. SocketOK(sm[c], k2)
    BY <1>1, <2>5, <2>6 DEF ConnOK, SocketOK
  <2>9. ClientOK(sm[c], k2, l2)
    BY <1>1, <2>4, <2>5, <2>6 DEF ConnOK, SocketOK, ClientOK
  <2>10. RecordOK(sm[c], k2, l2, Record(c))
    BY <1>1, <2>5, <2>6 DEF ConnOK, SocketOK, RecordOK
  <2>11. ConnOK(sm[c], k2, l2, Record(c))
    BY <1>1, <2>4, <2>5, <2>8, <2>9, <2>10 DEF ConnOK
  <2> QED
    BY <2>6, <2>7, <2>11, StackConn
<1>4. CASE PieceArrives(c)
  <2> DEFINE t == Head(l.script)
             unsplit == k.rest # "tx" \/ t.kind \in {"byte", "part"}
             piece == IF unsplit THEN t ELSE [kind |-> "part"]
             rest == IF unsplit THEN Tail(l.script) ELSE l.script
             k2 == [k EXCEPT !.rx = Append(k.rx, piece)]
             l2 == [[l EXCEPT !.script = rest] EXCEPT !.late = l.late \/ l.answered]
  <2>1. /\ Outside /\ UNCHANGED server /\ k.state \in {"open", "closing"} /\ l.script # << >>
        /\ Len(k.rx) < RxRoom(k) /\ sock' = [sock EXCEPT ![c] = k2]
        /\ client' = [client EXCEPT ![c] = l2]
    BY <1>1, <1>4 DEF PieceArrives
  <2>2. piece \in Piece /\ rest \in Seq(Piece)
    BY <1>2, <2>1, PieceKept
  <2> HIDE DEF t, unsplit, piece, rest
  <2>3. RxRoom(k) <= RxFifo /\ RxRoom(k) \in Nat
    BY HttpSizes DEF RxRoom
  <2>4. Append(k.rx, piece) \in Seq(Piece) /\ Len(Append(k.rx, piece)) <= RxFifo
    BY <1>2, <2>1, <2>2, <2>3, HttpSizes
  <2>5. /\ k2 \in Socket /\ k2.state = k.state /\ k2.wasReset = k.wasReset
        /\ Len(k2.rx) <= RxFifo /\ k2.tx = k.tx
    BY <1>1, <2>4 DEF Socket
  <2>6. /\ l2 \in Client /\ l2.answered = l.answered /\ l2.late = (l.late \/ l.answered)
        /\ l2.lost = l.lost /\ l2.asked = l.asked /\ l2.hungUp = l.hungUp
    BY <1>1, <2>2 DEF Client
  <2> HIDE DEF k, k2, l, l2
  <2>7. SocketOK(sm[c], k2)
    BY <1>1, <2>1, <2>5 DEF ConnOK, SocketOK
  <2>8. ClientOK(sm[c], k2, l2)
    BY <1>1, <2>5, <2>6 DEF ConnOK, ClientOK
  <2>9. RecordOK(sm[c], k2, l2, Record(c))
    BY <1>1, <2>5, <2>6 DEF ConnOK, RecordOK
  <2>10. ConnOK(sm[c], k2, l2, Record(c))
    BY <1>1, <2>5, <2>6, <2>7, <2>8, <2>9 DEF ConnOK
  <2> QED
    BY <2>1, <2>10, StackConn
<1>5. CASE Acknowledges(c)
  <2> DEFINE k2 == [k EXCEPT !.tx = k.tx - 1]
  <2>1. /\ Outside /\ UNCHANGED server /\ k.tx > 0 /\ sock' = [sock EXCEPT ![c] = k2]
        /\ client' = [client EXCEPT ![c] = l]
    BY <1>1, <1>5 DEF Acknowledges
  <2>2. k.tx - 1 \in 0 .. TxFifo /\ k.tx - 1 < k.tx
    BY <1>2, <2>1, HttpSizes
  <2>3. /\ k2 \in Socket /\ k2.state = k.state /\ k2.wasReset = k.wasReset
        /\ k2.rx = k.rx /\ k2.tx = k.tx - 1
    BY <1>1, <2>2 DEF Socket
  <2> HIDE DEF k, k2, l
  <2>4. SocketOK(sm[c], k2)
    BY <1>1, <1>2, <2>1, <2>2, <2>3 DEF ConnOK, SocketOK
  <2>5. ClientOK(sm[c], k2, l)
    BY <1>1, <2>1, <2>2, <2>3 DEF ConnOK, ClientOK
  <2>6. ConnOK(sm[c], k2, l, Record(c))
    BY <1>1, <2>3, <2>4, <2>5 DEF ConnOK, RecordOK
  <2> QED
    BY <2>1, <2>6, StackConn
<1>6. CASE HalfCloses(c)
  <2> DEFINE k2 == [k EXCEPT !.state = "half"]
             l2 == [l EXCEPT !.script = << >>]
  <2>1. /\ Outside /\ UNCHANGED server /\ k.state = "open" /\ sock' = [sock EXCEPT ![c] = k2]
        /\ client' = [client EXCEPT ![c] = l2]
    BY <1>1, <1>6 DEF HalfCloses
  <2>2. << >> \in Seq(Piece)
    OBVIOUS
  <2>3. /\ k2 \in Socket /\ k2.state = "half" /\ k2.wasReset = k.wasReset
        /\ k2.rx = k.rx /\ k2.tx = k.tx
    BY <1>1 DEF Socket
  <2>4. /\ l2 \in Client /\ l2.answered = l.answered /\ l2.late = l.late
        /\ l2.lost = l.lost /\ l2.asked = l.asked /\ l2.hungUp = l.hungUp
    BY <1>1, <2>2 DEF Client
  <2> HIDE DEF k, k2, l, l2
  <2>5. ConnOK(sm[c], k2, l2, Record(c))
    BY <1>1, <2>1, <2>3, <2>4 DEF ConnOK, SocketOK, ClientOK, RecordOK
  <2> QED
    BY <2>1, <2>5, StackConn
<1>8. CASE StackHangsUp(c)
  <2> DEFINE k2 == [k EXCEPT !.state = "closing"]
             l2 == [l EXCEPT !.hungUp = TRUE]
  <2>1. /\ Outside /\ UNCHANGED server /\ k.state \in {"open", "half"}
        /\ sock' = [sock EXCEPT ![c] = k2] /\ client' = [client EXCEPT ![c] = l2]
    BY <1>1, <1>8 DEF StackHangsUp
  <2>2. /\ k2 \in Socket /\ k2.state = "closing" /\ k2.wasReset = k.wasReset
        /\ k2.rx = k.rx /\ k2.tx = k.tx
    BY <1>1 DEF Socket
  <2>3. /\ l2 \in Client /\ l2.answered = l.answered /\ l2.late = l.late
        /\ l2.lost = l.lost /\ l2.asked = l.asked /\ l2.hungUp
    BY <1>1 DEF Client
  <2> HIDE DEF k, k2, l, l2
  <2>4. ConnOK(sm[c], k2, l2, Record(c))
    BY <1>1, <2>1, <2>2, <2>3 DEF ConnOK, SocketOK, ClientOK, RecordOK
  <2> QED
    BY <2>1, <2>4, StackConn
<1>7. CASE SocketCloses(c)
  <2> DEFINE k2 == [Listening(TRUE) EXCEPT !.rest = k.rest]
  <2>1. /\ Outside /\ UNCHANGED server /\ sock' = [sock EXCEPT ![c] = k2]
        /\ client' = [client EXCEPT ![c] = Nobody]
    BY <1>7 DEF SocketCloses
  <2>2. /\ k2 \in Socket /\ k2.wasReset /\ k2.state = "listen" /\ k2.rx = << >> /\ k2.tx = 0
    BY <1>2, ListeningOK
  <2>3. Len(<< >>) <= RxFifo /\ ~(0 > 0)
    BY HttpSizes
  <2> HIDE DEF k, k2, l
  <2>4. ConnOK(sm[c], k2, Nobody, Record(c))
    BY <1>1, <2>2, <2>3, NobodyOK DEF ConnOK, SocketOK, ClientOK, RecordOK
  <2> QED
    BY <2>1, <2>4, StackConn
<1> QED
  BY <1>3, <1>4, <1>5, <1>6, <1>7, <1>8 DEF StackTask

-----------------------------------------------------------------------------
\* What HTTPProcess finds of its connection.
LEMMA Before ==
  ASSUME WebInv, NEW p, In(p)
  PROVE  /\ curHTTPID \in Conn /\ sm[curHTTPID] = p /\ processing /\ stuck = FALSE
         /\ ConnOK(p, sock[curHTTPID], client[curHTTPID], curHTTP)
         /\ sock \in [Conn -> Socket] /\ client \in [Conn -> Client]
         /\ p # "DISCONNECT" => ~sock[curHTTPID].wasReset
         /\ p = "IDLE" => received # << >>
         /\ p \notin {"IDLE", "DISCONNECT"} => sock[curHTTPID].state # "listen"
<1>1. curHTTPID \in Conn /\ sm[curHTTPID] = p /\ processing /\ stuck = FALSE
  BY DEF In, c1, WebInv
<1>2. ConnOK(p, sock[curHTTPID], client[curHTTPID], curHTTP)
  BY <1>1 DEF WebInv, Record
<1>3. sock[curHTTPID].wasReset \in BOOLEAN
  BY <1>2 DEF ConnOK, Socket
<1> QED
  BY <1>1, <1>2, <1>3 DEF WebInv, Running, c1, received, ConnOK, SocketOK

\* How HTTPProcess goes on.
LEMMA GoesOn ==
  ASSUME WebInv, NEW s, Goes(s) \/ Returns(s)
  PROVE  /\ sm' = [sm EXCEPT ![curHTTPID] = s] /\ curHTTPID' = curHTTPID /\ saved' = saved
         /\ visiting' \in Conn /\ processing' \in BOOLEAN /\ stuck' \in BOOLEAN
BY HttpSizes DEF Goes, Returns, c1, WebInv

\* From one state in which the request is taken in to the next: what was
\* received may have been taken, and the file opened.
LEMMA AskingGoesOn ==
  ASSUME WebInv, NEW p \in Asking, In(p), NEW s \in Asking, Goes(s) \/ Returns(s),
         NEW k \in Socket, sock' = [sock EXCEPT ![curHTTPID] = k],
         k.state = sock[curHTTPID].state, k.wasReset = sock[curHTTPID].wasReset,
         k.tx = sock[curHTTPID].tx, Len(k.rx) <= Len(received),
         k.rx # << >> => received # << >>,
         NEW l \in Client, client' = [client EXCEPT ![curHTTPID] = l],
         l.answered = client[curHTTPID].answered, l.late = client[curHTTPID].late,
         l.lost = client[curHTTPID].lost, l.hungUp = client[curHTTPID].hungUp,
         NEW r \in HttpConn, curHTTP' = r,
         r.file # None => r.file = l.asked,
         s = "SERVE_HEADERS" /\ r.status \in {"GET", "POST"} =>
           r.file # None /\ r.at \in 1 .. Len(Content[r.file]) + 1
  PROVE  WebInv'
<1>1. /\ ConnOK(p, sock[curHTTPID], client[curHTTPID], curHTTP) /\ ~sock[curHTTPID].wasReset
      /\ sock[curHTTPID].state # "listen"
  BY Before DEF Asking
<1>2. sock[curHTTPID] \in Socket
  BY <1>1 DEF ConnOK
<1>3. Len(k.rx) \in Nat /\ Len(received) \in Nat /\ k.tx \in Nat
  BY <1>2, HttpSizes DEF Socket, received, c1
<1>4. SocketOK(s, k)
  BY <1>1, <1>3, HttpSizes DEF ConnOK, SocketOK, received, c1
<1>5. ClientOK(s, k, l)
  BY <1>1 DEF ConnOK, SocketOK, ClientOK, received, c1
<1>6. RecordOK(s, k, l, r)
  BY DEF RecordOK, Asking
<1>7. ConnOK(s, k, l, r)
  BY <1>4, <1>5, <1>6 DEF ConnOK, Asking
<1>8. processing' => (s = "IDLE" => k.rx # << >>) /\ (k.wasReset => s = "DISCONNECT")
  BY <1>1 DEF Asking
<1> QED
  BY <1>7, <1>8, GoesOn, ProcessConn

\* The same, where only the record changes, and its file does not.
LEMMA AskingTalks ==
  ASSUME WebInv, NEW p \in Asking, In(p), NEW s \in Asking, Goes(s) \/ Returns(s),
         sock' = sock, client' = client,
         NEW r \in HttpConn, curHTTP' = r, r.file = curHTTP.file,
         s = "SERVE_HEADERS" /\ r.status \in {"GET", "POST"} =>
           r.file # None /\ r.at \in 1 .. Len(Content[r.file]) + 1
  PROVE  WebInv'
<1> DEFINE k == sock[curHTTPID]
           l == client[curHTTPID]
<1>1. /\ ConnOK(p, k, l, curHTTP) /\ ~k.wasReset /\ curHTTPID \in Conn
      /\ sock \in [Conn -> Socket] /\ client \in [Conn -> Client]
  BY Before DEF Asking
<1>2. sock' = [sock EXCEPT ![curHTTPID] = k] /\ client' = [client EXCEPT ![curHTTPID] = l]
  BY <1>1
<1>3. k \in Socket /\ l \in Client /\ received = k.rx
  BY <1>1 DEF ConnOK, received, c1
<1>4. Len(k.rx) <= Len(received)
  BY <1>3 DEF Socket
<1>5. r.file # None => r.file = l.asked
  BY <1>1 DEF ConnOK, RecordOK
<1> HIDE DEF k, l
<1> QED
  BY <1>2, <1>3, <1>4, <1>5, AskingGoesOn DEF k, l

\* The line that is there, and what is left after it.
LEMMA LineIsPiece ==
  ASSUME received \in Seq(Piece), Newlines # {}
  PROVE  /\ LineEnd \in 1 .. Len(received) /\ Line \in Piece /\ AfterLine \in Seq(Piece)
         /\ Len(AfterLine) <= Len(received) /\ received # << >>
<1>1. Newlines \subseteq Nat
  BY DEF Newlines
<1>2. \E pos \in Newlines : \A j \in Newlines : pos <= j
  BY <1>1, Least
<1>3. LineEnd \in Newlines
  BY <1>2, Zenon DEF LineEnd
<1>4. LineEnd \in 1 .. Len(received)
  BY <1>3 DEF Newlines
<1> DEFINE e == LineEnd
           q == received
<1>5. q \in Seq(Piece) /\ e \in 1 .. Len(q) /\ Line = q[e] /\ AfterLine = SubSeq(q, e + 1, Len(q))
  BY <1>4 DEF Line, AfterLine
<1> HIDE DEF e, q
<1>6. q[e] \in Piece /\ SubSeq(q, e + 1, Len(q)) \in Seq(Piece)
      /\ Len(SubSeq(q, e + 1, Len(q))) <= Len(q) /\ q # << >>
  BY <1>5
<1> QED
  BY <1>4, <1>5, <1>6 DEF q

\* The kinds of line that are told apart.
LEMMA LineKinds ==
  ASSUME NEW t \in Piece
  PROVE  /\ t.kind = "request" => /\ t.method \in {"GET", "POST"} /\ t.overlong \in {"nothing", "name", "arguments"}
                                  /\ t.page \in File \cup {None}
         /\ t.kind = "password" => t.right \in BOOLEAN
         /\ t.kind = "length" => t.n \in Nat
BY DEF Piece

\* The states in which a request is taken in.
LEMMA AskingKeeps ==
  ASSUME WebInv,
         \/ RefusesRequest \/ RefusesName \/ OpensFile \/ ParsesHeader \/ Authenticates
         \/ WaitsForBody \/ ReadsForm \/ SkipsBody \/ ProcessesRequest
  PROVE  WebInv'
<1> DEFINE k == sock[curHTTPID]
           l == client[curHTTPID]
<1>0. /\ curHTTPID \in Conn /\ sock \in [Conn -> Socket] /\ client \in [Conn -> Client]
      /\ curHTTP \in HttpConn /\ k \in Socket /\ l \in Client /\ received = k.rx
      /\ ConnOK(sm[curHTTPID], k, l, curHTTP)
  BY DEF WebInv, received, c1, Record
<1>1. received \in Seq(Piece)
  BY <1>0 DEF Socket
<1>9. ~k.wasReset /\ curHTTP.file # None => curHTTP.file = l.asked
  BY <1>0 DEF ConnOK, RecordOK
<1>10. ASSUME NEW p \in Asking, In(p) PROVE ~k.wasReset
  BY <1>10, Before DEF Asking
<1> HIDE DEF k, l
<1>2. CASE RefusesRequest
  <2> DEFINE r == [curHTTP EXCEPT !.status = "not implemented"]
  <2>1. In("PARSE_REQUEST") /\ Goes("SERVE_HEADERS") /\ curHTTP' = r /\ sock' = sock /\ client' = client
    BY <1>2 DEF RefusesRequest, Answer
  <2>2. r \in HttpConn /\ r.file = curHTTP.file /\ r.status = "not implemented"
    BY <1>0 DEF HttpConn, Statuses
  <2>3. "PARSE_REQUEST" \in Asking /\ "SERVE_HEADERS" \in Asking
    BY DEF Asking, Places, Serving
  <2> HIDE DEF r
  <2> QED
    BY <2>1, <2>2, <2>3, AskingTalks
<1>11. CASE RefusesName
  <2> DEFINE r == [curHTTP EXCEPT !.status = "overflow"]
  <2>1. In("PARSE_REQUEST") /\ Goes("SERVE_HEADERS") /\ curHTTP' = r /\ sock' = sock /\ client' = client
    BY <1>11 DEF RefusesName, Answer
  <2>2. r \in HttpConn /\ r.file = curHTTP.file /\ r.status = "overflow"
    BY <1>0 DEF HttpConn, Statuses
  <2>3. "PARSE_REQUEST" \in Asking /\ "SERVE_HEADERS" \in Asking
    BY DEF Asking, Places, Serving
  <2> HIDE DEF r
  <2> QED
    BY <2>1, <2>2, <2>3, AskingTalks
<1>3. CASE Authenticates
  <2>1. "AUTHENTICATE" \in Asking /\ "SERVE_HEADERS" \in Asking /\ "PROCESS_POST" \in Asking
    BY DEF Asking, Places, Serving
  <2>2. In("AUTHENTICATE") /\ sock' = sock /\ client' = client
    BY <1>3 DEF Authenticates
  <2>3. CASE curHTTP.authorized
    <3>1. Goes("PROCESS_POST") /\ curHTTP' = curHTTP
      BY <1>3, <2>3 DEF Authenticates
    <3> QED
      BY <1>0, <2>1, <2>2, <3>1, AskingTalks
  <2>4. CASE ~curHTTP.authorized
    <3> DEFINE r == [curHTTP EXCEPT !.status = "unauthorized"]
    <3>1. Goes("SERVE_HEADERS") /\ curHTTP' = r
      BY <1>3, <2>4 DEF Authenticates, Answer
    <3>2. r \in HttpConn /\ r.file = curHTTP.file /\ r.status = "unauthorized"
      BY <1>0 DEF HttpConn, Statuses
    <3> HIDE DEF r
    <3> QED
      BY <2>1, <2>2, <3>1, <3>2, AskingTalks
  <2> QED
    BY <2>3, <2>4
<1>4. CASE WaitsForBody \/ SkipsBody
  <2>1. "PROCESS_POST" \in Asking /\ "PROCESS_REQUEST" \in Asking
    BY DEF Asking, Places, Serving
  <2>2. In("PROCESS_POST") /\ sock' = sock /\ client' = client /\ curHTTP' = curHTTP
        /\ (Returns("PROCESS_POST") \/ Goes("PROCESS_REQUEST"))
    BY <1>4 DEF WaitsForBody, SkipsBody
  <2> QED
    BY <1>0, <2>1, <2>2, AskingTalks
<1>5. CASE ProcessesRequest
  <2>1. "PROCESS_REQUEST" \in Asking /\ "SERVE_HEADERS" \in Asking
    BY DEF Asking, Places, Serving
  <2>2. In("PROCESS_REQUEST") /\ sock' = sock /\ client' = client
    BY <1>5 DEF ProcessesRequest
  <2>3. CASE curHTTP.file = None
    <3> DEFINE r == [curHTTP EXCEPT !.status = "not found"]
    <3>1. Goes("SERVE_HEADERS") /\ curHTTP' = r
      BY <1>5, <2>3 DEF ProcessesRequest, Answer
    <3>2. r \in HttpConn /\ r.file = curHTTP.file /\ r.status = "not found"
      BY <1>0 DEF HttpConn, Statuses
    <3> HIDE DEF r
    <3> QED
      BY <2>1, <2>2, <3>1, <3>2, AskingTalks
  <2>4. CASE curHTTP.file # None
    <3> DEFINE r == [curHTTP EXCEPT !.byteCount = 0, !.at = 1]
    <3>1. Goes("SERVE_HEADERS") /\ curHTTP' = r
      BY <1>5, <2>4 DEF ProcessesRequest
    <3>2. r \in HttpConn /\ r.file = curHTTP.file /\ r.at = 1
      BY <1>0 DEF HttpConn
    <3>3. curHTTP.file \in File
      BY <1>0, <2>4 DEF HttpConn
    <3>4. Len(Content[curHTTP.file]) \in Nat
      BY <3>3, HttpAssumption
    <3>5. 1 \in 1 .. Len(Content[curHTTP.file]) + 1
      BY <3>4
    <3> HIDE DEF r
    <3> QED
      BY <2>1, <2>2, <2>4, <3>1, <3>2, <3>5, AskingTalks
  <2> QED
    BY <2>3, <2>4
<1>6. CASE ReadsForm
  <2>1. "PROCESS_POST" \in Asking /\ "PROCESS_REQUEST" \in Asking
    BY DEF Asking, Places, Serving
  <2>2. In("PROCESS_POST") /\ client' = client /\ curHTTP' = curHTTP /\ Goes("PROCESS_REQUEST")
    BY <1>6 DEF ReadsForm
  <2>3. PICK n \in 0 .. TCPIsGetReady :
          sock' = [sock EXCEPT ![curHTTPID].rx = SubSeq(received, n + 1, Len(received))]
    BY <1>6 DEF ReadsForm, c1
  <2>4. n \in Nat
    BY <1>1, <2>3 DEF TCPIsGetReady
  <2> DEFINE q == SubSeq(received, n + 1, Len(received))
             k2 == [k EXCEPT !.rx = q]
  <2>5. q \in Seq(Piece) /\ Len(q) <= Len(received) /\ (q # << >> => received # << >>)
    BY <1>1, <2>4
  <2>6. sock' = [sock EXCEPT ![curHTTPID] = k2]
    BY <1>0, <2>3 DEF k
  <2> HIDE DEF q
  <2>7. /\ k2 \in Socket /\ k2.state = k.state /\ k2.wasReset = k.wasReset /\ k2.tx = k.tx
        /\ k2.rx = q
    BY <1>0, <2>5 DEF Socket
  <2>8. client' = [client EXCEPT ![curHTTPID] = l]
    BY <1>0, <2>2 DEF l
  <2>9. curHTTP.file # None => curHTTP.file = l.asked
    BY <1>9, <1>10, <2>1, <2>2
  <2> HIDE DEF k2
  <2> QED
    BY <1>0, <2>1, <2>2, <2>5, <2>6, <2>7, <2>8, <2>9, AskingGoesOn DEF k, l
<1>7. CASE ParsesHeader
  <2>1. /\ "PARSE_HEADERS" \in Asking /\ "AUTHENTICATE" \in Asking
    BY DEF Asking, Places, Serving
  <2> DEFINE s == IF Line.kind = "end" THEN "AUTHENTICATE" ELSE "PARSE_HEADERS"
             q == AfterLine
             k2 == [k EXCEPT !.rx = q]
             a == curHTTP.authorized \/ (Line.kind = "password" /\ Line.right)
             n == CASE Line.kind = "length" -> Line.n [] Line.kind = "overlength" -> 0
                    [] OTHER -> curHTTP.byteCount
             status == IF Line.kind = "overlength" THEN "bad request" ELSE curHTTP.status
             r == [[[curHTTP EXCEPT !.status = status] EXCEPT !.authorized = a] EXCEPT !.byteCount = n]
  <2>2. /\ In("PARSE_HEADERS") /\ client' = client /\ Goes(s) /\ Newlines # {}
        /\ curHTTP' = r
    BY <1>7 DEF ParsesHeader
  <2>3. Line \in Piece /\ q \in Seq(Piece) /\ Len(q) <= Len(received) /\ received # << >>
    BY <1>1, <2>2, LineIsPiece
  <2>4. a \in BOOLEAN /\ n \in Nat /\ status \in Statuses
    BY <1>0, <2>3, LineKinds DEF HttpConn, Statuses
  <2> HIDE DEF a, n, status
  <2>5. r \in HttpConn /\ r.file = curHTTP.file
    BY <1>0, <2>4 DEF HttpConn
  <2>6. sock' = [sock EXCEPT ![curHTTPID] = k2]
    BY <1>0, <1>7 DEF ParsesHeader, TakesLine, k, c1
  <2>7. s \in Asking /\ s # "SERVE_HEADERS"
    BY <2>1
  <2> HIDE DEF q, r, s
  <2>8. /\ k2 \in Socket /\ k2.state = k.state /\ k2.wasReset = k.wasReset /\ k2.tx = k.tx
        /\ k2.rx = q
    BY <1>0, <2>3 DEF Socket
  <2>9. client' = [client EXCEPT ![curHTTPID] = l]
    BY <1>0, <2>2 DEF l
  <2>10. r.file # None => r.file = l.asked
    BY <1>9, <1>10, <2>1, <2>2, <2>5
  <2> HIDE DEF k2
  <2> QED
    BY <1>0, <2>1, <2>2, <2>3, <2>5, <2>6, <2>7, <2>8, <2>9, <2>10, AskingGoesOn DEF k, l
<1>8. CASE OpensFile
  <2>1. /\ "PARSE_REQUEST" \in Asking /\ "PARSE_HEADERS" \in Asking /\ "SERVE_HEADERS" \in Asking
    BY DEF Asking, Places, Serving
  <2> DEFINE there == Line.page \in File
             index == there /\ \E pos \in DOMAIN Content[Line.page] : Content[Line.page][pos] = "var"
             status == IF Line.overlong = "arguments" THEN "overflow" ELSE Line.method
             file == IF there THEN Line.page ELSE None
             offsets == IF index THEN TRUE ELSE curHTTP.offsets
             a == Line.page \notin Protected
             r == [[[[curHTTP EXCEPT !.status = status] EXCEPT !.file = file]
                      EXCEPT !.offsets = offsets] EXCEPT !.authorized = a]
             page == Line.page
             l2 == [l EXCEPT !.asked = page]
             s == IF Line.overlong = "arguments" THEN "SERVE_HEADERS" ELSE "PARSE_HEADERS"
             q == IF Line.overlong = "arguments" THEN received ELSE AfterLine
  <2>2. In("PARSE_REQUEST") /\ Newlines # {} /\ Line.kind = "request"
    BY <1>8 DEF OpensFile, IsRequest
  <2>3. curHTTP' = r
    BY <1>8 DEF OpensFile
  <2>4. client' = [client EXCEPT ![curHTTPID] = l2]
    BY <1>0, <1>8 DEF OpensFile, c1, l
  <2>5. /\ Line.overlong = "arguments" => Goes("SERVE_HEADERS") /\ sock' = sock
        /\ Line.overlong # "arguments" => Goes("PARSE_HEADERS") /\ sock' = [sock EXCEPT ![curHTTPID].rx = AfterLine]
    BY <1>8 DEF OpensFile, TakesLine, c1
  <2>6. Line \in Piece /\ AfterLine \in Seq(Piece) /\ Len(AfterLine) <= Len(received)
        /\ received # << >>
    BY <1>1, <2>2, LineIsPiece
  <2>7. Line.method \in {"GET", "POST"} /\ page \in File \cup {None}
    BY <2>2, <2>6, LineKinds
  <2>8. /\ status \in Statuses /\ file \in File \cup {None} /\ offsets \in BOOLEAN /\ a \in BOOLEAN
        /\ file # None => file = page
        /\ Line.overlong = "arguments" => status = "overflow"
    BY <1>0, <2>7 DEF Statuses, HttpConn
  <2> HIDE DEF there, index, status, file, offsets, a, page
  <2>9. r \in HttpConn /\ r.file = file /\ r.status = status
    BY <1>0, <2>8 DEF HttpConn
  <2>10. /\ l2 \in Client /\ l2.asked = page /\ l2.answered = l.answered /\ l2.late = l.late
         /\ l2.lost = l.lost /\ l2.hungUp = l.hungUp
    BY <1>0, <2>7 DEF Client
  <2> HIDE DEF r, l2
  <2>11. r.file # None => r.file = l2.asked
    BY <2>8, <2>9, <2>10
  <2>12. CASE Line.overlong = "arguments"
    <3>1. sock' = [sock EXCEPT ![curHTTPID] = k] /\ Goes("SERVE_HEADERS")
      BY <1>0, <2>5, <2>12 DEF k
    <3>2. Len(k.rx) <= Len(received)
      BY <1>0, <1>1
    <3>3. r.status \notin {"GET", "POST"}
      BY <2>8, <2>9, <2>12
    <3> QED
      BY <1>0, <2>1, <2>2, <2>3, <2>4, <2>9, <2>10, <2>11, <3>1, <3>2, <3>3, AskingGoesOn DEF k, l
  <2>13. CASE Line.overlong # "arguments"
    <3> DEFINE k2 == [k EXCEPT !.rx = AfterLine]
    <3>1. sock' = [sock EXCEPT ![curHTTPID] = k2] /\ Goes("PARSE_HEADERS")
      BY <1>0, <2>5, <2>13 DEF k
    <3>2. /\ k2 \in Socket /\ k2.state = k.state /\ k2.wasReset = k.wasReset /\ k2.tx = k.tx
          /\ k2.rx = AfterLine
      BY <1>0, <2>6 DEF Socket
    <3> HIDE DEF k2
    <3> QED
      BY <1>0, <2>1, <2>2, <2>3, <2>4, <2>6, <2>9, <2>10, <2>11, <3>1, <3>2, AskingGoesOn DEF k, l
  <2> QED
    BY <2>7, <2>12, <2>13
<1> QED
  BY <1>2, <1>3, <1>4, <1>5, <1>6, <1>7, <1>8, <1>11


\* A request begins.
LEMMA StartKeeps == ASSUME WebInv, StartsRequest PROVE WebInv'
<1> DEFINE k == sock[curHTTPID]
           l == client[curHTTPID]
           lost == l.lost \/ k.tx > 0
           k2 == [[k EXCEPT !.rest = "rx"] EXCEPT !.tx = 0]
           l2 == [l EXCEPT !.lost = lost]
           r == [[curHTTP EXCEPT !.authorized = TRUE] EXCEPT !.byteCount = 0]
<1>1. In("IDLE") /\ Goes("PARSE_REQUEST") /\ curHTTP' = r
  BY DEF StartsRequest
<1>2. /\ curHTTPID \in Conn /\ ConnOK("IDLE", k, l, curHTTP) /\ ~k.wasReset /\ k.rx # << >>
      /\ sock \in [Conn -> Socket] /\ client \in [Conn -> Client]
  <2>1. "IDLE" # "DISCONNECT" /\ received = k.rx
    BY DEF received, c1
  <2> HIDE DEF k, l
  <2> QED
    BY <1>1, <2>1, Before DEF k, l
<1>3. k \in Socket /\ l \in Client /\ curHTTP \in HttpConn
  BY <1>2 DEF ConnOK
<1>4. sock' = [sock EXCEPT ![curHTTPID] = k2]
  BY <1>2 DEF StartsRequest, c1
<1>5. client' = [client EXCEPT ![curHTTPID] = l2]
  BY <1>2 DEF StartsRequest, TxEmptied, c1
<1>6. lost \in BOOLEAN /\ 0 \in 0 .. TxFifo
  BY <1>3, HttpSizes DEF Client
<1> HIDE DEF lost
<1>7. /\ k2 \in Socket /\ k2.state = k.state /\ k2.wasReset = k.wasReset /\ k2.rx = k.rx
      /\ k2.tx = 0
  BY <1>3, <1>6 DEF Socket
<1>8. /\ l2 \in Client /\ l2.answered = l.answered /\ l2.late = l.late /\ l2.lost = lost
      /\ l2.hungUp = l.hungUp
  BY <1>3, <1>6 DEF Client
<1>9. r \in HttpConn /\ r.file = curHTTP.file
  BY <1>3 DEF HttpConn
<1> HIDE DEF k, l, k2, l2, r
<1>10. SocketOK("PARSE_REQUEST", k2)
  BY <1>2, <1>7, HttpSizes DEF ConnOK, SocketOK
<1>11. ClientOK("PARSE_REQUEST", k2, l2)
  <2>1. lost => l.late \/ l.hungUp
    BY <1>2 DEF ConnOK, ClientOK, lost
  <2>2. ~(k2.tx > 0)
    BY <1>7
  <2>3. l.answered => l.late
    BY <1>2 DEF ConnOK, ClientOK
  <2> QED
    BY <1>8, <2>1, <2>2, <2>3 DEF ClientOK
<1>12. RecordOK("PARSE_REQUEST", k2, l2, r)
  BY <1>2, <1>9 DEF ConnOK, RecordOK, Serving
<1>13. ConnOK("PARSE_REQUEST", k2, l2, r)
  BY <1>7, <1>8, <1>9, <1>10, <1>11, <1>12 DEF ConnOK, Places
<1> QED
  BY <1>1, <1>2, <1>4, <1>5, <1>7, <1>13, GoesOn, ProcessConn

\* The server hangs up: for the first time, or a second time.
LEMMA HangsUp ==
  ASSUME WebInv, NEW p, In(p), p \in Asking \cup {"DISCONNECT"}, TCPDisconnect(c1),
         NEW s \in {"DISCONNECT", "IDLE"}, p = "DISCONNECT" => s = "IDLE", Goes(s) \/ Returns(s),
         s = "IDLE" => processing' = FALSE,
         NEW r \in HttpConn, curHTTP' = r, r.file = None \/ r.file = curHTTP.file,
         s = "IDLE" => r.file = None /\ ~r.offsets
  PROVE  WebInv'
<1> DEFINE k == sock[curHTTPID]
           l == client[curHTTPID]
<1>1. /\ curHTTPID \in Conn /\ ConnOK(p, k, l, curHTTP)
      /\ sock \in [Conn -> Socket] /\ client \in [Conn -> Client]
  BY Before
<1>2. k \in Socket /\ l \in Client /\ k.tx \in Nat /\ k.rest \in {"both", "rx", "tx"}
  BY <1>1, HttpSizes DEF ConnOK, Socket
<1>3. Len(<< >>) = 0 /\ << >> \in Seq(Piece)
  OBVIOUS
<1>4. CASE k.state \in {"open", "half"}
  <2> DEFINE k2 == [[k EXCEPT !.state = "closing"] EXCEPT !.rx = << >>]
  <2>1. sock' = [sock EXCEPT ![curHTTPID] = k2] /\ client' = [client EXCEPT ![curHTTPID] = l]
    BY <1>1, <1>4 DEF TCPDisconnect, c1
  <2>2. /\ k2 \in Socket /\ k2.state = "closing" /\ k2.wasReset = k.wasReset /\ k2.rx = << >>
        /\ k2.tx = k.tx
    BY <1>2, <1>3 DEF Socket
  <2> HIDE DEF k, l, k2
  <2>3. s = "IDLE" \/ k.tx = 0
    BY <1>1 DEF ConnOK, SocketOK
  <2>4. SocketOK(s, k2)
    BY <1>1, <1>2, <1>3, <2>2, <2>3, HttpSizes DEF ConnOK, SocketOK, Asking
  <2>5. ClientOK(s, k2, l)
    BY <1>1, <1>2, <2>2, <2>3, HttpSizes DEF ConnOK, ClientOK
  <2>6. RecordOK(s, k2, l, r)
    BY <1>1, <2>2 DEF ConnOK, RecordOK, Serving
  <2>7. ConnOK(s, k2, l, r)
    BY <1>2, <2>2, <2>4, <2>5, <2>6 DEF ConnOK, Places
  <2> QED
    BY <2>1, <2>2, <2>7, GoesOn, ProcessConn
<1>5. CASE k.state \notin {"open", "half"}
  <2> DEFINE k2 == [Listening(TRUE) EXCEPT !.rest = k.rest]
             lost == l.lost \/ k.tx > 0
             l2 == [l EXCEPT !.lost = lost]
  <2>1. sock' = [sock EXCEPT ![curHTTPID] = k2] /\ client' = [client EXCEPT ![curHTTPID] = l2]
    BY <1>1, <1>5 DEF TCPDisconnect, TxEmptied, c1
  <2>2. /\ k2 \in Socket /\ k2.wasReset /\ k2.state = "listen" /\ k2.rx = << >> /\ k2.tx = 0
    BY <1>2, ListeningOK
  <2>3. k.tx > 0 => l.hungUp
    BY <1>1, <1>2, <1>5, HttpSizes DEF ConnOK, SocketOK, ClientOK, Asking
  <2>4. lost \in BOOLEAN /\ (lost => l.late \/ l.hungUp)
    BY <1>1, <1>2, <2>3 DEF Client, ConnOK, ClientOK
  <2>5. /\ l2 \in Client /\ l2.answered = l.answered /\ l2.late = l.late /\ l2.lost = lost
        /\ l2.hungUp = l.hungUp
    BY <1>2, <2>4 DEF Client
  <2> HIDE DEF k, l, k2, l2, lost
  <2>6. SocketOK(s, k2)
    BY <1>3, <2>2, HttpSizes DEF SocketOK
  <2>7. ClientOK(s, k2, l2)
    BY <1>1, <2>2, <2>4, <2>5, HttpSizes DEF ConnOK, ClientOK
  <2>8. RecordOK(s, k2, l2, r)
    BY <2>2 DEF RecordOK, Serving
  <2>9. ConnOK(s, k2, l2, r)
    BY <2>2, <2>5, <2>6, <2>7, <2>8 DEF ConnOK, Places
  <2> QED
    BY <2>1, <2>2, <2>9, GoesOn, ProcessConn
<1> QED
  BY <1>4, <1>5

\* Waiting for the end of a line, and after the answer.
LEMMA WaitKeeps == ASSUME WebInv, WaitsForLine PROVE WebInv'
<1> DEFINE p == sm[curHTTPID]
<1>1. p \in {"PARSE_REQUEST", "PARSE_HEADERS"} /\ In(p) /\ curHTTP \in HttpConn
  BY DEF WaitsForLine, In, c1, WebInv
<1>2. p \in Asking /\ p # "DISCONNECT" /\ "SERVE_HEADERS" \in Asking
  BY <1>1 DEF Asking, Places, Serving
<1> HIDE DEF p
<1>3. CASE TimesOut
  BY <1>1, <1>2, <1>3, HangsUp DEF TimesOut
<1>4. CASE Answer("overflow") /\ sock' = sock /\ client' = client
  <2> DEFINE r == [curHTTP EXCEPT !.status = "overflow"]
  <2>1. Goes("SERVE_HEADERS") /\ curHTTP' = r
    BY <1>4 DEF Answer
  <2>2. r \in HttpConn /\ r.file = curHTTP.file /\ r.status = "overflow"
    BY <1>1 DEF HttpConn, Statuses
  <2> HIDE DEF r
  <2> QED
    BY <1>1, <1>2, <1>4, <2>1, <2>2, AskingTalks
<1>5. CASE Returns(p) /\ sock' = sock /\ client' = client /\ curHTTP' = curHTTP
  BY <1>1, <1>2, <1>5, AskingTalks
<1> QED
  BY <1>3, <1>4, <1>5 DEF WaitsForLine, NoLine, c1, p

\* A connection that hangs up.
LEMMA DisconnectKeeps == ASSUME WebInv, Disconnects PROVE WebInv'
<1>1. Closed \in HttpConn /\ Closed.file = None /\ ~Closed.offsets
  BY DEF Closed, HttpConn, Statuses
<1>2. In("DISCONNECT") /\ TCPDisconnect(c1) /\ Returns("IDLE") /\ processing' = FALSE /\ curHTTP' = Closed
  BY DEF Disconnects, Returns, CloseFiles
<1> QED
  BY <1>1, <1>2, HangsUp

\* The header of the answer.
LEMMA HeadersKeep == ASSUME WebInv, ServesHeaders PROVE WebInv'
<1> DEFINE k == sock[curHTTPID]
           l == client[curHTTPID]
           n == IF k.state \in {"open", "half"} THEN 1 ELSE 0
           lost == l.lost \/ k.tx > 0
           k2 == [[[k EXCEPT !.rx = << >>] EXCEPT !.rest = "tx"] EXCEPT !.tx = n]
           l2 == [[l EXCEPT !.answered = TRUE] EXCEPT !.lost = lost]
           s == IF curHTTP.status \in {"GET", "POST"} THEN "SERVE_BODY" ELSE "DISCONNECT"
<1>1. In("SERVE_HEADERS") /\ (Goes(s) \/ Returns(s)) /\ curHTTP' = curHTTP
  BY DEF ServesHeaders
<1>2. /\ curHTTPID \in Conn /\ ConnOK("SERVE_HEADERS", k, l, curHTTP) /\ ~k.wasReset
      /\ k.state # "listen" /\ sock \in [Conn -> Socket] /\ client \in [Conn -> Client]
  <2>1. "SERVE_HEADERS" \notin {"IDLE", "DISCONNECT"} /\ "SERVE_HEADERS" # "DISCONNECT"
    OBVIOUS
  <2> HIDE DEF k, l
  <2> QED
    BY <1>1, <2>1, Before DEF k, l
<1>3. k \in Socket /\ l \in Client /\ curHTTP \in HttpConn
  BY <1>2 DEF ConnOK
<1>4. sock' = [sock EXCEPT ![curHTTPID] = k2]
  BY <1>2 DEF ServesHeaders, c1
<1>5. client' = [client EXCEPT ![curHTTPID] = l2]
  BY <1>2 DEF ServesHeaders, c1
<1>6. k.tx = 0
  BY <1>2 DEF ConnOK, SocketOK, Asking, Places, Serving
<1>7. n \in 0 .. TxFifo /\ lost = l.lost /\ (n > 0 => k.state \in {"open", "half"})
  BY <1>3, <1>6, HttpSizes DEF Client
<1>8. << >> \in Seq(Piece) /\ Len(<< >>) = 0
  OBVIOUS
<1> HIDE DEF lost, n
<1>9. /\ k2 \in Socket /\ k2.state = k.state /\ k2.wasReset = k.wasReset /\ k2.rx = << >>
      /\ k2.tx = n
  BY <1>3, <1>7, <1>8 DEF Socket
<1>10. /\ l2 \in Client /\ l2.answered /\ l2.late = l.late /\ l2.lost = l.lost
       /\ l2.asked = l.asked /\ l2.hungUp = l.hungUp
  BY <1>3, <1>7 DEF Client
<1>11. s \in {"SERVE_BODY", "DISCONNECT"} /\ (s = "SERVE_BODY" => curHTTP.status \in {"GET", "POST"})
  OBVIOUS
<1> HIDE DEF k, l, k2, l2, s
<1>12. SocketOK(s, k2)
  BY <1>2, <1>7, <1>8, <1>9, <1>11, HttpSizes DEF SocketOK, Asking, Serving
<1>13. ClientOK(s, k2, l2)
  BY <1>2, <1>7, <1>9, <1>10 DEF ConnOK, ClientOK
<1>14. RecordOK(s, k2, l2, curHTTP)
  BY <1>2, <1>9, <1>10, <1>11 DEF ConnOK, RecordOK, Serving
<1>15. ConnOK(s, k2, l2, curHTTP)
  BY <1>3, <1>9, <1>10, <1>11, <1>12, <1>13, <1>14 DEF ConnOK, Places
<1> QED
  BY <1>1, <1>2, <1>4, <1>5, <1>9, <1>11, <1>15, GoesOn, ProcessConn

\* What HTTPSendFile puts into the FIFO: as much text as there is room for, and no more.
LEMMA LongestText ==
  ASSUME NEW content, NEW len \in Nat, len = Len(content), NEW pos \in 1 .. len + 1, NEW room \in Nat
  PROVE  \E n \in 0 .. room :
           TextFrom(content, pos, n) /\ (n = room \/ ~TextFrom(content, pos, n + 1))
<1> DEFINE Fits(n) == TextFrom(content, pos, n)
           T == {n \in Nat : n <= room => Fits(n)}
<1>1. Fits(0)
  <2>1. pos + 0 - 1 <= len /\ \A j \in pos .. pos + 0 - 1 : FALSE
    OBVIOUS
  <2> QED
    BY <2>1 DEF TextFrom
<1>2. 0 \in T /\ T \subseteq Nat
  BY <1>1
<1> HIDE DEF Fits
<1> SUFFICES ASSUME \A n \in 0 .. room : Fits(n) => n # room /\ Fits(n + 1) PROVE FALSE
  BY DEF Fits
<1>3. ASSUME NEW n \in T PROVE n + 1 \in T
  <2>1. CASE n + 1 <= room
    <3>1. n \in 0 .. room /\ Fits(n)
      BY <2>1
    <3> QED
      BY <3>1
  <2>2. CASE ~(n + 1 <= room)
    BY <2>2
  <2> QED
    BY <2>1, <2>2
<1>4. T = Nat
  <2> HIDE DEF T
  <2> QED
    BY <1>2, <1>3, Induct
<1>5. Fits(room) /\ room \in 0 .. room
  BY <1>4
<1> QED
  BY <1>5

\* More of the answer is put into the FIFO.
LEMMA Sends ==
  ASSUME WebInv, NEW p \in Serving, In(p), NEW s \in Serving \cup {"DISCONNECT"},
         Goes(s) \/ Returns(s), client' = client, NEW n \in Nat, n <= PutReady,
         sock' = [sock EXCEPT ![curHTTPID].tx = sock[curHTTPID].tx + n],
         NEW r \in HttpConn, curHTTP' = r,
         s = "DISCONNECT" => r.file = None,
         s \in Serving => r.file = curHTTP.file /\ r.at \in 1 .. Len(Content[r.file]) + 1
  PROVE  WebInv'
<1> DEFINE k == sock[curHTTPID]
           l == client[curHTTPID]
           t == k.tx + n
           k2 == [k EXCEPT !.tx = t]
<1>1. p \notin {"IDLE", "DISCONNECT"} /\ p \notin Asking /\ p \in Places /\ Serving \subseteq Places
  BY DEF Serving, Asking, Places
<1>2. /\ curHTTPID \in Conn /\ ConnOK(p, k, l, curHTTP) /\ ~k.wasReset
      /\ k.state # "listen" /\ sock \in [Conn -> Socket] /\ client \in [Conn -> Client]
  <2> HIDE DEF k, l
  <2> QED
    BY <1>1, Before DEF k, l
<1>3. k \in Socket /\ l \in Client
  BY <1>2 DEF ConnOK
<1>4. k.tx \in 0 .. TxFifo
  BY <1>3 DEF Socket
<1>5. PutReady = IF k.state \in {"open", "half"} THEN TxFifo - k.tx ELSE 0
  BY DEF PutReady, c1
<1>6. t \in 0 .. TxFifo /\ (t > 0 => k.tx > 0 \/ k.state \in {"open", "half"})
  <2>1. CASE k.state \in {"open", "half"}
    <3>1. n <= TxFifo - k.tx
      BY <1>5, <2>1
    <3> QED
      BY <1>4, <2>1, <3>1, HttpSizes
  <2>2. CASE k.state \notin {"open", "half"}
    <3>1. n = 0
      BY <1>5, <2>2
    <3> QED
      BY <1>4, <3>1, HttpSizes
  <2> QED
    BY <2>1, <2>2
<1>7. sock' = [sock EXCEPT ![curHTTPID] = k2] /\ client' = [client EXCEPT ![curHTTPID] = l]
  BY <1>2
<1> HIDE DEF t
<1>8. /\ k2 \in Socket /\ k2.state = k.state /\ k2.wasReset = k.wasReset /\ k2.rx = k.rx
      /\ k2.tx = t
  BY <1>3, <1>6 DEF Socket
<1> HIDE DEF k, l, k2
<1>9. SocketOK(s, k2)
  <2>1. s \notin Asking
    BY DEF Serving, Asking
  <2> QED
    BY <1>2, <1>6, <1>8, <2>1 DEF ConnOK, SocketOK
<1>10. ClientOK(s, k2, l)
  <2>1. l.answered
    BY <1>2 DEF ConnOK, RecordOK
  <2>2. k.tx > 0 => k.state \in {"open", "half"} \/ l.hungUp
    BY <1>1, <1>2 DEF ConnOK, ClientOK
  <2> QED
    BY <1>2, <1>6, <1>8, <2>1, <2>2 DEF ConnOK, ClientOK
<1>11. RecordOK(s, k2, l, r)
  BY <1>1, <1>2, <1>8 DEF ConnOK, RecordOK, Serving
<1>12. ConnOK(s, k2, l, r)
  BY <1>1, <1>3, <1>8, <1>9, <1>10, <1>11 DEF ConnOK, Places
<1> QED
  BY <1>2, <1>7, <1>8, <1>12, GoesOn, ProcessConn DEF Serving

\* What HTTPProcess has to do with while it sends the body.
LEMMA ServingFile ==
  ASSUME WebInv, NEW p \in Serving, In(p)
  PROVE  /\ curHTTP \in HttpConn /\ curHTTP.file \in File
         /\ Len(Content[curHTTP.file]) \in Nat /\ curHTTP.at \in Nat
         /\ curHTTP.at \in 1 .. Len(Content[curHTTP.file]) + 1
         /\ PutReady \in Nat
<1>1. ConnOK(p, sock[curHTTPID], client[curHTTPID], curHTTP)
  BY Before
<1>2. /\ curHTTP \in HttpConn /\ curHTTP.file # None /\ sock[curHTTPID] \in Socket
      /\ curHTTP.at \in 1 .. Len(Content[curHTTP.file]) + 1
  BY <1>1 DEF ConnOK, RecordOK
<1>3. curHTTP.file \in File /\ curHTTP.at \in Nat
  BY <1>2 DEF HttpConn
<1>4. Content[curHTTP.file] \in Seq({"text", "var"})
  BY <1>3, HttpAssumption
<1>5. Len(Content[curHTTP.file]) \in Nat
  BY <1>4
<1>6. sock[curHTTPID].tx \in 0 .. TxFifo
  BY <1>2 DEF Socket
<1>7. PutReady \in Nat
  BY <1>6, HttpSizes DEF PutReady, c1
<1> QED
  BY <1>2, <1>3, <1>5, <1>7

\* The body of the answer.
LEMMA BodyKeeps == ASSUME WebInv, ServesBody PROVE WebInv'
<1> DEFINE content == Content[curHTTP.file]
           len == Len(content)
           Fits(m) == TextFrom(content, curHTTP.at, m)
           n == CHOOSE m \in 0 .. PutReady : Fits(m) /\ (m = PutReady \/ ~Fits(m + 1))
           at == curHTTP.at + n
           var == at <= Len(content) /\ content[at] = "var"
           last == var /\ \A j \in at + 1 .. Len(content) : content[j] # "var"
           eof == at > Len(content) /\ n < PutReady
           s == CASE eof -> "DISCONNECT" [] var -> "SEND_FROM_CALLBACK" [] OTHER -> "SERVE_BODY"
           file == IF eof THEN None ELSE curHTTP.file
           offsets == curHTTP.offsets /\ ~last
           next == IF var THEN at + 1 ELSE at
           r == [[[curHTTP EXCEPT !.at = next] EXCEPT !.offsets = offsets] EXCEPT !.file = file]
<1>1. In("SERVE_BODY") /\ client' = client /\ curHTTP' = r
  BY DEF ServesBody
<1>2. Goes(s) \/ Returns(s)
  BY DEF ServesBody
<1>3. sock' = [sock EXCEPT ![curHTTPID].tx = sock[curHTTPID].tx + n]
  BY DEF ServesBody, c1
<1>4. "SERVE_BODY" \in Serving /\ "SEND_FROM_CALLBACK" \in Serving /\ "DISCONNECT" \notin Serving
  BY DEF Serving
<1>5. /\ curHTTP \in HttpConn /\ curHTTP.file \in File /\ len \in Nat /\ curHTTP.at \in 1 .. len + 1
      /\ PutReady \in Nat
  BY <1>1, <1>4, ServingFile
<1>6. \E m \in 0 .. PutReady : Fits(m) /\ (m = PutReady \/ ~Fits(m + 1))
  <2> HIDE DEF content
  <2> QED
    BY <1>5, LongestText
<1>7. n \in 0 .. PutReady /\ Fits(n)
  <2> HIDE DEF Fits
  <2> QED
    BY <1>6, Zenon DEF n
<1> HIDE DEF n
<1>8. n \in Nat /\ n <= PutReady /\ curHTTP.at + n - 1 <= len
  BY <1>5, <1>7 DEF TextFrom
<1> HIDE DEF content
<1>9. at \in 1 .. len + 1
  BY <1>5, <1>8
<1>10. next \in 1 .. len + 1 /\ next \in Nat
  <2>1. var => at <= len
    OBVIOUS
  <2> HIDE DEF at, var
  <2> QED
    BY <1>5, <1>9, <2>1
<1>11. /\ file \in File \cup {None} /\ offsets \in BOOLEAN
       /\ s \in Serving \cup {"DISCONNECT"} /\ (s = "DISCONNECT" => eof) /\ (s \in Serving => ~eof)
  <2>1. var => at <= len
    OBVIOUS
  <2>2. eof => ~(at <= len)
    <3> HIDE DEF at
    <3> QED
      BY <1>5, <1>9
  <2> HIDE DEF at, var, eof, last
  <2> QED
    BY <1>4, <1>5, <2>1, <2>2 DEF HttpConn
<1>12. (s = "DISCONNECT" => file = None) /\ (s \in Serving => file = curHTTP.file)
  <2> HIDE DEF eof, s
  <2> QED
    BY <1>11
<1> HIDE DEF next, offsets, file, s
<1>13. r \in HttpConn /\ r.file = file /\ r.at = next
  BY <1>5, <1>10, <1>11 DEF HttpConn
<1> HIDE DEF r
<1>14. s \in Serving => r.file = curHTTP.file /\ r.at \in 1 .. Len(Content[r.file]) + 1
  BY <1>10, <1>12, <1>13 DEF content
<1> QED
  BY <1>1, <1>2, <1>3, <1>4, <1>8, <1>11, <1>12, <1>13, <1>14, Sends

\* A dynamic variable.
LEMMA CallbackKeeps == ASSUME WebInv, SendsFromCallback PROVE WebInv'
<1> DEFINE k == sock[curHTTPID]
<1>1. In("SEND_FROM_CALLBACK") /\ client' = client /\ curHTTP' = curHTTP
  BY DEF SendsFromCallback
<1>2. "SERVE_BODY" \in Serving /\ "SEND_FROM_CALLBACK" \in Serving /\ "DISCONNECT" \notin Serving
  BY DEF Serving
<1>3. /\ curHTTP \in HttpConn /\ curHTTP.at \in 1 .. Len(Content[curHTTP.file]) + 1
      /\ PutReady \in Nat
  BY <1>1, <1>2, ServingFile
<1>4. /\ curHTTPID \in Conn /\ ConnOK("SEND_FROM_CALLBACK", k, client[curHTTPID], curHTTP)
      /\ sock \in [Conn -> Socket]
  BY <1>1, Before
<1>5. k \in Socket /\ k.tx \in 0 .. TxFifo
  BY <1>4 DEF ConnOK, Socket
<1>6. CASE PutReady = 0
  <2>1. Returns("SEND_FROM_CALLBACK") /\ sock' = sock
    BY <1>6 DEF SendsFromCallback
  <2>2. k.tx + 0 = k.tx
    BY <1>5, HttpSizes
  <2>3. sock' = [sock EXCEPT ![curHTTPID].tx = sock[curHTTPID].tx + 0]
    BY <1>4, <1>5, <2>1, <2>2 DEF Socket
  <2>4. 0 \in Nat /\ 0 <= PutReady
    BY <1>3
  <2> QED
    BY <1>1, <1>2, <1>3, <2>1, <2>3, <2>4, Sends
<1>7. CASE PutReady # 0
  <2>1. Goes("SERVE_BODY") /\ sock' = [sock EXCEPT ![curHTTPID].tx = sock[curHTTPID].tx + 1]
    BY <1>7 DEF SendsFromCallback, c1
  <2>2. 1 \in Nat /\ 1 <= PutReady
    BY <1>3, <1>7
  <2> QED
    BY <1>1, <1>2, <1>3, <2>1, <2>2, Sends
<1> QED
  BY <1>6, <1>7

\* A step of HTTPProcess.
LEMMA ProcessKeeps == ASSUME WebInv, HTTPProcess PROVE WebInv'
<1>1. CASE ReadsFormForEver
  <2>1. /\ UNCHANGED <<sm, curHTTPID, curHTTP, saved, visiting, processing, sock, client>>
        /\ stuck' = TRUE
    BY <1>1 DEF ReadsFormForEver, context
  <2> QED
    BY <2>1 DEF WebInv, Running, Record
<1> QED
  BY <1>1, StartKeeps, WaitKeeps, AskingKeeps, HeadersKeep, BodyKeeps, CallbackKeeps, DisconnectKeeps
     DEF HTTPProcess

\* The record of a connection that is loaded, and those of the others.
LEMMA Loads ==
  ASSUME WebInv, NEW c \in Conn, HTTPLoadConn(c), curHTTP' \in HttpConn
  PROVE  /\ saved' \in [Conn -> HttpConn] /\ curHTTPID' \in Conn
         /\ Record(c)' = curHTTP' /\ \A d \in Conn : d # c => Record(d)' = Record(d)
<1>1. Closed \in HttpConn
  BY DEF Closed, HttpConn, Statuses
<1>2. saved \in [Conn -> HttpConn] /\ curHTTP \in HttpConn /\ curHTTPID \in Conn
  BY DEF WebInv
<1>3. curHTTPID' = c
  BY DEF HTTPLoadConn
<1>4. CASE c = curHTTPID
  <2>1. saved' = saved
    BY <1>4 DEF HTTPLoadConn
  <2> QED
    BY <1>2, <1>3, <1>4, <2>1 DEF Record
<1>5. CASE c # curHTTPID
  <2>1. saved' = [[saved EXCEPT ![curHTTPID] = curHTTP] EXCEPT ![c] = Closed]
    BY <1>5 DEF HTTPLoadConn
  <2>2. saved' \in [Conn -> HttpConn]
        /\ \A d \in Conn : d # c => saved'[d] = (IF d = curHTTPID THEN curHTTP ELSE saved[d])
    BY <1>1, <1>2, <2>1
  <2> QED
    BY <1>3, <1>5, <2>2 DEF Record
<1> QED
  BY <1>4, <1>5

\* The visits.
LEMMA VisitKeeps ==
  ASSUME WebInv, NEW c \in Conn, Forgets(c) \/ Skips(c) \/ TakesUp(c)
  PROVE  WebInv'
<1> DEFINE k == sock[c]
           l == client[c]
<1>1. /\ ConnOK(sm[c], k, l, Record(c)) /\ k \in Socket /\ l \in Client
      /\ sock \in [Conn -> Socket] /\ client \in [Conn -> Client] /\ sm \in [Conn -> Places]
      /\ Record(c) \in HttpConn
  BY DEF WebInv, ConnOK
<1>2. NextConn(c) \in Conn
  BY HttpSizes
<1>3. CASE Skips(c)
  <2>1. UNCHANGED <<sm, curHTTPID, curHTTP, saved, processing, sock, client, stuck>>
        /\ visiting' = NextConn(c)
    BY <1>3 DEF Skips, context
  <2> QED
    BY <1>2, <2>1 DEF WebInv, Running, Record
<1>4. CASE TakesUp(c)
  <2>1. /\ HTTPLoadConn(c) /\ curHTTP' = Record(c) /\ processing' = TRUE /\ curHTTPID' = c
        /\ sm' = sm /\ visiting' = visiting /\ sock' = sock /\ client' = client /\ stuck' = stuck
        /\ ~k.wasReset /\ (sm[c] = "IDLE" => k.rx # << >>)
    BY <1>4 DEF TakesUp, HTTPLoadConn, TCPWasReset, NothingToDo
  <2>2. /\ saved' \in [Conn -> HttpConn] /\ curHTTPID' \in Conn
        /\ Record(c)' = Record(c) /\ \A d \in Conn : d # c => Record(d)' = Record(d)
    BY <1>1, <2>1, Loads
  <2>3. Running'
    BY <2>1 DEF Running
  <2> HIDE DEF k, l
  <2>4. /\ sm' \in [Conn -> Places] /\ sock' \in [Conn -> Socket] /\ client' \in [Conn -> Client]
        /\ curHTTP' \in HttpConn /\ visiting' \in Conn /\ processing' \in BOOLEAN
        /\ stuck' \in BOOLEAN
    BY <1>1, <2>1 DEF WebInv
  <2>5. ConnOK(sm'[c], sock'[c], client'[c], Record(c)')
    BY <1>1, <2>1, <2>2 DEF k, l
  <2>6. \A d \in Conn : d # c => /\ sm'[d] = sm[d] /\ sock'[d] = sock[d]
                                 /\ client'[d] = client[d] /\ Record(d)' = Record(d)
    BY <2>1, <2>2
  <2> QED
    BY <2>2, <2>3, <2>4, <2>5, <2>6, OneConn
<1>5. CASE Forgets(c)
  <2> DEFINE rest == IF k.rest = "rx" /\ k.rx # << >> THEN k.rest ELSE "both"
             lost == l.lost \/ k.tx > 0
             k2 == [[[k EXCEPT !.wasReset = FALSE] EXCEPT !.rest = rest] EXCEPT !.tx = 0]
             l2 == [l EXCEPT !.lost = lost]
  <2>1. sock' = [sock EXCEPT ![c] = k2]
    BY <1>1, <1>5 DEF Forgets
  <2>2. client' = [client EXCEPT ![c] = l2] /\ sm' = [sm EXCEPT ![c] = "IDLE"] /\ curHTTP' = Closed
        /\ HTTPLoadConn(c) /\ curHTTPID' = c /\ processing' = (k.rx # << >>) /\ stuck' = stuck
        /\ (visiting' = c \/ visiting' = NextConn(c)) /\ k.wasReset
    BY <1>1, <1>5 DEF Forgets, TxEmptied, CloseFiles, HTTPLoadConn, TCPWasReset
  <2>3. k.tx = 0 /\ rest \in {"both", "rx", "tx"} /\ 0 \in 0 .. TxFifo
    BY <1>1, <2>2, HttpSizes DEF ConnOK, SocketOK, Socket
  <2>4. lost = l.lost
    BY <1>1, <2>3 DEF Client
  <2> HIDE DEF rest, lost
  <2>5. /\ k2 \in Socket /\ k2.state = k.state /\ k2.wasReset = FALSE /\ k2.rx = k.rx /\ k2.tx = 0
    BY <1>1, <2>3 DEF Socket
  <2>6. /\ l2 \in Client /\ l2.answered = l.answered /\ l2.late = l.late /\ l2.lost = l.lost
        /\ l2.hungUp = l.hungUp
    BY <1>1, <2>4 DEF Client
  <2>7. Closed \in HttpConn /\ Closed.file = None /\ ~Closed.offsets
    BY DEF Closed, HttpConn, Statuses
  <2> HIDE DEF k, l, k2, l2
  <2>8. SocketOK("IDLE", k2)
    BY <1>1, <2>3, <2>5, HttpSizes DEF ConnOK, SocketOK
  <2>9. ClientOK("IDLE", k2, l2)
    BY <1>1, <2>3, <2>5, <2>6 DEF ConnOK, ClientOK
  <2>10. RecordOK("IDLE", k2, l2, Closed)
    BY <2>7 DEF RecordOK, Serving
  <2>11. ConnOK("IDLE", k2, l2, Closed)
    BY <2>5, <2>6, <2>7, <2>8, <2>9, <2>10 DEF ConnOK, Places
  <2>12. /\ saved' \in [Conn -> HttpConn] /\ curHTTPID' \in Conn
         /\ Record(c)' = Closed /\ \A d \in Conn : d # c => Record(d)' = Record(d)
    BY <2>2, <2>7, Loads
  <2>13. sm' \in [Conn -> Places] /\ sm'[c] = "IDLE" /\ \A d \in Conn : d # c => sm'[d] = sm[d]
    BY <1>1, <2>2 DEF Places
  <2>14. sock' \in [Conn -> Socket] /\ sock'[c] = k2 /\ \A d \in Conn : d # c => sock'[d] = sock[d]
    BY <1>1, <2>1, <2>5
  <2>15. client' \in [Conn -> Client] /\ client'[c] = l2
         /\ \A d \in Conn : d # c => client'[d] = client[d]
    BY <1>1, <2>2, <2>6
  <2>16. visiting' \in Conn /\ processing' \in BOOLEAN /\ stuck' \in BOOLEAN /\ curHTTP' \in HttpConn
    BY <1>2, <2>2, <2>7 DEF WebInv
  <2>17. Running'
    BY <2>2, <2>5, <2>13, <2>14 DEF Running
  <2>18. ConnOK(sm'[c], sock'[c], client'[c], Record(c)')
    BY <2>11, <2>12, <2>13, <2>14, <2>15
  <2>19. \A d \in Conn : d # c => /\ sm'[d] = sm[d] /\ sock'[d] = sock[d]
                                  /\ client'[d] = client[d] /\ Record(d)' = Record(d)
    BY <2>12, <2>13, <2>14, <2>15
  <2> QED
    BY <2>12, <2>13, <2>14, <2>15, <2>16, <2>17, <2>18, <2>19, OneConn
<1> QED
  BY <1>3, <1>4, <1>5

\* The invariant holds at the start and in every step.
LEMMA WebStarts == ASSUME HttpInit PROVE WebInv
<1> DEFINE k == Listening(TRUE)
<1>1. "both" \in {"both", "rx", "tx"} /\ TRUE \in BOOLEAN /\ "IDLE" \in Places /\ << >> \in Seq(Piece)
      /\ Len(<< >>) = 0
  BY DEF Places
<1>2. k \in Socket /\ k.wasReset /\ k.state = "listen" /\ k.rx = << >> /\ k.tx = 0
  BY <1>1, HttpSizes DEF Listening, Socket
<1>3. Closed \in HttpConn /\ Closed.file = None /\ ~Closed.offsets
  BY DEF Closed, HttpConn, Statuses
<1>4. /\ \A c \in Conn : sm[c] = "IDLE" /\ sock[c] = k /\ client[c] = Nobody /\ Record(c) = Closed
      /\ sm \in [Conn -> Places] /\ sock \in [Conn -> Socket] /\ client \in [Conn -> Client]
      /\ saved \in [Conn -> HttpConn] /\ curHTTP \in HttpConn
  BY <1>1, <1>2, <1>3, NobodyOK DEF HttpInit, Record
<1> HIDE DEF k
<1>5. ConnOK("IDLE", k, Nobody, Closed)
  BY <1>1, <1>2, <1>3, NobodyOK, HttpSizes DEF ConnOK, SocketOK, ClientOK, RecordOK, Serving
<1>6. \A c \in Conn : ConnOK(sm[c], sock[c], client[c], Record(c))
  BY <1>4, <1>5
<1>7. curHTTPID \in Conn /\ visiting \in Conn /\ processing = FALSE /\ stuck = FALSE
  BY HttpSizes DEF HttpInit
<1> QED
  BY <1>4, <1>6, <1>7 DEF WebInv, Running

\* Every step of the server, its clients and the stack.
LEMMA WebSteps == ASSUME WebInv, [HttpNext]_httpvars PROVE WebInv'
<1>1. CASE \E c \in Conn : Expires(c)
  <2>1. UNCHANGED <<sm, curHTTPID, curHTTP, saved, visiting, processing, sock, client, stuck>>
    BY <1>1 DEF Expires, server, context
  <2> QED
    BY <2>1 DEF WebInv, Running, Record
<1>2. CASE UNCHANGED httpvars
  BY <1>2 DEF httpvars, WebInv, Running, Record
<1> QED
  BY <1>1, <1>2, ProcessKeeps, VisitKeeps, StackKeeps DEF HttpNext, HTTPServer

\* So the connections are always as WebInv says.
LEMMA WebAlways == HttpSpec => []WebInv
<1> QED
  BY WebStarts, WebSteps, PTL DEF HttpSpec

\* AnswerIsWhole: no part of an answer is thrown away unless the client spoke again, or
\* the stack had hung up before the server did.
THEOREM AnswerAlwaysWhole == HttpSpec => []AnswerIsWhole
<1>1. WebInv => AnswerIsWhole
  BY DEF WebInv, ConnOK, ClientOK, AnswerIsWhole
<1> QED
  BY <1>1, WebAlways, PTL

\* What HTTPServer knows of a connection has its type, and the FIFOs do not overflow.
THEOREM HttpTypes == HttpSpec => []HttpTypeOK
<1>1. ASSUME WebInv PROVE HttpTypeOK
  <2>1. ASSUME NEW c \in Conn
        PROVE  /\ Len(sock[c].rx) <= RxFifo /\ sock[c].tx \in 0 .. TxFifo
               /\ Record(c).file \in File \cup {None} /\ Record(c).byteCount \in Nat
    BY <1>1 DEF WebInv, ConnOK, SocketOK, Socket, HttpConn
  <2> QED
    BY <1>1, <2>1 DEF WebInv, HttpTypeOK, Places
<1> QED
  BY <1>1, WebAlways, PTL

\* AnswerIsTheirs: what is put into the FIFO of a socket comes from the page that its
\* client asked for.
THEOREM AnswerAlwaysTheirs == HttpSpec => AnswerIsTheirs
<1> DEFINE Theirs == \A c \in Conn : sm[c] = "SERVE_BODY" /\ sock'[c].tx > sock[c].tx
                       => c = curHTTPID /\ curHTTP.file = client[c].asked
<1>1. ASSUME WebInv, [HttpNext]_httpvars PROVE Theirs
  <2> SUFFICES ASSUME NEW c \in Conn, sm[c] = "SERVE_BODY", sock'[c].tx > sock[c].tx
               PROVE  c = curHTTPID /\ curHTTP.file = client[c].asked
    OBVIOUS
  <2>1. /\ ConnOK(sm[c], sock[c], client[c], Record(c)) /\ sock \in [Conn -> Socket]
        /\ sock[c] \in Socket /\ sock[c].tx \in Nat /\ curHTTPID \in Conn
    BY <1>1, HttpSizes DEF WebInv, Socket
  <2>2. ~(sock[c].tx > sock[c].tx)
    BY <2>1
  <2>3. sock' # sock
    BY <2>2
  <2>4. ASSUME NEW d \in Conn, StackTask(d) PROVE FALSE
    <3>1. CASE d # c
      <4>1. sock'[c] = sock[c]
        BY <2>1, <2>4, <3>1 DEF StackTask, Connect, PieceArrives, Acknowledges, HalfCloses, StackHangsUp,
              SocketCloses
      <4> QED
        BY <2>2, <4>1
    <3>2. CASE d = c
      <4>1. ASSUME Connect(c) \/ PieceArrives(c) \/ HalfCloses(c) \/ StackHangsUp(c)
            PROVE  sock'[c].tx = sock[c].tx
        <5>1. CASE Connect(c) \/ HalfCloses(c) \/ StackHangsUp(c)
          <6>1. \E q : sock' = [sock EXCEPT ![c].state = q]
            BY <5>1 DEF Connect, HalfCloses, StackHangsUp
          <6> QED
            BY <2>1, <6>1 DEF Socket
        <5>2. CASE PieceArrives(c)
          <6>1. \E q : sock' = [sock EXCEPT ![c].rx = q]
            BY <5>2 DEF PieceArrives
          <6> QED
            BY <2>1, <6>1 DEF Socket
        <5> QED
          BY <4>1, <5>1, <5>2
      <4>2. ASSUME Acknowledges(c) PROVE sock'[c].tx = sock[c].tx - 1
        BY <2>1, <4>2 DEF Acknowledges, Socket
      <4>3. ASSUME SocketCloses(c) PROVE sock'[c].tx = 0
        BY <2>1, <4>3 DEF SocketCloses, Listening
      <4>4. sock[c].tx - 1 <= sock[c].tx /\ 0 <= sock[c].tx
        BY <2>1
      <4> QED
        BY <2>1, <2>2, <2>4, <3>2, <4>1, <4>2, <4>3, <4>4 DEF StackTask
    <3> QED
      BY <3>1, <3>2
  <2>5. ASSUME NEW d \in Conn, Forgets(d) PROVE FALSE
    <3>1. d # c => sock'[c] = sock[c]
      BY <2>1, <2>5 DEF Forgets
    <3>2. d = c => sock'[c].tx = 0
      BY <2>1, <2>5 DEF Forgets, Socket
    <3>3. ~(0 > sock[c].tx)
      BY <2>1
    <3> QED
      BY <2>2, <3>1, <3>2, <3>3
  <2>6. ASSUME HTTPProcess PROVE c = curHTTPID /\ curHTTP.file = client[c].asked
    <3>1. processing /\ \A d \in Conn : d # curHTTPID => sock'[d] = sock[d]
      <4>1. processing
        BY <2>6 DEF HTTPProcess, StartsRequest, WaitsForLine, RefusesRequest, RefusesName, OpensFile, ParsesHeader,
                Authenticates, WaitsForBody, ReadsForm, ReadsFormForEver, SkipsBody, ProcessesRequest,
                ServesHeaders, ServesBody, SendsFromCallback, Disconnects, In
      <4>2. sock \in [Conn -> Socket]
        BY <2>1
      <4>3. ASSUME NEW d \in Conn, d # curHTTPID PROVE sock'[d] = sock[d]
        <5>1. ASSUME TCPDisconnect(c1) PROVE sock'[d] = sock[d]
          BY <4>2, <4>3, <5>1 DEF TCPDisconnect, c1
        <5>2. ASSUME WaitsForLine \/ Disconnects PROVE sock'[d] = sock[d]
          BY <5>1, <5>2 DEF WaitsForLine, NoLine, TimesOut, Disconnects
        <5>3. ASSUME StartsRequest \/ ServesHeaders \/ ServesBody PROVE sock'[d] = sock[d]
          BY <4>2, <4>3, <5>3 DEF StartsRequest, ServesHeaders, ServesBody, c1
        <5>4. ASSUME ReadsForm \/ SendsFromCallback PROVE sock'[d] = sock[d]
          BY <4>2, <4>3, <5>4 DEF ReadsForm, SendsFromCallback, c1
        <5>5. ASSUME OpensFile \/ ParsesHeader PROVE sock'[d] = sock[d]
          BY <4>2, <4>3, <5>5 DEF OpensFile, ParsesHeader, TakesLine, c1
        <5>6. ASSUME \/ RefusesRequest \/ RefusesName \/ Authenticates \/ WaitsForBody
                     \/ ReadsFormForEver \/ SkipsBody \/ ProcessesRequest
              PROVE  sock'[d] = sock[d]
          BY <5>6 DEF RefusesRequest, RefusesName, Authenticates, WaitsForBody, ReadsFormForEver, SkipsBody,
                      ProcessesRequest
        <5> QED
          BY <2>6, <5>2, <5>3, <5>4, <5>5, <5>6 DEF HTTPProcess
      <4> QED
        BY <4>1, <4>3
    <3>2. c = curHTTPID
      BY <2>1, <2>2, <3>1
    <3>3. ~sock[c].wasReset
      BY <1>1, <3>1, <3>2 DEF WebInv, Running
    <3> QED
      BY <2>1, <3>2, <3>3 DEF ConnOK, RecordOK, Serving, Record
  <2>7. \A d \in Conn : ~Skips(d) /\ ~TakesUp(d) /\ ~Expires(d)
    BY <2>3 DEF Skips, TakesUp, Expires
  <2> QED
    BY <1>1, <2>3, <2>4, <2>5, <2>6, <2>7 DEF HttpNext, HTTPServer, httpvars
<1> HIDE DEF Theirs
<1>2. HttpSpec => [][Theirs]_httpvars
  BY <1>1, WebAlways, PTL DEF HttpSpec
<1> QED
  BY <1>2 DEF AnswerIsTheirs, Theirs

-----------------------------------------------------------------------------
\* Whether a dynamic variable is still to come in the file from pos on.
Variables(r, pos) == \E j \in pos .. Len(Content[r.file]) : Content[r.file][j] = "var"
\* Which handles a connection in state s with record r holds.
FilesOK(s, r) ==
  /\ s \in {"IDLE", "PARSE_REQUEST"} => r.file = None /\ ~r.offsets
  /\ s \in Asking /\ r.file # None => (r.offsets <=> Variables(r, 1))
  /\ s = "SERVE_HEADERS" /\ r.status \in {"GET", "POST"} => r.at = 1
  /\ s \in Serving => (r.offsets <=> Variables(r, r.at))
\* That for all connections.
FilesInv == \A c \in Conn : FilesOK(sm[c], Record(c))
\* The handles each connection uses.
Uses == [c \in Conn |-> Used(Record(c))]
\* f adds them up, connection by connection.
Sums(f, u) ==
  /\ f \in [0 .. Connections -> Int] /\ f[0] = 0
  /\ \A k \in 1 .. Connections : f[k] = u[k] + f[k - 1]
\* The handles in use are the sum.
SumInv == \E f : Sums(f, Uses) /\ handles = f[Connections]

\* A sum of which one term changes.
LEMMA OneTerm ==
  ASSUME NEW u \in [Conn -> Int], NEW v \in [Conn -> Int], NEW c \in Conn,
         \A d \in Conn : d # c => v[d] = u[d],
         NEW f, Sums(f, u)
  PROVE  \E g : Sums(g, v) /\ g[Connections] = f[Connections] + (v[c] - u[c])
<1> DEFINE diff == v[c] - u[c]
           g == [k \in 0 .. Connections |-> IF k < c THEN f[k] ELSE f[k] + diff]
<1>1. diff \in Int /\ c \in 1 .. Connections /\ c \in Nat /\ v[c] = u[c] + diff /\ v[c] \in Int
      /\ u[c] \in Int
  <2>1. v[c] \in Int /\ u[c] \in Int /\ c \in 1 .. Connections
    BY DEF Conn
  <2> QED
    BY <2>1, HttpSizes
<1>2. f \in [0 .. Connections -> Int] /\ f[0] = 0
      /\ \A k \in 1 .. Connections : f[k] = u[k] + f[k - 1]
  BY DEF Sums
<1> HIDE DEF diff
<1>3. g \in [0 .. Connections -> Int]
  BY <1>1, <1>2
<1>4. g[0] = 0 /\ g[Connections] = f[Connections] + diff
  BY <1>1, <1>2, HttpSizes
<1>5. ASSUME NEW k \in 1 .. Connections PROVE g[k] = v[k] + g[k - 1]
  <2>1. k \in Conn /\ k \in 0 .. Connections /\ k - 1 \in 0 .. Connections /\ k \in Int
    BY HttpSizes DEF Conn
  <2>2. f[k] = u[k] + f[k - 1] /\ f[k] \in Int /\ f[k - 1] \in Int /\ u[k] \in Int
    BY <1>2, <2>1
  <2>3. g[k] = (IF k < c THEN f[k] ELSE f[k] + diff)
        /\ g[k - 1] = (IF k - 1 < c THEN f[k - 1] ELSE f[k - 1] + diff)
    BY <2>1
  <2> HIDE DEF g
  <2>4. CASE k = c
    <3>1. k - 1 < c /\ ~(k < c)
      BY <1>1, <2>4
    <3>2. g[k] = f[k] + diff /\ g[k - 1] = f[k - 1] /\ v[k] = u[k] + diff
      BY <1>1, <2>3, <2>4, <3>1
    <3> QED
      BY <1>1, <2>2, <3>2
  <2>5. CASE k < c
    <3>1. k - 1 < c /\ k # c
      BY <1>1, <2>1, <2>5
    <3>2. g[k] = f[k] /\ g[k - 1] = f[k - 1] /\ v[k] = u[k]
      BY <2>1, <2>3, <2>5, <3>1
    <3> QED
      BY <2>2, <3>2
  <2>6. CASE k > c
    <3>1. ~(k - 1 < c) /\ ~(k < c) /\ k # c
      BY <1>1, <2>1, <2>6
    <3>2. g[k] = f[k] + diff /\ g[k - 1] = f[k - 1] + diff /\ v[k] = u[k]
      BY <2>1, <2>3, <3>1
    <3> QED
      BY <1>1, <2>2, <3>2
  <2> QED
    BY <1>1, <2>1, <2>4, <2>5, <2>6
<1> HIDE DEF g
<1> QED
  BY <1>3, <1>4, <1>5 DEF Sums, diff

\* What a connection uses.
LEMMA UsesTyped ==
  ASSUME WebInv PROVE Uses \in [Conn -> Int] /\ \A c \in Conn : Uses[c] = Used(Record(c))
BY DEF Uses, Used

\* The number of handles of a record.
LEMMA UsedIsInt == ASSUME NEW r PROVE Used(r) \in Int
BY DEF Used

\* A step in which the files of one connection are opened or closed.
LEMMA OneUser ==
  ASSUME WebInv, FilesInv, SumInv, NEW c \in Conn,
         \A d \in Conn : d # c => sm'[d] = sm[d] /\ Record(d)' = Record(d),
         FilesOK(sm'[c], Record(c)'), handles' = handles + (Used(Record(c)') - Used(Record(c)))
  PROVE  FilesInv' /\ SumInv'
<1>1. FilesInv'
  BY DEF FilesInv
<1>2. PICK f : Sums(f, Uses) /\ handles = f[Connections]
  BY DEF SumInv
<1> DEFINE u == Uses
           v == Uses'
<1>3. u \in [Conn -> Int] /\ v \in [Conn -> Int]
  BY UsedIsInt DEF Uses
<1>4. u[c] = Used(Record(c)) /\ v[c] = Used(Record(c)')
      /\ \A d \in Conn : d # c => v[d] = u[d]
  BY DEF Uses, Used
<1>5. Sums(f, u)
  BY <1>2
<1> HIDE DEF u, v
<1>6. \E g : Sums(g, v) /\ g[Connections] = f[Connections] + (v[c] - u[c])
  BY <1>3, <1>4, <1>5, OneTerm
<1>7. \E g : Sums(g, v) /\ handles' = g[Connections]
  BY <1>2, <1>4, <1>6
<1> QED
  BY <1>1, <1>7 DEF SumInv, v

\* A step in which none are.
LEMMA NoUser ==
  ASSUME WebInv, FilesInv, SumInv, handles' = handles,
         \A d \in Conn : sm'[d] = sm[d] /\ Record(d)' = Record(d)
  PROVE  FilesInv' /\ SumInv'
<1>1. 1 \in Conn
  BY HttpSizes
<1>2. FilesOK(sm[1], Record(1)) /\ sm'[1] = sm[1] /\ Record(1)' = Record(1)
  BY <1>1 DEF FilesInv
<1>3. FilesOK(sm'[1], Record(1)')
  BY <1>2
<1>4. handles \in Int /\ Used(Record(1)') - Used(Record(1)) = 0
  <2>1. PICK f : Sums(f, Uses) /\ handles = f[Connections]
    BY DEF SumInv
  <2>2. handles \in Int
    BY <2>1, HttpSizes DEF Sums
  <2>3. Used(Record(1)) \in Int /\ Used(Record(1)') = Used(Record(1))
    BY <1>2, UsedIsInt
  <2> QED
    BY <2>2, <2>3
<1> QED
  BY <1>1, <1>3, <1>4, OneUser

\* A step of HTTPProcess.
LEMMA ProcessUser ==
  ASSUME WebInv, FilesInv, SumInv, NEW s, Goes(s) \/ Returns(s), FilesOK(s, curHTTP'),
         handles' = handles + (Used(curHTTP') - Used(curHTTP))
  PROVE  FilesInv' /\ SumInv'
<1>0. curHTTPID \in Conn
  BY DEF WebInv
<1> SUFFICES ASSUME NEW c \in Conn, c = curHTTPID PROVE FilesInv' /\ SumInv'
  BY <1>0
<1>1. sm \in [Conn -> Places]
  BY DEF WebInv
<1>2. sm' = [sm EXCEPT ![c] = s] /\ curHTTPID' = c /\ saved' = saved
  BY GoesOn
<1>3. sm'[c] = s /\ \A d \in Conn : d # c => sm'[d] = sm[d]
  BY <1>1, <1>2
<1>4. Record(c) = curHTTP /\ Record(c)' = curHTTP'
      /\ \A d \in Conn : d # c => Record(d)' = Record(d)
  BY <1>2 DEF Record
<1>5. \A d \in Conn : d # c => sm'[d] = sm[d] /\ Record(d)' = Record(d)
  BY <1>3, <1>4
<1>6. FilesOK(sm'[c], Record(c)')
  BY <1>3, <1>4
<1>7. handles' = handles + (Used(Record(c)') - Used(Record(c)))
  BY <1>4
<1> QED
  BY <1>5, <1>6, <1>7, OneUser

\* A step of it that neither opens nor closes a file.
LEMMA KeepsFiles ==
  ASSUME WebInv, FilesInv, SumInv, NEW s, Goes(s) \/ Returns(s),
         handles' = handles, curHTTP'.file = curHTTP.file, curHTTP'.offsets = curHTTP.offsets,
         FilesOK(s, curHTTP')
  PROVE  FilesInv' /\ SumInv'
<1>1. Used(curHTTP) \in Int /\ Used(curHTTP') = Used(curHTTP)
  BY DEF Used
<1>2. handles \in Int
  <2>1. PICK f : Sums(f, Uses) /\ handles = f[Connections]
    BY DEF SumInv
  <2> QED
    BY <2>1, HttpSizes DEF Sums
<1>3. handles' = handles + (Used(curHTTP') - Used(curHTTP))
  BY <1>1, <1>2
<1> QED
  BY <1>3, ProcessUser

\* Which steps of HTTPProcess leave the files alone.
LEMMA QuietSteps ==
  ASSUME WebInv, FilesInv, SumInv,
         \/ StartsRequest \/ WaitsForLine \/ RefusesRequest \/ RefusesName \/ ParsesHeader
         \/ Authenticates
         \/ WaitsForBody \/ ReadsForm \/ SkipsBody \/ ProcessesRequest \/ ServesHeaders
         \/ SendsFromCallback
  PROVE  FilesInv' /\ SumInv'
<1> DEFINE f == curHTTP.file
           o == curHTTP.offsets
           Now == FilesOK(sm[curHTTPID], curHTTP)
           Then(s, r) == /\ Goes(s) \/ Returns(s)
                         /\ curHTTP' = r /\ r.file = f /\ r.offsets = o /\ FilesOK(s, r)
           InRequest == /\ f # None => (o <=> Variables(curHTTP, 1))
<1>1. Now /\ curHTTP \in HttpConn
      /\ RecordOK(sm[curHTTPID], sock[curHTTPID], client[curHTTPID], curHTTP)
  <2>1. curHTTPID \in Conn /\ Record(curHTTPID) = curHTTP /\ curHTTP \in HttpConn
    BY DEF WebInv, Record
  <2> QED
    BY <2>1 DEF FilesInv, WebInv, ConnOK
<1>2. \A r : r.file = f /\ r.offsets = o => (Variables(r, 1) <=> Variables(curHTTP, 1))
  BY DEF Variables
<1>3. ASSUME NEW s \in Asking, s # "PARSE_REQUEST", NEW r, r.file = f, r.offsets = o, InRequest,
             s = "SERVE_HEADERS" => r.status \notin {"GET", "POST"} \/ r.at = 1
      PROVE  FilesOK(s, r)
  BY <1>2, <1>3 DEF FilesOK, Asking
<1>4. sm[curHTTPID] \in Asking => InRequest
  BY <1>1 DEF FilesOK
<1>5. /\ {"PARSE_HEADERS", "AUTHENTICATE", "PROCESS_POST", "PROCESS_REQUEST", "SERVE_HEADERS"}
           \subseteq Asking \ {"PARSE_REQUEST"}
      /\ "PARSE_REQUEST" \in Asking
  BY DEF Asking, Places, Serving
<1> HIDE DEF InRequest
<1>6. ASSUME NEW s, NEW r, Then(s, r), handles' = handles PROVE FilesInv' /\ SumInv'
  BY <1>6, KeepsFiles
<1>7. CASE StartsRequest
  <2> DEFINE r == [[curHTTP EXCEPT !.authorized = TRUE] EXCEPT !.byteCount = 0]
  <2>1. sm[curHTTPID] = "IDLE" /\ Goes("PARSE_REQUEST") /\ curHTTP' = r /\ handles' = handles
    BY <1>7 DEF StartsRequest, In, c1
  <2>2. r.file = f /\ r.offsets = o
    BY <1>1 DEF HttpConn
  <2>3. f = None /\ ~o
    BY <1>1, <2>1 DEF FilesOK
  <2> HIDE DEF r
  <2>4. FilesOK("PARSE_REQUEST", r)
    BY <2>2, <2>3 DEF FilesOK, Serving
  <2> QED
    BY <1>6, <2>1, <2>2, <2>4
<1>8. ASSUME NEW status \in Statuses \ {"GET", "POST"}, Answer(status), sm[curHTTPID] \in Asking,
             handles' = handles
      PROVE  FilesInv' /\ SumInv'
  <2> DEFINE r == [curHTTP EXCEPT !.status = status]
  <2>1. Goes("SERVE_HEADERS") /\ curHTTP' = r
    BY <1>8 DEF Answer
  <2>2. r.file = f /\ r.offsets = o /\ r.status \notin {"GET", "POST"}
    BY <1>1, <1>8 DEF HttpConn
  <2> HIDE DEF r
  <2>3. FilesOK("SERVE_HEADERS", r)
    BY <1>3, <1>4, <1>5, <1>8, <2>2
  <2> QED
    BY <1>6, <1>8, <2>1, <2>2, <2>3
<1>9. CASE WaitsForLine
  <2> DEFINE p == sm[curHTTPID]
  <2>1. p \in {"PARSE_REQUEST", "PARSE_HEADERS"} /\ handles' = handles
        /\ \/ Goes("DISCONNECT") /\ curHTTP' = curHTTP
           \/ Answer("overflow")
           \/ Returns(p) /\ curHTTP' = curHTTP
    BY <1>9 DEF WaitsForLine, In, c1, NoLine, TimesOut
  <2>2. FilesOK("DISCONNECT", curHTTP)
    BY DEF FilesOK, Asking, Serving
  <2>3. FilesOK(p, curHTTP)
    BY <1>1
  <2>4. "overflow" \in Statuses \ {"GET", "POST"} /\ p \in Asking
    BY <1>5, <2>1 DEF Statuses
  <2> QED
    BY <1>6, <1>8, <2>1, <2>2, <2>3, <2>4
<1>10. CASE RefusesRequest
  <2>1. sm[curHTTPID] = "PARSE_REQUEST" /\ Answer("not implemented") /\ handles' = handles
    BY <1>10 DEF RefusesRequest, In, c1
  <2>2. "not implemented" \in Statuses \ {"GET", "POST"}
    BY DEF Statuses
  <2> QED
    BY <1>5, <1>8, <2>1, <2>2
<1>17. CASE RefusesName
  <2>1. sm[curHTTPID] = "PARSE_REQUEST" /\ Answer("overflow") /\ handles' = handles
    BY <1>17 DEF RefusesName, In, c1
  <2>2. "overflow" \in Statuses \ {"GET", "POST"}
    BY DEF Statuses
  <2> QED
    BY <1>5, <1>8, <2>1, <2>2
<1>11. CASE ParsesHeader
  <2> DEFINE s == IF Line.kind = "end" THEN "AUTHENTICATE" ELSE "PARSE_HEADERS"
             a == curHTTP.authorized \/ (Line.kind = "password" /\ Line.right)
             n == CASE Line.kind = "length" -> Line.n [] Line.kind = "overlength" -> 0
                    [] OTHER -> curHTTP.byteCount
             status == IF Line.kind = "overlength" THEN "bad request" ELSE curHTTP.status
             r == [[[curHTTP EXCEPT !.status = status] EXCEPT !.authorized = a] EXCEPT !.byteCount = n]
  <2>1. sm[curHTTPID] = "PARSE_HEADERS" /\ Goes(s) /\ curHTTP' = r /\ handles' = handles
    BY <1>11 DEF ParsesHeader, In, c1
  <2> HIDE DEF a, n, status
  <2>2. r.file = f /\ r.offsets = o
    BY <1>1 DEF HttpConn
  <2>3. s \in Asking \ {"PARSE_REQUEST"} /\ s # "SERVE_HEADERS"
    BY <1>5
  <2> HIDE DEF r, s
  <2>4. FilesOK(s, r)
    BY <1>3, <1>4, <1>5, <2>1, <2>2, <2>3
  <2> QED
    BY <1>6, <2>1, <2>2, <2>4
<1>12. CASE Authenticates
  <2>1. sm[curHTTPID] = "AUTHENTICATE" /\ handles' = handles
        /\ ((Goes("PROCESS_POST") /\ curHTTP' = curHTTP) \/ Answer("unauthorized"))
    BY <1>12 DEF Authenticates, In, c1
  <2>2. "unauthorized" \in Statuses \ {"GET", "POST"}
    BY DEF Statuses
  <2>3. FilesOK("PROCESS_POST", curHTTP)
    BY <1>3, <1>4, <1>5, <2>1
  <2> QED
    BY <1>5, <1>6, <1>8, <2>1, <2>2, <2>3
<1>13. CASE WaitsForBody \/ ReadsForm \/ SkipsBody
  <2>1. sm[curHTTPID] = "PROCESS_POST" /\ handles' = handles /\ curHTTP' = curHTTP
        /\ (Goes("PROCESS_REQUEST") \/ Returns("PROCESS_POST"))
    BY <1>13 DEF WaitsForBody, ReadsForm, SkipsBody, In, c1
  <2>2. FilesOK("PROCESS_POST", curHTTP) /\ FilesOK("PROCESS_REQUEST", curHTTP)
    BY <1>3, <1>4, <1>5, <2>1
  <2> QED
    BY <1>6, <2>1, <2>2
<1>14. CASE ProcessesRequest
  <2> DEFINE r == [[curHTTP EXCEPT !.byteCount = 0] EXCEPT !.at = 1]
  <2>1. sm[curHTTPID] = "PROCESS_REQUEST" /\ handles' = handles
        /\ ((Goes("SERVE_HEADERS") /\ curHTTP' = r) \/ Answer("not found"))
    BY <1>14 DEF ProcessesRequest, In, c1
  <2>2. "not found" \in Statuses \ {"GET", "POST"}
    BY DEF Statuses
  <2>3. r.file = f /\ r.offsets = o /\ r.at = 1
    BY <1>1 DEF HttpConn
  <2> HIDE DEF r
  <2>4. FilesOK("SERVE_HEADERS", r)
    BY <1>3, <1>4, <1>5, <2>1, <2>3
  <2> QED
    BY <1>5, <1>6, <1>8, <2>1, <2>2, <2>3, <2>4
<1>15. CASE ServesHeaders
  <2> DEFINE s == IF curHTTP.status \in {"GET", "POST"} THEN "SERVE_BODY" ELSE "DISCONNECT"
  <2>1. sm[curHTTPID] = "SERVE_HEADERS" /\ handles' = handles /\ curHTTP' = curHTTP
        /\ (Goes(s) \/ Returns(s))
    BY <1>15 DEF ServesHeaders, In, c1
  <2>2. InRequest
    BY <1>4, <1>5, <2>1
  <2>3. s = "SERVE_BODY" => f # None /\ curHTTP.at = 1
    BY <1>1, <2>1 DEF RecordOK, FilesOK
  <2>4. s \in {"SERVE_BODY", "DISCONNECT"}
    OBVIOUS
  <2> HIDE DEF s
  <2>5. FilesOK(s, curHTTP)
    BY <2>2, <2>3, <2>4 DEF FilesOK, Asking, Serving, InRequest
  <2> QED
    BY <1>6, <2>1, <2>5
<1>16. CASE SendsFromCallback
  <2>1. sm[curHTTPID] = "SEND_FROM_CALLBACK" /\ handles' = handles /\ curHTTP' = curHTTP
        /\ (Goes("SERVE_BODY") \/ Returns("SEND_FROM_CALLBACK"))
    BY <1>16 DEF SendsFromCallback, In, c1
  <2>2. FilesOK("SERVE_BODY", curHTTP) /\ FilesOK("SEND_FROM_CALLBACK", curHTTP)
    BY <1>1, <2>1 DEF FilesOK, Asking, Serving
  <2> QED
    BY <1>6, <2>1, <2>2
<1> QED
  BY <1>7, <1>9, <1>10, <1>11, <1>12, <1>13, <1>14, <1>15, <1>16, <1>17

\* The handles are a number.
LEMMA HandlesInt == ASSUME SumInv PROVE handles \in Int
<1>1. PICK f : Sums(f, Uses) /\ handles = f[Connections]
  BY DEF SumInv
<1> QED
  BY <1>1, HttpSizes DEF Sums

\* The file and its index are opened.
LEMMA OpensKeeps ==
  ASSUME WebInv, FilesInv, SumInv, OpensFile PROVE FilesInv' /\ SumInv'
<1> DEFINE page == Line.page
           there == page \in File
           index == there /\ \E pos \in DOMAIN Content[page] : Content[page][pos] = "var"
           status == IF Line.overlong = "arguments" THEN "overflow" ELSE Line.method
           file == IF there THEN page ELSE None
           offsets == IF index THEN TRUE ELSE curHTTP.offsets
           a == page \notin Protected
           r == [[[[curHTTP EXCEPT !.status = status] EXCEPT !.file = file]
                    EXCEPT !.offsets = offsets] EXCEPT !.authorized = a]
           s == IF Line.overlong = "arguments" THEN "SERVE_HEADERS" ELSE "PARSE_HEADERS"
           more == (IF there THEN 1 ELSE 0) + (IF index THEN 1 ELSE 0)
<1>1. sm[curHTTPID] = "PARSE_REQUEST" /\ Goes(s) /\ curHTTP' = r
  BY DEF OpensFile, In, c1
<1>2. handles' = handles + (IF there THEN 1 ELSE 0) + (IF index THEN 1 ELSE 0)
  BY DEF OpensFile
<1>3. curHTTP.file = None /\ ~curHTTP.offsets /\ curHTTP \in HttpConn
  <2>1. curHTTPID \in Conn /\ Record(curHTTPID) = curHTTP /\ curHTTP \in HttpConn
    BY DEF WebInv, Record
  <2> QED
    BY <1>1, <2>1 DEF FilesInv, FilesOK
<1>4. page \in File => Len(Content[page]) \in Nat /\ DOMAIN Content[page] = 1 .. Len(Content[page])
  BY HttpAssumption
<1>5. (offsets <=> index) /\ (index => there) /\ (file # None <=> there) /\ (there => file = page)
  BY <1>3, HttpAssumption
<1>6. there => (index <=> \E j \in 1 .. Len(Content[page]) : Content[page][j] = "var")
  BY <1>4
<1>7. r.file = file /\ r.offsets = offsets /\ r.status = status
  BY <1>3 DEF HttpConn
<1>8. status = "overflow" \/ s = "PARSE_HEADERS"
  OBVIOUS
<1>9. s \in {"SERVE_HEADERS", "PARSE_HEADERS"}
  OBVIOUS
<1>10. handles \in Int
  BY HandlesInt
<1> HIDE DEF page, index, there, status, file, offsets, a, r, s
<1>11. FilesOK(s, r)
  <2>1. file # None => (offsets <=> Variables(r, 1))
    BY <1>5, <1>6, <1>7 DEF Variables
  <2> QED
    BY <1>7, <1>8, <1>9, <2>1 DEF FilesOK, Serving
<1>12. Used(curHTTP) = 0 /\ Used(r) = (IF there THEN 1 ELSE 0) + (IF index THEN 1 ELSE 0)
  BY <1>3, <1>5, <1>7 DEF Used
<1>13. handles' = handles + (Used(r) - Used(curHTTP))
  <2> DEFINE x == IF there THEN 1 ELSE 0
             y == IF index THEN 1 ELSE 0
  <2>1. x \in Int /\ y \in Int /\ Used(r) = x + y /\ handles' = handles + x + y
    BY <1>2, <1>12
  <2> HIDE DEF x, y
  <2> QED
    BY <1>10, <1>12, <2>1
<1> QED
  BY <1>1, <1>11, <1>13, ProcessUser

\* The body is served: the index is closed behind the last variable, the file at its end.
LEMMA BodyFiles ==
  ASSUME WebInv, FilesInv, SumInv, ServesBody PROVE FilesInv' /\ SumInv'
<1> DEFINE content == Content[curHTTP.file]
           len == Len(content)
           Fits(m) == TextFrom(content, curHTTP.at, m)
           n == CHOOSE m \in 0 .. PutReady : Fits(m) /\ (m = PutReady \/ ~Fits(m + 1))
           at == curHTTP.at + n
           var == at <= Len(content) /\ content[at] = "var"
           last == var /\ \A j \in at + 1 .. Len(content) : content[j] # "var"
           eof == at > Len(content) /\ n < PutReady
           s == CASE eof -> "DISCONNECT" [] var -> "SEND_FROM_CALLBACK" [] OTHER -> "SERVE_BODY"
           file == IF eof THEN None ELSE curHTTP.file
           offsets == curHTTP.offsets /\ ~last
           next == IF var THEN at + 1 ELSE at
           r == [[[curHTTP EXCEPT !.at = next] EXCEPT !.offsets = offsets] EXCEPT !.file = file]
           more(pos) == \E j \in pos .. len : content[j] = "var"
<1>1. In("SERVE_BODY") /\ curHTTP' = r /\ (Goes(s) \/ Returns(s))
      /\ handles' = (IF eof \/ last THEN handles - 1 ELSE handles)
  BY DEF ServesBody
<1>2. "SERVE_BODY" \in Serving
  BY DEF Serving
<1>3. /\ curHTTP \in HttpConn /\ curHTTP.file \in File /\ len \in Nat /\ curHTTP.at \in 1 .. len + 1
      /\ PutReady \in Nat
  BY <1>1, <1>2, ServingFile
<1>4. curHTTP.offsets <=> more(curHTTP.at)
  <2>1. curHTTPID \in Conn /\ Record(curHTTPID) = curHTTP /\ sm[curHTTPID] = "SERVE_BODY"
    BY <1>1 DEF WebInv, Record, In, c1
  <2>2. FilesOK("SERVE_BODY", curHTTP)
    BY <2>1 DEF FilesInv
  <2>3. curHTTP.offsets <=> Variables(curHTTP, curHTTP.at)
    BY <1>2, <2>2 DEF FilesOK
  <2> QED
    BY <2>3 DEF Variables
<1>5. \E m \in 0 .. PutReady : Fits(m) /\ (m = PutReady \/ ~Fits(m + 1))
  <2> HIDE DEF content
  <2> QED
    BY <1>3, LongestText
<1>6. n \in 0 .. PutReady /\ Fits(n)
  <2> HIDE DEF Fits
  <2> QED
    BY <1>5, Zenon DEF n
<1> HIDE DEF n
<1>7. /\ n \in Nat /\ at - 1 <= len /\ at \in 1 .. len + 1
      /\ \A j \in curHTTP.at .. at - 1 : content[j] = "text"
  <2>1. n \in Nat /\ curHTTP.at + n - 1 <= len
        /\ \A j \in curHTTP.at .. curHTTP.at + n - 1 : content[j] = "text"
    BY <1>3, <1>6 DEF TextFrom
  <2>2. curHTTP.at + n - 1 = at - 1 /\ at \in 1 .. len + 1
    <3> HIDE DEF len
    <3> QED
      BY <1>3, <2>1
  <2> HIDE DEF at
  <2> QED
    BY <2>1, <2>2
<1>8. curHTTP.at <= at /\ curHTTP.at \in Int /\ at \in Int
  <2> HIDE DEF len
  <2> QED
    BY <1>3, <1>7
<1> HIDE DEF content, at
<1>9. more(curHTTP.at) <=> more(at)
  <2>1. ASSUME NEW j \in curHTTP.at .. len, content[j] = "var" PROVE j \in at .. len
    <3>1. ~(j \in curHTTP.at .. at - 1)
      BY <1>7, <2>1
    <3> HIDE DEF len
    <3> QED
      BY <1>3, <1>8, <2>1, <3>1
  <2>2. \A j \in at .. len : j \in curHTTP.at .. len
    <3> HIDE DEF len
    <3> QED
      BY <1>3, <1>8
  <2> HIDE DEF len
  <2> QED
    BY <2>1, <2>2
<1>10. var => more(at)
  <2>1. var => at \in at .. len
    BY <1>3, <1>7
  <2> QED
    BY <2>1
<1>11. var => (last <=> ~more(at + 1))
  OBVIOUS
<1>12. eof => ~more(at) /\ ~var
  BY <1>3, <1>7
<1>13. last => var
  OBVIOUS
<1>14. (eof => s = "DISCONNECT") /\ (s = "SERVE_BODY" => ~var) /\ (s = "SEND_FROM_CALLBACK" => var)
       /\ (~eof => s \in Serving) /\ s \in Serving \cup {"DISCONNECT"}
  <2> HIDE DEF eof, var
  <2> QED
    BY <1>12 DEF Serving
<1>15. r.file = file /\ r.offsets = offsets /\ r.at = next
  <2> HIDE DEF next, file, offsets
  <2> QED
    BY <1>3 DEF HttpConn
<1>16. next = IF var THEN at + 1 ELSE at
  OBVIOUS
<1>17. (eof => file = None) /\ (~eof => file = curHTTP.file) /\ (offsets <=> curHTTP.offsets /\ ~last)
  OBVIOUS
<1> HIDE DEF var, last, eof, s, file, offsets, next, r, more
<1>18. offsets <=> more(next)
  <2>1. CASE var
    BY <1>4, <1>9, <1>10, <1>11, <1>16, <1>17, <2>1
  <2>2. CASE ~var
    BY <1>4, <1>9, <1>13, <1>16, <1>17, <2>2
  <2> QED
    BY <2>1, <2>2
<1>19. FilesOK(s, r)
  <2>1. ~eof => (r.offsets <=> Variables(r, r.at))
    BY <1>15, <1>17, <1>18 DEF Variables, more, content
  <2>2. s \in Serving => ~eof
    BY <1>14 DEF Serving
  <2> QED
    BY <1>14, <2>1, <2>2 DEF FilesOK, Asking, Serving
<1>20. curHTTP.file # None /\ handles \in Int
  BY <1>3, HandlesInt, HttpAssumption
<1>21. handles' = handles + (Used(r) - Used(curHTTP))
  <2>1. CASE eof
    <3>1. ~curHTTP.offsets /\ ~r.offsets /\ r.file = None
      BY <1>4, <1>9, <1>12, <1>15, <1>17, <2>1
    <3>2. Used(curHTTP) = 1 /\ Used(r) = 0 /\ handles' = handles - 1
      BY <1>1, <1>20, <2>1, <3>1 DEF Used
    <3> QED
      BY <1>20, <3>2
  <2>2. CASE ~eof /\ last
    <3>1. curHTTP.offsets /\ ~r.offsets /\ r.file = curHTTP.file
      BY <1>4, <1>9, <1>10, <1>13, <1>15, <1>17, <2>2
    <3>2. Used(curHTTP) = 2 /\ Used(r) = 1 /\ handles' = handles - 1
      BY <1>1, <1>20, <2>2, <3>1 DEF Used
    <3> QED
      BY <1>20, <3>2
  <2>3. CASE ~eof /\ ~last
    <3>1. (curHTTP.offsets <=> r.offsets) /\ r.file = curHTTP.file
      BY <1>15, <1>17, <2>3
    <3>2. Used(curHTTP) = Used(r) /\ handles' = handles /\ Used(r) \in Int
      BY <1>1, <2>3, <3>1 DEF Used
    <3> QED
      BY <1>20, <3>2
  <2> QED
    BY <2>1, <2>2, <2>3
<1> QED
  BY <1>1, <1>19, <1>21, ProcessUser

\* A step of HTTPProcess.
LEMMA ProcessFiles ==
  ASSUME WebInv, FilesInv, SumInv, HTTPProcess PROVE FilesInv' /\ SumInv'
<1>1. CASE Disconnects
  <2>1. Returns("IDLE") /\ curHTTP' = Closed /\ handles' = handles - Used(curHTTP)
    BY <1>1 DEF Disconnects, CloseFiles
  <2>2. FilesOK("IDLE", Closed) /\ Used(Closed) = 0
    BY DEF FilesOK, Closed, Asking, Serving, Used
  <2>3. handles' = handles + (Used(Closed) - Used(curHTTP))
    BY <2>1, <2>2, HandlesInt, UsedIsInt
  <2> QED
    BY <2>1, <2>2, <2>3, ProcessUser
<1>2. CASE ReadsFormForEver
  <2>1. UNCHANGED <<sm, curHTTPID, curHTTP, saved, handles>>
    BY <1>2 DEF ReadsFormForEver, context
  <2> QED
    BY <2>1, NoUser DEF Record
<1> QED
  BY <1>1, <1>2, QuietSteps, OpensKeeps, BodyFiles DEF HTTPProcess

\* The visits.
LEMMA VisitFiles ==
  ASSUME WebInv, FilesInv, SumInv, NEW c \in Conn, Forgets(c) \/ Skips(c) \/ TakesUp(c)
  PROVE  FilesInv' /\ SumInv'
<1>1. sm \in [Conn -> Places] /\ Record(c) \in HttpConn
  BY DEF WebInv, ConnOK
<1>2. CASE Skips(c)
  <2>1. UNCHANGED <<sm, curHTTPID, curHTTP, saved, handles>>
    BY <1>2 DEF Skips, context
  <2> QED
    BY <2>1, NoUser DEF Record
<1>3. CASE TakesUp(c)
  <2>1. HTTPLoadConn(c) /\ curHTTP' = Record(c) /\ sm' = sm /\ handles' = handles
    BY <1>3 DEF TakesUp
  <2>2. Record(c)' = Record(c) /\ \A d \in Conn : d # c => Record(d)' = Record(d)
    BY <1>1, <2>1, Loads
  <2>3. \A d \in Conn : sm'[d] = sm[d] /\ Record(d)' = Record(d)
    BY <2>1, <2>2
  <2> QED
    BY <2>1, <2>3, NoUser
<1>4. CASE Forgets(c)
  <2>1. /\ HTTPLoadConn(c) /\ curHTTP' = Closed /\ sm' = [sm EXCEPT ![c] = "IDLE"]
        /\ handles' = handles - Used(Record(c))
    BY <1>4 DEF Forgets, CloseFiles
  <2>2. Closed \in HttpConn
    BY DEF Closed, HttpConn, Statuses
  <2>3. Record(c)' = Closed /\ \A d \in Conn : d # c => Record(d)' = Record(d)
    BY <2>1, <2>2, Loads
  <2>4. FilesOK("IDLE", Closed) /\ Used(Closed) = 0
    BY DEF FilesOK, Closed, Asking, Serving, Used
  <2>5. handles' = handles + (Used(Record(c)') - Used(Record(c)))
    BY <2>1, <2>3, <2>4, HandlesInt, UsedIsInt
  <2>6. sm'[c] = "IDLE" /\ \A d \in Conn : d # c => sm'[d] = sm[d]
    BY <1>1, <2>1
  <2> QED
    BY <2>3, <2>4, <2>5, <2>6, OneUser
<1> QED
  BY <1>2, <1>3, <1>4

\* From the start, and in every step.
LEMMA FilesAlways == HttpSpec => [](FilesInv /\ SumInv)
<1>1. ASSUME HttpInit PROVE FilesInv /\ SumInv
  <2>1. \A c \in Conn : sm[c] = "IDLE" /\ Record(c) = Closed
    BY <1>1 DEF HttpInit, Record
  <2>2. FilesOK("IDLE", Closed) /\ Used(Closed) = 0
    BY DEF FilesOK, Closed, Asking, Serving, Used
  <2>3. FilesInv
    BY <2>1, <2>2 DEF FilesInv
  <2> DEFINE f == [k \in 0 .. Connections |-> 0]
  <2>4. \A c \in Conn : Uses[c] = 0
    BY <2>1, <2>2 DEF Uses
  <2>5. f \in [0 .. Connections -> Int] /\ f[0] = 0 /\ f[Connections] = 0
        /\ \A k \in 1 .. Connections : f[k] = 0 /\ f[k - 1] = 0
    BY HttpSizes
  <2>6. \A k \in 1 .. Connections : Uses[k] = 0
    BY <2>4 DEF Conn
  <2> HIDE DEF f
  <2>7. Sums(f, Uses)
    BY <2>5, <2>6 DEF Sums
  <2> QED
    BY <1>1, <2>3, <2>5, <2>7 DEF SumInv, HttpInit
<1>2. ASSUME WebInv, FilesInv, SumInv, [HttpNext]_httpvars PROVE FilesInv' /\ SumInv'
  <2>1. ASSUME UNCHANGED <<sm, curHTTPID, curHTTP, saved, handles>> PROVE FilesInv' /\ SumInv'
    BY <1>2, <2>1, NoUser DEF Record
  <2>2. ASSUME NEW c \in Conn, StackTask(c) \/ Expires(c) PROVE FilesInv' /\ SumInv'
    BY <2>1, <2>2 DEF StackTask, Connect, PieceArrives, Acknowledges, HalfCloses, StackHangsUp,
              SocketCloses,
                      Expires, server, context
  <2> QED
    BY <1>2, <2>1, <2>2, ProcessFiles, VisitFiles DEF HttpNext, HTTPServer, httpvars
<1> QED
  BY <1>1, <1>2, WebAlways, PTL DEF HttpSpec

\* A sum is what the loop over the connections counts.
LEMMA LoopCounts ==
  ASSUME NEW f, Sums(f, Uses), NEW g,
         g = [c \in 0 .. Connections |-> IF c = 0 THEN 0 ELSE Used(Record(c)) + g[c - 1]]
  PROVE  g[Connections] = f[Connections]
<1> DEFINE T == {m \in Nat : m <= Connections => g[m] = f[m]}
<1>1. 0 \in T
  <2>1. 0 \in 0 .. Connections /\ 0 <= Connections
    BY HttpSizes
  <2> QED
    BY <2>1 DEF Sums
<1>2. ASSUME NEW m \in T PROVE m + 1 \in T
  <2>1. CASE m + 1 <= Connections
    <3> DEFINE k == m + 1
    <3>1. k \in 1 .. Connections /\ k \in 0 .. Connections /\ k # 0 /\ k - 1 = m /\ g[m] = f[m] /\ k \in Nat
      BY <2>1, HttpSizes
    <3> HIDE DEF k
    <3>2. g[k] = Used(Record(k)) + g[k - 1]
      BY <3>1
    <3>3. f[k] = Uses[k] + f[k - 1] /\ Uses[k] = Used(Record(k))
      BY <3>1 DEF Sums, Uses, Conn
    <3>4. k \in T
      BY <3>1, <3>2, <3>3
    <3> QED
      BY <3>4 DEF k
  <2>2. CASE ~(m + 1 <= Connections)
    BY <2>2
  <2> QED
    BY <2>1, <2>2
<1>3. T = Nat
  <2>1. T \subseteq Nat
    OBVIOUS
  <2> HIDE DEF T
  <2> QED
    BY <1>1, <1>2, <2>1, Induct
<1>4. Connections \in T /\ Connections <= Connections
  <2> HIDE DEF T
  <2> QED
    BY <1>3, HttpSizes
<1> QED
  BY <1>4

\* HandlesAccountedFor: the connections give back every handle that is in use, and an idle
\* one holds none.
THEOREM HandlesAlwaysAccountedFor == HttpSpec => []HandlesAccountedFor
<1>1. ASSUME WebInv, FilesInv, SumInv PROVE HandlesAccountedFor
  <2>1. PICK f : Sums(f, Uses) /\ handles = f[Connections]
    BY <1>1 DEF SumInv
  <2> DEFINE Is(g) == g = [c \in 0 .. Connections |-> IF c = 0 THEN 0 ELSE Used(Record(c)) + g[c - 1]]
             g == CHOOSE g : Is(g)
  <2>2. Is(f)
    <3>1. \A c \in 1 .. Connections : f[c] = Used(Record(c)) + f[c - 1]
      BY <2>1 DEF Sums, Uses, Conn
    <3>2. f = [c \in 0 .. Connections |-> f[c]] /\ f[0] = 0
      BY <2>1 DEF Sums
    <3>3. \A c \in 0 .. Connections : f[c] = IF c = 0 THEN 0 ELSE Used(Record(c)) + f[c - 1]
      <4>1. \A c \in 0 .. Connections : c # 0 => c \in 1 .. Connections
        BY HttpSizes
      <4> QED
        BY <3>1, <3>2, <4>1
    <3> QED
      BY <3>2, <3>3
  <2>3. Is(g)
    <3> HIDE DEF Is
    <3> QED
      BY <2>2, Zenon DEF g
  <2>4. handles = g[Connections]
    <3> HIDE DEF g
    <3> QED
      BY <2>1, <2>3, LoopCounts
  <2>5. \A c \in Conn : sm[c] = "IDLE" => Used(Record(c)) = 0
    BY <1>1 DEF FilesInv, FilesOK, Used
  <2> QED
    BY <2>4, <2>5, Zenon DEF HandlesAccountedFor
<1> QED
  BY <1>1, WebAlways, FilesAlways, PTL

-----------------------------------------------------------------------------
\* What has arrived and is still to come on a connection.
Coming(k, l) == k.rx \o l.script
\* No more than b pieces follow the end of a header.
EndsWithin(w, b) == \A j \in DOMAIN w : w[j].kind = "end" => Len(w) - j <= b
\* A polite client still is, and while its request is read no more is to come than byteCount says.
FormOK(s, k, l, r) ==
  /\ l.polite => Polite(Coming(k, l))
  /\ ~k.wasReset =>
       /\ s \in Asking => k.rest = "rx"
       /\ s = "PARSE_REQUEST" => r.byteCount = 0
       /\ s = "PARSE_HEADERS" /\ l.polite /\ r.byteCount > 0 => EndsWithin(Coming(k, l), r.byteCount)
       /\ s \in {"AUTHENTICATE", "PROCESS_POST"} /\ l.polite /\ r.byteCount > 0 =>
            Len(Coming(k, l)) <= r.byteCount
\* That for all connections, and a server that is stuck is so in a request that was not polite.
FormInv ==
  /\ \A c \in Conn : FormOK(sm[c], sock[c], client[c], Record(c))
  /\ stuck => ~client[curHTTPID].polite

\* A part of what is coming, and a piece of a line before it.
LEMMA PartOf ==
  ASSUME NEW w \in Seq(Piece), NEW v \in Seq(Piece), NEW d \in Nat, Len(v) + d <= Len(w),
         \A pos \in 1 .. Len(v) : v[pos] = w[pos + d]
  PROVE  /\ Polite(w) => Polite(v)
         /\ \A b \in Nat : EndsWithin(w, b) => EndsWithin(v, b)
<1>0. DOMAIN v = 1 .. Len(v)
  OBVIOUS
<1>1. \A pos \in 1 .. Len(v) : pos + d \in 1 .. Len(w) /\ Len(v) - pos <= Len(w) - (pos + d) /\ w[pos + d] \in Piece
  OBVIOUS
<1>2. ASSUME Polite(w) PROVE Polite(v)
  <2> SUFFICES ASSUME NEW pos \in 1 .. Len(v), NEW j \in 1 .. Len(v), pos < j, v[pos].kind = "length",
                      v[j].kind = "end"
               PROVE  Len(v) - j <= v[pos].n
    BY <1>0, Zenon DEF Polite
  <2>1. pos + d < j + d /\ w[pos + d].kind = "length" /\ w[j + d].kind = "end" /\ v[pos] = w[pos + d]
    <3>1. pos \in Int /\ j \in Int /\ d \in Int
      OBVIOUS
    <3>2. pos + d < j + d
      BY <3>1
    <3>3. v[pos] = w[pos + d] /\ v[j] = w[j + d]
      OBVIOUS
    <3> QED
      BY <3>2, <3>3
  <2>2. pos + d \in DOMAIN w /\ j + d \in DOMAIN w
    BY <1>1
  <2>3. Len(w) - (j + d) <= w[pos + d].n
    BY <1>2, <2>1, <2>2 DEF Polite
  <2>4. w[pos + d].n \in Nat
    BY <1>1, <2>1, LineKinds
  <2>5. Len(v) - j <= Len(w) - (j + d)
    BY <1>1
  <2> QED
    BY <2>1, <2>3, <2>4, <2>5
<1>3. ASSUME NEW b \in Nat, EndsWithin(w, b) PROVE EndsWithin(v, b)
  <2> SUFFICES ASSUME NEW j \in 1 .. Len(v), v[j].kind = "end" PROVE Len(v) - j <= b
    BY DEF EndsWithin
  <2>1. j + d \in DOMAIN w /\ w[j + d].kind = "end"
    BY <1>1
  <2>2. Len(w) - (j + d) <= b
    BY <1>3, <2>1 DEF EndsWithin
  <2> QED
    BY <1>1, <2>2
<1> QED
  BY <1>2, <1>3

\* A piece of a line before what is coming.
LEMMA PartFirst ==
  ASSUME NEW w \in Seq(Piece), NEW v \in Seq(Piece), Len(v) = Len(w) + 1, v[1].kind = "part",
         \A pos \in 1 .. Len(w) : v[pos + 1] = w[pos], Polite(w)
  PROVE  Polite(v)
<1> SUFFICES ASSUME NEW pos \in 1 .. Len(v), NEW j \in 1 .. Len(v), pos < j, v[pos].kind = "length",
                    v[j].kind = "end"
             PROVE  Len(v) - j <= v[pos].n
  BY DEF Polite
<1>1. pos # 1 /\ j # 1
  OBVIOUS
<1> DEFINE a == pos - 1
           c == j - 1
<1>2. /\ a \in 1 .. Len(w) /\ c \in 1 .. Len(w) /\ a < c /\ pos = a + 1 /\ j = c + 1
      /\ Len(v) - j = Len(w) - c
  BY <1>1
<1> HIDE DEF a, c
<1>3. v[pos] = w[a] /\ v[j] = w[c]
  BY <1>2
<1>4. Len(w) - c <= w[a].n
  BY <1>2, <1>3 DEF Polite
<1> QED
  BY <1>2, <1>3, <1>4

\* What is left, v, when d pieces of w are taken.
Less(v, w, d) ==
  /\ Polite(w) => Polite(v)
  /\ \A b \in Nat : EndsWithin(w, b) => EndsWithin(v, b)
  /\ Len(v) = Len(w) - d
  /\ \A pos \in 1 .. Len(v) : v[pos] = w[pos + d]

\* The request when its first d pieces are taken.
LEMMA AfterTaking ==
  ASSUME NEW q \in Seq(Piece), NEW t \in Seq(Piece), NEW d \in 0 .. Len(q),
         NEW p, p = SubSeq(q, d + 1, Len(q))
  PROVE  p \in Seq(Piece) /\ Less(p \o t, q \o t, d)
<1>1. d \in Nat /\ Len(q) \in Nat /\ Len(t) \in Nat
  OBVIOUS
<1>2. p \in Seq(Piece) /\ Len(p) = Len(q) - d /\ \A pos \in 1 .. Len(p) : p[pos] = q[pos + d]
  OBVIOUS
<1> DEFINE w == q \o t
           v == p \o t
<1>3. /\ w \in Seq(Piece) /\ v \in Seq(Piece) /\ Len(w) = Len(q) + Len(t)
      /\ Len(v) = Len(p) + Len(t)
  BY <1>2
<1>4. ASSUME NEW pos \in 1 .. Len(v) PROVE v[pos] = w[pos + d]
  <2>1. CASE pos <= Len(p)
    <3>1. v[pos] = p[pos] /\ pos \in 1 .. Len(p)
      BY <1>2, <1>3, <2>1
    <3>2. pos + d \in 1 .. Len(q)
      <4> DEFINE m == Len(p)
                 n == Len(q)
      <4>1. m = n - d /\ n \in Nat /\ pos \in 1 .. m
        BY <1>1, <1>2, <3>1
      <4> HIDE DEF m, n
      <4>2. pos + d \in 1 .. n
        BY <1>1, <4>1
      <4> QED
        BY <4>2 DEF n
    <3>3. w[pos + d] = q[pos + d]
      BY <3>2
    <3> QED
      BY <1>2, <3>1, <3>3
  <2>2. CASE pos > Len(p)
    <3>1. v[pos] = t[pos - Len(p)]
      BY <1>2, <1>3, <2>2
    <3> DEFINE k == pos + d
    <3>2. k \in Len(q) + 1 .. Len(q) + Len(t) /\ k - Len(q) = pos - Len(p)
      <4> DEFINE m == Len(p)
                 n == Len(q)
                 h == Len(t)
      <4>1. m = n - d /\ n \in Nat /\ h \in Nat /\ m \in Nat /\ pos \in 1 .. m + h /\ pos > m
        BY <1>1, <1>2, <1>3, <2>2
      <4> HIDE DEF m, n, h
      <4>2. pos + d \in n + 1 .. n + h /\ (pos + d) - n = pos - m
        BY <1>1, <4>1
      <4> QED
        BY <4>2 DEF n, m, h
    <3> HIDE DEF k
    <3>3. w[k] = t[k - Len(q)]
      BY <3>2
    <3> QED
      BY <3>1, <3>2, <3>3 DEF k
  <2> QED
    BY <1>2, <2>1, <2>2
<1>5. Len(v) + d <= Len(w) /\ Len(v) = Len(w) - d
  BY <1>1, <1>2, <1>3
<1> HIDE DEF v, w
<1> QED
  BY <1>1, <1>2, <1>3, <1>4, <1>5, PartOf DEF v, w, Less

\* The request when all that was received is taken.
LEMMA AfterAll ==
  ASSUME NEW q \in Seq(Piece), NEW t \in Seq(Piece), Polite(q \o t)
  PROVE  Polite(<< >> \o t)
<1>1. Len(q) \in 0 .. Len(q) /\ << >> = SubSeq(q, Len(q) + 1, Len(q))
  OBVIOUS
<1> QED
  BY <1>1, AfterTaking DEF Less

\* What is left when the client sends no more.
LEMMA AfterFIN ==
  ASSUME NEW q \in Seq(Piece), NEW t \in Seq(Piece)
  PROVE  /\ Polite(q \o t) => Polite(q \o << >>)
         /\ \A b \in Nat : EndsWithin(q \o t, b) => EndsWithin(q \o << >>, b)
         /\ Len(q \o << >>) <= Len(q \o t)
<1> DEFINE w == q \o t
           v == q \o << >>
<1>1. /\ w \in Seq(Piece) /\ v \in Seq(Piece) /\ Len(w) = Len(q) + Len(t) /\ Len(v) = Len(q)
      /\ Len(v) + 0 <= Len(w)
  OBVIOUS
<1>2. \A pos \in 1 .. Len(v) : v[pos] = w[pos + 0]
  OBVIOUS
<1> HIDE DEF v, w
<1>3. (Polite(w) => Polite(v)) /\ \A b \in Nat : EndsWithin(w, b) => EndsWithin(v, b)
  BY <1>1, <1>2, PartOf
<1>4. Len(v) <= Len(w)
  BY <1>1
<1> QED
  BY <1>3, <1>4 DEF v, w

\* A piece arrives, whole or not.
LEMMA AfterPiece ==
  ASSUME NEW q \in Seq(Piece), NEW t \in Seq(Piece), t # << >>
  PROVE  /\ Append(q, Head(t)) \o Tail(t) = q \o t
         /\ q = << >> /\ Polite(q \o t) => Polite(Append(q, [kind |-> "part"]) \o t)
<1>1. Append(q, Head(t)) \o Tail(t) = q \o t
  <2> DEFINE a == Append(q, Head(t))
             b == Tail(t)
  <2>1. a \in Seq(Piece) /\ b \in Seq(Piece) /\ Len(a) = Len(q) + 1 /\ Len(b) = Len(t) - 1
        /\ Len(t) \in Nat /\ Len(t) > 0 /\ Len(q) \in Nat
    OBVIOUS
  <2>2. Len(a \o b) = Len(q \o t) /\ a \o b \in Seq(Piece) /\ q \o t \in Seq(Piece)
        /\ Len(a \o b) = Len(q) + Len(t)
    BY <2>1
  <2>3. ASSUME NEW pos \in 1 .. Len(q) + Len(t) PROVE (a \o b)[pos] = (q \o t)[pos]
    <3>1. CASE pos <= Len(q)
      BY <2>1, <3>1
    <3>2. CASE pos = Len(q) + 1
      <4>1. (a \o b)[pos] = a[pos] /\ a[pos] = Head(t)
        BY <2>1, <3>2
      <4>2. (q \o t)[pos] = t[1]
        BY <2>1, <3>2
      <4>3. Head(t) = t[1]
        OBVIOUS
      <4> QED
        BY <4>1, <4>2, <4>3
    <3>3. CASE pos > Len(q) + 1
      <4> DEFINE m == pos - Len(q) - 1
      <4>1. m \in 1 .. Len(b) /\ pos - Len(a) = m /\ pos - Len(q) = m + 1 /\ pos > Len(a) /\ m + 1 \in 1 .. Len(t)
        BY <2>1, <3>3
      <4>2. (a \o b)[pos] = b[pos - Len(a)]
        <5> HIDE DEF a, b, m
        <5> QED
          BY <2>1, <2>2, <4>1
      <4>3. (q \o t)[pos] = t[pos - Len(q)]
        BY <2>1, <4>1
      <4>4. b[m] = t[m + 1]
        <5> HIDE DEF m
        <5> QED
          BY <2>1, <4>1
      <4> QED
        BY <4>1, <4>2, <4>3, <4>4
    <3> QED
      BY <2>1, <3>1, <3>2, <3>3
  <2> HIDE DEF a, b
  <2> DEFINE x == a \o b
             y == q \o t
  <2>4. x \in Seq(Piece) /\ y \in Seq(Piece) /\ Len(x) = Len(y) /\ \A pos \in 1 .. Len(x) : x[pos] = y[pos]
    BY <2>2, <2>3
  <2> HIDE DEF x, y
  <2>5. x = y
    BY <2>4
  <2> QED
    BY <2>5 DEF a, b, x, y
<1>2. ASSUME q = << >>, Polite(q \o t) PROVE Polite(Append(q, [kind |-> "part"]) \o t)
  <2> DEFINE part == [kind |-> "part"]
             w == q \o t
             v == Append(q, part) \o t
  <2>1. part \in Piece /\ part.kind = "part"
    BY DEF Piece
  <2> HIDE DEF part
  <2>2. w \in Seq(Piece) /\ v \in Seq(Piece) /\ Len(v) = Len(w) + 1
    BY <2>1
  <2>3. v[1] = part /\ \A pos \in 1 .. Len(w) : v[pos + 1] = w[pos]
    BY <1>2, <2>1
  <2> HIDE DEF v, w
  <2>4. Polite(v)
    BY <1>2, <2>1, <2>2, <2>3, PartFirst DEF w
  <2> QED
    BY <2>4 DEF v, part
<1> QED
  BY <1>1, <1>2

\* What is coming is of pieces, and it is there.
LEMMA ComingOK ==
  ASSUME NEW k \in Socket, NEW l \in Client
  PROVE  /\ k.rx \in Seq(Piece) /\ l.script \in Seq(Piece) /\ l.polite \in BOOLEAN
         /\ Coming(k, l) = k.rx \o l.script /\ Len(Coming(k, l)) = Len(k.rx) + Len(l.script)
<1>1. k.rx \in Seq(Piece) /\ l.script \in Seq(Piece) /\ l.polite \in BOOLEAN
  BY DEF Socket, Client
<1> QED
  BY <1>1 DEF Coming

\* A step that changes one connection, while no form is read without end.
LEMMA OneForm ==
  ASSUME FormInv, NEW c \in Conn,
         \A d \in Conn : d # c => /\ sm'[d] = sm[d] /\ sock'[d] = sock[d]
                                  /\ client'[d] = client[d] /\ Record(d)' = Record(d),
         FormOK(sm'[c], sock'[c], client'[c], Record(c)'), stuck' = FALSE
  PROVE  FormInv'
BY DEF FormInv

\* A step of HTTPProcess.
LEMMA ProcessForm ==
  ASSUME WebInv, FormInv, NEW p, In(p), NEW s, Goes(s) \/ Returns(s),
         NEW k, sock' = [sock EXCEPT ![curHTTPID] = k],
         NEW l, client' = [client EXCEPT ![curHTTPID] = l],
         FormOK(s, k, l, curHTTP')
  PROVE  FormInv'
<1> SUFFICES ASSUME NEW c \in Conn, c = curHTTPID PROVE FormInv'
  BY DEF WebInv
<1>1. /\ sm \in [Conn -> Places] /\ sock \in [Conn -> Socket] /\ client \in [Conn -> Client]
      /\ stuck = FALSE
  BY DEF WebInv, In
<1>2. /\ sm' = [sm EXCEPT ![c] = s] /\ curHTTPID' = c /\ saved' = saved /\ stuck' = stuck
  BY GoesOn DEF Goes, Returns
<1>3. sm'[c] = s /\ \A d \in Conn : d # c => sm'[d] = sm[d]
  BY <1>1, <1>2
<1>4. sock'[c] = k /\ \A d \in Conn : d # c => sock'[d] = sock[d]
  BY <1>1
<1>5. client'[c] = l /\ \A d \in Conn : d # c => client'[d] = client[d]
  BY <1>1
<1>6. Record(c)' = curHTTP' /\ (\A d \in Conn : d # c => Record(d)' = Record(d))
  BY <1>2 DEF Record
<1>7. FormOK(sm'[c], sock'[c], client'[c], Record(c)')
  BY <1>3, <1>4, <1>5, <1>6
<1>8. \A d \in Conn : d # c => /\ sm'[d] = sm[d] /\ sock'[d] = sock[d]
                               /\ client'[d] = client[d] /\ Record(d)' = Record(d)
  BY <1>3, <1>4, <1>5, <1>6
<1> QED
  BY <1>1, <1>2, <1>7, <1>8, OneForm

\* What HTTPProcess finds.
LEMMA FormBefore ==
  ASSUME WebInv, FormInv, NEW p, In(p)
  PROVE  /\ curHTTPID \in Conn /\ sock[curHTTPID] \in Socket /\ client[curHTTPID] \in Client
         /\ sock \in [Conn -> Socket] /\ client \in [Conn -> Client] /\ curHTTP \in HttpConn
         /\ FormOK(p, sock[curHTTPID], client[curHTTPID], curHTTP)
         /\ p # "DISCONNECT" => ~sock[curHTTPID].wasReset
         /\ received = sock[curHTTPID].rx
<1>1. FormOK(p, sock[curHTTPID], client[curHTTPID], curHTTP)
  <2>1. curHTTPID \in Conn /\ Record(curHTTPID) = curHTTP /\ sm[curHTTPID] = p
    BY DEF WebInv, Record, In, c1
  <2> QED
    BY <2>1 DEF FormInv
<1> QED
  BY <1>1, Before DEF WebInv, received, c1

\* To a state in which no request is taken in.
LEMMA LeavesForm ==
  ASSUME WebInv, FormInv, NEW p, In(p), NEW s \in Serving \cup {"IDLE", "DISCONNECT"},
         Goes(s) \/ Returns(s),
         NEW k \in Socket, sock' = [sock EXCEPT ![curHTTPID] = k],
         k.rx = << >> \/ k.rx = sock[curHTTPID].rx,
         NEW l \in Client, client' = [client EXCEPT ![curHTTPID] = l],
         l.script = client[curHTTPID].script, l.polite = client[curHTTPID].polite
  PROVE  FormInv'
<1> DEFINE q == sock[curHTTPID].rx
           t == client[curHTTPID].script
<1>1. q \in Seq(Piece) /\ t \in Seq(Piece) /\ (l.polite => Polite(q \o t))
  <2> DEFINE k0 == sock[curHTTPID]
             l0 == client[curHTTPID]
  <2>1. k0 \in Socket /\ l0 \in Client /\ FormOK(p, k0, l0, curHTTP)
    BY FormBefore
  <2> HIDE DEF k0, l0
  <2>2. l0.polite => Polite(Coming(k0, l0))
    BY <2>1 DEF FormOK
  <2>3. k0.rx \in Seq(Piece) /\ l0.script \in Seq(Piece) /\ Coming(k0, l0) = k0.rx \o l0.script
    BY <2>1, ComingOK
  <2> QED
    BY <2>2, <2>3 DEF k0, l0
<1>3. Polite(q \o t) => Polite(<< >> \o t)
  <2> HIDE DEF q, t
  <2> QED
    BY <1>1, AfterAll
<1>4. l.polite => Polite(Coming(k, l))
  BY <1>1, <1>3 DEF Coming
<1>5. FormOK(s, k, l, curHTTP')
  BY <1>4 DEF FormOK, Asking, Serving
<1> QED
  BY <1>5, ProcessForm

\* A step of HTTPProcess in which nothing is taken from what was received.
LEMMA KeepsComing ==
  ASSUME WebInv, FormInv, NEW p \in Asking, In(p), NEW s, Goes(s) \/ Returns(s),
         sock' = sock, NEW l \in Client, client' = [client EXCEPT ![curHTTPID] = l],
         l.script = client[curHTTPID].script, l.polite = client[curHTTPID].polite,
         \/ s = "SERVE_HEADERS" \/ s = "PROCESS_REQUEST"
         \/ s = p /\ curHTTP' = curHTTP
         \/ p = "AUTHENTICATE" /\ s = "PROCESS_POST" /\ curHTTP' = curHTTP
  PROVE  FormInv'
<1> DEFINE k == sock[curHTTPID]
           l0 == client[curHTTPID]
<1>1. /\ k \in Socket /\ FormOK(p, k, l0, curHTTP) /\ ~k.wasReset
      /\ sock \in [Conn -> Socket] /\ curHTTPID \in Conn
  BY FormBefore DEF Asking
<1>2. Coming(k, l) = Coming(k, l0)
  BY DEF Coming
<1> HIDE DEF k, l0
<1>3. k.rest = "rx" /\ (l.polite => Polite(Coming(k, l)))
  BY <1>1, <1>2 DEF FormOK, l0
<1>4. FormOK(s, k, l, curHTTP')
  <2>1. CASE s = "SERVE_HEADERS" \/ s = "PROCESS_REQUEST"
    BY <1>3, <2>1 DEF FormOK
  <2>2. CASE s = p /\ curHTTP' = curHTTP
    BY <1>1, <1>2, <2>2 DEF FormOK, l0
  <2>3. CASE p = "AUTHENTICATE" /\ s = "PROCESS_POST" /\ curHTTP' = curHTTP
    BY <1>1, <1>2, <1>3, <2>3 DEF FormOK, l0
  <2> QED
    BY <2>1, <2>2, <2>3
<1>5. sock' = [sock EXCEPT ![curHTTPID] = k]
  BY <1>1 DEF k
<1> QED
  BY <1>4, <1>5, ProcessForm

\* How a state that takes n pieces of the request is left, and for which.
Leads(p, s, n, r) ==
  \/ s = "PROCESS_REQUEST"
  \/ s = "PARSE_HEADERS" /\ p = "PARSE_REQUEST" /\ r.byteCount = curHTTP.byteCount
  \/ /\ s = "PARSE_HEADERS" /\ p = "PARSE_HEADERS"
     /\ \/ r.byteCount = curHTTP.byteCount \/ r.byteCount = 0
        \/ n \in 1 .. Len(received) /\ received[n].kind = "length" /\ r.byteCount = received[n].n
  \/ /\ s = "AUTHENTICATE" /\ p = "PARSE_HEADERS" /\ r.byteCount = curHTTP.byteCount
     /\ n \in 1 .. Len(received) /\ received[n].kind = "end"

\* Some of what was received is taken, and with the end of the header no more than the
\* Content-Length is left.
LEMMA TakesForm ==
  ASSUME WebInv, FormInv, NEW p \in Asking, In(p), NEW s, Goes(s) \/ Returns(s),
         NEW n \in 0 .. Len(received),
         NEW k \in Socket, sock' = [sock EXCEPT ![curHTTPID] = k],
         k.rx = SubSeq(received, n + 1, Len(received)),
         k.rest = sock[curHTTPID].rest, k.wasReset = sock[curHTTPID].wasReset,
         NEW l \in Client, client' = [client EXCEPT ![curHTTPID] = l],
         l.script = client[curHTTPID].script, l.polite = client[curHTTPID].polite,
         NEW r \in HttpConn, curHTTP' = r,
         Leads(p, s, n, r)
  PROVE  FormInv'
<1> USE DEF Leads
<1> DEFINE q == received
           t == l.script
           w == q \o t
           v == k.rx \o t
           b == r.byteCount
<1>1. /\ q \in Seq(Piece) /\ t \in Seq(Piece) /\ ~k.wasReset
      /\ w = Coming(sock[curHTTPID], client[curHTTPID]) /\ v = Coming(k, l)
      /\ FormOK(p, sock[curHTTPID], client[curHTTPID], curHTTP)
  BY FormBefore, ComingOK DEF Asking, Coming
<1>2. b \in Nat /\ n \in Nat /\ Len(q) \in Nat
  BY <1>1 DEF HttpConn
<1>3. /\ Polite(w) => Polite(v)
      /\ \A x \in Nat : EndsWithin(w, x) => EndsWithin(v, x)
      /\ Len(v) = Len(w) - n /\ Len(w) \in Nat /\ k.rx \in Seq(Piece)
      /\ \A pos \in 1 .. Len(v) : v[pos] = w[pos + n]
  <2>1. k.rx = SubSeq(q, n + 1, Len(q)) /\ n \in 0 .. Len(q)
    OBVIOUS
  <2>2. Len(w) \in Nat
    BY <1>1
  <2> DEFINE x == k.rx
             e == q \o t
             g == x \o t
  <2>3. q \in Seq(Piece) /\ t \in Seq(Piece) /\ x = SubSeq(q, n + 1, Len(q)) /\ w = e /\ v = g
    BY <1>1, <2>1
  <2> HIDE DEF q, t, v, w, x
  <2>4. x \in Seq(Piece) /\ Less(g, e, n)
    BY <2>1, <2>3, AfterTaking, Zenon DEF e, g
  <2> HIDE DEF e, g
  <2> QED
    BY <2>2, <2>3, <2>4 DEF x, Less
<1>4. ASSUME n \in 1 .. Len(q) PROVE w[n] = q[n] /\ n \in DOMAIN w
  <2> HIDE DEF q, t
  <2> QED
    BY <1>1, <1>4
<1>5. k.rest = "rx" /\ (l.polite => Polite(w))
  BY <1>1 DEF FormOK
<1>6. ASSUME l.polite, b > 0, s = "PARSE_HEADERS" PROVE EndsWithin(v, b)
  <2>1. CASE p = "PARSE_HEADERS" /\ r.byteCount = curHTTP.byteCount
    BY <1>1, <1>2, <1>3, <1>6, <2>1 DEF FormOK
  <2>2. CASE p = "PARSE_REQUEST" /\ r.byteCount = curHTTP.byteCount
    BY <1>1, <1>6, <2>2 DEF FormOK
  <2>3. CASE n \in 1 .. Len(q) /\ q[n].kind = "length" /\ b = q[n].n
    <3>1. w[n].kind = "length" /\ w[n].n = b /\ n \in DOMAIN w /\ Polite(w)
      BY <1>4, <1>5, <1>6, <2>3
    <3>2. w \in Seq(Piece) /\ v \in Seq(Piece)
      <4>1. q \in Seq(Piece) /\ t \in Seq(Piece) /\ k.rx \in Seq(Piece)
        BY <1>1, <1>3
      <4> HIDE DEF q, t
      <4> QED
        BY <4>1
    <3>3. ASSUME NEW j \in DOMAIN v, v[j].kind = "end" PROVE Len(v) - j <= b
      <4> DEFINE pos == j + n
      <4>1. j \in 1 .. Len(v) /\ j \in Nat
        BY <3>2
      <4>2. pos > n /\ Len(v) - j = Len(w) - pos /\ pos \in 1 .. Len(w)
        <5> HIDE DEF v, w
        <5> QED
          BY <1>2, <1>3, <4>1
      <4>3. w[pos] = v[j] /\ pos \in DOMAIN w
        <5> HIDE DEF v, w
        <5> QED
          BY <1>3, <3>2, <4>1, <4>2
      <4> HIDE DEF v, w, pos, b
      <4>4. Len(w) - pos <= w[n].n
        BY <1>2, <3>1, <3>3, <4>2, <4>3 DEF Polite
      <4> QED
        BY <3>1, <4>2, <4>4
    <3> HIDE DEF v, w, b
    <3> QED
      BY <3>3 DEF EndsWithin
  <2> QED
    BY <1>6, <2>1, <2>2, <2>3
<1>7. ASSUME l.polite, b > 0, s \in {"AUTHENTICATE", "PROCESS_POST"} PROVE Len(v) <= b
  <2>1. n \in 1 .. Len(q) /\ q[n].kind = "end" /\ b = curHTTP.byteCount /\ p = "PARSE_HEADERS"
    BY <1>7
  <2>2. EndsWithin(w, b)
    BY <1>1, <1>7, <2>1 DEF FormOK
  <2>3. Len(w) - n <= b
    BY <1>4, <2>1, <2>2 DEF EndsWithin
  <2> QED
    BY <1>3, <2>3
<1> HIDE DEF v, w, b, t, q
<1>8. FormOK(s, k, l, r)
  <2>1. s # "PARSE_REQUEST"
    OBVIOUS
  <2> QED
    BY <1>1, <1>3, <1>5, <1>6, <1>7, <2>1 DEF FormOK, b
<1> QED
  BY <1>8, ProcessForm

\* The clients and the stack.
LEMMA StackForm == ASSUME WebInv, FormInv, NEW c \in Conn, StackTask(c) PROVE FormInv'
<1> DEFINE k == sock[c]
           l == client[c]
           q == k.rx
           t == l.script
           r == Record(c)
<1>1. /\ k \in Socket /\ l \in Client /\ ConnOK(sm[c], k, l, r) /\ FormOK(sm[c], k, l, r)
      /\ sock \in [Conn -> Socket] /\ client \in [Conn -> Client] /\ k.wasReset \in BOOLEAN
  BY DEF WebInv, FormInv, Socket
<1>2. q \in Seq(Piece) /\ t \in Seq(Piece) /\ Coming(k, l) = q \o t
  BY <1>1, ComingOK
<1>3. UNCHANGED <<sm, curHTTPID, curHTTP, saved, stuck>> /\ stuck = FALSE
  BY DEF StackTask, Connect, PieceArrives, Acknowledges, HalfCloses, StackHangsUp,
              SocketCloses, Outside, server,
         context, WebInv
<1>4. \A d \in Conn : Record(d)' = Record(d) /\ sm'[d] = sm[d]
  BY <1>3 DEF Record
<1>5. ASSUME NEW k2, NEW l2, sock' = [sock EXCEPT ![c] = k2], client' = [client EXCEPT ![c] = l2],
             FormOK(sm[c], k2, l2, r)
      PROVE  FormInv'
  <2>1. sock'[c] = k2 /\ (\A d \in Conn : d # c => sock'[d] = sock[d])
        /\ client'[c] = l2 /\ (\A d \in Conn : d # c => client'[d] = client[d])
    BY <1>1, <1>5
  <2>2. FormOK(sm'[c], sock'[c], client'[c], Record(c)')
    BY <1>4, <1>5, <2>1
  <2> QED
    BY <1>3, <1>4, <2>1, <2>2, OneForm
<1>6. CASE Connect(c)
  <2>1. PICK s \in Script[c] : client' = [client EXCEPT ![c] = [Nobody EXCEPT !.script = s, !.polite = Polite(s)]]
    BY <1>6 DEF Connect
  <2> DEFINE k2 == [k EXCEPT !.state = "open"]
             p == Polite(s)
             l2 == [Nobody EXCEPT !.script = s, !.polite = p]
  <2>2. s \in Seq(Piece)
    BY HttpAssumption
  <2>3. sock' = [sock EXCEPT ![c] = k2] /\ client' = [client EXCEPT ![c] = l2]
        /\ k.state = "listen"
    BY <1>1, <1>6, <2>1 DEF Connect
  <2>4. k.rx = << >> /\ (~k.wasReset => sm[c] = "IDLE")
    BY <1>1, <2>3 DEF ConnOK, SocketOK
  <2>5. k2.rx = << >> /\ k2.wasReset = k.wasReset
    BY <1>1, <2>4 DEF Socket
  <2>6. l2.script = s /\ l2.polite = p
    BY DEF Nobody
  <2>7. << >> \o s = s
    BY <2>2
  <2> HIDE DEF k2, l2
  <2>8. Coming(k2, l2) = s
    BY <2>5, <2>6, <2>7 DEF Coming
  <2>9. l2.polite => Polite(Coming(k2, l2))
    BY <2>6, <2>8
  <2>10. FormOK(sm[c], k2, l2, r)
    BY <2>4, <2>5, <2>9 DEF FormOK, Asking
  <2> QED
    BY <1>5, <2>3, <2>10
<1>7. CASE PieceArrives(c)
  <2> DEFINE unsplit == k.rest # "tx" \/ Head(t).kind \in {"byte", "part"}
             piece == IF unsplit THEN Head(t) ELSE [kind |-> "part"]
             rest == IF unsplit THEN Tail(t) ELSE t
             q2 == Append(q, piece)
             k2 == [k EXCEPT !.rx = q2]
             l2 == [[l EXCEPT !.script = rest] EXCEPT !.late = l.late \/ l.answered]
  <2>1. /\ t # << >> /\ Len(q) < RxRoom(k) /\ sock' = [sock EXCEPT ![c] = k2]
        /\ client' = [client EXCEPT ![c] = l2]
    BY <1>1, <1>7 DEF PieceArrives
  <2>2. /\ k2.rx = q2 /\ k2.rest = k.rest /\ k2.wasReset = k.wasReset
        /\ l2.script = rest /\ l2.polite = l.polite
    <3> HIDE DEF q2, rest, q, t
    <3> QED
      BY <1>1 DEF Socket, Client
  <2>3. CASE unsplit
    <3>1. q2 = Append(q, Head(t)) /\ rest = Tail(t)
      BY <2>3
    <3>2. q2 \o rest = q \o t
      <4> HIDE DEF q, t, q2, rest
      <4> QED
        BY <1>2, <2>1, <3>1, AfterPiece
    <3>3. Coming(k2, l2) = Coming(k, l)
      <4> HIDE DEF q, t, q2, rest, k2, l2
      <4> QED
        BY <1>2, <2>2, <3>2 DEF Coming
    <3> HIDE DEF k, l, k2, l2, r
    <3>4. FormOK(sm[c], k2, l2, r)
      BY <1>1, <2>2, <3>3 DEF FormOK
    <3> QED
      BY <1>5, <2>1, <3>4
  <2>4. CASE ~unsplit
    <3>1. q2 = Append(q, [kind |-> "part"]) /\ rest = t /\ k.rest = "tx"
      BY <2>4
    <3>2. Len(q) = 0 /\ q = << >>
      <4>1. RxRoom(k) = 1
        BY <3>1 DEF RxRoom
      <4> HIDE DEF q
      <4> QED
        BY <1>2, <2>1, <4>1
    <3>3. Polite(q \o t) => Polite(q2 \o rest)
      <4> HIDE DEF q, t, q2, rest
      <4> QED
        BY <1>2, <2>1, <3>1, <3>2, AfterPiece
    <3> HIDE DEF q, t, q2, rest, k, l, k2, l2, r
    <3>4. l2.polite => Polite(Coming(k2, l2))
      <4>1. l.polite => Polite(q \o t)
        BY <1>1, <1>2 DEF FormOK
      <4>2. Coming(k2, l2) = q2 \o rest
        BY <2>2 DEF Coming
      <4> QED
        BY <2>2, <3>3, <4>1, <4>2
    <3>5. ~k.wasReset => sm[c] \notin Asking
      BY <1>1, <3>1 DEF FormOK
    <3>6. FormOK(sm[c], k2, l2, r)
      BY <2>2, <3>4, <3>5 DEF FormOK, Asking, Places, Serving
    <3> QED
      BY <1>5, <2>1, <3>6
  <2> QED
    BY <2>3, <2>4
<1>8. CASE Acknowledges(c)
  <2> DEFINE k2 == [k EXCEPT !.tx = k.tx - 1]
  <2>1. sock' = [sock EXCEPT ![c] = k2] /\ client' = [client EXCEPT ![c] = l]
    BY <1>1, <1>8 DEF Acknowledges
  <2>2. k2.rx = k.rx /\ k2.rest = k.rest /\ k2.wasReset = k.wasReset
    BY <1>1 DEF Socket
  <2> HIDE DEF k, l, k2, r
  <2>3. FormOK(sm[c], k2, l, r)
    BY <1>1, <2>2 DEF FormOK, Coming
  <2> QED
    BY <1>5, <2>1, <2>3
<1>11. CASE StackHangsUp(c)
  <2> DEFINE k2 == [k EXCEPT !.state = "closing"]
             l2 == [l EXCEPT !.hungUp = TRUE]
  <2>1. sock' = [sock EXCEPT ![c] = k2] /\ client' = [client EXCEPT ![c] = l2]
    BY <1>1, <1>11 DEF StackHangsUp
  <2>2. /\ k2.rx = k.rx /\ k2.rest = k.rest /\ k2.wasReset = k.wasReset
        /\ l2.script = l.script /\ l2.polite = l.polite
    BY <1>1 DEF Socket, Client
  <2> HIDE DEF k, l, k2, l2, r
  <2>3. FormOK(sm[c], k2, l2, r)
    BY <1>1, <2>2 DEF FormOK, Coming
  <2> QED
    BY <1>5, <2>1, <2>3
<1>9. CASE HalfCloses(c)
  <2> DEFINE k2 == [k EXCEPT !.state = "half"]
             l2 == [l EXCEPT !.script = << >>]
  <2>1. sock' = [sock EXCEPT ![c] = k2] /\ client' = [client EXCEPT ![c] = l2]
    BY <1>1, <1>9 DEF HalfCloses
  <2>2. /\ k2.rx = q /\ k2.rest = k.rest /\ k2.wasReset = k.wasReset
        /\ l2.script = << >> /\ l2.polite = l.polite
    BY <1>1 DEF Socket, Client
  <2> DEFINE w == q \o t
             v == q \o << >>
  <2>3. Coming(k, l) = w /\ Coming(k2, l2) = v
    BY <1>2, <2>2 DEF Coming
  <2>4. /\ Polite(w) => Polite(v)
        /\ \A b \in Nat : EndsWithin(w, b) => EndsWithin(v, b)
        /\ Len(v) <= Len(w) /\ Len(v) \in Nat /\ Len(w) \in Nat
    <3>1. Len(v) \in Nat /\ Len(w) \in Nat
      <4>1. << >> \in Seq(Piece)
        OBVIOUS
      <4> HIDE DEF q, t
      <4> QED
        BY <1>2, <4>1
    <3>2. /\ Polite(w) => Polite(v)
          /\ \A b \in Nat : EndsWithin(w, b) => EndsWithin(v, b)
          /\ Len(v) <= Len(w)
      <4> HIDE DEF q, t
      <4> QED
        BY <1>2, AfterFIN, Zenon
    <3> HIDE DEF v, w
    <3> QED
      BY <3>1, <3>2
  <2>5. r.byteCount \in Nat
    BY <1>1 DEF ConnOK, HttpConn
  <2> HIDE DEF k, l, k2, l2, r, v, w
  <2>6. Len(w) <= r.byteCount => Len(v) <= r.byteCount
    BY <2>4, <2>5
  <2>7. FormOK(sm[c], k2, l2, r)
    BY <1>1, <2>2, <2>3, <2>4, <2>5, <2>6 DEF FormOK
  <2> QED
    BY <1>5, <2>1, <2>7
<1>10. CASE SocketCloses(c)
  <2> DEFINE k2 == [Listening(TRUE) EXCEPT !.rest = k.rest]
  <2>1. sock' = [sock EXCEPT ![c] = k2] /\ client' = [client EXCEPT ![c] = Nobody]
    BY <1>10 DEF SocketCloses
  <2>2. k.rest \in {"both", "rx", "tx"}
    BY <1>1 DEF Socket
  <2>3. k2.rx = << >> /\ k2.wasReset = TRUE
    BY <2>2, ListeningOK
  <2> HIDE DEF k2
  <2>4. Coming(k2, Nobody) = << >>
    BY <2>3 DEF Coming, Nobody
  <2>5. Polite(<< >>)
    BY DEF Polite
  <2>6. FormOK(sm[c], k2, Nobody, r)
    BY <2>3, <2>4, <2>5 DEF FormOK
  <2> QED
    BY <1>5, <2>1, <2>6
<1> QED
  BY <1>6, <1>7, <1>8, <1>9, <1>10, <1>11 DEF StackTask

\* HTTPProcess.
LEMMA ProcessKeepsForm == ASSUME WebInv, FormInv, HTTPProcess PROVE FormInv'
<1> DEFINE k == sock[curHTTPID]
           l == client[curHTTPID]
<1>1. /\ curHTTPID \in Conn /\ k \in Socket /\ l \in Client /\ received = k.rx
      /\ sock \in [Conn -> Socket] /\ client \in [Conn -> Client] /\ curHTTP \in HttpConn
      /\ client = [client EXCEPT ![curHTTPID] = l] /\ received \in Seq(Piece)
  BY DEF WebInv, received, c1, Socket
<1>2. /\ {"PARSE_REQUEST", "PARSE_HEADERS", "AUTHENTICATE", "PROCESS_POST", "PROCESS_REQUEST",
           "SERVE_HEADERS"} \subseteq Asking
      /\ {"SERVE_BODY", "SEND_FROM_CALLBACK"} \subseteq Serving
  BY DEF Asking, Places, Serving
<1>3. CASE StartsRequest
  <2> DEFINE lost == l.lost \/ k.tx > 0
             k2 == [[k EXCEPT !.rest = "rx"] EXCEPT !.tx = 0]
             l2 == [l EXCEPT !.lost = lost]
             r == [[curHTTP EXCEPT !.authorized = TRUE] EXCEPT !.byteCount = 0]
  <2>1. /\ In("IDLE") /\ Goes("PARSE_REQUEST") /\ curHTTP' = r
        /\ sock' = [sock EXCEPT ![curHTTPID] = k2] /\ client' = [client EXCEPT ![curHTTPID] = l2]
    BY <1>1, <1>3 DEF StartsRequest, TxEmptied, c1
  <2>2. FormOK("IDLE", k, l, curHTTP)
    BY <2>1, FormBefore
  <2> HIDE DEF lost
  <2>3. k2.rx = k.rx /\ k2.rest = "rx" /\ l2.script = l.script /\ l2.polite = l.polite /\ r.byteCount = 0
    BY <1>1 DEF Socket, Client, HttpConn
  <2> HIDE DEF k, l, k2, l2, r
  <2>4. Coming(k2, l2) = Coming(k, l)
    BY <2>3 DEF Coming
  <2>5. l2.polite => Polite(Coming(k2, l2))
    BY <2>2, <2>3, <2>4 DEF FormOK
  <2>6. FormOK("PARSE_REQUEST", k2, l2, r)
    BY <2>3, <2>5 DEF FormOK
  <2> QED
    BY <2>1, <2>6, ProcessForm
<1>4. ASSUME NEW p \in {"PARSE_REQUEST", "PARSE_HEADERS", "DISCONNECT"}, In(p), TCPDisconnect(c1),
             NEW s \in {"DISCONNECT", "IDLE"}, Goes(s) \/ Returns(s)
      PROVE  FormInv'
  <2>1. CASE k.state \in {"open", "half"}
    <3> DEFINE k2 == [[k EXCEPT !.state = "closing"] EXCEPT !.rx = << >>]
    <3>1. sock' = [sock EXCEPT ![curHTTPID] = k2] /\ client' = [client EXCEPT ![curHTTPID] = l]
      BY <1>1, <1>4, <2>1 DEF TCPDisconnect, c1
    <3>2. << >> \in Seq(Piece)
      OBVIOUS
    <3>3. k2 \in Socket /\ k2.rx = << >>
      BY <1>1, <3>2 DEF Socket
    <3> HIDE DEF k2
    <3> QED
      BY <1>1, <1>4, <3>1, <3>3, LeavesForm
  <2>2. CASE k.state \notin {"open", "half"}
    <3> DEFINE k2 == [Listening(TRUE) EXCEPT !.rest = k.rest]
               lost == l.lost \/ k.tx > 0
               l2 == [l EXCEPT !.lost = lost]
    <3>1. sock' = [sock EXCEPT ![curHTTPID] = k2] /\ client' = [client EXCEPT ![curHTTPID] = l2]
      BY <1>1, <1>4, <2>2 DEF TCPDisconnect, TxEmptied, c1
    <3>2. k.rest \in {"both", "rx", "tx"} /\ lost \in BOOLEAN
      BY <1>1 DEF Socket, Client
    <3>3. k2 \in Socket /\ k2.rx = << >>
      BY <3>2, ListeningOK
    <3> HIDE DEF lost
    <3>4. l2 \in Client /\ l2.script = l.script /\ l2.polite = l.polite
      BY <1>1, <3>2 DEF Client
    <3> HIDE DEF k2, l2
    <3> QED
      BY <1>1, <1>4, <3>1, <3>3, <3>4, LeavesForm
  <2> QED
    BY <2>1, <2>2
<1>5. CASE WaitsForLine
  <2> DEFINE p == sm[curHTTPID]
  <2>1. p \in {"PARSE_REQUEST", "PARSE_HEADERS"} /\ In(p)
    BY <1>5 DEF WaitsForLine, In, c1
  <2> HIDE DEF p
  <2>2. CASE TimesOut
    BY <1>4, <2>1, <2>2 DEF TimesOut
  <2>3. CASE Answer("overflow") /\ sock' = sock /\ client' = client
    BY <1>1, <1>2, <2>1, <2>3, KeepsComing DEF Answer
  <2>4. CASE Returns(p) /\ sock' = sock /\ client' = client /\ curHTTP' = curHTTP
    BY <1>1, <1>2, <2>1, <2>4, KeepsComing
  <2> QED
    BY <1>5, <2>2, <2>3, <2>4 DEF WaitsForLine, NoLine, c1, p
<1>6. CASE RefusesRequest
  <2>1. In("PARSE_REQUEST") /\ Goes("SERVE_HEADERS") /\ sock' = sock /\ client' = client
    BY <1>6 DEF RefusesRequest, Answer
  <2> QED
    BY <1>1, <1>2, <2>1, KeepsComing
<1>18. CASE RefusesName
  <2>1. In("PARSE_REQUEST") /\ Goes("SERVE_HEADERS") /\ sock' = sock /\ client' = client
    BY <1>18 DEF RefusesName, Answer
  <2> QED
    BY <1>1, <1>2, <2>1, KeepsComing
<1>7. CASE Authenticates
  <2>1. In("AUTHENTICATE") /\ sock' = sock /\ client' = client
        /\ ((Goes("PROCESS_POST") /\ curHTTP' = curHTTP) \/ Goes("SERVE_HEADERS"))
    BY <1>7 DEF Authenticates, Answer
  <2>2. CASE Goes("PROCESS_POST") /\ curHTTP' = curHTTP
    BY <1>1, <1>2, <2>1, <2>2, KeepsComing
  <2>3. CASE Goes("SERVE_HEADERS")
    BY <1>1, <1>2, <2>1, <2>3, KeepsComing
  <2> QED
    BY <2>1, <2>2, <2>3
<1>8. CASE WaitsForBody \/ SkipsBody
  <2>1. In("PROCESS_POST") /\ sock' = sock /\ client' = client /\ curHTTP' = curHTTP
        /\ (Goes("PROCESS_REQUEST") \/ Returns("PROCESS_POST"))
    BY <1>8 DEF WaitsForBody, SkipsBody
  <2>2. CASE Goes("PROCESS_REQUEST")
    BY <1>1, <1>2, <2>1, <2>2, KeepsComing
  <2>3. CASE Returns("PROCESS_POST")
    BY <1>1, <1>2, <2>1, <2>3, KeepsComing
  <2> QED
    BY <2>1, <2>2, <2>3
<1>9. CASE ProcessesRequest
  <2>1. In("PROCESS_REQUEST") /\ sock' = sock /\ client' = client /\ Goes("SERVE_HEADERS")
    BY <1>9 DEF ProcessesRequest, Answer
  <2> QED
    BY <1>1, <1>2, <2>1, KeepsComing
<1>10. CASE ReadsForm
  <2>1. In("PROCESS_POST") /\ client' = client /\ curHTTP' = curHTTP /\ Goes("PROCESS_REQUEST")
    BY <1>10 DEF ReadsForm
  <2>2. PICK n \in 0 .. TCPIsGetReady :
          sock' = [sock EXCEPT ![curHTTPID].rx = SubSeq(received, n + 1, Len(received))]
    BY <1>10 DEF ReadsForm, c1
  <2> DEFINE q == SubSeq(received, n + 1, Len(received))
             k2 == [k EXCEPT !.rx = q]
  <2>4. n \in 0 .. Len(received)
    BY <2>2 DEF TCPIsGetReady
  <2>5. q \in Seq(Piece)
    BY <1>1, <2>4
  <2>6. sock' = [sock EXCEPT ![curHTTPID] = k2]
    BY <1>1, <2>2
  <2> HIDE DEF q
  <2>7. k2 \in Socket /\ k2.rx = q /\ k2.rest = k.rest /\ k2.wasReset = k.wasReset
    BY <1>1, <2>5 DEF Socket
  <2>8. k2.rx = SubSeq(received, n + 1, Len(received))
    BY <2>7 DEF q
  <2> HIDE DEF k2
  <2>9. Leads("PROCESS_POST", "PROCESS_REQUEST", n, curHTTP)
    BY DEF Leads
  <2> QED
    BY <1>1, <1>2, <2>1, <2>4, <2>6, <2>7, <2>8, <2>9, TakesForm
<1>11. ASSUME Newlines # {}
       PROVE  /\ LineEnd \in 0 .. Len(received) /\ LineEnd \in 1 .. Len(received)
              /\ Line = received[LineEnd] /\ Line \in Piece /\ AfterLine \in Seq(Piece)
              /\ AfterLine = SubSeq(received, LineEnd + 1, Len(received))
  <2>1. LineEnd \in 1 .. Len(received) /\ Line \in Piece /\ AfterLine \in Seq(Piece)
    BY <1>1, <1>11, LineIsPiece
  <2> QED
    BY <2>1 DEF Line, AfterLine
<1>12. CASE ParsesHeader
  <2> DEFINE s == IF Line.kind = "end" THEN "AUTHENTICATE" ELSE "PARSE_HEADERS"
             k2 == [k EXCEPT !.rx = AfterLine]
             a == curHTTP.authorized \/ (Line.kind = "password" /\ Line.right)
             n == CASE Line.kind = "length" -> Line.n [] Line.kind = "overlength" -> 0
                    [] OTHER -> curHTTP.byteCount
             status == IF Line.kind = "overlength" THEN "bad request" ELSE curHTTP.status
             r == [[[curHTTP EXCEPT !.status = status] EXCEPT !.authorized = a] EXCEPT !.byteCount = n]
  <2>1. /\ In("PARSE_HEADERS") /\ client' = client /\ Goes(s) /\ Newlines # {}
        /\ curHTTP' = r /\ sock' = [sock EXCEPT ![curHTTPID] = k2]
    BY <1>1, <1>12 DEF ParsesHeader, TakesLine, c1
  <2>2. a \in BOOLEAN /\ n \in Nat /\ status \in Statuses
    BY <1>1, <1>11, <2>1, LineKinds DEF HttpConn, Statuses
  <2>3. n = curHTTP.byteCount \/ n = 0 \/ (Line.kind = "length" /\ n = Line.n)
    OBVIOUS
  <2>4. Line.kind = "end" => n = curHTTP.byteCount
    OBVIOUS
  <2>5. (s = "AUTHENTICATE" /\ Line.kind = "end") \/ s = "PARSE_HEADERS"
    OBVIOUS
  <2> HIDE DEF a, n, s, status
  <2>6. r \in HttpConn /\ r.byteCount = n
    BY <1>1, <2>2 DEF HttpConn
  <2>7. k2 \in Socket /\ k2.rx = AfterLine /\ k2.rest = k.rest /\ k2.wasReset = k.wasReset
    BY <1>1, <1>11, <2>1 DEF Socket
  <2> DEFINE e == LineEnd
  <2>8. /\ e \in 0 .. Len(received) /\ e \in 1 .. Len(received)
        /\ k2.rx = SubSeq(received, e + 1, Len(received))
        /\ Line = received[e]
    BY <1>11, <2>1, <2>7
  <2> HIDE DEF r, k2, e
  <2>9. CASE s = "AUTHENTICATE" /\ Line.kind = "end"
    <3>1. r.byteCount = curHTTP.byteCount /\ received[e].kind = "end" /\ "PARSE_HEADERS" \in Asking
      BY <1>2, <2>4, <2>6, <2>8, <2>9
    <3>2. client' = [client EXCEPT ![curHTTPID] = l]
      BY <1>1, <2>1
    <3>3. Leads("PARSE_HEADERS", s, e, r)
      BY <2>8, <2>9, <3>1 DEF Leads
    <3> QED
      BY <1>1, <2>1, <2>6, <2>7, <2>8, <2>9, <3>1, <3>2, <3>3, TakesForm
  <2>10. CASE s = "PARSE_HEADERS"
    <3>1. /\ \/ r.byteCount = curHTTP.byteCount \/ r.byteCount = 0
             \/ received[e].kind = "length" /\ r.byteCount = received[e].n
          /\ "PARSE_HEADERS" \in Asking
      BY <1>2, <2>3, <2>6, <2>8, <2>10
    <3>2. client' = [client EXCEPT ![curHTTPID] = l]
      BY <1>1, <2>1
    <3>3. Leads("PARSE_HEADERS", s, e, r)
      BY <2>8, <2>10, <3>1 DEF Leads
    <3> QED
      BY <1>1, <2>1, <2>6, <2>7, <2>8, <2>10, <3>1, <3>2, <3>3, TakesForm
  <2> QED
    BY <2>5, <2>9, <2>10
<1>13. CASE OpensFile
  <2> DEFINE page == Line.page
             l2 == [l EXCEPT !.asked = page]
             r == curHTTP'
  <2>1. /\ In("PARSE_REQUEST") /\ Newlines # {} /\ client' = [client EXCEPT ![curHTTPID] = l2]
        /\ Line.kind = "request"
    BY <1>1, <1>13 DEF OpensFile, IsRequest, c1
  <2>2. page \in File \cup {None}
    BY <1>11, <2>1, LineKinds
  <2> HIDE DEF page
  <2>3. l2 \in Client /\ l2.script = l.script /\ l2.polite = l.polite
    BY <1>1, <2>2 DEF Client
  <2> HIDE DEF l2
  <2>4. CASE Line.overlong = "arguments"
    <3>1. Goes("SERVE_HEADERS") /\ sock' = sock
      BY <1>13, <2>4 DEF OpensFile
    <3> QED
      BY <1>1, <1>2, <2>1, <2>3, <3>1, KeepsComing
  <2>5. CASE Line.overlong # "arguments"
    <3> DEFINE k2 == [k EXCEPT !.rx = AfterLine]
               e == LineEnd
    <3>1. Goes("PARSE_HEADERS") /\ sock' = [sock EXCEPT ![curHTTPID] = k2]
      BY <1>1, <1>13, <2>5 DEF OpensFile, TakesLine, c1
    <3>2. k2 \in Socket /\ k2.rx = AfterLine /\ k2.rest = k.rest /\ k2.wasReset = k.wasReset
      BY <1>1, <1>11, <2>1 DEF Socket
    <3>3. /\ e \in 0 .. Len(received) /\ k2.rx = SubSeq(received, e + 1, Len(received))
      BY <1>11, <2>1, <3>2
    <3>4. r \in HttpConn /\ r.byteCount = curHTTP.byteCount
      <4>1. WebInv'
        BY <1>13, AskingKeeps
      <4>2. r \in HttpConn
        BY <4>1 DEF WebInv
      <4>3. \E x, y, z, u : r = [[[[curHTTP EXCEPT !.status = x] EXCEPT !.file = y]
                                    EXCEPT !.offsets = z] EXCEPT !.authorized = u]
        BY <1>13 DEF OpensFile
      <4> HIDE DEF r
      <4>4. r.byteCount = curHTTP.byteCount
        BY <1>1, <4>3 DEF HttpConn
      <4> QED
        BY <4>2, <4>4
    <3>5. curHTTP' = r
      OBVIOUS
    <3> HIDE DEF k2, e, r
    <3>6. Leads("PARSE_REQUEST", "PARSE_HEADERS", e, r)
      BY <3>4 DEF Leads
    <3> QED
      BY <1>1, <1>2, <2>1, <2>3, <3>1, <3>2, <3>3, <3>4, <3>5, <3>6, TakesForm
  <2> QED
    BY <1>11, <2>1, <2>4, <2>5
<1>14. CASE ReadsFormForEver
  <2>1. In("PROCESS_POST") /\ ~NeedsData /\ HasForm /\ curHTTP.byteCount \in 1 .. RxRoom(k)
        /\ Len(k.rx) # curHTTP.byteCount /\ stuck' = TRUE
        /\ UNCHANGED <<sm, curHTTPID, curHTTP, saved, sock, client>>
    BY <1>1, <1>14 DEF ReadsFormForEver, context, TCPIsGetReady, c1
  <2>2. FormOK("PROCESS_POST", k, l, curHTTP) /\ ~k.wasReset
    BY <2>1, FormBefore
  <2>3. k.rx \in Seq(Piece) /\ l.script \in Seq(Piece)
        /\ Len(Coming(k, l)) = Len(k.rx) + Len(l.script)
    BY <1>1, ComingOK
  <2> DEFINE x == Len(k.rx)
             y == Len(l.script)
             z == RxRoom(k)
             b == curHTTP.byteCount
  <2>4. x \in Nat /\ y \in Nat /\ z \in Nat /\ b \in 1 .. z
    BY <2>1, <2>3, HttpSizes DEF RxRoom
  <2>5. x # b /\ ~(x < b)
    <3>1. b <= z
      <4> HIDE DEF b, z, x, y
      <4> QED
        BY <2>4
    <3> QED
      BY <1>1, <2>1, <3>1 DEF NeedsData, TCPIsGetReady, c1
  <2>6. l.polite => x + y <= b
    <3>1. b > 0
      <4> HIDE DEF b, z
      <4> QED
        BY <2>4
    <3> QED
      BY <2>2, <2>3, <3>1 DEF FormOK
  <2>7. ~l.polite
    <3> HIDE DEF x, y, z, b
    <3> QED
      BY <2>4, <2>5, <2>6
  <2>8. (stuck => ~client[curHTTPID].polite)'
    BY <2>1, <2>7
  <2>9. \A d \in Conn : FormOK(sm[d], sock[d], client[d], Record(d))'
    BY <2>1 DEF FormInv, Record
  <2> QED
    BY <2>8, <2>9 DEF FormInv
<1>15. CASE ServesHeaders
  <2> DEFINE n == IF k.state \in {"open", "half"} THEN 1 ELSE 0
             lost == l.lost \/ k.tx > 0
             k2 == [[[k EXCEPT !.rx = << >>] EXCEPT !.rest = "tx"] EXCEPT !.tx = n]
             l2 == [[l EXCEPT !.answered = TRUE] EXCEPT !.lost = lost]
             s == IF curHTTP.status \in {"GET", "POST"} THEN "SERVE_BODY" ELSE "DISCONNECT"
  <2>1. /\ In("SERVE_HEADERS") /\ (Goes(s) \/ Returns(s))
        /\ sock' = [sock EXCEPT ![curHTTPID] = k2] /\ client' = [client EXCEPT ![curHTTPID] = l2]
    BY <1>1, <1>15 DEF ServesHeaders, c1
  <2>2. n \in 0 .. TxFifo /\ lost \in BOOLEAN /\ << >> \in Seq(Piece)
    BY <1>1, HttpSizes DEF Client
  <2>3. s \in Serving \cup {"IDLE", "DISCONNECT"}
    BY <1>2
  <2> HIDE DEF n, lost, s
  <2>4. k2 \in Socket /\ k2.rx = << >>
    BY <1>1, <2>2 DEF Socket
  <2>5. l2 \in Client /\ l2.script = l.script /\ l2.polite = l.polite
    BY <1>1, <2>2 DEF Client
  <2> HIDE DEF k2, l2
  <2> QED
    BY <1>1, <2>1, <2>3, <2>4, <2>5, LeavesForm
<1>16. CASE ServesBody \/ SendsFromCallback
  <2>1. WebInv'
    BY <1>16, BodyKeeps, CallbackKeeps
  <2>2. client' = client
    BY <1>16 DEF ServesBody, SendsFromCallback
  <2>3. \E p, s : In(p) /\ (Goes(s) \/ Returns(s)) /\ s \in Serving \cup {"IDLE", "DISCONNECT"}
    <3>1. CASE SendsFromCallback
      BY <1>2, <3>1 DEF SendsFromCallback
    <3>2. CASE ServesBody
      <4>1. In("SERVE_BODY") /\ \E s \in {"DISCONNECT", "SEND_FROM_CALLBACK", "SERVE_BODY"} : Goes(s) \/ Returns(s)
        BY <3>2 DEF ServesBody
      <4> QED
        BY <1>2, <4>1
    <3> QED
      BY <1>16, <3>1, <3>2
  <2>4. \E n : sock' = [sock EXCEPT ![curHTTPID].tx = n]
    <3>1. CASE SendsFromCallback
      <4>1. CASE PutReady = 0
        <5>1. sock' = sock
          BY <3>1, <4>1 DEF SendsFromCallback
        <5>2. sock = [sock EXCEPT ![curHTTPID].tx = k.tx]
          BY <1>1 DEF Socket
        <5> QED
          BY <5>1, <5>2
      <4>2. CASE PutReady # 0
        BY <3>1, <4>2 DEF SendsFromCallback, c1
      <4> QED
        BY <4>1, <4>2
    <3>2. CASE ServesBody
      BY <3>2 DEF ServesBody, c1
    <3> QED
      BY <1>16, <3>1, <3>2
  <2>5. PICK n : sock' = [sock EXCEPT ![curHTTPID].tx = n]
    BY <2>4
  <2> DEFINE k2 == [k EXCEPT !.tx = n]
  <2>6. sock' = [sock EXCEPT ![curHTTPID] = k2]
    BY <1>1, <2>5
  <2>7. k2 \in Socket
    <3>1. sock'[curHTTPID] \in Socket
      BY <1>1, <2>1 DEF WebInv
    <3> HIDE DEF k2
    <3> QED
      BY <1>1, <2>6, <3>1
  <2>8. k2.rx = k.rx
    BY <1>1 DEF Socket
  <2> HIDE DEF k2
  <2> QED
    BY <1>1, <2>2, <2>3, <2>6, <2>7, <2>8, LeavesForm
<1>17. CASE Disconnects
  BY <1>4, <1>17 DEF Disconnects
<1> QED
  BY <1>3, <1>5, <1>6, <1>7, <1>8, <1>9, <1>10, <1>12, <1>13, <1>14, <1>15, <1>16, <1>17, <1>18
     DEF HTTPProcess

\* The visits.
LEMMA VisitForm ==
  ASSUME WebInv, FormInv, NEW c \in Conn, Forgets(c) \/ Skips(c) \/ TakesUp(c)
  PROVE  FormInv'
<1> DEFINE k == sock[c]
           l == client[c]
<1>1. /\ sm \in [Conn -> Places] /\ Record(c) \in HttpConn /\ k \in Socket /\ l \in Client
      /\ sock \in [Conn -> Socket] /\ client \in [Conn -> Client]
      /\ FormOK(sm[c], k, l, Record(c))
  BY DEF WebInv, ConnOK, FormInv
<1>2. stuck = FALSE /\ stuck' = FALSE
  BY DEF Forgets, Skips, TakesUp, Visits, WebInv
<1>3. CASE Skips(c)
  <2>1. UNCHANGED <<sm, curHTTPID, curHTTP, saved, sock, client, stuck>>
    BY <1>3 DEF Skips, context
  <2> QED
    BY <2>1 DEF FormInv, Record
<1>4. CASE TakesUp(c)
  <2>1. HTTPLoadConn(c) /\ curHTTP' = Record(c) /\ sm' = sm /\ sock' = sock /\ client' = client
    BY <1>4 DEF TakesUp
  <2>2. Record(c)' = Record(c) /\ \A d \in Conn : d # c => Record(d)' = Record(d)
    BY <1>1, <2>1, Loads
  <2>3. FormOK(sm'[c], sock'[c], client'[c], Record(c)')
    BY <1>1, <2>1, <2>2
  <2> QED
    BY <1>2, <2>1, <2>2, <2>3, OneForm
<1>5. CASE Forgets(c)
  <2> DEFINE rest == IF k.rest = "rx" /\ k.rx # << >> THEN k.rest ELSE "both"
             lost == l.lost \/ k.tx > 0
             k2 == [[[k EXCEPT !.wasReset = FALSE] EXCEPT !.rest = rest] EXCEPT !.tx = 0]
             l2 == [l EXCEPT !.lost = lost]
  <2>1. sock' = [sock EXCEPT ![c] = k2]
    BY <1>1, <1>5 DEF Forgets
  <2>2. client' = [client EXCEPT ![c] = l2] /\ sm' = [sm EXCEPT ![c] = "IDLE"] /\ curHTTP' = Closed
        /\ HTTPLoadConn(c)
    BY <1>1, <1>5 DEF Forgets, TxEmptied, CloseFiles
  <2> HIDE DEF rest, lost
  <2>3. k2.rx = k.rx /\ l2.script = l.script /\ l2.polite = l.polite
    BY <1>1 DEF Socket, Client
  <2>4. Closed \in HttpConn
    BY DEF Closed, HttpConn, Statuses
  <2>5. Record(c)' = Closed /\ \A d \in Conn : d # c => Record(d)' = Record(d)
    BY <2>2, <2>4, Loads
  <2>6. sm'[c] = "IDLE" /\ (\A d \in Conn : d # c => sm'[d] = sm[d])
        /\ sock'[c] = k2 /\ (\A d \in Conn : d # c => sock'[d] = sock[d])
        /\ client'[c] = l2 /\ (\A d \in Conn : d # c => client'[d] = client[d])
    BY <1>1, <2>1, <2>2
  <2> HIDE DEF k, l, k2, l2
  <2>7. l2.polite => Polite(Coming(k2, l2))
    BY <1>1, <2>3 DEF FormOK, Coming
  <2>8. FormOK("IDLE", k2, l2, Closed)
    BY <2>7 DEF FormOK, Asking
  <2>9. FormOK(sm'[c], sock'[c], client'[c], Record(c)')
    BY <2>5, <2>6, <2>8
  <2> QED
    BY <1>2, <2>5, <2>6, <2>9, OneForm
<1> QED
  BY <1>3, <1>4, <1>5

\* From the start, and in every step.
LEMMA FormsAlways == HttpSpec => []FormInv
<1>1. ASSUME HttpInit PROVE FormInv
  <2> DEFINE k == Listening(TRUE)
  <2>1. k.rx = << >> /\ Nobody.script = << >> /\ Polite(<< >>)
    BY DEF Listening, Nobody, Polite
  <2>2. \A c \in Conn : sm[c] = "IDLE" /\ sock[c] = k /\ client[c] = Nobody
    BY <1>1 DEF HttpInit
  <2> HIDE DEF k
  <2>3. << >> \o << >> = << >>
    OBVIOUS
  <2>4. Coming(k, Nobody) = << >>
    BY <2>1, <2>3 DEF Coming
  <2>5. \A r : FormOK("IDLE", k, Nobody, r)
    BY <2>1, <2>4 DEF FormOK, Asking
  <2> QED
    BY <1>1, <2>2, <2>5 DEF FormInv, HttpInit
<1>2. ASSUME WebInv, FormInv, [HttpNext]_httpvars PROVE FormInv'
  <2>1. CASE UNCHANGED <<sm, curHTTPID, curHTTP, saved, sock, client, stuck>>
    BY <1>2, <2>1 DEF FormInv, Record
  <2>2. CASE \E c \in Conn : Expires(c)
    BY <2>1, <2>2 DEF Expires, server, context
  <2> QED
    BY <1>2, <2>1, <2>2, ProcessKeepsForm, VisitForm, StackForm DEF HttpNext, HTTPServer, httpvars
<1> QED
  BY <1>1, <1>2, WebAlways, PTL DEF HttpSpec

\* HttpInv: types, handles, and that the reading of every form comes to an end.
THEOREM WebServerAlways == HttpSpec => []HttpInv
<1>1. FormInv => FormsEnd
  BY DEF FormInv, FormsEnd
<1> QED
  BY <1>1, HttpTypes, HandlesAlwaysAccountedFor, FormsAlways, PTL DEF HttpInv

=============================================================================
