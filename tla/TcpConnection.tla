---------------------------- MODULE TcpConnection ----------------------------
(***************************************************************************)
(* One socket of the TCP engine of net/TCP.c, from TCPOpen or TCP_LISTEN   *)
(* to CloseSocket: HandleTCPSeg's state machine, SendTCP, the timers of    *)
(* TCPTick, and the API the application calls between them.  All run in    *)
(* one thread, so a step is one call; a call may send several segments.    *)
(*                                                                         *)
(* Our stream is counted in positions: its first byte is 0, the SYN -1.    *)
(* The pointers of the TX FIFO are positions too.  Of the remote node's    *)
(* stream only the order is kept (TcpReceive has the bytes): a segment is  *)
(* "next" when it starts at the byte wanted, "old" when all of it is known *)
(* already, "ahead" when something before it is missing.                   *)
(*                                                                         *)
(* What we send reaches the remote node at once or never.  What it sends   *)
(* may come at any time, again, late and in any order: a segment bears any *)
(* acknowledgement and any window it may have sent on this connection.     *)
(* Time is left out: a timer that runs may expire at any moment.           *)
(***************************************************************************)
EXTENDS Integers, Sequences

CONSTANTS
  TxSize,          \* bytes the TX FIFO holds
  RxRoom,          \* bytes the RX FIFO holds
  MSS,             \* MyTCB.wRemoteMSS
  WordRange,       \* values of a WORD: 2^16
  PeerWindow,      \* bound: largest window the remote node offers
  MaxPut,          \* bound: bytes the application puts in a connection
  MaxRetries,      \* TCP_MAX_RETRIES
  MaxSynRetries,   \* TCP_MAX_SYN_RETRIES
  MaxKeepAlives    \* TCP_MAX_UNACKED_KEEP_ALIVES

ASSUME ConnectionAssumption ==
  /\ TxSize \in Nat /\ RxRoom \in Nat /\ MSS \in Nat /\ MSS > 0
  /\ WordRange \in Nat /\ PeerWindow \in Nat /\ MaxPut \in Nat
  /\ TxSize > 0 /\ RxRoom > 0
  /\ TxSize < WordRange /\ RxRoom < WordRange /\ PeerWindow < WordRange
  /\ MaxRetries \in Nat /\ MaxSynRetries \in Nat /\ MaxKeepAlives \in Nat
  /\ MaxRetries > 0

VARIABLES
  tcb,        \* TCB_STUB and TCB of the socket
  bServer,    \* Flags.bServer
  peer,       \* history: what the remote node has of our stream
  silent      \* the remote node, or the link to it, is gone

vars == <<tcb, bServer, peer, silent>>

(***************************************************************************)
(* due tells whether TCPTick has something to send (bTXASAP or one of the  *)
(* short timers, or bTXASAPWithoutTimerReset); oneSegment is               *)
(* bOneSegmentReceived and the delayed-ACK timer, which are set and        *)
(* cleared together.  noneACKed counts bRXNoneACKed1 and 2.                *)
(***************************************************************************)
Fresh(state) ==
  [smState |-> state, MySEQ |-> -1, txTail |-> 0, txUnackedTail |-> 0, txHead |-> 0,
   remoteWindow |-> 1, rx |-> 0, remoteFin |-> FALSE,
   bTimerEnabled |-> FALSE, retryCount |-> 0, keepAlives |-> 0, noneACKed |-> 0,
   due |-> "no", oneSegment |-> FALSE,
   bTXFIN |-> FALSE, bFINSent |-> FALSE, bSYNSent |-> FALSE, bSocketReset |-> TRUE,
   sent |-> << >>]

Opening == {"GATEWAY_SEND_ARP", "GATEWAY_GET_ARP", "SYN_SENT"}
Closing == {"FIN_WAIT_1", "FIN_WAIT_2", "CLOSING", "LAST_ACK"}
Connected == {"SYN_RECEIVED", "ESTABLISHED", "CLOSE_WAIT"} \cup Closing
State == {"CLOSED", "LISTEN", "CLOSED_BUT_RESERVED"} \cup Opening \cup Connected

Nothing == [syn |-> FALSE, got |-> 0, fin |-> FALSE]

Init ==
  /\ bServer \in BOOLEAN
  /\ tcb = Fresh(IF bServer THEN "LISTEN" ELSE "CLOSED")
  /\ peer = Nothing /\ silent = FALSE

Smaller(a, b) == IF a < b THEN a ELSE b

-----------------------------------------------------------------------------
(* CloseSocket and SendTCP, as functions of the TCB *)

\* mutant: the application is not told
CloseQuietly == [Fresh(IF bServer THEN "LISTEN" ELSE "CLOSED") EXCEPT !.bSocketReset = FALSE]

CloseSocket == Fresh(IF bServer THEN "LISTEN" ELSE "CLOSED")

\* A FIN is put in only if surely all data is out: not when a limit was met.
FinFits(c, len) == len # c.remoteWindow /\ len # MSS

SendTCP(c, flags, mode) ==
  LET control == flags \cap {"SYN", "RST"} # {}
      wantsFin == c.bTXFIN \/ "FIN" \in flags
      allowed == Smaller(c.txHead - c.txUnackedTail, c.remoteWindow)
      len == IF control THEN 0 ELSE Smaller(allowed, MSS)
      syn == "SYN" \in flags
      fin == ~control /\ wantsFin /\ FinFits(c, len)
      counts == len > 0 \/ syn \/ fin
      probe == ~counts /\ mode = "keepalive"
      seq == IF probe \/ (syn /\ c.bSYNSent) THEN c.MySEQ - 1 ELSE c.MySEQ
  IN  [c EXCEPT
        !.bTXFIN = wantsFin, !.bFINSent = @ \/ fin, !.bSYNSent = @ \/ syn,
        !.due = IF ~control /\ allowed > MSS THEN "quick" ELSE "no",
        !.oneSegment = FALSE,
        !.txUnackedTail = @ + len, !.remoteWindow = @ - len,
        !.MySEQ = @ + len + (IF syn /\ ~c.bSYNSent THEN 1 ELSE 0),
        !.keepAlives = IF probe THEN @ + 1 ELSE @,
        !.bTimerEnabled = @ \/ counts,
        !.retryCount =
          CASE counts /\ mode = "reset" -> 0
            [] ~counts /\ ~probe /\ c.bTimerEnabled /\ mode # "reset" /\ @ > 0 -> @ - 1
            [] OTHER -> @,
        !.sent = Append(@, [seq |-> seq, len |-> len, syn |-> syn, fin |-> fin])]

\* Until all data is out or the remote window is used up.
SendFin(c) ==
  LET sends[k \in 0 .. TxSize] ==
        IF k = 0 THEN SendTCP(c, {"FIN", "ACK"}, "reset")
        ELSE LET b == sends[k - 1]
             IN  IF b.remoteWindow = 0 \/ b.txHead = b.txUnackedTail THEN b
                 ELSE SendTCP(b, {"FIN", "ACK"}, "reset")
  IN  sends[TxSize]

\* Back to the first byte that is not acknowledged.
RollBack(c) ==
  [c EXCEPT !.MySEQ = @ - (c.txUnackedTail - c.txTail), !.txUnackedTail = c.txTail]

-----------------------------------------------------------------------------
(* The remote node and the network *)

\* It takes a segment that continues what it has, or the part it has room for.
Takes(p, s) ==
  {p} \cup
  IF s.syn THEN {[p EXCEPT !.syn = TRUE]}
  ELSE {[p EXCEPT !.got = IF s.seq + k > @ THEN s.seq + k ELSE @,
                  !.fin = @ \/ (s.fin /\ k = s.len)] :
          k \in IF s.seq <= p.got THEN 0 .. s.len ELSE {}}

\* Each of the segments of a call arrives or is lost.
After(p, sent) ==
  LET reached[k \in 0 .. Len(sent)] ==
        IF k = 0 THEN {p} ELSE UNION {Takes(q, sent[k]) : q \in reached[k - 1]}
  IN  reached[Len(sent)]

\* The end of a call: what it made of the TCB, and what comes of its segments.
\* A socket that was closed has no connection any more.
Becomes(c) ==
  \E outcome \in {c} :
      /\ tcb' = [outcome EXCEPT !.sent = << >>]
      /\ IF outcome.smState \in {"CLOSED", "LISTEN", "CLOSED_BUT_RESERVED"}
         THEN peer' = Nothing
         ELSE peer' \in After(peer, outcome.sent)
      /\ UNCHANGED bServer

-----------------------------------------------------------------------------
(* The API *)

TCPOpen ==
  /\ tcb.smState = "CLOSED" /\ ~bServer
  /\ Becomes([tcb EXCEPT !.smState = "GATEWAY_SEND_ARP", !.bTimerEnabled = TRUE,
                         !.retryCount = 0])
  /\ UNCHANGED silent

TCPFlush(c) ==
  IF c.txHead # c.txUnackedTail THEN SendTCP(c, {"ACK"}, "reset") ELSE c

\* TCPPutArray of n bytes; bHalfFullFlush decides about an early flush.
TCPPutArray(n) ==
  /\ tcb.smState \in {"ESTABLISHED", "CLOSE_WAIT"}
  /\ tcb.txHead + n <= MaxPut
  /\ LET free == TxSize - (tcb.txHead - tcb.txTail)
         Put(c) == [c EXCEPT !.txHead = @ + Smaller(n, free)]
     IN  IF free = 0 THEN Becomes(TCPFlush(tcb))
         ELSE \E early \in BOOLEAN :
                LET c == Put(IF early THEN TCPFlush(tcb) ELSE tcb)
                IN  IF free <= n THEN Becomes(TCPFlush(c))
                    ELSE Becomes([c EXCEPT !.due = IF @ = "no" THEN "yes" ELSE @])
  /\ UNCHANGED silent

\* TCPGetArray: the window opens, which the remote node is told soon.
TCPGetArray ==
  /\ tcb.rx > 0
  /\ \E n \in 1 .. tcb.rx :
       Becomes([tcb EXCEPT !.rx = @ - n,
                           !.due = IF 2 * n >= tcb.rx THEN "quick"
                                   ELSE IF @ = "no" THEN "yes" ELSE @])
  /\ UNCHANGED silent

\* TCPDisconnect; in a state that is closing already, for the second time.
Disconnected(c) ==
  LET d == [c EXCEPT !.rx = 0]
  IN  CASE d.smState \in {"SYN_RECEIVED", "ESTABLISHED"} ->
             [SendFin(d) EXCEPT !.smState = "FIN_WAIT_1"]
        [] d.smState = "CLOSE_WAIT" -> [SendFin(d) EXCEPT !.smState = "LAST_ACK"]
        [] d.smState = "CLOSED_BUT_RESERVED" -> [d EXCEPT !.smState = "CLOSED"]
        [] OTHER -> CloseSocket

TCPDisconnect ==
  /\ Becomes(Disconnected(tcb))
  /\ UNCHANGED silent

TCPWasReset ==
  /\ tcb.bSocketReset
  /\ Becomes([tcb EXCEPT !.bSocketReset = FALSE])
  /\ UNCHANGED silent

-----------------------------------------------------------------------------
(* HandleTCPSeg *)

Acked(s) == "ACK" \in s.flags
Length(s) == s.len + (IF "FIN" \in s.flags THEN 1 ELSE 0)
                   + (IF "SYN" \in s.flags THEN 1 ELSE 0)

\* A RST that answers a wrong acknowledgement bears its number; ours is kept.
ResetOnly(c) == SendTCP(c, {"RST"}, "reset")

\* A server's socket was bound to the sender by FindMatchingSocket.
Listening(c, s) ==
  IF "RST" \in s.flags \/ Acked(s) \/ "SYN" \notin s.flags THEN CloseSocket
  ELSE [SendTCP(c, {"SYN", "ACK"}, "reset") EXCEPT !.smState = "SYN_RECEIVED"]

SynSent(c, s) ==
  CASE "RST" \in s.flags -> c
    [] Acked(s) /\ s.ack # c.MySEQ -> ResetOnly(c)
    [] Acked(s) /\ s.ack = c.MySEQ /\ "SYN" \in s.flags ->
         [SendTCP([c EXCEPT !.remoteWindow = s.win], {"ACK"}, "reset")
            EXCEPT !.smState = "ESTABLISHED", !.bTimerEnabled = FALSE]
    [] ~Acked(s) /\ {"SYN", "RST"} \cap s.flags = {"SYN"} ->
         [SendTCP([c EXCEPT !.remoteWindow = s.win], {"SYN", "ACK"}, "reset")
            EXCEPT !.smState = "SYN_RECEIVED"]
    [] OTHER -> c

\* RCV.NXT and the window: TcpReceive's test, by where the segment starts.
Acceptable(c, s) ==
  CASE s.at = "next"  -> Length(s) = 0 \/ c.rx < RxRoom
    [] s.at = "ahead" -> c.rx + 1 < RxRoom
    [] s.at = "old"   -> FALSE

\* The highest position that could be acknowledged, not counting a FIN.
Highest(c) == c.MySEQ + (c.txHead - c.txUnackedTail)

AcksTooMuch(c, ack) ==
  ack > Highest(c) /\ ~(c.bFINSent /\ ack = Highest(c) + 1)

\* The FIN is not counted in MySEQ.
WithoutFin(c, ack) == IF ack > Highest(c) THEN ack - 1 ELSE ack

\* mutant: one acknowledgement frees all that was sent
FreeAllSent(c, ack) ==
  IF ack > c.MySEQ - (c.txUnackedTail - c.txTail)
  THEN [c EXCEPT !.txTail = c.txUnackedTail, !.noneACKed = 0] ELSE c

\* Acknowledged bytes leave the TX FIFO, those behind a RollBack too; the
\* third acknowledgement of nothing new starts a fast retransmission.
FreeAcked(c, ack) ==
  LET n == ack - (c.MySEQ - (c.txUnackedTail - c.txTail))
      tail == c.txTail + n
      skipped == IF tail > c.txUnackedTail THEN tail - c.txUnackedTail ELSE 0
  IN  IF n > 0 /\ n <= TxSize + 1
      THEN [c EXCEPT !.txTail = tail, !.noneACKed = 0, !.MySEQ = @ + skipped,
                     !.txUnackedTail = @ + skipped]
      ELSE IF c.txTail = c.txUnackedTail THEN c
      ELSE IF c.noneACKed = 2 THEN [RollBack(c) EXCEPT !.due = "quick"]
      ELSE [c EXCEPT !.noneACKed = @ + 1]

\* Nothing left to be acknowledged: the timer is for the keep-alive then.
StopTimer(c, ack) ==
  IF c.txTail # c.txHead THEN c
  ELSE IF ~c.bTXFIN THEN [c EXCEPT !.bTimerEnabled = FALSE]
  ELSE IF c.MySEQ = ack /\ c.bFINSent
       THEN [c EXCEPT !.bTimerEnabled = FALSE, !.bTXFIN = FALSE]
  ELSE c

UpdateWindow(c, ack, win) ==
  LET new == (win - (c.MySEQ - ack)) % WordRange
  IN  [c EXCEPT !.remoteWindow = new,
                !.due = IF c.remoteWindow = 0 /\ new > 0 /\ @ = "no" THEN "yes" ELSE @]

Acknowledge(c, ack, win) ==
  UpdateWindow(StopTimer(FreeAcked(c, ack), ack), ack, win)

\* What comes next is stored; only ESTABLISHED keeps it for the application.
StoreText(c, s) ==
  [c EXCEPT !.rx = IF c.smState # "ESTABLISHED" /\ Length(s) > 0 THEN 0
                   ELSE IF s.at = "next" THEN Smaller(@ + s.len, RxRoom) ELSE @]

\* The second segment is acknowledged at once, the first one later.
AcknowledgeText(c, s) ==
  IF Length(s) = 0 THEN c
  ELSE IF c.oneSegment THEN SendTCP(c, {"ACK"}, "reset")
  ELSE [c EXCEPT !.oneSegment = TRUE]

\* The FIN, when all before it is there.  d is c after the text.
Fin(c, d, s, ack) ==
  IF "FIN" \notin s.flags \/ s.at # "next" \/ c.rx + s.len > RxRoom THEN d
  ELSE LET e == [d EXCEPT !.remoteFin = TRUE]
       IN  CASE d.smState = "ESTABLISHED" ->
                  SendTCP([e EXCEPT !.smState = "CLOSE_WAIT"], {"ACK"}, "reset")
             [] d.smState = "FIN_WAIT_1" /\ d.MySEQ # ack ->
                  SendTCP([e EXCEPT !.smState = "CLOSING"], {"ACK"}, "reset")
             [] OTHER -> CloseSocket

\* From "Seventh: Process the segment text" on.
Rest(c, s, ack) ==
  IF c.smState \in {"CLOSE_WAIT", "CLOSING", "LAST_ACK"} THEN c
  ELSE Fin(c, AcknowledgeText(StoreText(c, s), s), s, ack)

\* The states in which an acknowledgement counts.  c.smState is not SYN_RECEIVED
\* any more, d is c after the acknowledgement.
Acking(c, s) ==
  LET ack == WithoutFin(c, s.ack)
      d == Acknowledge(c, ack, s.win)
      all == d.MySEQ = ack
  IN  IF AcksTooMuch(c, s.ack) THEN SendTCP(c, {"ACK"}, "none")
      ELSE CASE d.smState = "FIN_WAIT_1" /\ all /\ d.bFINSent ->
                  Rest([d EXCEPT !.smState = "FIN_WAIT_2", !.bTimerEnabled = TRUE], s, ack)
             [] d.smState = "FIN_WAIT_2" /\ "FIN" \notin s.flags -> CloseSocket
             [] d.smState = "CLOSING" -> IF all THEN CloseSocket ELSE d
             [] OTHER -> Rest(d, s, ack)

\* A segment of a connection, once its sequence number is accepted.
Accepted(c, s) ==
  IF s.flags \cap {"RST", "SYN"} # {} THEN CloseSocket
  ELSE IF ~Acked(s) THEN c
  ELSE CASE c.smState = "SYN_RECEIVED" ->
              IF s.ack # c.MySEQ THEN ResetOnly(c)
              ELSE Acking([c EXCEPT !.smState = "ESTABLISHED"], s)
         [] c.smState = "LAST_ACK" -> IF c.MySEQ + 1 = s.ack THEN CloseSocket ELSE c
         [] OTHER -> Acking(c, s)

Handle(c, s) ==
  CASE c.smState = "LISTEN" -> Listening(c, s)
    [] c.smState = "SYN_SENT" -> SynSent(c, s)
    [] c.smState \in Connected ->
         IF Acceptable(c, s) THEN Accepted(c, s)
         ELSE IF "RST" \in s.flags THEN c
         ELSE SendTCP(c, {"ACK"}, "reset")

\* Numbers of some other connection, far from ours.
Foreign == MaxPut + TxSize + 3

\* What the remote node can have sent on this connection: any part of it that
\* is still to come, or comes again, with what it acknowledged at any time.  Of
\* an old segment nothing is read, so one stands for all.
Acks == {Foreign} \cup
        IF peer.syn THEN 0 .. peer.got + (IF peer.fin THEN 1 ELSE 0) ELSE {}
Places == IF tcb.remoteFin THEN {"next"} ELSE {"next", "ahead"}

Segments ==
  [flags : {{"ACK"}, {"FIN", "ACK"}}, at : Places, len : 0 .. 1, ack : Acks,
   win : {0, PeerWindow}]
  \cup [flags : {{"SYN", "ACK"}}, at : {"next"}, len : {0}, ack : Acks, win : {PeerWindow}]
  \cup [flags : {{}, {"SYN"}, {"RST"}}, at : Places, len : {0}, ack : {0},
        win : {PeerWindow}]
  \cup [flags : {{"ACK"}, {"RST"}}, at : {"old"}, len : {0}, ack : {Foreign}, win : {0}]

\* Nothing comes after the remote node's FIN.
Possible(s) == tcb.remoteFin /\ s.at = "next" => s.len = 0 /\ "FIN" \notin s.flags

HandleTCPSeg ==
  /\ ~silent /\ tcb.smState \in {"LISTEN", "SYN_SENT"} \cup Connected
  /\ \E s \in Segments :
       Possible(s) /\ Becomes(Handle([tcb EXCEPT !.keepAlives = 0], s))
  /\ UNCHANGED silent

GoesSilent == ~silent /\ silent' = TRUE /\ UNCHANGED <<tcb, bServer, peer>>

-----------------------------------------------------------------------------
(* TCPTick *)

Mode(c) == IF c.due = "quick" THEN "none" ELSE "reset"

SendDue ==
  /\ tcb.due # "no" \/ tcb.oneSegment
  /\ Becomes(SendTCP(tcb, {"ACK"}, Mode(tcb)))
  /\ UNCHANGED silent

CloseWaitExpires ==
  /\ tcb.smState = "CLOSE_WAIT"
  /\ Becomes([SendTCP(tcb, {"FIN", "ACK"}, Mode(tcb)) EXCEPT !.smState = "LAST_ACK"])
  /\ UNCHANGED silent

KeepAliveDue ==
  /\ tcb.smState = "ESTABLISHED" /\ ~tcb.bTimerEnabled
  /\ IF tcb.keepAlives = MaxKeepAlives
     THEN Becomes([Disconnected(Disconnected(tcb)) EXCEPT
                     !.smState = IF bServer THEN "LISTEN" ELSE "CLOSED_BUT_RESERVED"])
     ELSE Becomes(SendTCP(tcb, {"ACK"}, "keepalive"))
  /\ UNCHANGED silent

Expired(state) == tcb.bTimerEnabled /\ tcb.smState = state

SendArp ==
  /\ Expired("GATEWAY_SEND_ARP")
  /\ Becomes([tcb EXCEPT !.smState = "GATEWAY_GET_ARP"])
  /\ UNCHANGED silent

ArpResolved ==
  /\ Expired("GATEWAY_GET_ARP") /\ ~silent
  /\ Becomes(SendTCP([tcb EXCEPT !.smState = "SYN_SENT"], {"SYN"}, "reset"))
  /\ UNCHANGED silent

\* The retry count only sets how long the next wait is.
ArpTimesOut ==
  /\ Expired("GATEWAY_GET_ARP")
  /\ Becomes([tcb EXCEPT !.smState = "GATEWAY_SEND_ARP"])
  /\ UNCHANGED silent

\* mutant: what is sent again starts the count of retries again
RetransmitAfresh(c, flags) ==
  SendTCP([RollBack(c) EXCEPT
             !.retryCount = @ + 1,
             !.remoteWindow = (@ + (c.txUnackedTail - c.txTail)) % WordRange],
          flags, "reset")

Retransmit(c, flags) ==
  SendTCP([RollBack(c) EXCEPT
             !.retryCount = @ + 1,
             !.remoteWindow = (@ + (c.txUnackedTail - c.txTail)) % WordRange],
          flags, "none")

\* TCP_SYN_SENT tries for ever, with the longest wait.
ResendSyn ==
  /\ Expired("SYN_SENT")
  /\ Becomes(Retransmit([tcb EXCEPT !.retryCount = Smaller(@, MaxRetries - 1)], {"SYN"}))
  /\ UNCHANGED silent

ResendSynAck ==
  /\ Expired("SYN_RECEIVED")
  /\ Becomes(IF tcb.retryCount < MaxSynRetries THEN Retransmit(tcb, {"SYN", "ACK"})
             ELSE IF bServer THEN CloseSocket
             ELSE SendTCP(tcb, {"SYN"}, "reset"))
  /\ UNCHANGED silent

ResendData ==
  /\ Expired("ESTABLISHED") \/ Expired("CLOSE_WAIT")
  /\ Becomes(IF tcb.retryCount < MaxRetries THEN Retransmit(tcb, {"ACK"})
             ELSE SendTCP([tcb EXCEPT !.smState = "FIN_WAIT_1"], {"FIN", "ACK"}, "reset"))
  /\ UNCHANGED silent

ResendFin ==
  /\ Expired("FIN_WAIT_1") \/ Expired("CLOSING") \/ Expired("LAST_ACK")
  /\ Becomes(IF tcb.retryCount >= MaxRetries THEN CloseSocket
             ELSE Retransmit(tcb, IF tcb.smState = "CLOSING" THEN {"ACK"} ELSE {"FIN", "ACK"}))
  /\ UNCHANGED silent

FinWait2Expires ==
  /\ Expired("FIN_WAIT_2")
  /\ Becomes(CloseSocket)
  /\ UNCHANGED silent

Resend == ResendSyn \/ ResendSynAck \/ ResendData \/ ResendFin \/ FinWait2Expires

TCPTick ==
  SendDue \/ CloseWaitExpires \/ KeepAliveDue \/ SendArp \/ ArpResolved \/ ArpTimesOut
    \/ Resend

Next ==
  \/ TCPOpen \/ (\E n \in 1 .. TxSize : TCPPutArray(n)) \/ TCPGetArray
  \/ TCPDisconnect \/ TCPWasReset
  \/ HandleTCPSeg \/ GoesSilent \/ TCPTick

Spec == Init /\ [][Next]_vars

\* The superloop calls TCPTick for ever and its timers run.
FairSpec == Spec /\ WF_vars(TCPTick)

-----------------------------------------------------------------------------
(* Properties *)

TypeOK ==
  /\ tcb \in [smState : State, MySEQ : Int, txTail : Nat, txUnackedTail : Nat,
              txHead : 0 .. MaxPut, remoteWindow : 0 .. WordRange - 1,
              rx : 0 .. RxRoom, remoteFin : BOOLEAN, bTimerEnabled : BOOLEAN,
              retryCount : 0 .. MaxRetries + MaxSynRetries, keepAlives : 0 .. MaxKeepAlives,
              noneACKed : 0 .. 2, due : {"no", "yes", "quick"}, oneSegment : BOOLEAN,
              bTXFIN : BOOLEAN, bFINSent : BOOLEAN, bSYNSent : BOOLEAN,
              bSocketReset : BOOLEAN, sent : {<< >>}]
  /\ bServer \in BOOLEAN /\ silent \in BOOLEAN
  /\ peer \in [syn : BOOLEAN, got : 0 .. MaxPut, fin : BOOLEAN]

(***************************************************************************)
(* The pointers of the TX FIFO and the sequence number stay together       *)
(* through acknowledgements, fast retransmissions, roll-backs and probes:  *)
(* what is sent next is numbered as what it is.                            *)
(***************************************************************************)
SequenceMatchesFifo ==
  /\ tcb.txTail <= tcb.txUnackedTail /\ tcb.txUnackedTail <= tcb.txHead
  /\ tcb.txHead <= tcb.txTail + TxSize
  /\ tcb.bSYNSent => tcb.MySEQ = tcb.txUnackedTail

(***************************************************************************)
(* No byte leaves the TX FIFO before the remote node has it, whatever is   *)
(* lost, late, repeated or acknowledged out of order.                      *)
(***************************************************************************)
NothingLost == tcb.txTail <= peer.got /\ peer.got <= tcb.txHead

(***************************************************************************)
(* The FIN is the end of our stream: where the remote node has it, it has  *)
(* all that the application put, and nothing more is put.                  *)
(***************************************************************************)
FinComesLast == peer.fin => peer.got = tcb.txHead /\ tcb.smState \in Closing

(***************************************************************************)
(* The sending half as a whole: FIFO, sequence number and remote node agree*)
(* about every byte and about the end of the stream.                       *)
(***************************************************************************)
TcpInv == TypeOK /\ SequenceMatchesFifo /\ NothingLost /\ FinComesLast

\* Nothing is in flight, and nothing can be sent: no timer counts retries.
ShutOut == tcb.remoteWindow = 0 /\ tcb.txTail = tcb.txUnackedTail
             /\ (tcb.txHead > tcb.txTail \/ tcb.bTXFIN)

\* A FIN that came ahead of order has stopped the timer of FIN_WAIT_2.
TimerStopped == tcb.smState = "FIN_WAIT_2" /\ ~tcb.bTimerEnabled

\* Our own SYN met one of the remote node: it is repeated for ever.
SynForEver == tcb.smState = "SYN_RECEIVED" /\ ~bServer

(***************************************************************************)
(* A remote node that is gone is noticed, by retransmissions, keep-alives  *)
(* or the FIN that is not answered, and the socket is free again; except   *)
(* when it left in one of the three states that no timer of TCPTick ends.  *)
(***************************************************************************)
DeadPeerNoticed ==
  (silent /\ tcb.smState \in Connected)
    ~> (tcb.smState \notin Connected \/ ShutOut \/ TimerStopped \/ SynForEver)

-----------------------------------------------------------------------------
(* TcpSocket, which the MQTT client builds on, is what this engine does    *)

AsSocket ==
  CASE tcb.smState \in Opening -> "opening"
    [] tcb.smState = "ESTABLISHED" -> "established"
    [] tcb.smState = "CLOSE_WAIT" -> "closeWait"
    [] tcb.smState \in Closing -> "finishing"
    [] tcb.smState = "CLOSED_BUT_RESERVED" -> "reserved"
    [] OTHER -> "closed"

Socket == INSTANCE TcpSocket
            WITH tcp <- AsSocket, wasReset <- tcb.bSocketReset, inbound <- << >>

SocketFlagRead == AsSocket' = AsSocket /\ ~tcb'.bSocketReset

\* A broker does not open connections, so no SYN meets another.
Plain == ~bServer /\ "SYN_RECEIVED" \notin {tcb.smState, tcb'.smState}

(***************************************************************************)
(* Whatever segments come in whatever order, a client's socket passes      *)
(* through its states as TcpSocket says, and the reset flag is never       *)
(* cleared but by TCPWasReset and is set by whatever closes the socket.    *)
(***************************************************************************)
ImplementsSocket ==
  [][Plain => \/ Socket!TCPOpen \/ Socket!TCPDisconnect \/ Socket!StackStep
              \/ SocketFlagRead \/ UNCHANGED <<AsSocket, tcb.bSocketReset>>]_vars

-----------------------------------------------------------------------------
(* What the comments of TCP.c say, and the code does not do *)

(***************************************************************************)
(* "Check to see if our FIN has been ACKnowledged": FIN_WAIT_2 is for an   *)
(* end that the remote node has our FIN from.                              *)
(***************************************************************************)
FinIsAcknowledged == tcb.smState = "FIN_WAIT_2" => peer.fin

=============================================================================
