------------------------------ MODULE MqttClient ------------------------------
(***************************************************************************)
(* The MQTT client of net/MQTT.c: MQTTTask's state machine, the transmit   *)
(* ring it drains, the packet reader that shares MQTTBuffer with the       *)
(* transmit path, and the API the application calls between two turns of   *)
(* the superloop.  Everything runs in one thread, so a step is one call:   *)
(* MQTTTask, an API function, the TCP stack, or a second of the tick       *)
(* timer.  One action per case of MQTTTask's switch, or per way out of it. *)
(*                                                                         *)
(* Timers are kept as ages, `TickGet() - Timer`, saturating just above the *)
(* limit they are compared with.  A step in which the C code only waits    *)
(* (no byte, no room, name not resolved) changes nothing here.             *)
(***************************************************************************)
EXTENDS TcpSocket, RingQueue

CONSTANTS
  Kinds,           \* kinds of message the application queues
  Bodies,          \* what tells one queued message from another
  QOS,             \* MQTTClient.QOS
  Unsolicited,     \* packets the broker sends without being asked
  MaxInbound,      \* bound: packets of the broker under way
  CallsEndUsage,   \* does the application ever call MQTTEndUsage?
  BeginsAgain,     \* does it call MQTTBeginUsage while the machine is not at rest?
  DnsTimeout, ReplyTimeout, ReconnectDelay,
  PingInterval, PingTimeout, AckTimeout     \* in ticks of the model's clock

ASSUME MqttAssumption ==
  /\ Kinds \subseteq {"publish", "subscribe", "unsubscribe"} /\ Kinds # {}
  /\ Bodies # {}
  /\ QOS \in 0 .. 1
  /\ Unsolicited \subseteq {"PUBLISH0", "PUBLISH1", "PINGREQ"}
  /\ MaxInbound \in Nat /\ {CallsEndUsage, BeginsAgain} \subseteq BOOLEAN
  /\ DnsTimeout \in Nat /\ ReplyTimeout \in Nat /\ ReconnectDelay \in Nat
  /\ PingInterval \in Nat /\ PingTimeout \in Nat /\ AckTimeout \in Nat

VARIABLES
  st,                              \* MQTTState
  inUse, connectedOnce,            \* MQTTFlags.bits
  pingOutstanding, waitingAck,     \* MQTTFlags.bits
  bConnected,                      \* MQTTClient.bConnected
  held,                            \* MySocket # INVALID_SOCKET
  ring, current,                   \* MQTTTxRingBuffer; MQTTClient.Topic/Payload
  rx,                              \* RPSMState, and the packet being read
  timer, pingAge, ackAge,          \* ages of Timer, PingTimer, AckTimer
  dns                              \* whose the DNS module is (DNS.c's Flags)

flags == <<inUse, connectedOnce, pingOutstanding, waitingAck, bConnected>>
sending == <<ring, current>>
clocks == <<timer, pingAge, ackAge>>
vars == <<st, flags, held, sending, rx, clocks, dns, tcpvars>>

Message == [kind : Kinds, body : Bodies]

\* Where the task waits for room in the TX FIFO, with no other way out.
AwaitsRoom == {"PING_ACK", "SUBSCRIBE", "UNSUBSCRIBE", "PUBACK", "DISCONNECT"}

\* States a live session passes through.
SessionStates == {"IDLE", "PING", "PUBLISH"} \cup AwaitsRoom

\* States in which MySocket names a socket.
HoldsSocket ==
  {"SOCKET_OBTAINED", "CONNECT", "CONNECT_ACK", "CLOSE"} \cup SessionStates

State == {"HOME", "BEGIN", "NAME_RESOLVE", "OBTAIN_SOCKET", "QUIT",
          "RECONNECT", "RECONNECT_WAIT"} \cup HoldsSocket

Replies == {"CONNACK_OK", "CONNACK_REJ", "PUBACK", "SUBACK", "UNSUBACK", "PINGRESP"}
Packet == Replies \cup {"PUBLISH0", "PUBLISH1", "PINGREQ"}

\* RPSMState; BEHIND is RPSM_INIT with MQTTBufferIdx not set back: the next
\* packet is put behind the last one.
Phase == {"INIT", "BEHIND", "READ_LEN", "READ_DATA", "FINALIZE"}

\* `sent` is what the broker sent, `first` what MQTTBuffer[0] says it was.
NothingRead == [phase |-> "INIT", first |-> "PINGREQ", sent |-> "PINGREQ"]

TimerLimit == CHOOSE m \in {DnsTimeout, ReplyTimeout, ReconnectDelay} :
                \A n \in {DnsTimeout, ReplyTimeout, ReconnectDelay} : n <= m
PingLimit == IF PingInterval < PingTimeout THEN PingTimeout ELSE PingInterval
Older(age, limit) == IF age > limit THEN age ELSE age + 1

Init ==
  /\ TcpInit
  /\ st = "HOME" /\ held = FALSE
  /\ inUse = FALSE /\ connectedOnce = FALSE
  /\ pingOutstanding = FALSE /\ waitingAck = FALSE /\ bConnected = FALSE
  /\ \E m \in Message : ring = EmptyRing(m) /\ current = m
  /\ rx = NothingRead
  /\ timer = 0 /\ pingAge = 0 /\ ackAge = 0
  /\ dns = "free"

-----------------------------------------------------------------------------
(* The API, called from the main loop *)

\* Only the lock is looked at, and MQTT_QUIT has released it when the client
\* reconnects by itself.  The firmware's mqtt_init calls it once, at boot.
BeginUsage ==
  /\ ~inUse /\ (BeginsAgain \/ st = "HOME")
  /\ inUse' = TRUE
  /\ connectedOnce' = FALSE /\ pingOutstanding' = FALSE /\ waitingAck' = FALSE
  /\ bConnected' = FALSE
  /\ pingAge' = 0
  /\ st' = "BEGIN"
  /\ ring' = [ring EXCEPT !.head = 0]
  /\ UNCHANGED <<held, current, rx, timer, ackAge, dns, tcpvars>>

\* MQTTSendData, MQTTSubscribe and MQTTUnscribe_, through
\* MQTTPutMessageInRingBuffer: nothing is queued while not connected.
Enqueue ==
  /\ bConnected
  /\ \E m \in Message : ring' = Put(ring, m)
  /\ UNCHANGED <<st, flags, held, current, rx, clocks, dns, tcpvars>>

\* On a live session MQTTEndUsage only asks for a disconnect, and only an
\* idle machine hears it; otherwise it lets go of everything at once.
EndUsage ==
  /\ CallsEndUsage /\ inUse
  /\ dns' = IF st = "NAME_RESOLVE" THEN "free" ELSE dns
  /\ \/ /\ bConnected /\ st = "IDLE"
        /\ st' = "DISCONNECT"
        /\ UNCHANGED <<flags, held, tcpvars>>
     \/ /\ ~bConnected
        /\ IF held THEN TCPDisconnect ELSE UNCHANGED tcpvars
        /\ held' = FALSE
        /\ inUse' = FALSE /\ st' = "HOME"
        /\ UNCHANGED <<connectedOnce, pingOutstanding, waitingAck, bConnected>>
  /\ UNCHANGED <<sending, rx, clocks>>

-----------------------------------------------------------------------------
(* MQTTTask, from MQTT_BEGIN to MQTT_CONNECT_ACK: making a connection *)

\* mutant: the backlog of the last session is kept
BeginKeepingBacklog ==
  /\ st = "BEGIN" /\ dns = "free"
  /\ dns' = "mqtt" /\ st' = "NAME_RESOLVE" /\ timer' = 0
  /\ UNCHANGED <<flags, held, sending, rx, pingAge, ackAge, tcpvars>>

\* DNSBeginUsage, DNSResolve.  The backlog goes whether or not DNS is free.
\* A Server is always named: the firmware's is the array config.mqtt_server.
Begin ==
  /\ st = "BEGIN"
  /\ ring' = Clear(ring)
  /\ IF dns = "free"
     THEN dns' = "mqtt" /\ st' = "NAME_RESOLVE" /\ timer' = 0
     ELSE UNCHANGED <<dns, st, timer>>
  /\ UNCHANGED <<flags, held, current, rx, pingAge, ackAge, tcpvars>>

\* TCPOpen and the fall into MQTT_SOCKET_OBTAINED in the same call; what it
\* returns goes into MySocket either way.
OpenSocket ==
  \/ /\ TCPOpen
     /\ held' = TRUE /\ timer' = 0
     /\ st' = IF connectedOnce THEN "CLOSE" ELSE "SOCKET_OBTAINED"
  \/ /\ tcp # "closed"
     /\ held' = FALSE /\ st' = "OBTAIN_SOCKET"
     /\ UNCHANGED <<timer, tcpvars>>

Resolved ==
  /\ st = "NAME_RESOLVE"
  /\ dns' = "free"
  /\ OpenSocket
  /\ UNCHANGED <<flags, sending, rx, pingAge, ackAge>>

\* mutant: gives up without DNSEndUsage
ResolvedToNothingKeepingDns ==
  /\ st = "NAME_RESOLVE" /\ st' = "RECONNECT"
  /\ UNCHANGED <<flags, held, sending, rx, clocks, dns, tcpvars>>

\* DNSEndUsage reports that no address was found.
ResolvedToNothing ==
  /\ st = "NAME_RESOLVE"
  /\ dns' = "free" /\ st' = "RECONNECT"
  /\ UNCHANGED <<flags, held, sending, rx, clocks, tcpvars>>

ResolveTimesOut ==
  /\ timer > DnsTimeout
  /\ ResolvedToNothing

ObtainSocket ==
  /\ st = "OBTAIN_SOCKET"
  /\ OpenSocket
  /\ UNCHANGED <<flags, sending, rx, pingAge, ackAge, dns>>

SocketConnected ==
  /\ st = "SOCKET_OBTAINED" /\ IsConnected
  /\ connectedOnce' = TRUE /\ st' = "CONNECT"
  /\ UNCHANGED <<inUse, pingOutstanding, waitingAck, bConnected, held, sending,
                 rx, clocks, dns, tcpvars>>

SocketGivenUp ==
  /\ st = "SOCKET_OBTAINED" /\ ~IsConnected
  /\ connectedOnce \/ timer > ReplyTimeout
  /\ st' = "CLOSE"
  /\ UNCHANGED <<flags, held, sending, rx, clocks, dns, tcpvars>>

\* A packet goes into the TX FIFO.  The broker's answer, if its end is still
\* there to give one, is on its way from now on: it may take for ever.
Write(answers) ==
  /\ MayHaveRoom
  /\ UNCHANGED <<tcp, wasReset>>
  /\ IF answers # {} /\ tcp = "established" /\ Len(inbound) < MaxInbound
     THEN \E a \in answers : inbound' = Append(inbound, a)
     ELSE UNCHANGED inbound

\* mutant: no MQTTPrepareBuffer
ConnectKeepingReader ==
  /\ st = "CONNECT" /\ ~bConnected /\ connectedOnce
  /\ IF MayHaveRoom THEN Write({"CONNACK_OK", "CONNACK_REJ"})
                    ELSE UNCHANGED tcpvars
  /\ st' = "CONNECT_ACK"
  /\ UNCHANGED <<flags, held, sending, rx, clocks, dns>>

\* The FIFO of a socket that carries nothing yet has room for CONNECT, unless
\* the link is gone again: MQTTWrite's result is not looked at.
Connect ==
  /\ st = "CONNECT" /\ ~bConnected /\ connectedOnce
  /\ IF MayHaveRoom THEN Write({"CONNACK_OK", "CONNACK_REJ"})
                    ELSE UNCHANGED tcpvars
  /\ rx' = NothingRead
  /\ st' = "CONNECT_ACK"
  /\ UNCHANGED <<flags, held, sending, clocks, dns>>

-----------------------------------------------------------------------------
(* MQTTReadPacket: one phase a call, so four calls a packet *)

\* The phases that only read; FINALIZE hands the packet over.
ReadMore ==
  \/ /\ rx.phase \in {"INIT", "BEHIND"} /\ inbound # << >>
     /\ rx' = [phase |-> "READ_LEN", sent |-> Head(inbound),
               first |-> IF rx.phase = "INIT" THEN Head(inbound) ELSE rx.first]
     /\ inbound' = Tail(inbound)
  \/ /\ rx.phase = "READ_LEN" /\ BytesMayCome
     /\ rx' = [rx EXCEPT !.phase = "READ_DATA"]
     /\ UNCHANGED inbound
  \/ /\ rx.phase = "READ_DATA"
     /\ BytesMayCome \/ rx.sent \in {"PINGREQ", "PINGRESP"}    \* no data
     /\ rx' = [rx EXCEPT !.phase = "FINALIZE"]
     /\ UNCHANGED inbound

AwaitConnack ==
  /\ st = "CONNECT_ACK"
  /\ ReadMore
  /\ pingAge' = 0
  /\ UNCHANGED <<st, flags, held, sending, timer, ackAge, dns, tcp, wasReset>>

\* Any answer ends the wait; TCPWasReset clears the flag left from before.
\* A packet that is no CONNACK is kept, and hides what comes behind it.
Connack ==
  /\ st = "CONNECT_ACK" /\ rx.phase = "FINALIZE"
  /\ pingAge' = 0
  /\ IF rx.first \in {"CONNACK_OK", "CONNACK_REJ"}
     THEN /\ bConnected' = (rx.first = "CONNACK_OK")
          /\ pingOutstanding' = (pingOutstanding /\ rx.first # "CONNACK_OK")
          /\ rx' = NothingRead /\ st' = "IDLE" /\ wasReset' = FALSE
     ELSE /\ rx' = [rx EXCEPT !.phase = "BEHIND"]
          /\ UNCHANGED <<bConnected, pingOutstanding, st, wasReset>>
  /\ UNCHANGED <<inUse, connectedOnce, waitingAck, held, sending, timer, ackAge,
                 dns, tcp, inbound>>

\* While it waits for the answer every call sets PingTimer back.
ConnackPending ==
  /\ st = "CONNECT_ACK" /\ rx.phase # "FINALIZE" /\ pingAge # 0
  /\ pingAge' = 0
  /\ UNCHANGED <<st, flags, held, sending, rx, timer, ackAge, dns, tcpvars>>

-----------------------------------------------------------------------------
(* MQTT_IDLE, in the order of the code's tests *)

IdleReset ==
  /\ st = "IDLE" /\ wasReset
  /\ wasReset' = FALSE /\ st' = "CLOSE"
  /\ UNCHANGED <<flags, held, sending, rx, clocks, dns, tcp, inbound>>

Running == st = "IDLE" /\ ~wasReset /\ bConnected
PingOverdue == pingOutstanding /\ pingAge > PingTimeout
PingDue == ~pingOutstanding /\ pingAge > PingInterval
AckOverdue == waitingAck /\ ackAge > AckTimeout
Quiet == Running /\ ~PingOverdue /\ ~PingDue /\ ~AckOverdue
MaySendUnacked == ~pingOutstanding /\ ~IsEmptyRing(ring)     \* mutant
MaySend == ~pingOutstanding /\ ~waitingAck /\ ~IsEmptyRing(ring)

PingTimesOut ==
  /\ Running /\ PingOverdue
  /\ st' = "CLOSE" /\ pingOutstanding' = FALSE /\ pingAge' = 0
  /\ UNCHANGED <<inUse, connectedOnce, waitingAck, bConnected, held, sending, rx,
                 timer, ackAge, dns, tcpvars>>

PingFallsDue ==
  /\ Running /\ PingDue
  /\ st' = "PING" /\ pingOutstanding' = TRUE /\ pingAge' = 0
  /\ UNCHANGED <<inUse, connectedOnce, waitingAck, bConnected, held, sending, rx,
                 timer, ackAge, dns, tcpvars>>

AckTimesOut ==
  /\ Running /\ ~PingOverdue /\ ~PingDue /\ AckOverdue
  /\ st' = "CLOSE" /\ waitingAck' = FALSE
  /\ UNCHANGED <<inUse, connectedOnce, pingOutstanding, bConnected, held, sending,
                 rx, clocks, dns, tcpvars>>

StateFor(kind) ==
  CASE kind = "publish"     -> "PUBLISH"
    [] kind = "subscribe"   -> "SUBSCRIBE"
    [] kind = "unsubscribe" -> "UNSUBSCRIBE"

TakeMessage ==
  /\ Quiet /\ MaySend
  /\ current' = Front(ring) /\ ring' = Take(ring)
  /\ st' = StateFor(Front(ring).kind)
  /\ IF Front(ring).kind = "publish" /\ QOS > 0
     THEN waitingAck' = TRUE /\ ackAge' = 0
     ELSE UNCHANGED <<waitingAck, ackAge>>
  /\ UNCHANGED <<inUse, connectedOnce, pingOutstanding, bConnected, held, rx,
                 timer, pingAge, dns, tcpvars>>

IdleReads ==
  /\ Quiet /\ ~MaySend
  /\ ReadMore
  /\ UNCHANGED <<st, flags, held, sending, clocks, dns, tcp, wasReset>>

\* The received packet is told by MQTTBuffer[0]; then MQTTPrepareBuffer.
Dispatch ==
  /\ Quiet /\ ~MaySend /\ rx.phase = "FINALIZE"
  /\ st' = CASE rx.first = "PUBLISH1" -> "PUBACK"
             [] rx.first = "PINGREQ"  -> "PING_ACK"
             [] OTHER                 -> "IDLE"
  /\ IF rx.first = "PINGRESP"
     THEN pingOutstanding' = FALSE /\ pingAge' = 0
     ELSE UNCHANGED <<pingOutstanding, pingAge>>
  /\ waitingAck' = (waitingAck /\ rx.first \notin {"PUBACK", "SUBACK", "UNSUBACK"})
  /\ rx' = NothingRead
  /\ UNCHANGED <<inUse, connectedOnce, bConnected, held, sending, timer, ackAge,
                 dns, tcpvars>>

-----------------------------------------------------------------------------
(* The states that send one packet *)

\* MQTTBuffer[0] is written whatever the reader was doing with it.
Overwritten == [rx EXCEPT !.first = IF rx.phase = "INIT" THEN @ ELSE "PINGREQ"]

\* mutant: waits for room, like MQTT_PING_ACK
PingWhenRoom ==
  /\ st = "PING"
  /\ rx' = Overwritten
  /\ Write({"PINGRESP"}) /\ st' = "IDLE"
  /\ UNCHANGED <<flags, held, sending, clocks, dns>>

Ping ==
  /\ st = "PING"
  /\ rx' = Overwritten
  /\ \/ Write({"PINGRESP"}) /\ st' = "IDLE"
     \/ UNCHANGED tcpvars /\ st' = "CLOSE"         \* no room
  /\ UNCHANGED <<flags, held, sending, clocks, dns>>

\* MQTTWrite's result is not looked at: without room the message is lost.
Publish ==
  /\ st = "PUBLISH"
  /\ IF bConnected
     THEN /\ st' = "IDLE"
          /\ \/ Write(IF QOS > 0 THEN {"PUBACK"} ELSE {})
             \/ UNCHANGED tcpvars                  \* no room
     ELSE st' = "CLOSE" /\ UNCHANGED tcpvars
  /\ UNCHANGED <<flags, held, sending, rx, clocks, dns>>

\* These stay where they are until there is room.
SendWhenRoom(state, answers) ==
  /\ st = state
  /\ Write(answers)
  /\ st' = "IDLE"
  /\ UNCHANGED <<flags, held, sending, rx, clocks, dns>>

Subscribe == bConnected /\ SendWhenRoom("SUBSCRIBE", {"SUBACK"})
Unsubscribe == bConnected /\ SendWhenRoom("UNSUBSCRIBE", {"UNSUBACK"})

AnswerWhenRoom(state, next) ==
  /\ st = state /\ MayHaveRoom
  /\ st' = next
  /\ UNCHANGED <<flags, held, sending, rx, clocks, dns, tcpvars>>

PubAck == bConnected /\ AnswerWhenRoom("PUBACK", "IDLE")
PingAck == AnswerWhenRoom("PING_ACK", "IDLE")
Disconnect == AnswerWhenRoom("DISCONNECT", "CLOSE")

-----------------------------------------------------------------------------
(* From MQTT_CLOSE back to MQTT_BEGIN *)

\* mutant: ConnectedOnce survives the connection
CloseKeepsConnectedOnce ==
  /\ st = "CLOSE"
  /\ TCPDisconnect
  /\ held' = FALSE /\ st' = "QUIT"
  /\ UNCHANGED <<inUse, connectedOnce, pingOutstanding, waitingAck, bConnected,
                 sending, rx, clocks, dns>>

\* mutant: the handle is forgotten, the socket is not closed
CloseKeepsSocket ==
  /\ st = "CLOSE"
  /\ held' = FALSE /\ connectedOnce' = FALSE /\ st' = "QUIT"
  /\ UNCHANGED <<inUse, pingOutstanding, waitingAck, bConnected, sending, rx,
                 clocks, dns, tcpvars>>

Close ==
  /\ st = "CLOSE"
  /\ TCPDisconnect
  /\ held' = FALSE /\ connectedOnce' = FALSE /\ st' = "QUIT"
  /\ UNCHANGED <<inUse, pingOutstanding, waitingAck, bConnected, sending, rx,
                 clocks, dns>>

Quit ==
  /\ st = "QUIT"
  /\ inUse' = FALSE /\ bConnected' = FALSE /\ st' = "RECONNECT"
  /\ UNCHANGED <<connectedOnce, pingOutstanding, waitingAck, held, sending, rx,
                 clocks, dns, tcpvars>>

Reconnect ==
  /\ st = "RECONNECT"
  /\ st' = "RECONNECT_WAIT" /\ timer' = 0
  /\ UNCHANGED <<flags, held, sending, rx, pingAge, ackAge, dns, tcpvars>>

ReconnectWaited ==
  /\ st = "RECONNECT_WAIT" /\ timer > ReconnectDelay
  /\ st' = "BEGIN"
  /\ UNCHANGED <<flags, held, sending, rx, clocks, dns, tcpvars>>

-----------------------------------------------------------------------------
(* The environment *)

\* One tick of the model's clock.
Tick ==
  /\ timer' = Older(timer, TimerLimit)
  /\ pingAge' = Older(pingAge, PingLimit)
  /\ ackAge' = Older(ackAge, AckTimeout)
  /\ UNCHANGED <<st, flags, held, sending, rx, dns, tcpvars>>

\* The other users of DNS.c: SNTP's UDP socket, through UDPTask.
OtherTakesDns ==
  /\ dns = "free" /\ dns' = "other"
  /\ UNCHANGED <<st, flags, held, sending, rx, clocks, tcpvars>>

OtherFreesDns ==
  /\ dns = "other" /\ dns' = "free"
  /\ UNCHANGED <<st, flags, held, sending, rx, clocks, tcpvars>>

\* A broker speaks unasked only in a session it has accepted.
BrokerSpeaks ==
  /\ bConnected /\ tcp = "established" /\ Len(inbound) < MaxInbound
  /\ \E p \in Unsolicited : inbound' = Append(inbound, p)
  /\ UNCHANGED <<st, flags, held, sending, rx, clocks, dns, tcp, wasReset>>

Stack ==
  /\ StackStep
  /\ UNCHANGED <<st, flags, held, sending, rx, clocks, dns>>

Environment == Tick \/ OtherTakesDns \/ OtherFreesDns \/ BrokerSpeaks \/ Stack

\* Steps MQTTTask takes by itself, whatever the network does.
OwnSteps ==
  \/ Begin \/ ResolveTimesOut \/ ObtainSocket \/ SocketConnected \/ SocketGivenUp
  \/ Connect \/ Connack \/ IdleReset \/ PingTimesOut \/ PingFallsDue \/ AckTimesOut
  \/ TakeMessage \/ Dispatch \/ Ping \/ Publish
  \/ Close \/ Quit \/ Reconnect \/ ReconnectWaited

\* Steps that need a name, a byte or room to come from outside.
AnsweredSteps ==
  \/ Resolved \/ ResolvedToNothing \/ AwaitConnack \/ ConnackPending \/ IdleReads
  \/ Subscribe \/ Unsubscribe \/ PubAck \/ PingAck \/ Disconnect

MQTTTask == OwnSteps \/ AnsweredSteps

Next == BeginUsage \/ Enqueue \/ EndUsage \/ MQTTTask \/ Environment

Spec == Init /\ [][Next]_vars

(***************************************************************************)
(* The superloop calls MQTTTask for ever and the tick timer never stops.   *)
(* MQTTTask runs between any two turns of UDPTask, so it finds the DNS     *)
(* module free if it is free again and again.  Nothing is assumed of the   *)
(* broker or the network: no answer need ever come, and a socket that is   *)
(* closing before a shut window may do so for ever (TCP.c times neither    *)
(* FIN_WAIT_1 nor LAST_ACK while nothing is in flight).  Nor is anything   *)
(* of the other users of DNS, who may keep it (NameService tells when).    *)
(***************************************************************************)
Fairness ==
  /\ WF_vars(BeginUsage)
  /\ WF_vars(OwnSteps)
  /\ SF_vars(Begin /\ dns = "free")
  /\ WF_vars(Tick)

FairSpec == Spec /\ Fairness

-----------------------------------------------------------------------------
(* Properties *)

TypeOK ==
  /\ st \in State /\ held \in BOOLEAN
  /\ inUse \in BOOLEAN /\ connectedOnce \in BOOLEAN /\ bConnected \in BOOLEAN
  /\ pingOutstanding \in BOOLEAN /\ waitingAck \in BOOLEAN
  /\ ring \in RingOf(Message) /\ current \in Message
  /\ rx \in [phase : Phase, first : Packet, sent : Packet]
  /\ timer \in Nat /\ pingAge \in Nat /\ ackAge \in Nat
  /\ dns \in {"free", "mqtt", "other"}
  /\ tcp \in TcpState /\ wasReset \in BOOLEAN /\ inbound \in Seq(Packet)

(***************************************************************************)
(* Nothing is leaked and nothing used after it was given back: MQTTTask    *)
(* has a socket exactly in the states that use one, and the DNS module     *)
(* exactly while it resolves (DNSEndUsage asks nobody who the owner is).   *)
(* A handle that is held never names a socket another TCPOpen could take.  *)
(***************************************************************************)
ResourcesMatchState ==
  /\ held <=> st \in HoldsSocket
  /\ dns = "mqtt" <=> st = "NAME_RESOLVE"
  /\ ~held => tcp \in {"closed", "finishing"}

(***************************************************************************)
(* The session flag and the machine agree: a state that sends is only      *)
(* reached with a session, a session is not left behind in a state that    *)
(* has no socket, and MQTT_CONNECT, which has no way out when bConnected   *)
(* is still set or ConnectedOnce is not, never finds it so.                *)
(***************************************************************************)
SessionMatchesState ==
  /\ bConnected => st \in SessionStates \cup {"CLOSE", "QUIT"}
  /\ st \in SessionStates \ {"IDLE"} => bConnected
  /\ st = "CONNECT" => ~bConnected /\ connectedOnce
  /\ st \in {"QUIT", "RECONNECT", "RECONNECT_WAIT",
              "BEGIN", "NAME_RESOLVE", "OBTAIN_SOCKET"} => ~connectedOnce

(***************************************************************************)
(* From the moment a connection is attempted to the broker's answer        *)
(* nothing is queued: MQTT_BEGIN empties the ring, and nothing can be put  *)
(* in it before the session is there.                                      *)
(***************************************************************************)
NothingQueuedBeforeSession ==
  st \in {"NAME_RESOLVE", "OBTAIN_SOCKET", "SOCKET_OBTAINED", "CONNECT",
          "CONNECT_ACK"} => IsEmptyRing(ring)

\* Where the packets of one kind are: places on the way, and 0 for the reader's
\* hands.
UnderWay(p) ==
  {i \in 1 .. Len(inbound) : inbound[i] = p}
    \cup (IF rx.phase # "INIT" /\ rx.sent = p THEN {0} ELSE {})

(***************************************************************************)
(* With only publishing going on, at most one PUBACK is ever owed, and     *)
(* while it can still arrive WaitingAck is set or the connection is being  *)
(* dropped: no ack is credited to a message other than the one it is for   *)
(* (the code never compares message ids), nor to a later connection.       *)
(***************************************************************************)
OneAckAtATime ==
  /\ \A i, j \in UnderWay("PUBACK") : i = j
  /\ UnderWay("PUBACK") # {} /\ st \in SessionStates => waitingAck

(***************************************************************************)
(* The reader starts every connection afresh: what it has in hand while    *)
(* waiting for CONNACK is CONNACK, never the rest of a packet that the     *)
(* last connection cut off.                                                *)
(***************************************************************************)
ReaderStartsAfresh ==
  st = "CONNECT_ACK" /\ rx.phase # "INIT" => rx.sent \in {"CONNACK_OK", "CONNACK_REJ"}

Session ==
  INSTANCE MqttSession WITH
    online <- bConnected,
    queue  <- IF bConnected THEN Contents(ring) ELSE << >>

(***************************************************************************)
(* The ring, its cursors and the places that clear it implement the        *)
(* session's queue: messages are taken up in order and once each, only in  *)
(* the session they were queued in.                                        *)
(***************************************************************************)
ImplementsSession == Session!SSpec

Dead == {"closed", "finishing", "reserved"}

(***************************************************************************)
(* However the link dies, its socket is let go of: MQTT_IDLE sees the      *)
(* reset flag, a publish the lost connection, and the keep-alive ping      *)
(* finds out when CONNACK's TCPWasReset has swallowed the flag.  Excepted  *)
(* are the states that wait for bytes or for room and look at nothing      *)
(* else, and MQTT_IDLE after a refusal, which has no ping.                 *)
(***************************************************************************)
DeadLinkNoticed ==
  (held /\ tcp \in Dead)
    ~> \/ ~held
       \/ st \in AwaitsRoom \cup {"CONNECT_ACK"}
       \/ st = "IDLE" /\ ~bConnected

(***************************************************************************)
(* A connection that was closed is always tried again: the machine gets    *)
(* the DNS module although others use it, unless one of them keeps it for  *)
(* good, and the single client socket although the last connection on it   *)
(* may still be closing, unless that never ends: a FIN that a shut window  *)
(* keeps back has no timer, and only the broker can end it.                *)
(***************************************************************************)
TriesAgain ==
  /\ (st \in {"CLOSE", "QUIT", "RECONNECT", "RECONNECT_WAIT", "BEGIN"})
       ~> (st = "NAME_RESOLVE" \/ [](dns = "other"))
  /\ (st = "OBTAIN_SOCKET") ~> (st = "SOCKET_OBTAINED" \/ [](tcp = "finishing"))

-----------------------------------------------------------------------------
(* What the comments of MQTT.c say, and the code does not do *)

\* MQTT_IDLE answers MQTTPINGREQ, and nothing else, with a PINGRESP.
PingbackAnswersPing ==
  [][st = "IDLE" /\ st' = "PING_ACK" => rx.sent = "PINGREQ"]_vars

\* "Don't stick around in the wrong state if the server was connected, but
\* then disconnected us."
NoStateOutlivesLink == (held /\ tcp \in Dead) ~> ~held

=============================================================================
