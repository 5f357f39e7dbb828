-------------------------- MODULE DhcpClientProofs --------------------------
(***************************************************************************)
(* The DHCP client's types, its one socket, and what it may believe of its *)
(* lease, for any servers, leases, delays, time-outs and number of renewals.*)
(***************************************************************************)
EXTENDS DhcpClient, TLAPS

ClientRecord ==
  [smState : Exchange \cup {"GET_SOCKET", "BOUND"}, try : 1 .. Renewals,
   socket : BOOLEAN, bIsBound : BOOLEAN, bOfferReceived : BOOLEAN, bUseUnicastMode : BOOLEAN,
   dwLeaseTime : Nat, dwServerID : Server \cup {Zero}, tempIPAddress : Server \cup {Zero}]

Message ==
  {m \in [type : {"offer", "ack", "nak"}, from : Server, yiaddr : Server \cup {Zero}, seconds : Nat] :
     m.type # "nak" => m.yiaddr \in Server}

\* A socket is open in the exchanges; whoever requests holds an offer.
ClientOK(c) ==
  /\ c \in ClientRecord
  /\ c.socket <=> c.smState \in Exchange
  /\ c.smState \in {"SEND_REQUEST", "GET_REQUEST_ACK"}
       => c.bOfferReceived /\ c.tempIPAddress \in Server

InUseOf(c) == IF c.socket THEN 1 ELSE 0

NetworkOK ==
  /\ net \subseteq Message /\ inbox \in Message \cup {Nothing}
  /\ asked # Nothing => asked.type \in {"discover", "request", "renew"} /\ asked.to \subseteq Server

DhcpInv == DhcpTypeOK /\ ClientOK(DHCPClient) /\ inUse = InUseOf(DHCPClient) /\ NetworkOK

\* What is held back of a lease is not more than the lease.
LEMMA HeldBack ==
  ASSUME NEW x \in Nat, NEW d \in Nat \ {0}
  PROVE  x - x \div d \in Nat
<1>1. x \div d \in Nat /\ d * (x \div d) <= x
  OBVIOUS
<1>2. ASSUME NEW y \in Nat PROVE y <= d * y
  <2>1. d * y = y + (d - 1) * y /\ (d - 1) * y \in Nat
    OBVIOUS
  <2> QED
    BY <2>1
<1> QED
  BY <1>1, <1>2

\* What the assumptions say of the timers.
LEMMA Constants ==
  /\ Timeout \in Nat \ {0} /\ Renewals \in Nat \ {0} /\ DefaultLease \in Nat
  /\ 1 \in 1 .. Renewals /\ 0 \in 0 .. Timeout
  /\ Nothing \notin Message
  /\ \A s \in Server : Lease[s] \in Nat /\ Lease[s] - Lease[s] \div Divisor \in Nat
<1>1. \A s \in Server : Lease[s] \in Nat /\ Divisor \in Nat \ {0}
  BY DhcpAssumption
<1>2. Nothing \notin Message
  BY DEF Nothing, Message
<1> QED
  BY <1>1, <1>2, HeldBack, DhcpAssumption

\* Recording a message keeps the record, its state and an offer that is held.
LEMMA RecordedKeeps ==
  ASSUME NEW c \in ClientRecord, NEW m \in Message
  PROVE  LET r == Recorded(c, m)
         IN /\ r \in ClientRecord
            /\ r.smState = c.smState /\ r.socket = c.socket /\ r.try = c.try /\ r.bIsBound = c.bIsBound
            /\ c.bOfferReceived => r = c
            /\ Kind(c, m) = "offer" => r.bOfferReceived /\ r.tempIPAddress \in Server
<1>1. Lease[m.from] - Lease[m.from] \div Divisor \in Nat /\ m.from \in Server
  BY Constants DEF Message
<1>2. CASE c.bOfferReceived
  BY <1>2 DEF Recorded, Kind, Message
<1>3. CASE ~c.bOfferReceived
  BY <1>1, <1>3 DEF Recorded, Kind, ClientRecord, Message
<1> QED
  BY <1>2, <1>3 DEF ClientRecord

-----------------------------------------------------------------------------
(* What DHCPTask does to the client: each state keeps ClientOK, the pool's *)
(* count, and a well-formed question.                                      *)

Kept ==
  /\ ClientOK(DHCPClient') /\ inUse' = InUseOf(DHCPClient') /\ age' \in 0 .. Timeout
  /\ MyIPAddr' \in Server \cup {Default}
  /\ asked' # Nothing => asked'.type \in {"discover", "request", "renew"} /\ asked'.to \subseteq Server
  /\ {droppedUnread', stalled'} \subseteq BOOLEAN

\* An exchange but for the request asks nothing more of the record.
LEMMA Exchanges ==
  ASSUME NEW c \in ClientRecord, c.socket, NEW state \in Exchange \ {"SEND_REQUEST", "GET_REQUEST_ACK"}
  PROVE  ClientOK([c EXCEPT !.smState = state]) /\ [c EXCEPT !.smState = state].socket
BY DEF ClientOK, ClientRecord, Exchange

\* What a client sends is a question to some of the servers.
LEMMA SendAsks ==
  ASSUME NEW type \in {"discover", "request", "renew"}, NEW c, NEW state, Send(type, c, state)
  PROVE  /\ DHCPClient' = [c EXCEPT !.smState = state] /\ age' \in 0 .. Timeout
         /\ asked' # Nothing => asked'.type \in {"discover", "request", "renew"} /\ asked'.to \subseteq Server
<1>1. MayAnswer(type, c) \subseteq Server
  BY DEF MayAnswer
<1> QED
  BY <1>1, Constants DEF Send, Question, Nothing

\* Staying asks nothing new.
LEMMA StayKeeps ==
  ASSUME DhcpInv, NEW c, Stay(c)
  PROVE  /\ DHCPClient' = c /\ age' \in 0 .. Timeout
         /\ asked' # Nothing => asked'.type \in {"discover", "request", "renew"} /\ asked'.to \subseteq Server
BY DEF DhcpInv, DhcpTypeOK, NetworkOK, Stay

\* SM_DHCP_SEND_DISCOVERY, with a socket
LEMMA DiscoverKeeps ==
  ASSUME DhcpInv, NEW c \in ClientRecord, c.socket, NEW ready \in BOOLEAN, Discover(c, ready),
         inUse' = 1, MyIPAddr' = MyIPAddr, stalled' = stalled
  PROVE  Kept
<1> DEFINE d == [c EXCEPT !.smState = "SEND_DISCOVERY", !.try = 1, !.dwLeaseTime = DefaultLease,
                          !.bIsBound = FALSE, !.bOfferReceived = FALSE]
           e == [d EXCEPT !.bUseUnicastMode = ~@]
<1>1. d \in ClientRecord /\ e \in ClientRecord /\ e.socket
  BY Constants DEF ClientRecord, Exchange
<1>2. droppedUnread' \in BOOLEAN /\ stalled' \in BOOLEAN /\ MyIPAddr' \in Server \cup {Default}
  BY DEF Discover, LinkIsRead, DhcpInv, DhcpTypeOK
<1>3. CASE MACIsLinked /\ ready
  <2>1. Send("discover", e, "GET_OFFER")
    BY <1>3 DEF Discover
  <2>2. DHCPClient' = [e EXCEPT !.smState = "GET_OFFER"]
    BY <2>1, SendAsks
  <2>3. ClientOK(DHCPClient') /\ DHCPClient'.socket
    BY <1>1, <2>2, Exchanges DEF Exchange
  <2> QED
    BY <1>2, <2>1, <2>3, SendAsks DEF Kept, InUseOf
<1>4. CASE ~(MACIsLinked /\ ready)
  <2>1. Stay(d)
    BY <1>4 DEF Discover
  <2>2. ClientOK(d) /\ d.socket
    BY <1>1 DEF ClientOK, ClientRecord, Exchange
  <2> QED
    BY <1>2, <2>1, <2>2, StayKeeps DEF Kept, InUseOf
<1> QED
  BY <1>3, <1>4

\* SM_DHCP_SEND_REQUEST, with an offer
LEMMA RequestKeeps ==
  ASSUME DhcpInv, NEW c \in ClientRecord, c.socket, c.bOfferReceived, c.tempIPAddress \in Server,
         NEW ready \in BOOLEAN, Request(c, ready), inUse' = 1,
         UNCHANGED <<droppedUnread, MyIPAddr, stalled>>
  PROVE  Kept
<1>1. droppedUnread' \in BOOLEAN /\ stalled' \in BOOLEAN /\ MyIPAddr' \in Server \cup {Default}
  BY DEF DhcpInv, DhcpTypeOK
<1>2. CASE ready
  <2>1. Send("request", c, "GET_REQUEST_ACK")
    BY <1>2 DEF Request
  <2>2. ClientOK(DHCPClient') /\ DHCPClient'.socket
    BY <2>1, SendAsks DEF ClientOK, ClientRecord, Exchange
  <2> QED
    BY <1>1, <2>1, <2>2, SendAsks DEF Kept, InUseOf
<1>3. CASE ~ready
  <2>1. Stay([c EXCEPT !.smState = "SEND_REQUEST"])
    BY <1>3 DEF Request
  <2>2. ClientOK(DHCPClient') /\ DHCPClient'.socket
    BY <2>1, StayKeeps DEF ClientOK, ClientRecord, Exchange
  <2> QED
    BY <1>1, <2>1, <2>2, StayKeeps DEF Kept, InUseOf
<1> QED
  BY <1>2, <1>3

\* SM_DHCP_SEND_RENEW, with a socket
LEMMA RenewKeeps ==
  ASSUME DhcpInv, NEW c \in ClientRecord, c.socket,
         NEW ready \in BOOLEAN, Renew(c, ready), inUse' = 1,
         UNCHANGED <<droppedUnread, MyIPAddr>>
  PROVE  Kept
<1>1. droppedUnread' \in BOOLEAN /\ stalled' \in BOOLEAN /\ MyIPAddr' \in Server \cup {Default}
  BY DEF DhcpInv, DhcpTypeOK, Renew
<1>2. CASE ready
  <2>1. Send("renew", [c EXCEPT !.bOfferReceived = FALSE], "GET_RENEW_ACK")
    BY <1>2 DEF Renew
  <2>3. [c EXCEPT !.bOfferReceived = FALSE] \in ClientRecord /\ [c EXCEPT !.bOfferReceived = FALSE].socket
    BY DEF ClientRecord
  <2>4. DHCPClient' = [[c EXCEPT !.bOfferReceived = FALSE] EXCEPT !.smState = "GET_RENEW_ACK"]
    BY <2>1, SendAsks
  <2>2. ClientOK(DHCPClient') /\ DHCPClient'.socket
    BY <2>3, <2>4, Exchanges DEF Exchange
  <2> QED
    BY <1>1, <2>1, <2>2, SendAsks DEF Kept, InUseOf
<1>3. CASE ~ready
  <2>1. Stay([c EXCEPT !.smState = "SEND_RENEW"])
    BY <1>3 DEF Renew
  <2>2. ClientOK(DHCPClient') /\ DHCPClient'.socket
    BY <2>1, StayKeeps DEF ClientOK, ClientRecord, Exchange
  <2> QED
    BY <1>1, <2>1, <2>2, StayKeeps DEF Kept, InUseOf
<1> QED
  BY <1>2, <1>3

\* SM_DHCP_GET_SOCKET
LEMMA GetSocketKeeps == DhcpInv /\ GetSocket => Kept
<1> SUFFICES ASSUME DhcpInv, GetSocket PROVE Kept
  OBVIOUS
<1>1. /\ DHCPClient \in ClientRecord /\ ~DHCPClient.socket /\ inUse = 0
      /\ UNCHANGED <<MyIPAddr, stalled>>
  BY DEF GetSocket, DhcpInv, ClientOK, InUseOf, Exchange
<1>2. CASE Stay(DHCPClient) /\ UNCHANGED <<inUse, droppedUnread>>
  BY <1>1, <1>2, StayKeeps DEF Kept, DhcpInv, DhcpTypeOK
<1>3. ASSUME NEW ready \in BOOLEAN, Discover([DHCPClient EXCEPT !.socket = TRUE], ready), inUse' = inUse + 1
      PROVE Kept
  <2>1. [DHCPClient EXCEPT !.socket = TRUE] \in ClientRecord /\ [DHCPClient EXCEPT !.socket = TRUE].socket
    BY <1>1 DEF ClientRecord
  <2>2. inUse' = 1
    BY <1>1, <1>3
  <2> QED
    BY <1>1, <1>3, <2>1, <2>2, DiscoverKeeps
<1> QED
  BY <1>2, <1>3 DEF GetSocket

\* A client in an exchange has its socket.
LEMMA HasSocket ==
  ASSUME DhcpInv, DHCPClient.smState \in Exchange
  PROVE  DHCPClient \in ClientRecord /\ DHCPClient.socket /\ inUse = 1
BY DEF DhcpInv, ClientOK, InUseOf

\* SM_DHCP_SEND_DISCOVERY
LEMMA SendDiscoveryKeeps == DhcpInv /\ SendDiscovery => Kept
<1> SUFFICES ASSUME DhcpInv, SendDiscovery PROVE Kept
  OBVIOUS
<1>1. DHCPClient \in ClientRecord /\ DHCPClient.socket /\ inUse = 1
  BY HasSocket DEF SendDiscovery, Exchange
<1> QED
  BY <1>1, DiscoverKeeps DEF SendDiscovery

\* Going back to the discovery, or staying where nothing is asked of the offer
LEMMA StayInExchange ==
  ASSUME DhcpInv, NEW c, Stay(c), ClientOK(c), c.socket, inUse' = 1,
         UNCHANGED <<droppedUnread, MyIPAddr, stalled>>
  PROVE  Kept
BY StayKeeps DEF Kept, InUseOf, DhcpInv, DhcpTypeOK

\* SM_DHCP_GET_OFFER
LEMMA GetOfferKeeps == DhcpInv /\ GetOffer => Kept
<1> SUFFICES ASSUME DhcpInv, GetOffer PROVE Kept
  OBVIOUS
<1>1. /\ DHCPClient \in ClientRecord /\ DHCPClient.socket /\ inUse' = 1
      /\ DHCPClient.smState = "GET_OFFER" /\ ClientOK(DHCPClient)
      /\ UNCHANGED <<droppedUnread, MyIPAddr, stalled>>
  BY HasSocket DEF GetOffer, Exchange, DhcpInv
<1>2. CASE AnswerOverdue
  <2>1. Stay([DHCPClient EXCEPT !.smState = "SEND_DISCOVERY"])
    BY <1>2 DEF GetOffer, AnswerOverdue
  <2> QED
    BY <1>1, <2>1, StayInExchange, Exchanges DEF Exchange
<1>3. CASE ~AnswerOverdue /\ Received
  <2> DEFINE c == Recorded(DHCPClient, inbox)
  <2>1. inbox \in Message
    BY <1>3 DEF Received, DhcpInv, NetworkOK
  <2>2. c \in ClientRecord /\ c.socket /\ c.smState = "GET_OFFER"
    BY <1>1, <2>1, RecordedKeeps
  <2>3. CASE Kind(DHCPClient, inbox) = "offer"
    <3>1. c.bOfferReceived /\ c.tempIPAddress \in Server
      BY <1>1, <2>1, <2>3, RecordedKeeps
    <3>2. PICK ready \in BOOLEAN : Request(c, ready)
      BY <1>3, <2>3 DEF GetOffer
    <3> QED
      BY <1>1, <2>2, <3>1, <3>2, RequestKeeps
  <2>4. CASE Kind(DHCPClient, inbox) # "offer"
    <3>1. Stay(c)
      BY <1>3, <2>4 DEF GetOffer
    <3>2. ClientOK(c)
      BY <2>2 DEF ClientOK, Exchange
    <3> QED
      BY <1>1, <2>2, <3>1, <3>2, StayInExchange
  <2> QED
    BY <2>3, <2>4
<1>4. CASE ~AnswerOverdue /\ ~Received
  <2>1. Stay(DHCPClient)
    BY <1>4 DEF GetOffer
  <2> QED
    BY <1>1, <2>1, StayInExchange
<1> QED
  BY <1>2, <1>3, <1>4

\* SM_DHCP_SEND_REQUEST
LEMMA SendRequestKeeps == DhcpInv /\ SendRequest => Kept
<1> SUFFICES ASSUME DhcpInv, SendRequest PROVE Kept
  OBVIOUS
<1>1. DHCPClient \in ClientRecord /\ DHCPClient.socket /\ inUse = 1
  BY HasSocket DEF SendRequest, Exchange
<1>2. DHCPClient.bOfferReceived /\ DHCPClient.tempIPAddress \in Server
  BY DEF SendRequest, DhcpInv, ClientOK
<1> QED
  BY <1>1, <1>2, RequestKeeps DEF SendRequest

-----------------------------------------------------------------------------
(* Acknowledgements, the lease, and the whole                              *)

\* An acknowledged client has a lease and gives its socket back.
LEMMA BindKeeps ==
  ASSUME DhcpInv, NEW c \in ClientRecord, Bind(c), DHCPClient.socket,
         droppedUnread' = droppedUnread, MyIPAddr' \in Server \cup {Default}
  PROVE  Kept
<1>1. inUse' = 0
  BY DEF Bind, UDPClose, DhcpInv, InUseOf
<1>3. age' \in 0 .. Timeout /\ stalled' \in BOOLEAN
  BY Constants DEF Bind
<1>2. ClientOK(DHCPClient') /\ ~DHCPClient'.socket
  BY Constants DEF Bind, ClientOK, ClientRecord, Exchange
<1> QED
  BY <1>1, <1>2, <1>3 DEF Kept, InUseOf, Bind, DhcpInv, DhcpTypeOK, NetworkOK

\* What a client in an exchange has after the datagram that it may have got.
LEMMA AfterDatagram ==
  ASSUME DhcpInv, DHCPClient.smState \in Exchange
  PROVE  LET c == IF Received THEN Recorded(DHCPClient, inbox) ELSE DHCPClient
         IN /\ c \in ClientRecord /\ c.socket /\ c.smState = DHCPClient.smState
            /\ c.try = DHCPClient.try /\ (DHCPClient.bOfferReceived => c = DHCPClient)
<1>1. DHCPClient \in ClientRecord /\ DHCPClient.socket
  BY HasSocket
<1>2. Received => inbox \in Message
  BY DEF Received, DhcpInv, NetworkOK
<1> QED
  BY <1>1, <1>2, RecordedKeeps

\* SM_DHCP_GET_REQUEST_ACK: the address taken into use is that of the offer.
LEMMA GetRequestAckKeeps == DhcpInv /\ GetRequestAck => Kept
<1> SUFFICES ASSUME DhcpInv, GetRequestAck PROVE Kept
  OBVIOUS
<1> DEFINE c == IF Received THEN Recorded(DHCPClient, inbox) ELSE DHCPClient
           ack == Received /\ Kind(DHCPClient, inbox) = "ack"
           nak == Received /\ Kind(DHCPClient, inbox) = "nak"
<1>1. /\ DHCPClient.smState = "GET_REQUEST_ACK" /\ DHCPClient.socket /\ inUse = 1
      /\ DHCPClient.bOfferReceived /\ DHCPClient.tempIPAddress \in Server
      /\ droppedUnread' = droppedUnread
  BY HasSocket DEF GetRequestAck, Exchange, DhcpInv, ClientOK
<1>2. c = DHCPClient /\ c \in ClientRecord /\ ClientOK(c)
  BY <1>1, AfterDatagram DEF Exchange, DhcpInv
<1>3. CASE ack
  <2>1. Bind(c) /\ MyIPAddr' = c.tempIPAddress
    BY <1>3 DEF GetRequestAck
  <2> QED
    BY <1>1, <1>2, <2>1, BindKeeps
<1>4. CASE ~ack
  <2>1. /\ Stay(IF AnswerOverdue \/ nak THEN [c EXCEPT !.smState = "SEND_DISCOVERY"] ELSE c)
        /\ UNCHANGED <<MyIPAddr, stalled, inUse>>
    BY <1>4 DEF GetRequestAck
  <2>2. CASE AnswerOverdue \/ nak
    <3>1. Stay([c EXCEPT !.smState = "SEND_DISCOVERY"])
      BY <2>1, <2>2
    <3>2. ClientOK([c EXCEPT !.smState = "SEND_DISCOVERY"]) /\ [c EXCEPT !.smState = "SEND_DISCOVERY"].socket
      BY <1>1, <1>2, Exchanges DEF Exchange
    <3> QED
      BY <1>1, <2>1, <3>1, <3>2, StayInExchange
  <2>3. CASE ~(AnswerOverdue \/ nak)
    BY <1>1, <1>2, <2>1, <2>3, StayInExchange
  <2> QED
    BY <2>2, <2>3
<1> QED
  BY <1>3, <1>4

\* SM_DHCP_GET_RENEW_ACK and its repetitions
LEMMA GetRenewAckKeeps == DhcpInv /\ GetRenewAck => Kept
<1> SUFFICES ASSUME DhcpInv, GetRenewAck PROVE Kept
  OBVIOUS
<1> DEFINE c == IF Received THEN Recorded(DHCPClient, inbox) ELSE DHCPClient
           ack == Received /\ Kind(DHCPClient, inbox) = "ack"
           nak == Received /\ Kind(DHCPClient, inbox) = "nak"
           next == CASE nak -> [c EXCEPT !.smState = "SEND_DISCOVERY"]
                     [] AnswerOverdue -> NextTry(c) [] OTHER -> c
<1>1. /\ DHCPClient.smState = "GET_RENEW_ACK" /\ DHCPClient.socket /\ inUse = 1
      /\ UNCHANGED <<droppedUnread, MyIPAddr>>
  BY HasSocket DEF GetRenewAck, Exchange
<1>2. c \in ClientRecord /\ c.socket /\ c.smState = "GET_RENEW_ACK"
  BY <1>1, AfterDatagram DEF Exchange
<1>3. CASE ack
  <2>1. Bind(c)
    BY <1>3 DEF GetRenewAck
  <2> QED
    BY <1>1, <1>2, <2>1, BindKeeps DEF DhcpInv, DhcpTypeOK
<1>4. CASE ~ack
  <2>1. Stay(next) /\ UNCHANGED <<stalled, inUse>>
    BY <1>4 DEF GetRenewAck
  <2>2. ClientOK([c EXCEPT !.smState = "SEND_DISCOVERY"]) /\ [c EXCEPT !.smState = "SEND_DISCOVERY"].socket
    BY <1>2, Exchanges DEF Exchange
  <2>3. ClientOK(NextTry(c)) /\ NextTry(c).socket
    <3>1. CASE c.try < Renewals
      <4> DEFINE e == [c EXCEPT !.try = @ + 1]
      <4>1. e \in ClientRecord /\ e.socket
        BY <1>2, <3>1, Constants DEF ClientRecord
      <4>2. NextTry(c) = [e EXCEPT !.smState = "SEND_RENEW"]
        BY <3>1 DEF NextTry
      <4> HIDE DEF e
      <4>3. ClientOK([e EXCEPT !.smState = "SEND_RENEW"]) /\ [e EXCEPT !.smState = "SEND_RENEW"].socket
        BY <4>1, Exchanges DEF Exchange
      <4> QED
        BY <4>2, <4>3
    <3>2. CASE ~(c.try < Renewals)
      BY <2>2, <3>2 DEF NextTry
    <3> QED
      BY <3>1, <3>2
  <2>4. ClientOK(c)
    BY <1>2 DEF ClientOK, Exchange
  <2>5. nak => ~AnswerOverdue
    BY DEF AnswerOverdue
  <2>6. next \in {[c EXCEPT !.smState = "SEND_DISCOVERY"], NextTry(c), c}
    BY <2>5
  <2>7. ClientOK(next) /\ next.socket
    BY <1>2, <2>2, <2>3, <2>4, <2>6
  <2> QED
    BY <1>1, <2>1, <2>7, StayInExchange
<1> QED
  BY <1>3, <1>4

\* SM_DHCP_BOUND: only the renewal opens a socket.
LEMMA BoundKeeps == DhcpInv /\ (CountDown \/ StayBound \/ BeginRenewal) => Kept
<1> SUFFICES ASSUME DhcpInv, CountDown \/ StayBound \/ BeginRenewal PROVE Kept
  OBVIOUS
<1>1. /\ DHCPClient \in ClientRecord /\ ~DHCPClient.socket /\ inUse = 0
      /\ UNCHANGED <<droppedUnread, MyIPAddr>>
  BY DEF CountDown, StayBound, BeginRenewal, DhcpInv, ClientOK, InUseOf, Exchange
<1>2. CASE CountDown
  <2>1. DHCPClient.dwLeaseTime - 1 \in Nat /\ DHCPClient.smState = "BOUND"
    BY <1>1, <1>2 DEF CountDown, ClientRecord
  <2>2. ClientOK(DHCPClient') /\ ~DHCPClient'.socket
    BY <1>1, <1>2, <2>1 DEF CountDown, ClientOK, ClientRecord, Exchange
  <2>3. age' \in 0 .. Timeout
    BY <1>2, Constants DEF CountDown, DhcpInv, DhcpTypeOK
  <2> QED
    BY <1>1, <1>2, <2>2, <2>3 DEF CountDown, Kept, InUseOf, DhcpInv, DhcpTypeOK, NetworkOK
<1>3. CASE StayBound
  BY <1>1, <1>3, StayKeeps DEF StayBound, Kept, DhcpInv, DhcpTypeOK
<1>4. CASE BeginRenewal
  <2>1. CASE Stay(DHCPClient) /\ stalled' = TRUE /\ inUse' = inUse
    BY <1>1, <2>1, StayKeeps DEF Kept, DhcpInv, DhcpTypeOK
  <2>2. ASSUME NEW ready \in BOOLEAN, Renew([DHCPClient EXCEPT !.socket = TRUE], ready), inUse' = inUse + 1
        PROVE Kept
    <3>1. [DHCPClient EXCEPT !.socket = TRUE] \in ClientRecord /\ [DHCPClient EXCEPT !.socket = TRUE].socket
      BY <1>1 DEF ClientRecord
    <3>2. inUse' = 1
      BY <1>1, <2>2
    <3> QED
      BY <1>1, <2>2, <3>1, <3>2, RenewKeeps
  <2> QED
    BY <1>4, <2>1, <2>2 DEF BeginRenewal
<1> QED
  BY <1>2, <1>3, <1>4

\* SM_DHCP_SEND_RENEW
LEMMA SendRenewKeeps == DhcpInv /\ SendRenew => Kept
<1> SUFFICES ASSUME DhcpInv, SendRenew PROVE Kept
  OBVIOUS
<1>1. DHCPClient \in ClientRecord /\ DHCPClient.socket /\ inUse = 1
  BY HasSocket DEF SendRenew, Exchange
<1> QED
  BY <1>1, RenewKeeps DEF SendRenew

\* DHCPTask in whatever state, and the packets fetched after it
LEMMA TaskKeeps == DhcpInv /\ DHCPTask => DhcpInv'
<1> SUFFICES ASSUME DhcpInv, DHCPTask PROVE DhcpInv'
  OBVIOUS
<1>1. Kept
  BY GetSocketKeeps, SendDiscoveryKeeps, GetOfferKeeps, SendRequestKeeps, GetRequestAckKeeps,
     BoundKeeps, SendRenewKeeps, GetRenewAckKeeps DEF DHCPTask
<1>2. net' \subseteq net /\ inbox' \in Message \cup {Nothing}
  <2>1. CASE inbox' = Nothing /\ net' = net
    BY <2>1
  <2>2. ASSUME NEW m \in net, net' = net \ {m},
               inbox' = IF DHCPClient'.socket THEN [m EXCEPT !.seconds = 0] ELSE Nothing
        PROVE  net' \subseteq net /\ inbox' \in Message \cup {Nothing}
    <3>1. m \in Message
      BY DEF DhcpInv, NetworkOK
    <3>2. [m EXCEPT !.seconds = 0] \in Message
      BY <3>1 DEF Message
    <3> QED
      BY <2>2, <3>2
  <2> QED
    BY <2>1, <2>2 DEF DHCPTask, FetchPackets
<1>3. NetworkOK'
  BY <1>1, <1>2 DEF Kept, NetworkOK, DhcpInv
<1>4. DHCPClient'.bIsBound \in BOOLEAN /\ DHCPClient' \in ClientRecord
  BY <1>1 DEF Kept, ClientOK, ClientRecord
<1>5. DhcpTypeOK'
  BY <1>1, <1>4 DEF Kept, DHCPTask, DhcpInv, DhcpTypeOK, ClientRecord
<1> QED
  BY <1>1, <1>3, <1>5 DEF Kept, DhcpInv

\* DHCPInit closes the socket of the exchange it ends.
LEMMA LinkKeeps == DhcpInv /\ LooksAtLink => DhcpInv'
<1> SUFFICES ASSUME DhcpInv, LooksAtLink PROVE DhcpInv'
  OBVIOUS
<1>1. NetworkOK'
  BY DEF LooksAtLink, DhcpInv, NetworkOK, world
<1>2. /\ {droppedUnread', bLastLinkState', dropped', stalled'} \subseteq BOOLEAN
      /\ stage' \in {"link", "dhcp"} /\ link' \in {"up", "down"}
      /\ age' \in 0 .. Timeout /\ left' \in [Server -> Nat]
      /\ MyIPAddr' \in Server \cup {Default} /\ bInConfigMode' \in BOOLEAN
  BY DEF LooksAtLink, LinkIsRead, MACIsLinked, DhcpInv, DhcpTypeOK, world
<1>3. CASE bLastLinkState /\ ~MACIsLinked
  <2>1. DHCPClient' = Initialised(DHCPClient) /\ UDPClose
    BY <1>3 DEF LooksAtLink
  <2>2. ClientOK(DHCPClient') /\ ~DHCPClient'.socket
    BY <2>1, Constants DEF Initialised, DhcpInv, ClientOK, ClientRecord, Exchange
  <2>3. inUse' = 0
    BY <2>1 DEF UDPClose, DhcpInv, InUseOf
  <2> QED
    BY <1>1, <1>2, <2>2, <2>3 DEF DhcpInv, InUseOf, DhcpTypeOK, ClientOK, ClientRecord
<1>4. CASE ~(bLastLinkState /\ ~MACIsLinked)
  <2>1. UNCHANGED <<DHCPClient, inUse>>
    BY <1>4 DEF LooksAtLink
  <2> QED
    BY <1>1, <1>2, <2>1 DEF DhcpInv, InUseOf, DhcpTypeOK, ClientOK
<1> QED
  BY <1>3, <1>4

\* What changes neither the client nor its address, and keeps the network in order.
LEMMA OutsideKeeps ==
  ASSUME DhcpInv, NetworkOK', UNCHANGED <<DHCPClient, inUse, MyIPAddr, bInConfigMode, stage, stalled, bLastLinkState>>,
         {droppedUnread', dropped'} \subseteq BOOLEAN, link' \in {"up", "down"},
         age' \in 0 .. Timeout, left' \in [Server -> Nat]
  PROVE  DhcpInv'
BY DEF DhcpInv, DhcpTypeOK, ClientOK, InUseOf

\* The cable
LEMMA CableKeeps == DhcpInv /\ (LinkDrops \/ LinkComesUp) => DhcpInv'
<1> SUFFICES ASSUME DhcpInv, LinkDrops \/ LinkComesUp PROVE DhcpInv'
  OBVIOUS
<1>1. NetworkOK'
  BY DEF LinkDrops, LinkComesUp, DhcpInv, NetworkOK, world
<1> QED
  BY <1>1, OutsideKeeps DEF LinkDrops, LinkComesUp, DhcpInv, DhcpTypeOK, client, world

\* An answer is a message, and only a refusal gives no address.
LEMMA AnswerKeeps == ASSUME DhcpInv, NEW s \in Server, Answer(s) PROVE DhcpInv'
<1>1. asked.type \in {"discover", "request", "renew"} /\ asked.to \subseteq Server
  BY DEF Answer, DhcpInv, NetworkOK
<1>2. Answers(s) \subseteq {"offer", "ack", "nak"}
  BY <1>1 DEF Answers
<1>3. \A type \in Answers(s) : Reply(s, type) \in Message
  BY <1>2 DEF Reply, Message
<1>4. net' \subseteq Message
  BY <1>3 DEF Answer, DhcpInv, NetworkOK
<1>5. asked' # Nothing => asked'.type \in {"discover", "request", "renew"} /\ asked'.to \subseteq Server
  BY <1>1 DEF Answer, Question
<1>6. left' \in [Server -> Nat]
  BY Constants DEF Answer, DhcpInv, DhcpTypeOK
<1>7. NetworkOK'
  BY <1>4, <1>5 DEF Answer, DhcpInv, NetworkOK
<1> QED
  BY <1>6, <1>7, OutsideKeeps DEF Answer, DhcpInv, DhcpTypeOK, client, cable

\* Time
LEMMA SecondKeeps == DhcpInv /\ Second => DhcpInv'
<1> SUFFICES ASSUME DhcpInv, Second PROVE DhcpInv'
  OBVIOUS
<1>1. net' \subseteq Message
  <2>1. \A m \in Message : [m EXCEPT !.seconds = @ + 1] \in Message
    BY DEF Message
  <2> QED
    BY <2>1 DEF Second, DhcpInv, NetworkOK
<1>2. NetworkOK'
  BY <1>1 DEF Second, DhcpInv, NetworkOK
<1>3. age' \in 0 .. Timeout
  BY Constants DEF Second, DhcpInv, DhcpTypeOK
<1>4. left' \in [Server -> Nat]
  BY DEF Second, DhcpInv, DhcpTypeOK
<1> QED
  BY <1>2, <1>3, <1>4, OutsideKeeps DEF Second, DhcpInv, DhcpTypeOK, cable

\* Before the first look at the link
LEMMA InitDhcp == DhcpInit => DhcpInv
<1> SUFFICES ASSUME DhcpInit PROVE DhcpInv
  OBVIOUS
<1>1. ClientOK(DHCPClient) /\ inUse = InUseOf(DHCPClient)
  BY Constants DEF DhcpInit, ClientOK, ClientRecord, Exchange, InUseOf
<1>2. DhcpTypeOK
  BY <1>1, Constants DEF DhcpInit, DhcpTypeOK, ClientOK, ClientRecord
<1>3. NetworkOK
  BY DEF DhcpInit, NetworkOK
<1> QED
  BY <1>1, <1>2, <1>3 DEF DhcpInv

(***************************************************************************)
(* Every step of the client, the cable, the servers and time keeps it.     *)
(***************************************************************************)
THEOREM DhcpInvariant == DhcpSpec => []DhcpInv
<1>1. DhcpInv /\ UNCHANGED dhcpvars => DhcpInv'
  BY DEF DhcpInv, DhcpTypeOK, ClientOK, InUseOf, NetworkOK, dhcpvars, cable, client, world
<1>2. DhcpInv /\ [DhcpNext]_dhcpvars => DhcpInv'
  BY <1>1, CableKeeps, AnswerKeeps, SecondKeeps, LinkKeeps, TaskKeeps DEF DhcpNext, StackTask
<1> QED
  BY <1>2, InitDhcp, PTL DEF DhcpSpec

(***************************************************************************)
(* DHCP never has more than one socket of the pool, and none when it does  *)
(* not need one, whatever is lost, refused, late or unplugged: for every   *)
(* set of servers, every lease and time-out.                               *)
(***************************************************************************)
THEOREM OneSocketAlways == DhcpSpec => [](DhcpTypeOK /\ OneSocketForDhcp)
<1>1. DhcpInv => DhcpTypeOK /\ OneSocketForDhcp
  BY DEF DhcpInv, ClientOK, InUseOf, OneSocketForDhcp
<1> QED
  BY <1>1, DhcpInvariant, PTL

-----------------------------------------------------------------------------
(* The link.  A loss that was read by DHCPTask, which looks at the link    *)
(* before a discovery, is one of a client that had no lease.               *)

DropNoticed == dropped => droppedUnread \/ (stage = "link" /\ ~DHCPClient.bIsBound)

\* Whoever is about to discover has no lease, whether or not it is sent.
LEMMA DiscovererIsUnbound ==
  ASSUME NEW c \in ClientRecord, NEW ready \in BOOLEAN, Discover(c, ready)
  PROVE  ~DHCPClient'.bIsBound
<1> DEFINE d == [c EXCEPT !.smState = "SEND_DISCOVERY", !.try = 1, !.dwLeaseTime = DefaultLease,
                          !.bIsBound = FALSE, !.bOfferReceived = FALSE]
<1>1. d \in ClientRecord /\ ~d.bIsBound
  BY Constants DEF ClientRecord, Exchange
<1>2. \/ DHCPClient' = [[d EXCEPT !.bUseUnicastMode = ~@] EXCEPT !.smState = "GET_OFFER"]
      \/ DHCPClient' = d
  BY DEF Discover, Send, Stay
<1> QED
  BY <1>1, <1>2 DEF ClientRecord

\* Only a discovery reads the link.
LEMMA TaskReadsLink ==
  ASSUME DhcpInv, DHCPTask
  PROVE  droppedUnread' = droppedUnread \/ ~DHCPClient'.bIsBound
<1>1. DHCPClient \in ClientRecord
  BY DEF DhcpInv, ClientOK
<1>2. CASE GetSocket
  <2>1. [DHCPClient EXCEPT !.socket = TRUE] \in ClientRecord
    BY <1>1 DEF ClientRecord
  <2> QED
    BY <1>2, <2>1, DiscovererIsUnbound DEF GetSocket
<1>3. CASE SendDiscovery
  BY <1>1, <1>3, DiscovererIsUnbound DEF SendDiscovery
<1>4. CASE GetOffer \/ SendRequest \/ GetRequestAck \/ CountDown
  BY <1>4 DEF GetOffer, SendRequest, GetRequestAck, CountDown
<1>5. CASE StayBound \/ BeginRenewal \/ SendRenew \/ GetRenewAck
  BY <1>5 DEF StayBound, BeginRenewal, SendRenew, GetRenewAck
<1> QED
  BY <1>2, <1>3, <1>4, <1>5 DEF DHCPTask

\* A drop that was noticed stays noticed.
LEMMA DropNoticedKeeps == DhcpInv /\ DropNoticed /\ [DhcpNext]_dhcpvars => DropNoticed'
<1> SUFFICES ASSUME DhcpInv, DropNoticed, [DhcpNext]_dhcpvars PROVE DropNoticed'
  OBVIOUS
<1>1. CASE LinkDrops \/ LinkComesUp
  BY <1>1 DEF LinkDrops, LinkComesUp, DropNoticed, client
<1>2. CASE Second \/ \E s \in Server : Answer(s)
  BY <1>2 DEF Second, Answer, DropNoticed, client, cable
<1>3. CASE LooksAtLink
  BY <1>3 DEF LooksAtLink, DropNoticed
<1>4. CASE DHCPTask
  <2>1. stage = "dhcp" /\ stage' = "link" /\ dropped' = dropped
    BY <1>4 DEF DHCPTask
  <2> QED
    BY <1>4, <2>1, TaskReadsLink DEF DropNoticed
<1>5. CASE UNCHANGED dhcpvars
  BY <1>5 DEF dhcpvars, cable, client, DropNoticed
<1> QED
  BY <1>1, <1>2, <1>3, <1>4, <1>5 DEF DhcpNext, StackTask

(***************************************************************************)
(* A cable that was pulled between two passes, and perhaps put back, ends  *)
(* the lease, for every set of servers, every lease and time-out.          *)
(***************************************************************************)
THEOREM LinkLossAlwaysEndsLease == DhcpSpec => LinkLossEndsLease
<1>1. DhcpInit => DropNoticed
  BY DEF DhcpInit, DropNoticed
<1>2. DhcpInv /\ DropNoticed
        => [LooksAtLink /\ dropped /\ bLastLinkState => ~DHCPClient'.bIsBound]_dhcpvars
  <2> SUFFICES ASSUME DhcpInv, DropNoticed, LooksAtLink, dropped, bLastLinkState
               PROVE  ~DHCPClient'.bIsBound
    OBVIOUS
  <2>1. CASE MACIsLinked
    BY <2>1 DEF LooksAtLink, MACIsLinked, DropNoticed
  <2>2. CASE ~MACIsLinked
    <3>1. DHCPClient' = Initialised(DHCPClient) /\ DHCPClient \in ClientRecord
      BY <2>2 DEF LooksAtLink, DhcpInv, ClientOK
    <3> QED
      BY <3>1 DEF Initialised, ClientRecord
  <2> QED
    BY <2>1, <2>2
<1> QED
  BY <1>1, <1>2, DropNoticedKeeps, DhcpInvariant, PTL DEF DhcpSpec, LinkLossEndsLease

-----------------------------------------------------------------------------
(* The lease.  An ACK tells that the server has granted what it names, as  *)
(* long ago as the ACK was under way; which server that is, the client can *)
(* only tell by what an offer has left in its record.                      *)

\* What the client counts of a lease, and what is left of it for the renewals
Counted(s) == Lease[s] - Lease[s] \div Divisor
Spare(s) == Lease[s] \div Divisor - MaxDelay

Told(m) == m.yiaddr = IF m.type = "nak" THEN Zero ELSE m.from

\* An ACK is as old as its way was long, and no lease is longer than granted.
MessagesTrue ==
  /\ \A s \in Server : left[s] <= Lease[s]
  /\ \A m \in net : /\ Told(m) /\ m.seconds <= MaxDelay
                    /\ m.type = "ack" => left[m.from] >= Lease[m.from] - m.seconds
  /\ Received => Told(inbox) /\ (inbox.type = "ack" => left[inbox.from] >= Lease[inbox.from] - MaxDelay)

\* An offer names the address, the server and the lease, until it is acknowledged.
OfferHeld(c) == c.bOfferReceived => c.dwServerID \in Server /\ c.tempIPAddress = c.dwServerID

RequestHeld(c) ==
  c.smState \in {"SEND_REQUEST", "GET_REQUEST_ACK"}
    => c.bOfferReceived /\ ~c.bIsBound /\ c.dwLeaseTime = Counted(c.dwServerID)

Renewing == {"SEND_RENEW", "GET_RENEW_ACK"}

BoundHeld(c) ==
  /\ c.smState \in {"BOUND"} \cup Renewing => c.bIsBound
  /\ c.bIsBound => c.smState \in {"BOUND", "SEND_DISCOVERY"} \cup Renewing

GrantInv ==
  /\ MessagesTrue /\ OfferHeld(DHCPClient) /\ RequestHeld(DHCPClient) /\ BoundHeld(DHCPClient)
  /\ DHCPClient.bIsBound => MyIPAddr \in Server
  /\ DHCPClient.smState = "GET_REQUEST_ACK" /\ asked # Nothing
       => asked.type = "request" /\ asked.to \subseteq {DHCPClient.dwServerID}

(***************************************************************************)
(* What a renewal must not hear: another server's ACK, or an offer, which  *)
(* would change the server that the client listens to.  None is under way  *)
(* any more when the counted part of the lease is over.                    *)
(***************************************************************************)
Foreign(m, s) == m.type = "offer" \/ (m.type = "ack" /\ m.from # s)

AsksForOwn(s) ==
  asked # Nothing => \/ asked.type = "request" /\ asked.to \subseteq {s}
                     \/ asked.type = "renew" /\ asked.ip \in {s, Zero}

Bound(s) ==
  /\ ~Received /\ DHCPClient.tempIPAddress = s /\ DHCPClient.try = 1 /\ age <= 1
  /\ DHCPClient.dwLeaseTime \in 1 .. Counted(s)
  /\ \A m \in net : Foreign(m, s) => m.seconds + DHCPClient.dwLeaseTime >= Counted(s) + age
  /\ AsksForOwn(s)
  /\ ~stalled => left[s] + age >= DHCPClient.dwLeaseTime + Spare(s)

\* The renewals that are still to come, and the time they may take
Patience(k) == (Renewals - k + 1) * Timeout

Renews(s) ==
  /\ \A m \in net : ~Foreign(m, s)
  /\ Received => ~Foreign(inbox, s)
  /\ DHCPClient.tempIPAddress \in {s, Zero}
  /\ DHCPClient.smState = "GET_RENEW_ACK" => ~DHCPClient.bOfferReceived
  /\ AsksForOwn(s)
  /\ ~stalled => /\ DHCPClient.smState = "SEND_RENEW" => left[s] > Patience(DHCPClient.try)
                 /\ DHCPClient.smState = "GET_RENEW_ACK" => left[s] + age > Patience(DHCPClient.try)

InLease(s) ==
  /\ DHCPClient.smState = "BOUND" => Bound(s)
  /\ DHCPClient.smState \in Renewing => Renews(s)
  /\ DHCPClient.smState = "SEND_DISCOVERY" /\ ~stalled => left[s] > 0

LeaseInv ==
  \A s \in Server : DHCPClient.bIsBound /\ MyIPAddr = s /\ LeaseOutlastsRenewals(s) => InLease(s)

\* A lease that is long enough: what is counted of it, and what is spared.
LEMMA LongLease ==
  ASSUME NEW s \in Server
  PROVE  /\ Counted(s) \in Nat /\ Spare(s) \in Int /\ Lease[s] - MaxDelay = Counted(s) + Spare(s)
         /\ LeaseOutlastsRenewals(s) => Counted(s) > MaxDelay /\ Spare(s) > Renewals * Timeout
<1>1. /\ Lease[s] \in Nat /\ Divisor \in Nat /\ Divisor > 1 /\ MaxDelay \in Nat
      /\ Renewals * Timeout \in Nat
  BY DhcpAssumption
<1>2. Lease[s] \div Divisor \in Nat /\ Divisor * (Lease[s] \div Divisor) <= Lease[s]
  BY <1>1
<1>3. ASSUME NEW q \in Nat, NEW d \in Nat, d > 1 PROVE 2 * q <= d * q
  <2>1. d * q = 2 * q + (d - 2) * q /\ (d - 2) * q \in Nat
    BY <1>3
  <2> QED
    BY <2>1
<1>4. 2 * (Lease[s] \div Divisor) <= Lease[s]
  <2> DEFINE q == Lease[s] \div Divisor
  <2>1. 2 * q <= Divisor * q /\ Divisor * q \in Nat
    BY <1>1, <1>2, <1>3
  <2> QED
    BY <1>1, <1>2, <2>1
<1> QED
  BY <1>1, <1>2, <1>4 DEF Counted, Spare, LeaseOutlastsRenewals

\* Each try uses up one time-out of the patience.
LEMMA PatienceEnds ==
  ASSUME NEW k \in 1 .. Renewals
  PROVE  /\ Patience(k) \in Nat /\ Patience(k) >= Timeout
         /\ Patience(1) = Renewals * Timeout
         /\ k < Renewals => Patience(k + 1) = Patience(k) - Timeout
<1>1. Renewals \in Nat /\ Timeout \in Nat
  BY Constants
<1>2. Renewals - k \in Nat /\ (Renewals - k) * Timeout \in Nat
  BY <1>1
<1>3. Patience(k) = (Renewals - k) * Timeout + Timeout
  BY <1>1, <1>2 DEF Patience
<1>4. Patience(k + 1) = (Renewals - k) * Timeout
  BY <1>1 DEF Patience
<1>5. Patience(1) = Renewals * Timeout
  BY <1>1 DEF Patience
<1> QED
  BY <1>1, <1>2, <1>3, <1>4, <1>5

\* What a message leaves in the record
LEMMA RecordedIs ==
  ASSUME NEW c \in ClientRecord, NEW m \in Message, Told(m), OfferHeld(c)
  PROVE  LET r == Recorded(c, m)
         IN /\ OfferHeld(r)
            /\ Kind(c, m) = "offer" => r.bOfferReceived /\ r.dwLeaseTime = Counted(r.dwServerID)
            /\ Kind(c, m) = "ack" => m.type = "ack" /\ c.dwServerID = m.from
            /\ m.type # "offer" => r.bOfferReceived = c.bOfferReceived
            /\ ~c.bOfferReceived /\ m.type = "nak" => r.tempIPAddress = Zero
            /\ ~c.bOfferReceived /\ m.type = "ack"
                 => r.tempIPAddress = m.from /\ r.dwLeaseTime = Counted(m.from)
<1>1. CASE c.bOfferReceived
  BY <1>1 DEF Recorded, Kind, Message, OfferHeld
<1>2. CASE ~c.bOfferReceived
  BY <1>2 DEF Recorded, Kind, Message, OfferHeld, ClientRecord, Told, Counted
<1> QED
  BY <1>1, <1>2 DEF ClientRecord

-----------------------------------------------------------------------------
(* Only acknowledged clients are bound.                                    *)

\* The packets that StackTask fetches were under way, and are no older for it.
LEMMA FetchTrue ==
  ASSUME DhcpInv, MessagesTrue, DHCPTask
  PROVE  MessagesTrue'
<1>1. net \subseteq Message /\ left' = left /\ net' \subseteq net
  BY DEF DhcpInv, NetworkOK, DHCPTask, FetchPackets
<1>2. \A m \in net' : /\ Told(m) /\ m.seconds <= MaxDelay
                      /\ m.type = "ack" => left'[m.from] >= Lease[m.from] - m.seconds
  BY <1>1 DEF MessagesTrue
<1>3. CASE inbox' = Nothing
  BY <1>1, <1>2, <1>3 DEF MessagesTrue, Received
<1>4. ASSUME NEW m \in net, inbox' = [m EXCEPT !.seconds = 0]
      PROVE  MessagesTrue'
  <2>1. /\ inbox'.type = m.type /\ inbox'.from = m.from /\ inbox'.yiaddr = m.yiaddr
        /\ m \in Message
    BY <1>1, <1>4 DEF Message
  <2>2. Told(inbox')
    BY <2>1 DEF MessagesTrue, Told
  <2>3. ASSUME m.type = "ack" PROVE left'[m.from] >= Lease[m.from] - MaxDelay
    <3>1. /\ left[m.from] >= Lease[m.from] - m.seconds /\ m.seconds <= MaxDelay
          /\ m.from \in Server /\ m.seconds \in Nat
      BY <2>1, <2>3 DEF MessagesTrue, Message
    <3>2. left[m.from] \in Nat /\ Lease[m.from] \in Nat /\ MaxDelay \in Nat
      BY <3>1, Constants, DhcpAssumption DEF DhcpInv, DhcpTypeOK
    <3> QED
      BY <1>1, <3>1, <3>2
  <2> QED
    BY <1>1, <1>2, <2>1, <2>2, <2>3 DEF MessagesTrue, Received
<1> QED
  BY <1>3, <1>4 DEF DHCPTask, FetchPackets

\* A client that is not bound, nor in a state of one that is, holds at most an offer.
LEMMA UnboundHolds ==
  ASSUME MessagesTrue', ~DHCPClient'.bIsBound, OfferHeld(DHCPClient'), RequestHeld(DHCPClient'),
         DHCPClient'.smState \notin {"BOUND"} \cup Renewing,
         DHCPClient'.smState = "GET_REQUEST_ACK" /\ asked' # Nothing
           => asked'.type = "request" /\ asked'.to \subseteq {DHCPClient'.dwServerID}
  PROVE  GrantInv' /\ LeaseInv'
BY DEF GrantInv, LeaseInv, BoundHeld

\* SM_DHCP_SEND_DISCOVERY forgets the offer and the lease.
LEMMA DiscoverForgets ==
  ASSUME MessagesTrue', NEW c \in ClientRecord, NEW ready \in BOOLEAN, Discover(c, ready)
  PROVE  GrantInv' /\ LeaseInv'
<1> DEFINE d == [c EXCEPT !.smState = "SEND_DISCOVERY", !.try = 1, !.dwLeaseTime = DefaultLease,
                          !.bIsBound = FALSE, !.bOfferReceived = FALSE]
<1>1. d \in ClientRecord /\ ~d.bIsBound /\ ~d.bOfferReceived /\ d.smState = "SEND_DISCOVERY"
  BY Constants DEF ClientRecord, Exchange
<1>2. \/ DHCPClient' = [[d EXCEPT !.bUseUnicastMode = ~@] EXCEPT !.smState = "GET_OFFER"]
      \/ DHCPClient' = d
  BY DEF Discover, Send, Stay
<1> HIDE DEF d
<1>3. /\ ~DHCPClient'.bIsBound /\ ~DHCPClient'.bOfferReceived
      /\ DHCPClient'.smState \in {"SEND_DISCOVERY", "GET_OFFER"}
  BY <1>1, <1>2 DEF ClientRecord
<1> QED
  BY <1>3, UnboundHolds DEF OfferHeld, RequestHeld, Renewing

\* SM_DHCP_SEND_REQUEST names the server of the offer.
LEMMA RequestNames ==
  ASSUME MessagesTrue', NEW c \in ClientRecord, NEW ready \in BOOLEAN, Request(c, ready),
         ~c.bIsBound, c.bOfferReceived, OfferHeld(c), c.dwLeaseTime = Counted(c.dwServerID)
  PROVE  GrantInv' /\ LeaseInv'
<1>1. CASE ready
  <2>1. /\ DHCPClient' = [c EXCEPT !.smState = "GET_REQUEST_ACK"]
        /\ asked' \in {Nothing, Question("request", Zero, MayAnswer("request", c))}
    BY <1>1 DEF Request, Send
  <2>2. MayAnswer("request", c) \subseteq {c.dwServerID}
    BY DEF MayAnswer
  <2>3. asked' # Nothing => asked'.type = "request" /\ asked'.to \subseteq {c.dwServerID}
    BY <2>1, <2>2 DEF Question
  <2> QED
    BY <2>1, <2>3, UnboundHolds DEF ClientRecord, OfferHeld, RequestHeld, Renewing
<1>2. CASE ~ready
  <2>1. DHCPClient' = [c EXCEPT !.smState = "SEND_REQUEST"]
    BY <1>2 DEF Request, Stay
  <2> QED
    BY <2>1, UnboundHolds DEF ClientRecord, OfferHeld, RequestHeld, Renewing
<1> QED
  BY <1>1, <1>2

\* Before the offer, or back from it, nothing is bound.
LEMMA UnboundStates ==
  ASSUME DhcpInv, GrantInv, DHCPClient.smState \in {"GET_SOCKET", "GET_OFFER", "SEND_REQUEST", "GET_REQUEST_ACK"}
  PROVE  ~DHCPClient.bIsBound
BY DEF GrantInv, BoundHeld, RequestHeld, Renewing

\* SM_DHCP_GET_SOCKET, SM_DHCP_SEND_DISCOVERY, SM_DHCP_SEND_REQUEST
LEMMA SendingGrants ==
  ASSUME DhcpInv, GrantInv, MessagesTrue', GetSocket \/ SendDiscovery \/ SendRequest
  PROVE  GrantInv' /\ LeaseInv'
<1>1. DHCPClient \in ClientRecord
  BY DEF DhcpInv, ClientOK
<1>2. CASE GetSocket
  <2>1. CASE Stay(DHCPClient)
    <3>1. DHCPClient' = DHCPClient /\ ~DHCPClient.bIsBound /\ DHCPClient.smState = "GET_SOCKET"
      BY <1>2, <2>1, UnboundStates DEF Stay, GetSocket
    <3> QED
      BY <3>1, UnboundHolds DEF GrantInv, RequestHeld, Renewing
  <2>2. ASSUME NEW ready \in BOOLEAN, Discover([DHCPClient EXCEPT !.socket = TRUE], ready)
        PROVE  GrantInv' /\ LeaseInv'
    <3>1. [DHCPClient EXCEPT !.socket = TRUE] \in ClientRecord
      BY <1>1 DEF ClientRecord
    <3> QED
      BY <2>2, <3>1, DiscoverForgets
  <2> QED
    BY <1>2, <2>1, <2>2 DEF GetSocket
<1>3. CASE SendDiscovery
  BY <1>1, <1>3, DiscoverForgets DEF SendDiscovery
<1>4. CASE SendRequest
  <2>1. /\ ~DHCPClient.bIsBound /\ DHCPClient.bOfferReceived /\ OfferHeld(DHCPClient)
        /\ DHCPClient.dwLeaseTime = Counted(DHCPClient.dwServerID)
    BY <1>4 DEF SendRequest, GrantInv, RequestHeld
  <2> QED
    BY <1>1, <1>4, <2>1, RequestNames DEF SendRequest
<1> QED
  BY <1>2, <1>3, <1>4

\* SM_DHCP_GET_OFFER
LEMMA GetOfferGrants ==
  ASSUME DhcpInv, GrantInv, MessagesTrue', GetOffer
  PROVE  GrantInv' /\ LeaseInv'
<1>1. /\ DHCPClient \in ClientRecord /\ ~DHCPClient.bIsBound /\ OfferHeld(DHCPClient)
      /\ DHCPClient.smState = "GET_OFFER"
  BY UnboundStates DEF GetOffer, DhcpInv, ClientOK, GrantInv
<1>2. CASE AnswerOverdue
  <2>1. DHCPClient' = [DHCPClient EXCEPT !.smState = "SEND_DISCOVERY"]
    BY <1>2 DEF GetOffer, Stay, AnswerOverdue
  <2> QED
    BY <1>1, <2>1, UnboundHolds DEF ClientRecord, OfferHeld, RequestHeld, Renewing
<1>3. CASE ~AnswerOverdue /\ Received
  <2> DEFINE c == Recorded(DHCPClient, inbox)
  <2>1. inbox \in Message /\ Told(inbox)
    BY <1>3 DEF Received, DhcpInv, NetworkOK, GrantInv, MessagesTrue
  <2>2. /\ c \in ClientRecord /\ ~c.bIsBound /\ c.smState = "GET_OFFER" /\ OfferHeld(c)
    BY <1>1, <2>1, RecordedKeeps, RecordedIs
  <2>3. Kind(DHCPClient, inbox) = "offer" => c.bOfferReceived /\ c.dwLeaseTime = Counted(c.dwServerID)
    BY <1>1, <2>1, RecordedIs
  <2>4. CASE Kind(DHCPClient, inbox) = "offer"
    <3>1. PICK ready \in BOOLEAN : Request(c, ready)
      BY <1>3, <2>4 DEF GetOffer
    <3> HIDE DEF c
    <3> QED
      BY <2>2, <2>3, <2>4, <3>1, RequestNames
  <2>5. CASE Kind(DHCPClient, inbox) # "offer"
    <3>1. DHCPClient' = c
      BY <1>3, <2>5 DEF GetOffer, Stay
    <3> HIDE DEF c
    <3> QED
      BY <2>2, <3>1, UnboundHolds DEF RequestHeld, Renewing
  <2> QED
    BY <2>4, <2>5
<1>4. CASE ~AnswerOverdue /\ ~Received
  <2>1. DHCPClient' = DHCPClient
    BY <1>4 DEF GetOffer, Stay
  <2> QED
    BY <1>1, <2>1, UnboundHolds DEF RequestHeld, Renewing
<1> QED
  BY <1>2, <1>3, <1>4

-----------------------------------------------------------------------------
(* The lease begins, is counted down and renewed.                          *)

\* What is fetched was under way, and nothing is without a socket.
LEMMA Fetched ==
  ASSUME DhcpInv, DHCPTask
  PROVE  /\ left' = left /\ net' \subseteq net
         /\ ~DHCPClient'.socket => ~Received'
         /\ \A s \in Server : (\A m \in net : ~Foreign(m, s)) /\ Received' => ~Foreign(inbox', s)
<1>1. net \subseteq Message /\ left' = left /\ net' \subseteq net
  BY DEF DhcpInv, NetworkOK, DHCPTask, FetchPackets
<1>2. CASE inbox' = Nothing
  BY <1>1, <1>2 DEF Received
<1>3. ASSUME NEW m \in net, inbox' = IF DHCPClient'.socket THEN [m EXCEPT !.seconds = 0] ELSE Nothing
      PROVE  /\ ~DHCPClient'.socket => ~Received'
             /\ \A s \in Server : (\A n \in net : ~Foreign(n, s)) /\ Received' => ~Foreign(inbox', s)
  <2>1. m \in Message
    BY <1>1
  <2>2. [m EXCEPT !.seconds = 0].type = m.type /\ [m EXCEPT !.seconds = 0].from = m.from
    BY <2>1 DEF Message
  <2>3. ~DHCPClient'.socket => ~Received'
    BY <1>3 DEF Received
  <2> QED
    BY <1>3, <2>2, <2>3 DEF Received, Foreign
<1> QED
  BY <1>1, <1>2, <1>3 DEF DHCPTask, FetchPackets

\* An ACK that is for the address in use begins the whole lease.
LEMMA BindBegins ==
  ASSUME DhcpInv, MessagesTrue', DHCPTask, NEW c \in ClientRecord, Bind(c), OfferHeld(c),
         NEW s \in Server, MyIPAddr' = s,
         LeaseOutlastsRenewals(s)
           => /\ c.tempIPAddress = s /\ c.dwLeaseTime = Counted(s) /\ AsksForOwn(s)
              /\ left[s] >= Lease[s] - MaxDelay
  PROVE  GrantInv' /\ LeaseInv'
<1>1. /\ DHCPClient' = [c EXCEPT !.socket = FALSE, !.smState = "BOUND", !.try = 1, !.bIsBound = TRUE]
      /\ age' = 0 /\ asked' = asked
  BY DEF Bind
<1>2. /\ DHCPClient'.smState = "BOUND" /\ DHCPClient'.try = 1 /\ ~DHCPClient'.socket
      /\ DHCPClient'.dwLeaseTime = c.dwLeaseTime /\ DHCPClient'.tempIPAddress = c.tempIPAddress
      /\ DHCPClient'.bIsBound /\ OfferHeld(DHCPClient')
  BY <1>1 DEF ClientRecord, OfferHeld
<1>3. GrantInv'
  BY <1>2 DEF GrantInv, RequestHeld, BoundHeld, Renewing
<1>4. ASSUME LeaseOutlastsRenewals(s) PROVE Bound(s)'
  <2>1. /\ Counted(s) \in Nat /\ Spare(s) \in Int /\ Lease[s] - MaxDelay = Counted(s) + Spare(s)
        /\ Counted(s) > MaxDelay /\ MaxDelay \in Nat
    BY <1>4, LongLease, DhcpAssumption
  <2>2. ~Received' /\ left' = left /\ left[s] \in Nat
    BY <1>2, Fetched DEF DhcpInv, DhcpTypeOK
  <2>3. \A m \in net' : m.seconds + Counted(s) >= Counted(s) + 0
    <3>1. \A m \in net' : m.seconds \in Nat
      BY Fetched DEF DhcpInv, NetworkOK, Message
    <3> QED
      BY <2>1, <3>1
  <2>4. left'[s] + 0 >= Counted(s) + Spare(s)
    BY <1>4, <2>1, <2>2
  <2>5. Counted(s) \in 1 .. Counted(s) /\ 0 <= 1
    BY <2>1
  <2>6. AsksForOwn(s)'
    BY <1>1, <1>4 DEF AsksForOwn
  <2> QED
    BY <1>1, <1>2, <1>4, <2>2, <2>3, <2>4, <2>5, <2>6 DEF Bound
<1> QED
  BY <1>2, <1>3, <1>4 DEF LeaseInv, InLease, Renewing

\* SM_DHCP_GET_REQUEST_ACK: the record is still that of the offer.
LEMMA GetRequestAckGrants ==
  ASSUME DhcpInv, GrantInv, MessagesTrue', DHCPTask, GetRequestAck
  PROVE  GrantInv' /\ LeaseInv'
<1> DEFINE c == IF Received THEN Recorded(DHCPClient, inbox) ELSE DHCPClient
           ack == Received /\ Kind(DHCPClient, inbox) = "ack"
           nak == Received /\ Kind(DHCPClient, inbox) = "nak"
<1>1. /\ DHCPClient.smState = "GET_REQUEST_ACK" /\ DHCPClient \in ClientRecord
      /\ DHCPClient.bOfferReceived /\ OfferHeld(DHCPClient) /\ ~DHCPClient.bIsBound
      /\ DHCPClient.dwLeaseTime = Counted(DHCPClient.dwServerID)
      /\ DHCPClient.dwServerID \in Server /\ DHCPClient.tempIPAddress = DHCPClient.dwServerID
  BY DEF GetRequestAck, DhcpInv, ClientOK, GrantInv, RequestHeld, OfferHeld
<1>2. c = DHCPClient
  BY <1>1, AfterDatagram DEF Exchange
<1>3. CASE ack
  <2> DEFINE s == DHCPClient.dwServerID
  <2>1. Bind(DHCPClient) /\ MyIPAddr' = s
    BY <1>1, <1>2, <1>3 DEF GetRequestAck
  <2>2. inbox \in Message /\ inbox.type = "ack" /\ inbox.from = s
    BY <1>1, <1>3, RecordedIs DEF Received, DhcpInv, NetworkOK, GrantInv, MessagesTrue
  <2>3. left[s] >= Lease[s] - MaxDelay
    BY <1>3, <2>2 DEF GrantInv, MessagesTrue
  <2>4. AsksForOwn(s)
    BY <1>1 DEF GrantInv, AsksForOwn
  <2> HIDE DEF s
  <2>5. s \in Server /\ DHCPClient.tempIPAddress = s /\ DHCPClient.dwLeaseTime = Counted(s)
    BY <1>1 DEF s
  <2> QED
    BY <1>1, <2>1, <2>3, <2>4, <2>5, BindBegins
<1>4. CASE ~ack
  <2>1. /\ DHCPClient' \in {DHCPClient, [DHCPClient EXCEPT !.smState = "SEND_DISCOVERY"]}
        /\ asked' = asked
    BY <1>2, <1>4 DEF GetRequestAck, Stay
  <2>2. CASE DHCPClient' = DHCPClient
    BY <1>1, <2>1, <2>2, UnboundHolds DEF GrantInv, Renewing
  <2>3. CASE DHCPClient' = [DHCPClient EXCEPT !.smState = "SEND_DISCOVERY"]
    BY <1>1, <2>3, UnboundHolds DEF ClientRecord, OfferHeld, RequestHeld, Renewing
  <2> QED
    BY <2>1, <2>2, <2>3
<1> QED
  BY <1>3, <1>4

\* What is to be shown of a client that stays bound to the same address
LEMMA StaysBound ==
  ASSUME MessagesTrue', MyIPAddr \in Server, MyIPAddr' = MyIPAddr, DHCPClient'.bIsBound,
         OfferHeld(DHCPClient'), DHCPClient'.smState \in {"BOUND", "SEND_DISCOVERY"} \cup Renewing,
         LeaseOutlastsRenewals(MyIPAddr) => \A s \in Server : s = MyIPAddr => InLease(s)'
  PROVE  GrantInv' /\ LeaseInv'
<1>1. GrantInv'
  BY DEF GrantInv, RequestHeld, BoundHeld, Renewing
<1>2. LeaseInv'
  BY DEF LeaseInv
<1> QED
  BY <1>1, <1>2

\* What the invariant says of a client in SM_DHCP_BOUND or in a renewal
LEMMA InBound ==
  ASSUME DhcpInv, GrantInv, LeaseInv, DHCPClient.smState \in {"BOUND"} \cup Renewing
  PROVE  /\ DHCPClient \in ClientRecord /\ DHCPClient.bIsBound /\ MyIPAddr \in Server
         /\ OfferHeld(DHCPClient)
         /\ \A s \in Server : s = MyIPAddr /\ LeaseOutlastsRenewals(s) => InLease(s)
BY DEF GrantInv, BoundHeld, LeaseInv, DhcpInv, ClientOK

\* SM_DHCP_BOUND, while the lease lasts
LEMMA BoundCounts ==
  ASSUME DhcpInv, GrantInv, LeaseInv, MessagesTrue', DHCPTask, CountDown \/ StayBound
  PROVE  GrantInv' /\ LeaseInv'
<1>1. DHCPClient.smState = "BOUND" /\ MyIPAddr' = MyIPAddr /\ stalled' = stalled /\ asked' = asked
  BY DEF CountDown, StayBound, Stay
<1>2. /\ DHCPClient \in ClientRecord /\ DHCPClient.bIsBound /\ MyIPAddr \in Server
      /\ OfferHeld(DHCPClient)
  BY <1>1, InBound
<1>3. /\ DHCPClient'.smState = "BOUND" /\ DHCPClient'.bIsBound /\ OfferHeld(DHCPClient')
      /\ DHCPClient'.tempIPAddress = DHCPClient.tempIPAddress /\ DHCPClient'.try = DHCPClient.try
      /\ ~DHCPClient'.socket
  <2>1. ~DHCPClient.socket
    BY <1>1 DEF DhcpInv, ClientOK, Exchange
  <2> QED
    BY <1>1, <1>2, <2>1 DEF CountDown, StayBound, Stay, ClientRecord, OfferHeld
<1>4. ASSUME NEW s \in Server, s = MyIPAddr, LeaseOutlastsRenewals(s) PROVE Bound(s)'
  <2> DEFINE dw == DHCPClient.dwLeaseTime
             dw1 == DHCPClient'.dwLeaseTime
             age1 == age'
  <2>1. Bound(s)
    BY <1>1, <1>4, InBound DEF InLease
  <2>2. ~Received' /\ left' = left /\ net' \subseteq net
    BY <1>3, Fetched
  <2>3. /\ age \in Nat /\ dw \in 1 .. Counted(s) /\ Counted(s) \in Nat /\ Spare(s) \in Int
        /\ left[s] \in Nat
    BY <2>1, LongLease DEF Bound, DhcpInv, DhcpTypeOK
  <2>4. /\ dw1 - age1 = dw - age /\ dw1 \in 1 .. Counted(s) /\ age1 <= age /\ age1 \in Nat
    <3>1. CASE CountDown
      <4>1. age1 = age - 1 /\ dw1 = dw - 1 /\ age > 0 /\ dw >= 2
        BY <1>2, <3>1 DEF CountDown, ClientRecord
      <4> HIDE DEF dw1, age1, dw
      <4> QED
        BY <2>3, <4>1
    <3>2. CASE StayBound
      BY <2>3, <3>2 DEF StayBound, Stay
    <3> QED
      BY <3>1, <3>2
  <2> HIDE DEF dw1, age1
  <2>5. age1 <= 1
    BY <2>1, <2>3, <2>4 DEF Bound
  <2>6. \A m \in net' : Foreign(m, s) => m.seconds + dw1 >= Counted(s) + age1
    <3> SUFFICES ASSUME NEW m \in net', Foreign(m, s) PROVE m.seconds + dw1 >= Counted(s) + age1
      OBVIOUS
    <3>1. m.seconds \in Nat /\ m.seconds + dw >= Counted(s) + age
      BY <2>1, <2>2 DEF Bound, DhcpInv, NetworkOK, Message
    <3> HIDE DEF dw
    <3> QED
      BY <2>3, <2>4, <3>1
  <2>7. ~stalled' => left'[s] + age1 >= dw1 + Spare(s)
    <3> SUFFICES ASSUME ~stalled' PROVE left[s] + age1 >= dw1 + Spare(s)
      BY <2>2
    <3>1. left[s] + age >= dw + Spare(s)
      BY <1>1, <2>1 DEF Bound
    <3> HIDE DEF dw
    <3> QED
      BY <2>3, <2>4, <3>1
  <2>8. AsksForOwn(s)'
    BY <1>1, <2>1 DEF Bound, AsksForOwn
  <2> QED
    BY <1>3, <2>1, <2>2, <2>4, <2>5, <2>6, <2>7, <2>8 DEF Bound, age1, dw1
<1> QED
  BY <1>1, <1>2, <1>3, <1>4, StaysBound DEF InLease, Renewing

\* SM_DHCP_SEND_RENEW, from whatever state
LEMMA RenewRenews ==
  ASSUME DhcpInv, GrantInv, MessagesTrue', DHCPTask, NEW c \in ClientRecord, NEW ready \in BOOLEAN,
         Renew(c, ready), c.bIsBound, MyIPAddr \in Server, MyIPAddr' = MyIPAddr, OfferHeld(c),
         \A s \in Server : s = MyIPAddr /\ LeaseOutlastsRenewals(s)
           => /\ \A m \in net : ~Foreign(m, s)
              /\ c.tempIPAddress \in {s, Zero} /\ AsksForOwn(s)
              /\ ~stalled => left[s] > Patience(c.try)
  PROVE  GrantInv' /\ LeaseInv'
<1>1. CASE ready
  <2> DEFINE d == [c EXCEPT !.bOfferReceived = FALSE]
  <2>1. /\ DHCPClient' = [d EXCEPT !.smState = "GET_RENEW_ACK"] /\ age' = 0 /\ stalled' = stalled
        /\ asked' \in {Nothing, Question("renew", d.tempIPAddress, MayAnswer("renew", d))}
    BY <1>1 DEF Renew, Send, DhcpInv, DhcpTypeOK
  <2>2. /\ d \in ClientRecord /\ d.bIsBound /\ ~d.bOfferReceived /\ d.try = c.try
        /\ d.tempIPAddress = c.tempIPAddress
    BY DEF ClientRecord
  <2> HIDE DEF d
  <2>3. /\ DHCPClient'.smState = "GET_RENEW_ACK" /\ DHCPClient'.bIsBound /\ ~DHCPClient'.bOfferReceived
        /\ DHCPClient'.try = c.try /\ DHCPClient'.tempIPAddress = c.tempIPAddress
    BY <2>1, <2>2 DEF ClientRecord
  <2>4. asked' # Nothing => asked'.type = "renew" /\ asked'.ip = c.tempIPAddress
    BY <2>1, <2>2 DEF Question
  <2>5. ASSUME NEW s \in Server, s = MyIPAddr, LeaseOutlastsRenewals(s) PROVE Renews(s)'
    <3>1. ~stalled' => left'[s] + age' > Patience(c.try)
      <4>1. left' = left /\ left[s] \in Nat
        BY Fetched DEF DhcpInv, DhcpTypeOK
      <4> QED
        BY <2>1, <2>5, <4>1
    <3>2. net' \subseteq net /\ (Received' => ~Foreign(inbox', s))
      BY <2>5, Fetched
    <3> QED
      BY <2>3, <2>4, <2>5, <3>1, <3>2 DEF Renews, AsksForOwn
  <2>6. OfferHeld(DHCPClient')
    BY <2>3 DEF OfferHeld
  <2> QED
    BY <2>3, <2>5, <2>6, StaysBound DEF InLease, Renewing
<1>2. CASE ~ready
  <2>1. DHCPClient' = [c EXCEPT !.smState = "SEND_RENEW"] /\ stalled' /\ asked' = asked
    BY <1>2 DEF Renew, Stay
  <2>2. /\ DHCPClient'.smState = "SEND_RENEW" /\ DHCPClient'.bIsBound
        /\ DHCPClient'.tempIPAddress = c.tempIPAddress /\ OfferHeld(DHCPClient')
    BY <2>1 DEF ClientRecord, OfferHeld
  <2>3. ASSUME NEW s \in Server, s = MyIPAddr, LeaseOutlastsRenewals(s) PROVE Renews(s)'
    <3>1. net' \subseteq net /\ (Received' => ~Foreign(inbox', s))
      BY <2>3, Fetched
    <3> QED
      BY <2>1, <2>2, <2>3, <3>1 DEF Renews, AsksForOwn
  <2> QED
    BY <2>2, <2>3, StaysBound DEF InLease, Renewing
<1> QED
  BY <1>1, <1>2

\* SM_DHCP_BOUND, when what is counted of the lease is over
LEMMA RenewalBegins ==
  ASSUME DhcpInv, GrantInv, LeaseInv, MessagesTrue', DHCPTask, BeginRenewal
  PROVE  GrantInv' /\ LeaseInv'
<1>1. /\ DHCPClient.smState = "BOUND" /\ MyIPAddr' = MyIPAddr
      /\ age > 0 /\ DHCPClient.dwLeaseTime < 2
  BY DEF BeginRenewal
<1>2. /\ DHCPClient \in ClientRecord /\ DHCPClient.bIsBound /\ MyIPAddr \in Server
      /\ OfferHeld(DHCPClient)
  BY <1>1, InBound
<1>3. ASSUME NEW s \in Server, s = MyIPAddr, LeaseOutlastsRenewals(s) PROVE Bound(s)
  BY <1>1, <1>3, InBound DEF InLease
<1>4. CASE Stay(DHCPClient) /\ stalled' = TRUE
  <2>1. DHCPClient' = DHCPClient /\ age' = age /\ asked' = asked
    BY <1>4 DEF Stay
  <2>2. ~DHCPClient'.socket
    BY <1>1, <2>1 DEF DhcpInv, ClientOK, Exchange
  <2>3. ASSUME NEW s \in Server, s = MyIPAddr, LeaseOutlastsRenewals(s) PROVE Bound(s)'
    BY <1>3, <1>4, <2>1, <2>2, <2>3, Fetched DEF Bound, AsksForOwn
  <2> QED
    BY <1>1, <1>2, <2>1, <2>3, StaysBound DEF InLease, Renewing
<1>5. ASSUME NEW ready \in BOOLEAN, Renew([DHCPClient EXCEPT !.socket = TRUE], ready)
      PROVE  GrantInv' /\ LeaseInv'
  <2> DEFINE c == [DHCPClient EXCEPT !.socket = TRUE]
  <2>1. /\ c \in ClientRecord /\ c.bIsBound /\ c.try = DHCPClient.try
        /\ c.tempIPAddress = DHCPClient.tempIPAddress /\ OfferHeld(c)
    BY <1>2 DEF ClientRecord, OfferHeld
  <2> HIDE DEF c
  <2>2. ASSUME NEW s \in Server, s = MyIPAddr, LeaseOutlastsRenewals(s)
        PROVE  /\ \A m \in net : ~Foreign(m, s)
               /\ c.tempIPAddress \in {s, Zero} /\ AsksForOwn(s)
               /\ ~stalled => left[s] > Patience(c.try)
    <3> DEFINE dw == DHCPClient.dwLeaseTime
    <3>1. Bound(s)
      BY <1>3, <2>2
    <3>2. /\ Counted(s) \in Nat /\ Spare(s) \in Int /\ Counted(s) > MaxDelay /\ MaxDelay \in Nat
          /\ Spare(s) > Patience(1) /\ Patience(1) \in Nat
      BY <2>2, LongLease, PatienceEnds, Constants, DhcpAssumption
    <3>3. age = 1 /\ dw \in 1 .. Counted(s) /\ dw = 1 /\ DHCPClient.try = 1 /\ left[s] \in Nat
      BY <1>1, <3>1, <3>2 DEF Bound, DhcpInv, DhcpTypeOK
    <3>4. \A m \in net : ~Foreign(m, s)
      <4> SUFFICES ASSUME NEW m \in net, Foreign(m, s) PROVE FALSE
        OBVIOUS
      <4>1. m.seconds + dw >= Counted(s) + age /\ m.seconds <= MaxDelay /\ m.seconds \in Nat
        BY <3>1 DEF Bound, GrantInv, MessagesTrue, DhcpInv, NetworkOK, Message
      <4> HIDE DEF dw
      <4> QED
        BY <3>2, <3>3, <4>1
    <3>5. ~stalled => left[s] > Patience(1)
      <4> SUFFICES ASSUME ~stalled PROVE left[s] > Patience(1)
        OBVIOUS
      <4>1. left[s] + age >= dw + Spare(s)
        BY <3>1 DEF Bound
      <4> HIDE DEF dw
      <4> QED
        BY <3>2, <3>3, <4>1
    <3> QED
      BY <2>1, <3>1, <3>3, <3>4, <3>5 DEF Bound
  <2>3. Renew(c, ready)
    BY <1>5 DEF c
  <2> QED
    BY <1>1, <1>2, <2>1, <2>2, <2>3, RenewRenews
<1> QED
  BY <1>4, <1>5 DEF BeginRenewal

\* SM_DHCP_SEND_RENEW
LEMMA SendRenewGrants ==
  ASSUME DhcpInv, GrantInv, LeaseInv, MessagesTrue', DHCPTask, SendRenew
  PROVE  GrantInv' /\ LeaseInv'
<1>1. DHCPClient.smState = "SEND_RENEW" /\ MyIPAddr' = MyIPAddr
  BY DEF SendRenew
<1>2. /\ DHCPClient \in ClientRecord /\ DHCPClient.bIsBound /\ MyIPAddr \in Server
      /\ OfferHeld(DHCPClient)
  BY <1>1, InBound DEF Renewing
<1>3. ASSUME NEW s \in Server, s = MyIPAddr, LeaseOutlastsRenewals(s)
      PROVE  /\ \A m \in net : ~Foreign(m, s)
             /\ DHCPClient.tempIPAddress \in {s, Zero} /\ AsksForOwn(s)
             /\ ~stalled => left[s] > Patience(DHCPClient.try)
  <2>1. Renews(s)
    BY <1>1, <1>3, InBound DEF InLease, Renewing
  <2> QED
    BY <1>1, <2>1 DEF Renews
<1> QED
  BY <1>1, <1>2, <1>3, RenewRenews DEF SendRenew

\* SM_DHCP_GET_RENEW_ACK: an ACK is from the server of the lease, and a try
\* that is not answered takes no more than its time-out.
LEMMA GetRenewAckGrants ==
  ASSUME DhcpInv, GrantInv, LeaseInv, MessagesTrue', DHCPTask, GetRenewAck
  PROVE  GrantInv' /\ LeaseInv'
<1> DEFINE c == IF Received THEN Recorded(DHCPClient, inbox) ELSE DHCPClient
           ack == Received /\ Kind(DHCPClient, inbox) = "ack"
           nak == Received /\ Kind(DHCPClient, inbox) = "nak"
<1>1. DHCPClient.smState = "GET_RENEW_ACK" /\ MyIPAddr' = MyIPAddr
  BY DEF GetRenewAck
<1>2. /\ DHCPClient \in ClientRecord /\ DHCPClient.bIsBound /\ MyIPAddr \in Server
      /\ OfferHeld(DHCPClient)
  BY <1>1, InBound DEF Renewing
<1>3. ASSUME NEW s \in Server, s = MyIPAddr, LeaseOutlastsRenewals(s) PROVE Renews(s)
  BY <1>1, <1>3, InBound DEF InLease, Renewing
<1>4. Received => inbox \in Message /\ Told(inbox)
  BY DEF Received, DhcpInv, NetworkOK, GrantInv, MessagesTrue
<1>5. /\ c \in ClientRecord /\ c.bIsBound /\ c.smState = "GET_RENEW_ACK" /\ OfferHeld(c)
      /\ c.try = DHCPClient.try
  BY <1>1, <1>2, <1>4, RecordedKeeps, RecordedIs
<1>6. ASSUME NEW s \in Server, s = MyIPAddr, LeaseOutlastsRenewals(s)
      PROVE  ~c.bOfferReceived /\ c.tempIPAddress \in {s, Zero}
  <2>1. ~DHCPClient.bOfferReceived /\ DHCPClient.tempIPAddress \in {s, Zero}
    BY <1>1, <1>3, <1>6 DEF Renews
  <2>2. ASSUME Received PROVE ~c.bOfferReceived /\ c.tempIPAddress \in {s, Zero}
    <3>1. inbox.type = "nak" \/ (inbox.type = "ack" /\ inbox.from = s)
      BY <1>3, <1>4, <1>6, <2>2 DEF Renews, Foreign, Message
    <3> QED
      BY <1>2, <1>4, <2>1, <2>2, <3>1, RecordedIs
  <2> QED
    BY <2>1, <2>2
<1>7. CASE ack
  <2>1. Bind(c)
    BY <1>7 DEF GetRenewAck
  <2>2. inbox.type = "ack"
    BY <1>2, <1>4, <1>7, RecordedIs
  <2>3. ASSUME NEW s \in Server, s = MyIPAddr, LeaseOutlastsRenewals(s)
        PROVE  /\ c.tempIPAddress = s /\ c.dwLeaseTime = Counted(s) /\ AsksForOwn(s)
               /\ left[s] >= Lease[s] - MaxDelay
    <3>1. inbox.from = s /\ ~DHCPClient.bOfferReceived /\ AsksForOwn(s)
      BY <1>1, <1>3, <1>7, <2>2, <2>3 DEF Renews, Foreign
    <3>2. c.tempIPAddress = s /\ c.dwLeaseTime = Counted(s)
      BY <1>2, <1>4, <1>7, <2>2, <3>1, RecordedIs
    <3> QED
      BY <1>7, <2>2, <3>1, <3>2 DEF GrantInv, MessagesTrue
  <2> HIDE DEF c
  <2> QED
    BY <1>1, <1>2, <1>5, <2>1, <2>3, BindBegins
<1>8. CASE ~ack
  <2> DEFINE next == CASE nak -> [c EXCEPT !.smState = "SEND_DISCOVERY"]
                       [] AnswerOverdue -> NextTry(c) [] OTHER -> c
  <2>1. Stay(next) /\ stalled' = stalled
    BY <1>8 DEF GetRenewAck
  <2>2. DHCPClient' = next /\ age' = age /\ asked' = asked
    BY <2>1 DEF Stay
  <2>3. nak => ~AnswerOverdue
    BY DEF AnswerOverdue
  <2>4. left' = left /\ net' \subseteq net /\ left \in [Server -> Nat] /\ age \in 0 .. Timeout
    BY Fetched DEF DhcpInv, DhcpTypeOK
  <2>5. ASSUME NEW s \in Server, s = MyIPAddr, LeaseOutlastsRenewals(s)
        PROVE  /\ \A m \in net' : ~Foreign(m, s)
               /\ Received' => ~Foreign(inbox', s)
               /\ AsksForOwn(s)'
               /\ ~stalled' => left'[s] + age' > Patience(c.try)
    BY <1>1, <1>3, <1>5, <2>1, <2>2, <2>4, <2>5, Fetched DEF Renews, AsksForOwn
  <2>6. c.try \in 1 .. Renewals /\ Timeout \in Nat /\ Renewals \in Nat
    BY <1>5, Constants DEF ClientRecord
  <2>7. ASSUME NEW s \in Server, s = MyIPAddr, LeaseOutlastsRenewals(s), ~stalled'
        PROVE  left'[s] > Patience(c.try) - Timeout /\ left'[s] > 0
    <3>1. left'[s] + age > Patience(c.try) /\ Patience(c.try) \in Nat /\ Patience(c.try) >= Timeout
      BY <2>2, <2>5, <2>6, <2>7, PatienceEnds
    <3> QED
      BY <2>4, <2>6, <3>1
  <2>8. CASE next = c
    <3>1. /\ DHCPClient'.smState = "GET_RENEW_ACK" /\ DHCPClient'.bIsBound /\ OfferHeld(DHCPClient')
          /\ DHCPClient'.try = c.try /\ DHCPClient'.tempIPAddress = c.tempIPAddress
          /\ DHCPClient'.bOfferReceived = c.bOfferReceived
      BY <1>5, <2>2, <2>8
    <3> HIDE DEF c
    <3>2. ASSUME NEW s \in Server, s = MyIPAddr, LeaseOutlastsRenewals(s) PROVE Renews(s)'
      BY <1>6, <2>5, <3>1, <3>2 DEF Renews
    <3> QED
      BY <1>1, <1>2, <3>1, <3>2, StaysBound DEF InLease, Renewing
  <2>9. CASE next = [c EXCEPT !.smState = "SEND_DISCOVERY"]
    <3> HIDE DEF c
    <3>1. /\ DHCPClient'.smState = "SEND_DISCOVERY" /\ DHCPClient'.bIsBound
          /\ OfferHeld(DHCPClient')
      BY <1>5, <2>2, <2>9 DEF ClientRecord, OfferHeld
    <3> QED
      BY <1>1, <1>2, <2>7, <3>1, StaysBound DEF InLease, Renewing
  <2>10. CASE c.try < Renewals /\ next = [c EXCEPT !.try = @ + 1, !.smState = "SEND_RENEW"]
    <3> HIDE DEF c
    <3> DEFINE k == c.try + 1
    <3>4. DHCPClient' = [c EXCEPT !.try = k, !.smState = "SEND_RENEW"]
      BY <2>2, <2>10
    <3> HIDE DEF next, k
    <3>5. /\ DHCPClient'.smState = "SEND_RENEW" /\ DHCPClient'.bIsBound /\ OfferHeld(DHCPClient')
          /\ DHCPClient'.try = k /\ DHCPClient'.tempIPAddress = c.tempIPAddress
      BY <1>5, <3>4 DEF ClientRecord, OfferHeld
    <3>1. /\ DHCPClient'.smState = "SEND_RENEW" /\ DHCPClient'.bIsBound /\ OfferHeld(DHCPClient')
          /\ DHCPClient'.try = c.try + 1 /\ DHCPClient'.tempIPAddress = c.tempIPAddress
      BY <3>5 DEF k
    <3>2. Patience(c.try + 1) = Patience(c.try) - Timeout
      BY <2>6, <2>10, PatienceEnds
    <3>3. ASSUME NEW s \in Server, s = MyIPAddr, LeaseOutlastsRenewals(s) PROVE Renews(s)'
      BY <1>6, <2>5, <2>7, <3>1, <3>2, <3>3 DEF Renews
    <3> QED
      BY <1>1, <1>2, <3>1, <3>3, StaysBound DEF InLease, Renewing
  <2> QED
    BY <2>3, <2>8, <2>9, <2>10 DEF NextTry
<1> QED
  BY <1>7, <1>8

\* DHCPTask, with what it fetches
LEMMA TaskGrants ==
  ASSUME DhcpInv, GrantInv, LeaseInv, DHCPTask
  PROVE  GrantInv' /\ LeaseInv'
<1>1. MessagesTrue'
  BY FetchTrue DEF GrantInv
<1> QED
  BY <1>1, SendingGrants, GetOfferGrants, GetRequestAckGrants, BoundCounts, RenewalBegins,
     SendRenewGrants, GetRenewAckGrants DEF DHCPTask

\* DHCPInit leaves no lease.
LEMMA LinkGrants ==
  ASSUME DhcpInv, GrantInv, LeaseInv, LooksAtLink
  PROVE  GrantInv' /\ LeaseInv'
<1>1. UNCHANGED <<age, stalled, inbox, asked, net, left>>
  BY DEF LooksAtLink, world
<1>2. MessagesTrue'
  BY <1>1 DEF GrantInv, MessagesTrue, Received
<1>3. CASE bLastLinkState /\ ~MACIsLinked
  <2>1. DHCPClient' = Initialised(DHCPClient) /\ DHCPClient \in ClientRecord
    BY <1>3 DEF LooksAtLink, DhcpInv, ClientOK
  <2>2. /\ ~DHCPClient'.bIsBound /\ ~DHCPClient'.bOfferReceived /\ DHCPClient'.smState = "GET_SOCKET"
    BY <2>1 DEF Initialised, ClientRecord
  <2> QED
    BY <1>2, <2>2, UnboundHolds DEF OfferHeld, RequestHeld, Renewing
<1>4. CASE ~(bLastLinkState /\ ~MACIsLinked)
  <2>1. UNCHANGED <<DHCPClient, MyIPAddr>>
    BY <1>4 DEF LooksAtLink
  <2> QED
    BY <1>1, <1>2, <2>1 DEF GrantInv, LeaseInv, InLease, Bound, Renews, AsksForOwn, Received
<1> QED
  BY <1>3, <1>4

\* The cable
LEMMA CableGrants ==
  ASSUME DhcpInv, GrantInv, LeaseInv, LinkDrops \/ LinkComesUp
  PROVE  GrantInv' /\ LeaseInv'
<1>1. UNCHANGED <<DHCPClient, MyIPAddr, age, stalled, inbox, asked, net, left>>
  BY DEF LinkDrops, LinkComesUp, client, world
<1> QED
  BY <1>1 DEF GrantInv, LeaseInv, InLease, Bound, Renews, AsksForOwn, Received, MessagesTrue

\* A server's answer says what it does, and only it renews its own address.
LEMMA AnswerGrants ==
  ASSUME DhcpInv, GrantInv, LeaseInv, NEW t \in Server, Answer(t)
  PROVE  GrantInv' /\ LeaseInv'
<1>1. /\ UNCHANGED <<DHCPClient, MyIPAddr, age, stalled, inbox>>
      /\ asked' = Question(asked.type, asked.ip, asked.to \ {t})
      /\ asked # Nothing /\ asked.type \in {"discover", "request", "renew"} /\ t \in asked.to
  BY DEF Answer, client, DhcpInv, NetworkOK
<1>2. PICK type \in Answers(t) :
        /\ left' = IF type = "ack" THEN [left EXCEPT ![t] = Lease[t]] ELSE left
        /\ net' \in {net, net \cup {Reply(t, type)}}
  BY DEF Answer
<1>3. /\ left \in [Server -> Nat] /\ \A s \in Server : left[s] <= Lease[s] /\ Lease[s] \in Nat
      /\ net \subseteq Message /\ (Received => inbox \in Message)
  BY Constants DEF DhcpInv, DhcpTypeOK, NetworkOK, Received, GrantInv, MessagesTrue
<1>4. \A s \in Server : left'[s] \in Nat /\ left'[s] >= left[s] /\ left'[s] <= Lease[s]
  BY <1>2, <1>3
<1> DEFINE new == Reply(t, type)
<1>0. /\ \A m \in net : m.type = "ack" => left[m.from] >= Lease[m.from] - m.seconds
      /\ Received /\ inbox.type = "ack" => left[inbox.from] >= Lease[inbox.from] - MaxDelay
  <2>1. MessagesTrue
    BY DEF GrantInv
  <2> QED
    BY <2>1 DEF MessagesTrue
<1>5. /\ Told(new) /\ new.seconds = 0 /\ new.type = type /\ new.from = t
  BY DEF Reply, Told
<1>6. 0 <= MaxDelay
  BY DhcpAssumption
<1>7. \A m \in net' : /\ Told(m) /\ m.seconds <= MaxDelay
                      /\ m.type = "ack" => left'[m.from] >= Lease[m.from] - m.seconds
  <2>1. ASSUME NEW m \in net PROVE m.type = "ack" => left'[m.from] >= Lease[m.from] - m.seconds
    <3> SUFFICES ASSUME m.type = "ack" PROVE left'[m.from] >= Lease[m.from] - m.seconds
      OBVIOUS
    <3>1. m.from \in Server /\ m.seconds \in Nat /\ left[m.from] >= Lease[m.from] - m.seconds
      <4>1. m \in Message
        BY <1>3
      <4>2. left[m.from] >= Lease[m.from] - m.seconds
        BY <1>0
      <4> QED
        BY <4>1, <4>2 DEF Message
    <3>2. left'[m.from] \in Nat /\ left[m.from] \in Nat /\ left'[m.from] >= left[m.from]
      BY <1>3, <1>4, <3>1
    <3>3. Lease[m.from] \in Nat
      BY <1>3, <3>1
    <3> QED
      BY <3>1, <3>2, <3>3
  <2>2. new.type = "ack" => left'[new.from] >= Lease[new.from] - new.seconds
    BY <1>2, <1>3, <1>5
  <2> QED
    BY <1>2, <1>5, <1>6, <2>1, <2>2 DEF GrantInv, MessagesTrue
<1>8. Received /\ inbox.type = "ack" => left'[inbox.from] >= Lease[inbox.from] - MaxDelay
  <2> SUFFICES ASSUME Received, inbox.type = "ack" PROVE left'[inbox.from] >= Lease[inbox.from] - MaxDelay
    OBVIOUS
  <2>1. inbox.from \in Server /\ left[inbox.from] >= Lease[inbox.from] - MaxDelay /\ MaxDelay \in Nat
    <3>1. inbox \in Message
      BY <1>3
    <3>2. left[inbox.from] >= Lease[inbox.from] - MaxDelay
      BY <1>0
    <3> QED
      BY <3>1, <3>2, DhcpAssumption DEF Message
  <2>2. left'[inbox.from] \in Nat /\ left[inbox.from] \in Nat /\ left'[inbox.from] >= left[inbox.from]
    BY <1>3, <1>4, <2>1
  <2>3. Lease[inbox.from] \in Nat
    BY <1>3, <2>1
  <2> QED
    BY <2>1, <2>2, <2>3
<1>9. MessagesTrue'
  BY <1>1, <1>4, <1>7, <1>8 DEF GrantInv, MessagesTrue, Received
<1>10. asked' # Nothing => asked'.type = asked.type /\ asked'.ip = asked.ip /\ asked'.to \subseteq asked.to
  BY <1>1 DEF Question
<1>11. GrantInv'
  BY <1>1, <1>9, <1>10 DEF GrantInv
<1>12. ASSUME NEW s \in Server, AsksForOwn(s) PROVE AsksForOwn(s)' /\ ~Foreign(new, s)
  <2>1. AsksForOwn(s)'
    BY <1>1, <1>10, <1>12 DEF AsksForOwn
  <2>2. CASE asked.type = "request" /\ asked.to \subseteq {s}
    BY <1>1, <1>2, <1>5, <2>1, <2>2 DEF Answers, Foreign
  <2>3. CASE asked.type = "renew" /\ asked.ip \in {s, Zero}
    <3>1. asked.ip = t => t = s
      BY <2>3, DhcpAssumption
    <3>2. type = "nak" \/ (type = "ack" /\ asked.ip = t)
      BY <1>2, <2>3 DEF Answers
    <3> QED
      BY <1>5, <2>1, <3>1, <3>2 DEF Foreign
  <2> QED
    BY <1>1, <1>12, <2>1, <2>2, <2>3 DEF AsksForOwn
<1> HIDE DEF new
<1>13. ASSUME NEW s \in Server, InLease(s) PROVE InLease(s)'
  <2>1. CASE DHCPClient.smState = "BOUND"
    <3>1. Bound(s)
      BY <1>13, <2>1 DEF InLease
    <3>2. AsksForOwn(s)' /\ ~Foreign(new, s)
      BY <1>12, <3>1 DEF Bound
    <3>3. \A m \in net' : Foreign(m, s) => m.seconds + DHCPClient.dwLeaseTime >= Counted(s) + age
      BY <1>2, <3>1, <3>2 DEF Bound, new
    <3>4. ~stalled => left'[s] + age >= DHCPClient.dwLeaseTime + Spare(s)
      <4> SUFFICES ASSUME ~stalled PROVE left'[s] + age >= DHCPClient.dwLeaseTime + Spare(s)
        OBVIOUS
      <4> DEFINE dw == DHCPClient.dwLeaseTime
                 more == left'[s]
      <4>1. left[s] + age >= dw + Spare(s) /\ age \in Nat /\ dw \in Nat /\ Spare(s) \in Int
        BY <3>1, LongLease DEF Bound, DhcpInv, DhcpTypeOK
      <4>2. more >= left[s] /\ more \in Nat /\ left[s] \in Nat
        BY <1>3, <1>4
      <4> HIDE DEF dw, more
      <4>3. more + age >= dw + Spare(s)
        BY <4>1, <4>2
      <4> QED
        BY <4>3 DEF more, dw
    <3> QED
      BY <1>1, <2>1, <3>1, <3>2, <3>3, <3>4 DEF Bound, InLease, Renewing, Received
  <2>2. CASE DHCPClient.smState \in Renewing
    <3>1. Renews(s)
      BY <1>13, <2>2 DEF InLease
    <3>2. AsksForOwn(s)' /\ ~Foreign(new, s)
      BY <1>12, <3>1 DEF Renews
    <3>3. \A m \in net' : ~Foreign(m, s)
      BY <1>2, <3>1, <3>2 DEF Renews, new
    <3>4. ~stalled => /\ DHCPClient.smState = "SEND_RENEW" => left'[s] > Patience(DHCPClient.try)
                      /\ DHCPClient.smState = "GET_RENEW_ACK" => left'[s] + age > Patience(DHCPClient.try)
      <4> DEFINE p == Patience(DHCPClient.try)
                 more == left'[s]
      <4>1. p \in Nat /\ age \in Nat
        BY PatienceEnds DEF DhcpInv, DhcpTypeOK
      <4>2. more >= left[s] /\ more \in Nat /\ left[s] \in Nat
        BY <1>3, <1>4
      <4>3. ~stalled => /\ DHCPClient.smState = "SEND_RENEW" => left[s] > p
                        /\ DHCPClient.smState = "GET_RENEW_ACK" => left[s] + age > p
        BY <3>1 DEF Renews
      <4> HIDE DEF p, more
      <4>4. ~stalled => /\ DHCPClient.smState = "SEND_RENEW" => more > p
                        /\ DHCPClient.smState = "GET_RENEW_ACK" => more + age > p
        BY <4>1, <4>2, <4>3
      <4> QED
        BY <4>4 DEF p, more
    <3> QED
      BY <1>1, <2>2, <3>1, <3>2, <3>3, <3>4 DEF Renews, InLease, Renewing, Received
  <2>3. CASE DHCPClient.smState \notin {"BOUND"} \cup Renewing
    BY <1>1, <1>3, <1>4, <1>13, <2>3 DEF InLease, Renewing
  <2> QED
    BY <2>1, <2>2, <2>3
<1>14. LeaseInv'
  BY <1>1, <1>13 DEF LeaseInv
<1> QED
  BY <1>11, <1>14

\* A second passes when nothing is due; messages and leases age alike.
LEMMA SecondGrants ==
  ASSUME DhcpInv, GrantInv, LeaseInv, Second
  PROVE  GrantInv' /\ LeaseInv'
<1>1. /\ UNCHANGED <<DHCPClient, MyIPAddr, stalled, inbox>> /\ asked' = Nothing /\ ~Due
      /\ age' = IF age < Timeout THEN age + 1 ELSE age
      /\ net' = {[m EXCEPT !.seconds = @ + 1] : m \in {n \in net : n.seconds < MaxDelay}}
  BY DEF Second
<1>2. /\ DHCPClient \in ClientRecord /\ left \in [Server -> Nat] /\ net \subseteq Message
      /\ age \in 0 .. Timeout /\ Timeout \in Nat \ {0} /\ MaxDelay \in Nat /\ ~Received
  BY <1>1, DhcpAssumption DEF DhcpInv, DhcpTypeOK, ClientOK, NetworkOK, Due
<1>3. ASSUME NEW s \in Server PROVE left'[s] \in Nat /\ left'[s] <= left[s] /\ left'[s] >= left[s] - 1
  <2>1. left'[s] = IF left[s] > 0 THEN left[s] - 1 ELSE 0
    BY DEF Second
  <2>2. left[s] \in Nat
    BY <1>2
  <2> QED
    BY <2>1, <2>2
<1>4. ASSUME NEW m \in net'
      PROVE  \E n \in net : /\ m.type = n.type /\ m.from = n.from /\ m.yiaddr = n.yiaddr
                            /\ m.seconds = n.seconds + 1 /\ n.seconds < MaxDelay
                            /\ n.seconds \in Nat /\ n.from \in Server
  <2>1. PICK n \in net : m = [n EXCEPT !.seconds = @ + 1] /\ n.seconds < MaxDelay
    BY <1>1
  <2>2. n \in Message
    BY <1>2
  <2> QED
    BY <2>1, <2>2 DEF Message
<1>5. MessagesTrue'
  <2>1. \A s \in Server : left'[s] <= Lease[s]
    <3> SUFFICES ASSUME NEW s \in Server PROVE left'[s] <= Lease[s]
      OBVIOUS
    <3>1. left[s] <= Lease[s] /\ Lease[s] \in Nat
      BY Constants DEF GrantInv, MessagesTrue
    <3>2. left'[s] <= left[s] /\ left'[s] \in Nat /\ left[s] \in Nat
      BY <1>2, <1>3
    <3> QED
      BY <3>1, <3>2
  <2>2. ASSUME NEW m \in net'
        PROVE  /\ Told(m) /\ m.seconds <= MaxDelay
               /\ m.type = "ack" => left'[m.from] >= Lease[m.from] - m.seconds
    <3>1. PICK n \in net : /\ m.type = n.type /\ m.from = n.from /\ m.yiaddr = n.yiaddr
                           /\ m.seconds = n.seconds + 1 /\ n.seconds < MaxDelay
                           /\ n.seconds \in Nat /\ n.from \in Server
      BY <1>4, <2>2
    <3>2. Told(n) /\ (n.type = "ack" => left[n.from] >= Lease[n.from] - n.seconds)
      BY DEF GrantInv, MessagesTrue
    <3>3. Told(m) /\ m.seconds <= MaxDelay
      BY <1>2, <3>1, <3>2 DEF Told
    <3>4. ASSUME m.type = "ack" PROVE left'[m.from] >= Lease[m.from] - m.seconds
      <4>1. /\ left'[n.from] \in Nat /\ left'[n.from] >= left[n.from] - 1
            /\ left[n.from] \in Nat
        BY <1>2, <1>3, <3>1
      <4>2. Lease[n.from] \in Nat
        BY <3>1, Constants
      <4>3. left[n.from] >= Lease[n.from] - n.seconds
        BY <3>1, <3>2, <3>4
      <4>4. left'[n.from] >= Lease[n.from] - (n.seconds + 1)
        BY <3>1, <4>1, <4>2, <4>3
      <4> QED
        BY <3>1, <4>4
    <3> QED
      BY <3>3, <3>4
  <2> QED
    BY <1>1, <1>2, <2>1, <2>2 DEF MessagesTrue, Received
<1>6. GrantInv'
  BY <1>1, <1>5 DEF GrantInv
<1>7. ASSUME NEW s \in Server, DHCPClient.bIsBound, InLease(s) PROVE InLease(s)'
  <2> DEFINE before == left[s]
             less == left'[s]
  <2>1. before \in Nat /\ less \in Nat /\ less >= before - 1
    BY <1>2, <1>3
  <2> HIDE DEF before, less
  <2>2. CASE DHCPClient.smState = "BOUND"
    <3> DEFINE dw == DHCPClient.dwLeaseTime
    <3>1. Bound(s)
      BY <1>7, <2>2 DEF InLease
    <3>2. age = 0 /\ age' = 1
      BY <1>1, <1>2, <2>2 DEF Due
    <3>3. dw \in Nat /\ Counted(s) \in Nat /\ Spare(s) \in Int
      BY <3>1, LongLease DEF Bound
    <3>4. ASSUME NEW m \in net', Foreign(m, s) PROVE m.seconds + dw >= Counted(s) + 1
      <4>1. PICK n \in net : /\ m.type = n.type /\ m.from = n.from /\ m.yiaddr = n.yiaddr
                             /\ m.seconds = n.seconds + 1 /\ n.seconds < MaxDelay
                             /\ n.seconds \in Nat /\ n.from \in Server
        BY <1>4, <3>4
      <4>2. Foreign(n, s)
        BY <3>4, <4>1 DEF Foreign
      <4>3. n.seconds + dw >= Counted(s) + age
        BY <3>1, <4>2 DEF Bound
      <4> HIDE DEF dw
      <4> QED
        BY <3>2, <3>3, <4>1, <4>3
    <3>5. ASSUME ~stalled PROVE less + 1 >= dw + Spare(s)
      <4>1. before + age >= dw + Spare(s)
        BY <3>1, <3>5 DEF Bound, before
      <4> HIDE DEF dw
      <4> QED
        BY <2>1, <3>2, <3>3, <4>1
    <3> QED
      BY <1>1, <1>2, <2>2, <3>1, <3>2, <3>4, <3>5
      DEF Bound, InLease, Renewing, Received, AsksForOwn, less
  <2>3. CASE DHCPClient.smState \in Renewing
    <3>1. Renews(s)
      BY <1>7, <2>3 DEF InLease
    <3>2. \A m \in net' : ~Foreign(m, s)
      <4> SUFFICES ASSUME NEW m \in net' PROVE ~Foreign(m, s)
        OBVIOUS
      <4>1. PICK n \in net : m.type = n.type /\ m.from = n.from
        BY <1>4
      <4> QED
        BY <3>1, <4>1 DEF Renews, Foreign
    <3>3. ASSUME ~stalled
          PROVE  DHCPClient.smState = "GET_RENEW_ACK" /\ less + age' > Patience(DHCPClient.try)
      <4>1. DHCPClient.smState = "GET_RENEW_ACK"
        BY <1>1, <2>3, <3>3 DEF Due, Renewing
      <4>2. age' = age + 1 /\ age \in Nat
        BY <1>1, <1>2, <4>1 DEF Due
      <4>3. before + age > Patience(DHCPClient.try)
        BY <3>1, <3>3, <4>1 DEF Renews, before
      <4>4. Patience(DHCPClient.try) \in Nat
        BY <1>2, PatienceEnds DEF ClientRecord
      <4> DEFINE p == Patience(DHCPClient.try)
                 age1 == age'
      <4> HIDE DEF p, age1
      <4>5. less + age1 > p
        BY <2>1, <4>2, <4>3, <4>4 DEF p, age1
      <4> QED
        BY <4>1, <4>5 DEF p, age1
    <3> QED
      BY <1>1, <1>2, <2>3, <3>1, <3>2, <3>3
      DEF Renews, InLease, Renewing, Received, AsksForOwn, less
  <2>4. CASE DHCPClient.smState \notin {"BOUND"} \cup Renewing
    BY <1>1, <1>7, <2>4 DEF InLease, Due, GrantInv, BoundHeld, Renewing
  <2> QED
    BY <2>2, <2>3, <2>4
<1>8. LeaseInv'
  BY <1>1, <1>7 DEF LeaseInv
<1> QED
  BY <1>6, <1>8

-----------------------------------------------------------------------------
(* What the client may believe                                             *)

(***************************************************************************)
(* What is bound holds what its server granted, from the first offer on:   *)
(* the inductive invariant of the lease.                                   *)
(***************************************************************************)
THEOREM LeaseInvariant == DhcpSpec => [](GrantInv /\ LeaseInv)
<1>1. DhcpInit => GrantInv /\ LeaseInv
  <2> SUFFICES ASSUME DhcpInit PROVE GrantInv /\ LeaseInv
    OBVIOUS
  <2>1. /\ ~DHCPClient.bIsBound /\ ~DHCPClient.bOfferReceived /\ DHCPClient.smState = "GET_SOCKET"
        /\ net = {} /\ ~Received
    BY DEF DhcpInit, Received
  <2>2. \A s \in Server : left[s] <= Lease[s]
    <3> SUFFICES ASSUME NEW s \in Server PROVE left[s] <= Lease[s]
      OBVIOUS
    <3>1. left[s] = 0 /\ Lease[s] \in Nat
      BY Constants DEF DhcpInit
    <3> QED
      BY <3>1
  <2> QED
    BY <2>1, <2>2 DEF GrantInv, LeaseInv, MessagesTrue, OfferHeld, RequestHeld, BoundHeld, Renewing
<1>2. DhcpInv /\ GrantInv /\ LeaseInv /\ UNCHANGED dhcpvars => GrantInv' /\ LeaseInv'
  <2> SUFFICES ASSUME DhcpInv, GrantInv, LeaseInv, UNCHANGED dhcpvars PROVE GrantInv' /\ LeaseInv'
    OBVIOUS
  <2>1. UNCHANGED <<DHCPClient, MyIPAddr, age, stalled, inbox, asked, net, left>>
    BY DEF dhcpvars, client, world
  <2> QED
    BY <2>1 DEF GrantInv, LeaseInv, InLease, Bound, Renews, AsksForOwn, Received, MessagesTrue
<1>3. DhcpInv /\ GrantInv /\ LeaseInv /\ [DhcpNext]_dhcpvars => GrantInv' /\ LeaseInv'
  BY <1>2, CableGrants, AnswerGrants, SecondGrants, LinkGrants, TaskGrants DEF DhcpNext, StackTask
<1> QED
  BY <1>1, <1>3, DhcpInvariant, PTL DEF DhcpSpec

(***************************************************************************)
(* DHCPIsBound is true only while the server keeps the address for us, for *)
(* every lease whose part held back covers the renewals, however answers   *)
(* are lost, late or from another server.                                  *)
(***************************************************************************)
THEOREM BoundAlwaysMeansLeased == DhcpSpec => []BoundMeansLeased
<1>1. DhcpInv /\ GrantInv /\ LeaseInv => BoundMeansLeased
  <2> SUFFICES ASSUME DhcpInv, GrantInv, LeaseInv, DHCPClient.bIsBound, ~stalled,
                      LeaseOutlastsRenewals(MyIPAddr)
               PROVE  left[MyIPAddr] > 0
    BY DEF BoundMeansLeased
  <2> DEFINE s == MyIPAddr
  <2>1. s \in Server /\ InLease(s) /\ DHCPClient.smState \in {"BOUND", "SEND_DISCOVERY"} \cup Renewing
    BY DEF GrantInv, LeaseInv, BoundHeld
  <2>2. left[s] \in Nat /\ age \in 0 .. Timeout /\ Timeout \in Nat \ {0}
    BY <2>1, Constants DEF DhcpInv, DhcpTypeOK
  <2>3. DHCPClient \in ClientRecord
    BY DEF DhcpInv, ClientOK
  <2> HIDE DEF s
  <2>4. CASE DHCPClient.smState = "BOUND"
    <3> DEFINE dw == DHCPClient.dwLeaseTime
    <3>1. age <= 1 /\ dw \in 1 .. Counted(s) /\ left[s] + age >= dw + Spare(s)
      BY <2>1, <2>4 DEF InLease, Bound
    <3>2. Spare(s) > Renewals * Timeout /\ Spare(s) \in Int /\ Counted(s) \in Nat
      BY <2>1, LongLease DEF s
    <3>3. Renewals * Timeout \in Nat
      BY Constants
    <3> HIDE DEF dw
    <3>4. left[s] > 0
      BY <2>2, <3>1, <3>2, <3>3
    <3> QED
      BY <3>4 DEF s
  <2>5. CASE DHCPClient.smState \in Renewing
    <3> DEFINE p == Patience(DHCPClient.try)
    <3>1. p \in Nat /\ p >= Timeout
      BY <2>3, PatienceEnds DEF ClientRecord
    <3>2. left[s] > p \/ left[s] + age > p
      BY <2>1, <2>5 DEF InLease, Renews, Renewing
    <3> HIDE DEF p
    <3>3. left[s] > 0
      BY <2>2, <3>1, <3>2
    <3> QED
      BY <3>3 DEF s
  <2>6. CASE DHCPClient.smState = "SEND_DISCOVERY"
    BY <2>1, <2>6 DEF InLease, s
  <2> QED
    BY <2>1, <2>4, <2>5, <2>6
<1> QED
  BY <1>1, DhcpInvariant, LeaseInvariant, PTL

\* No step but that of SM_DHCP_GET_REQUEST_ACK makes a client bound.
LEMMA OnlyAnAckBinds ==
  ASSUME DhcpInv, GrantInv, [DhcpNext]_dhcpvars, ~DHCPClient.bIsBound, DHCPClient'.bIsBound
  PROVE  GetRequestAck
<1>1. DHCPClient \in ClientRecord
  BY DEF DhcpInv, ClientOK
<1>2. CASE ~DHCPTask
  <2>1. DHCPClient' \in {DHCPClient, Initialised(DHCPClient)}
    BY <1>2 DEF DhcpNext, StackTask, LooksAtLink, LinkDrops, LinkComesUp, Answer, Second, dhcpvars, client
  <2> QED
    BY <1>1, <2>1 DEF Initialised, ClientRecord
<1>3. CASE GetSocket
  <2>1. [DHCPClient EXCEPT !.socket = TRUE] \in ClientRecord
    BY <1>1 DEF ClientRecord
  <2> QED
    BY <1>3, <2>1, DiscovererIsUnbound DEF GetSocket, Stay
<1>4. CASE SendDiscovery
  BY <1>1, <1>4, DiscovererIsUnbound DEF SendDiscovery
<1>5. CASE GetOffer \/ SendRequest
  <2> DEFINE c == Recorded(DHCPClient, inbox)
  <2>1. PICK d \in {DHCPClient, c} :
          (d = c => Received \/ c = DHCPClient) /\ \E state \in {d.smState, "SEND_DISCOVERY", "SEND_REQUEST", "GET_REQUEST_ACK"} :
            DHCPClient' = [d EXCEPT !.smState = state] \/ DHCPClient' = d
    BY <1>5 DEF GetOffer, SendRequest, Request, Send, Stay
  <2>2. Received => c \in ClientRecord /\ c.bIsBound = DHCPClient.bIsBound
    BY <1>1, RecordedKeeps DEF Received, DhcpInv, NetworkOK
  <2>3. d \in ClientRecord /\ d.bIsBound = DHCPClient.bIsBound
    BY <1>1, <2>1, <2>2
  <2> HIDE DEF c
  <2> QED
    BY <2>1, <2>3 DEF ClientRecord
<1>6. CASE CountDown \/ StayBound \/ BeginRenewal \/ SendRenew \/ GetRenewAck
  BY <1>6 DEF CountDown, StayBound, BeginRenewal, SendRenew, GetRenewAck, GrantInv, BoundHeld, Renewing
<1> QED
  BY <1>2, <1>3, <1>4, <1>5, <1>6 DEF DHCPTask

(***************************************************************************)
(* Whatever address is taken into use was granted by the server it is of,  *)
(* for any number of servers answering in any order.                       *)
(***************************************************************************)
THEOREM OnlyGrantedAddressesTaken == DhcpSpec => OnlyGrantedAddresses
<1>1. DhcpInv /\ GrantInv /\ [DhcpNext]_dhcpvars
        => [DHCPClient'.bIsBound /\ ~DHCPClient.bIsBound
              => /\ MyIPAddr' \in Server
                 /\ Lease[MyIPAddr'] > MaxDelay => left[MyIPAddr'] > 0]_dhcpvars
  <2> SUFFICES ASSUME DhcpInv, GrantInv, [DhcpNext]_dhcpvars, DHCPClient'.bIsBound, ~DHCPClient.bIsBound
               PROVE  MyIPAddr' \in Server /\ (Lease[MyIPAddr'] > MaxDelay => left[MyIPAddr'] > 0)
    OBVIOUS
  <2>1. GetRequestAck
    BY OnlyAnAckBinds
  <2>2. /\ DHCPClient.smState = "GET_REQUEST_ACK" /\ DHCPClient \in ClientRecord
        /\ DHCPClient.bOfferReceived /\ OfferHeld(DHCPClient)
        /\ DHCPClient.dwServerID \in Server /\ DHCPClient.tempIPAddress = DHCPClient.dwServerID
    BY <2>1 DEF GetRequestAck, DhcpInv, ClientOK, GrantInv, RequestHeld, OfferHeld
  <2> DEFINE c == IF Received THEN Recorded(DHCPClient, inbox) ELSE DHCPClient
             ack == Received /\ Kind(DHCPClient, inbox) = "ack"
  <2>3. c = DHCPClient
    BY <2>2, AfterDatagram DEF Exchange
  <2>4. ack
    <3> SUFFICES ASSUME ~ack PROVE FALSE
      OBVIOUS
    <3>1. DHCPClient' \in {DHCPClient, [DHCPClient EXCEPT !.smState = "SEND_DISCOVERY"]}
      BY <2>1, <2>3 DEF GetRequestAck, Stay
    <3> QED
      BY <2>2, <3>1 DEF ClientRecord
  <2> DEFINE s == DHCPClient.dwServerID
  <2>5. MyIPAddr' = s
    BY <2>1, <2>2, <2>3, <2>4 DEF GetRequestAck
  <2>6. inbox \in Message /\ inbox.type = "ack" /\ inbox.from = s
    BY <2>2, <2>4, RecordedIs DEF Received, DhcpInv, NetworkOK, GrantInv, MessagesTrue
  <2>7. left[s] >= Lease[s] - MaxDelay
    BY <2>4, <2>6 DEF GrantInv, MessagesTrue
  <2> HIDE DEF s
  <2>8. s \in Server /\ left[s] \in Nat /\ Lease[s] \in Nat /\ MaxDelay \in Nat
    BY <2>2, Constants, DhcpAssumption DEF s, DhcpInv, DhcpTypeOK
  <2>9. Lease[s] > MaxDelay => left[s] > 0
    BY <2>7, <2>8
  <2> QED
    BY <2>5, <2>8, <2>9
<1> QED
  BY <1>1, DhcpInvariant, LeaseInvariant, PTL DEF DhcpSpec, OnlyGrantedAddresses

=============================================================================
