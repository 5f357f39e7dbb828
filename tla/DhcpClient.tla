------------------------------ MODULE DhcpClient ------------------------------
(***************************************************************************)
(* The DHCP client of net/DHCP.c under StackTask: the link is looked at,   *)
(* DHCPTask runs, packets are fetched, and round again.  The network       *)
(* delays, reorders and loses datagrams; a server answers a message once.  *)
(* Each server hands out one address of its own, named after it; the mask, *)
(* gateway and name servers of an offer travel with the address.           *)
(***************************************************************************)
EXTENDS Integers, FiniteSets

CONSTANTS Server, Zero, Default,  \* addresses: one of a server's, 0.0.0.0, AppConfig's
          Lease,          \* seconds each server grants
          Handles,        \* values of bUseUnicastMode each server can answer
          Divisor,        \* a lease is counted short by this part of it: 32
          Timeout,        \* DHCP_TIMEOUT, in seconds
          Renewals,       \* SM_DHCP_SEND_RENEW and its repetitions: 3
          DefaultLease,   \* of an offer that states none: 60
          MaxDelay,       \* bound: seconds a datagram is under way
          MaxNet          \* bound: datagrams under way

ASSUME DhcpAssumption ==
  /\ {Zero, Default} \cap Server = {} /\ Zero # Default
  /\ Lease \in [Server -> Nat \ {0}] /\ Handles \in [Server -> SUBSET BOOLEAN]
  /\ {Divisor, Timeout, Renewals, DefaultLease} \subseteq Nat \ {0} /\ Divisor > 1
  /\ {MaxDelay, MaxNet} \subseteq Nat

VARIABLES
  link, droppedUnread,    \* the cable; LLSTAT latched low
  stage,                  \* where StackTask is
  bLastLinkState,
  DHCPClient,             \* the struct; socket: hDHCPSocket is valid,
                          \* try: which of the renewals
  age,                    \* TickGet() - dwTimer
  MyIPAddr, bInConfigMode,
  inUse,                  \* sockets of the pool that DHCP has opened
  inbox,                  \* the datagram UDPIsGetReady sees
  asked,                  \* the message last sent, and who has yet to answer it
  net,                    \* answers under way
  left,                   \* seconds left of each server's lease to us
  dropped, stalled        \* history: the link dropped since StackTask looked;
                          \* a renewal found no socket or a busy transmitter

cable == <<link, droppedUnread, bLastLinkState, dropped>>
client == <<DHCPClient, age, MyIPAddr, bInConfigMode, inUse, stalled>>
world == <<net, left>>
dhcpvars == <<cable, stage, client, inbox, asked, world>>

Nothing == [type |-> "nothing"]
Received == inbox # Nothing

\* mutant: a client that is bound has time
OverdueUnlessBound == ~Received /\ age >= Timeout /\ ~DHCPClient.bIsBound

AnswerOverdue == ~Received /\ age >= Timeout
Exchange == {"SEND_DISCOVERY", "GET_OFFER", "SEND_REQUEST", "GET_REQUEST_ACK",
             "SEND_RENEW", "GET_RENEW_ACK"}

DhcpInit ==
  /\ link \in {"up", "down"} /\ droppedUnread = FALSE /\ dropped = FALSE
  /\ bLastLinkState = FALSE /\ stage = "link"
  /\ DHCPClient = [smState |-> "GET_SOCKET", try |-> 1, socket |-> FALSE,
                   bIsBound |-> FALSE, bOfferReceived |-> FALSE, bUseUnicastMode |-> TRUE,
                   dwLeaseTime |-> 0, dwServerID |-> Zero, tempIPAddress |-> Zero]
  /\ age = 0 /\ MyIPAddr = Default /\ bInConfigMode = TRUE /\ inUse = 0
  /\ inbox = Nothing /\ asked = Nothing /\ net = {}
  /\ left = [s \in Server |-> 0] /\ stalled = FALSE

-----------------------------------------------------------------------------
(* The cable, the servers, the network and time *)

LinkDrops ==
  /\ link = "up" /\ link' = "down" /\ droppedUnread' = TRUE /\ dropped' = TRUE
  /\ UNCHANGED <<bLastLinkState, stage, client, inbox, asked, world>>

LinkComesUp ==
  /\ link = "down" /\ link' = "up"
  /\ UNCHANGED <<droppedUnread, bLastLinkState, dropped, stage, client, inbox, asked, world>>

\* Only the server that a first request names answers it.
MayAnswer(type, c) ==
  {s \in Server : c.bUseUnicastMode \in Handles[s] /\ (type = "request" => s = c.dwServerID)}

\* A renewal names none, and is refused by a server that does not know the lease.
Answers(s) ==
  CASE asked.type = "discover" -> {"offer"}
    [] asked.type = "request"  -> {"ack", "nak"}
    [] asked.type = "renew"    -> IF asked.ip = s THEN {"ack"} \cup (IF left[s] = 0 THEN {"nak"} ELSE {})
                                  ELSE {"nak"}

Reply(s, type) ==
  [type |-> type, from |-> s, yiaddr |-> IF type = "nak" THEN Zero ELSE s, seconds |-> 0]

Question(type, ip, servers) ==
  IF servers = {} THEN Nothing ELSE [type |-> type, ip |-> ip, to |-> servers]

Answer(s) ==
  /\ asked # Nothing /\ s \in asked.to /\ link = "up"
  /\ asked' = Question(asked.type, asked.ip, asked.to \ {s})
  /\ \E type \in Answers(s) :
       /\ left' = IF type = "ack" THEN [left EXCEPT ![s] = Lease[s]] ELSE left
       /\ net' \in {net} \cup (IF Cardinality(net) < MaxNet THEN {net \cup {Reply(s, type)}} ELSE {})
  /\ UNCHANGED <<cable, stage, client, inbox>>

\* StackTask runs many times a second: what is due is done before the next.
Due ==
  \/ Received
  \/ DHCPClient.smState = "BOUND" /\ age > 0
  \/ DHCPClient.smState = "SEND_RENEW" /\ ~stalled
  \/ DHCPClient.smState = "SEND_DISCOVERY" /\ DHCPClient.bIsBound
  \/ DHCPClient.smState \in {"GET_OFFER", "GET_REQUEST_ACK", "GET_RENEW_ACK"} /\ age >= Timeout

Second ==
  /\ stage = "link" /\ ~Due
  /\ age' = IF age < Timeout THEN age + 1 ELSE age
  /\ left' = [s \in Server |-> IF left[s] > 0 THEN left[s] - 1 ELSE 0]
  /\ net' = {[m EXCEPT !.seconds = @ + 1] : m \in {n \in net : n.seconds < MaxDelay}}
  /\ asked' = Nothing
  /\ UNCHANGED <<cable, stage, DHCPClient, MyIPAddr, bInConfigMode, inUse, stalled, inbox>>

-----------------------------------------------------------------------------
(* StackTask looks at the link *)

\* mutant: LLSTAT as if it did not latch
MACIsLinkedNow == link = "up"

MACIsLinked == link = "up" /\ ~droppedUnread
LinkIsRead == droppedUnread' = (droppedUnread /\ link = "down")

\* DHCPInit, but for closing the socket
Initialised(c) ==
  [c EXCEPT !.socket = FALSE, !.smState = "GET_SOCKET", !.try = 1, !.bIsBound = FALSE,
            !.bOfferReceived = FALSE, !.bUseUnicastMode = TRUE]

\* mutant: the handle is only set to INVALID_UDP_SOCKET
UDPCloseForgotten == inUse' = inUse

UDPClose == inUse' = IF DHCPClient.socket THEN inUse - 1 ELSE inUse

LooksAtLink ==
  /\ stage = "link" /\ stage' = "dhcp"
  /\ bLastLinkState' = MACIsLinked /\ LinkIsRead /\ dropped' = FALSE
  /\ IF bLastLinkState /\ ~MACIsLinked
     THEN /\ DHCPClient' = Initialised(DHCPClient) /\ UDPClose
          /\ MyIPAddr' = Default /\ bInConfigMode' = TRUE
     ELSE UNCHANGED <<DHCPClient, inUse, MyIPAddr, bInConfigMode>>
  /\ UNCHANGED <<link, age, stalled, inbox, asked, world>>

-----------------------------------------------------------------------------
(* DHCPTask *)

\* _DHCPSend, the start of the timer and the state that follows
Send(type, c, state) ==
  /\ asked' = IF link = "down" THEN Nothing
              ELSE Question(type, IF type = "renew" THEN c.tempIPAddress ELSE Zero, MayAnswer(type, c))
  /\ age' = 0 /\ DHCPClient' = [c EXCEPT !.smState = state]

Stay(c) == DHCPClient' = c /\ UNCHANGED <<age, asked>>

\* SM_DHCP_SEND_DISCOVERY; ready is what UDPIsPutReady says.
Discover(c, ready) ==
  LET d == [c EXCEPT !.smState = "SEND_DISCOVERY", !.try = 1, !.dwLeaseTime = DefaultLease,
                     !.bIsBound = FALSE, !.bOfferReceived = FALSE]
  IN /\ LinkIsRead
     /\ IF MACIsLinked /\ ready
        THEN Send("discover", [d EXCEPT !.bUseUnicastMode = ~@], "GET_OFFER")
        ELSE Stay(d)

Request(c, ready) ==
  IF ready THEN Send("request", c, "GET_REQUEST_ACK")
           ELSE Stay([c EXCEPT !.smState = "SEND_REQUEST"])

Renew(c, ready) ==
  /\ stalled' = (stalled \/ ~ready)
  /\ IF ready THEN Send("renew", [c EXCEPT !.bOfferReceived = FALSE], "GET_RENEW_ACK")
              ELSE Stay([c EXCEPT !.smState = "SEND_RENEW"])

\* What _DHCPReceive records; only a message before the first offer is recorded.
Recorded(c, m) ==
  LET r == IF c.bOfferReceived THEN c
           ELSE [c EXCEPT !.tempIPAddress = m.yiaddr,
                          !.dwLeaseTime = IF m.type = "nak" THEN @
                             ELSE Lease[m.from] - Lease[m.from] \div Divisor]
  IN IF m.type = "offer" /\ ~c.bOfferReceived
     THEN [r EXCEPT !.dwServerID = m.from, !.bOfferReceived = TRUE] ELSE r

\* mutant: the message may be another server's
KindOfAnyServer(c, m) ==
  IF m.type = "offer" THEN IF c.bOfferReceived THEN "unknown" ELSE "offer" ELSE m.type

\* What _DHCPReceive returns
Kind(c, m) ==
  IF m.type = "offer" THEN IF c.bOfferReceived THEN "unknown" ELSE "offer"
  ELSE IF c.dwServerID = m.from THEN m.type ELSE "unknown"

GetSocket ==
  /\ DHCPClient.smState = "GET_SOCKET"
  /\ \/ Stay(DHCPClient) /\ UNCHANGED <<inUse, droppedUnread>>
     \/ \E ready \in BOOLEAN : Discover([DHCPClient EXCEPT !.socket = TRUE], ready) /\ inUse' = inUse + 1
  /\ UNCHANGED <<MyIPAddr, stalled>>

SendDiscovery ==
  /\ DHCPClient.smState = "SEND_DISCOVERY"
  /\ \E ready \in BOOLEAN : Discover(DHCPClient, ready)
  /\ UNCHANGED <<MyIPAddr, stalled, inUse>>

GetOffer ==
  /\ DHCPClient.smState = "GET_OFFER"
  /\ CASE AnswerOverdue -> Stay([DHCPClient EXCEPT !.smState = "SEND_DISCOVERY"])
       [] Received -> LET c == Recorded(DHCPClient, inbox)
                      IN IF Kind(DHCPClient, inbox) = "offer"
                         THEN \E ready \in BOOLEAN : Request(c, ready) ELSE Stay(c)
       [] OTHER -> Stay(DHCPClient)
  /\ UNCHANGED <<droppedUnread, MyIPAddr, stalled, inUse>>

SendRequest ==
  /\ DHCPClient.smState = "SEND_REQUEST"
  /\ \E ready \in BOOLEAN : Request(DHCPClient, ready)
  /\ UNCHANGED <<droppedUnread, MyIPAddr, stalled, inUse>>

\* An ACK: the socket is closed and the lease begins.
Bind(c) ==
  /\ DHCPClient' = [c EXCEPT !.socket = FALSE, !.smState = "BOUND", !.try = 1, !.bIsBound = TRUE]
  /\ UDPClose /\ age' = 0 /\ stalled' = FALSE /\ UNCHANGED asked

GetRequestAck ==
  /\ DHCPClient.smState = "GET_REQUEST_ACK" /\ UNCHANGED droppedUnread
  /\ LET c == IF Received THEN Recorded(DHCPClient, inbox) ELSE DHCPClient
         ack == Received /\ Kind(DHCPClient, inbox) = "ack"
         nak == Received /\ Kind(DHCPClient, inbox) = "nak"
     IN IF ack THEN Bind(c) /\ MyIPAddr' = c.tempIPAddress
        ELSE /\ Stay(IF AnswerOverdue \/ nak THEN [c EXCEPT !.smState = "SEND_DISCOVERY"] ELSE c)
             /\ UNCHANGED <<MyIPAddr, stalled, inUse>>

\* A second of the lease is over.
CountDown ==
  /\ DHCPClient.smState = "BOUND" /\ age > 0 /\ DHCPClient.dwLeaseTime >= 2
  /\ age' = age - 1 /\ DHCPClient' = [DHCPClient EXCEPT !.dwLeaseTime = @ - 1]
  /\ UNCHANGED <<droppedUnread, MyIPAddr, stalled, inUse, asked>>

StayBound ==
  /\ DHCPClient.smState = "BOUND" /\ age = 0
  /\ Stay(DHCPClient) /\ UNCHANGED <<droppedUnread, MyIPAddr, stalled, inUse>>

BeginRenewal ==
  /\ DHCPClient.smState = "BOUND" /\ age > 0 /\ DHCPClient.dwLeaseTime < 2
  /\ \/ Stay(DHCPClient) /\ stalled' = TRUE /\ inUse' = inUse
     \/ \E ready \in BOOLEAN :
          Renew([DHCPClient EXCEPT !.socket = TRUE], ready) /\ inUse' = inUse + 1
  /\ UNCHANGED <<droppedUnread, MyIPAddr>>

SendRenew ==
  /\ DHCPClient.smState = "SEND_RENEW"
  /\ \E ready \in BOOLEAN : Renew(DHCPClient, ready)
  /\ UNCHANGED <<droppedUnread, MyIPAddr, inUse>>

\* mutant: a renewal that is not answered is tried again for ever
NextTryForEver(c) == [c EXCEPT !.smState = "SEND_RENEW"]

NextTry(c) ==
  IF c.try < Renewals THEN [c EXCEPT !.try = @ + 1, !.smState = "SEND_RENEW"]
               ELSE [c EXCEPT !.smState = "SEND_DISCOVERY"]

\* An ACK leaves the addresses in use as they are.
GetRenewAck ==
  /\ DHCPClient.smState = "GET_RENEW_ACK" /\ UNCHANGED <<droppedUnread, MyIPAddr>>
  /\ LET c == IF Received THEN Recorded(DHCPClient, inbox) ELSE DHCPClient
         ack == Received /\ Kind(DHCPClient, inbox) = "ack"
         nak == Received /\ Kind(DHCPClient, inbox) = "nak"
     IN IF ack THEN Bind(c)
        ELSE /\ Stay(CASE nak -> [c EXCEPT !.smState = "SEND_DISCOVERY"]
                       [] AnswerOverdue -> NextTry(c) [] OTHER -> c)
             /\ UNCHANGED <<stalled, inUse>>

\* UDPDiscard, and the packets up to the first UDP datagram
FetchPackets ==
  \/ inbox' = Nothing /\ net' = net
  \/ \E m \in net :
       /\ net' = net \ {m}
       /\ inbox' = IF DHCPClient'.socket THEN [m EXCEPT !.seconds = 0] ELSE Nothing

\* DHCPTask and the rest of StackTask
DHCPTask ==
  /\ stage = "dhcp" /\ stage' = "link"
  /\ \/ GetSocket \/ SendDiscovery \/ GetOffer \/ SendRequest \/ GetRequestAck
     \/ CountDown \/ StayBound \/ BeginRenewal \/ SendRenew \/ GetRenewAck
  /\ bInConfigMode' = (bInConfigMode /\ ~DHCPClient'.bIsBound)
  /\ FetchPackets
  /\ UNCHANGED <<link, bLastLinkState, dropped, left>>

StackTask == LooksAtLink \/ DHCPTask

DhcpNext == LinkDrops \/ LinkComesUp \/ (\E s \in Server : Answer(s)) \/ Second \/ StackTask

DhcpSpec == DhcpInit /\ [][DhcpNext]_dhcpvars

\* The main loop calls StackTask for ever, and time goes on.
DhcpFairness == WF_dhcpvars(StackTask) /\ SF_dhcpvars(Second)

FairDhcp == DhcpSpec /\ DhcpFairness

-----------------------------------------------------------------------------
(* Properties *)

DhcpTypeOK ==
  /\ link \in {"up", "down"} /\ {droppedUnread, bLastLinkState, dropped, stalled} \subseteq BOOLEAN
  /\ stage \in {"link", "dhcp"}
  /\ DHCPClient \in [smState : Exchange \cup {"GET_SOCKET", "BOUND"}, try : 1 .. Renewals,
       socket : BOOLEAN, bIsBound : BOOLEAN, bOfferReceived : BOOLEAN, bUseUnicastMode : BOOLEAN,
       dwLeaseTime : Nat, dwServerID : Server \cup {Zero}, tempIPAddress : Server \cup {Zero}]
  /\ age \in 0 .. Timeout /\ MyIPAddr \in Server \cup {Default} /\ bInConfigMode \in BOOLEAN
  /\ left \in [Server -> Nat]

(***************************************************************************)
(* Whatever the time-outs, refusals and link losses, the pool gave DHCP    *)
(* one socket during an exchange and has it back afterwards.               *)
(***************************************************************************)
OneSocketForDhcp ==
  /\ inUse = IF DHCPClient.socket THEN 1 ELSE 0
  /\ DHCPClient.socket <=> DHCPClient.smState \in Exchange

(***************************************************************************)
(* The address taken into use is one that its server has granted, although *)
(* all messages carry the same transaction number, answers of several      *)
(* servers and of earlier attempts arrive in any order, and each of them   *)
(* may overwrite what an offer left behind; only a lease shorter than the  *)
(* way of its answer may have ended before.                                *)
(***************************************************************************)
OnlyGrantedAddresses ==
  [][DHCPClient'.bIsBound /\ ~DHCPClient.bIsBound
       => /\ MyIPAddr' \in Server
          /\ Lease[MyIPAddr'] > MaxDelay => left[MyIPAddr'] > 0]_dhcpvars

(***************************************************************************)
(* While DHCPIsBound says so the server has not let another client have    *)
(* the address: if the lease is long enough that the part of it held back  *)
(* covers the time-outs and the delay of an answer, and the renewals       *)
(* find a socket and the transmitter.                                      *)
(***************************************************************************)
LeaseOutlastsRenewals(s) == Lease[s] \div Divisor > Renewals * Timeout + MaxDelay

BoundMeansLeased ==
  DHCPClient.bIsBound /\ ~stalled /\ LeaseOutlastsRenewals(MyIPAddr) => left[MyIPAddr] > 0

(***************************************************************************)
(* A cable that was pulled and put back between two passes is noticed, and *)
(* no lease of the network before it survives; unless StackTask had never  *)
(* seen the link up, when DHCPTask, which looks again, got the lease.      *)
(***************************************************************************)
LinkLossEndsLease ==
  [][LooksAtLink /\ dropped /\ bLastLinkState => ~DHCPClient'.bIsBound]_dhcpvars

(***************************************************************************)
(* DHCPTask never waits for ever for an answer: whatever is lost, refused  *)
(* or comes from somebody else, time and again it holds a lease or is in a *)
(* state that sends.                                                       *)
(***************************************************************************)
NeverWaitsForEver ==
  []<>(DHCPClient.smState \notin {"GET_OFFER", "GET_REQUEST_ACK", "GET_RENEW_ACK"})

=============================================================================
