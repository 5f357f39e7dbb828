----------------------------- MODULE NameService -----------------------------
(***************************************************************************)
(* The users of the resolver and of the UDP sockets, one superloop: the    *)
(* SNTP client, which hands UDPTask a host name and waits for its socket   *)
(* to open, the MQTT client, which drives the resolver itself, and DHCP,   *)
(* which only needs a socket.  UDPTask, SNTPClient and MQTTTask are called *)
(* in turn for ever, and each call is one step; the order within a turn is *)
(* left open.                                                              *)
(***************************************************************************)
EXTENDS Dns

CONSTANTS
  MqttPatience,     \* MQTT_NAME_RESOLVE's six seconds
  SntpPatience,     \* NTP_FAST_QUERY_INTERVAL, NTP_REPLY_TIMEOUT
  SntpInterval,     \* NTP_QUERY_INTERVAL
  MqttLiteral       \* is the broker given as an IP address?

ASSUME NameServiceAssumption ==
  /\ MqttPatience \in Nat /\ SntpPatience \in Nat /\ SntpInterval \in Nat
  /\ MqttLiteral \in BOOLEAN

VARIABLES
  sntp, sntpSocket, sntpAge,      \* SNTPState, MySocket, age of dwTimer
  timeSet,                        \* rtccSet
  mqtt, mqttAge, mqttServer,      \* MQTTState, age of Timer, MQTTServer
  dhcpSocket                      \* DHCPClient.hDHCPSocket

sntpvars == <<sntp, sntpSocket, sntpAge, timeSet>>
mqttvars == <<mqtt, mqttAge, mqttServer>>
vars == <<sockets, dns, sntpvars, mqttvars, dhcpSocket>>

SntpState == {"HOME", "UDP_IS_OPENED", "UDP_SEND", "UDP_RECV", "WAIT"}

\* "elsewhere" is any state with no interest in names, "connecting" what
\* follows a successful resolution.
MqttState == {"elsewhere", "BEGIN", "NAME_RESOLVE", "connecting"}

SntpLimit == IF SntpPatience > SntpInterval THEN SntpPatience ELSE SntpInterval
Older(age, limit) == IF age > limit THEN age ELSE age + 1

Init ==
  /\ UDPInit /\ DnsInit
  /\ sntp = "HOME" /\ sntpSocket = Invalid /\ sntpAge = 0 /\ timeSet = FALSE
  /\ mqtt = "elsewhere" /\ mqttAge = 0 /\ mqttServer = "zero"
  /\ dhcpSocket = Invalid

-----------------------------------------------------------------------------
(* SNTPClient, one action per case *)

SntpHome ==
  /\ sntp = "HOME"
  /\ IF sntpSocket = Invalid
     THEN LET o == UDPOpenEx(sockets, "dnsResolve", "name")
          IN sntpSocket' = o.handle /\ sockets' = o.pool
     ELSE UNCHANGED <<sntpSocket, sockets>>
  /\ sntpAge' = 0 /\ sntp' = "UDP_IS_OPENED"
  /\ UNCHANGED <<timeSet, dns, mqttvars, dhcpSocket>>

\* UDPClose, and from the beginning again.
SntpGiveUp ==
  /\ sockets' = UDPClose(sockets, sntpSocket)
  /\ sntpSocket' = Invalid /\ sntp' = "HOME"
  /\ UNCHANGED <<sntpAge, timeSet, dns, mqttvars, dhcpSocket>>

\* mutant: gives up a socket only once it is open
SntpWaitsOn ==
  /\ sntp = "UDP_IS_OPENED" /\ sntpAge > SntpPatience
  /\ sockets[sntpSocket].state = "opened"
  /\ SntpGiveUp

\* The time-out counts even when the socket has just opened.
SntpOpenTimesOut ==
  /\ sntp = "UDP_IS_OPENED" /\ sntpAge > SntpPatience
  /\ SntpGiveUp

SntpOpened ==
  /\ sntp = "UDP_IS_OPENED" /\ sntpAge <= SntpPatience
  /\ sntpSocket \in Socket => sockets[sntpSocket].state = "opened"
  /\ sntp' = "UDP_SEND"
  /\ UNCHANGED <<sntpSocket, sntpAge, timeSet, sockets, dns, mqttvars, dhcpSocket>>

SntpSend ==
  /\ sntp = "UDP_SEND"
  /\ sntp' = "UDP_RECV" /\ sntpAge' = 0
  /\ UNCHANGED <<sntpSocket, timeSet, sockets, dns, mqttvars, dhcpSocket>>

\* The transmitter is busy.
SntpCannotSend ==
  /\ sntp = "UDP_SEND"
  /\ SntpGiveUp

SntpReplyTimesOut ==
  /\ sntp = "UDP_RECV" /\ sntpAge > SntpPatience
  /\ SntpGiveUp

\* A reply of the right size sets the clock.
SntpReply ==
  /\ sntp = "UDP_RECV"
  /\ sockets' = UDPClose(sockets, sntpSocket)
  /\ sntpSocket' = Invalid /\ sntpAge' = 0 /\ sntp' = "WAIT"
  /\ timeSet' \in {timeSet, TRUE}
  /\ UNCHANGED <<dns, mqttvars, dhcpSocket>>

SntpWaited ==
  /\ sntp = "WAIT" /\ sntpAge > SntpInterval
  /\ sntpSocket' = Invalid /\ sntp' = "HOME"
  /\ UNCHANGED <<sntpAge, timeSet, sockets, dns, mqttvars, dhcpSocket>>

SNTPClient ==
  \/ SntpHome \/ SntpOpenTimesOut \/ SntpOpened \/ SntpSend \/ SntpCannotSend
  \/ SntpReplyTimesOut \/ SntpReply \/ SntpWaited

-----------------------------------------------------------------------------
(* UDPTask, one action per case, for a socket that is not open yet *)

UdpTakesDns(s) ==
  /\ sockets[s].state = "dnsResolve" /\ ~dns.inUse
  /\ dns' = DNSResolve(DNSBeginUsage(dns), FALSE)
  /\ sockets' = [sockets EXCEPT ![s].state = "dnsIsResolved"]
  /\ UNCHANGED <<sntpvars, mqttvars, dhcpSocket>>

\* An answer that is none leaves the name in place, and asks again.
UdpResolves(s) ==
  /\ sockets[s].state = "dnsIsResolved"
  /\ \E o \in DNSIsResolved(dns, sockets) :
       IF o.host = "pending"
       THEN dns' = o.dns /\ sockets' = o.pool
       ELSE LET e == DNSEndUsage(o.dns, o.pool)
            IN /\ dns' = e.dns
               /\ sockets' =
                    IF e.ok
                    THEN [e.pool EXCEPT ![s] = [state |-> "sendArp", remote |-> o.host]]
                    ELSE [e.pool EXCEPT ![s].state = "dnsResolve"]
  /\ UNCHANGED <<sntpvars, mqttvars, dhcpSocket>>

\* The gateway is asked again and again, at growing intervals.
UdpArp(s) ==
  /\ \/ /\ sockets[s].state = "sendArp"
        /\ sockets' = [sockets EXCEPT ![s].state = "getArp"]
     \/ /\ sockets[s].state = "getArp"
        /\ \E next \in {"sendArp", "opened"} :
             sockets' = [sockets EXCEPT ![s].state = next]
  /\ UNCHANGED <<dns, sntpvars, mqttvars, dhcpSocket>>

UDPTask == \E s \in Socket : UdpTakesDns(s) \/ UdpResolves(s) \/ UdpArp(s)

-----------------------------------------------------------------------------
(* MQTTTask's states around a name *)

MqttComesBack ==
  /\ mqtt \in {"elsewhere", "connecting"}
  /\ mqtt' = "BEGIN"
  /\ UNCHANGED <<mqttAge, mqttServer, sockets, dns, sntpvars, dhcpSocket>>

\* The broker always has a name: the firmware's is the array config.mqtt_server.
MqttBegins ==
  /\ mqtt = "BEGIN" /\ ~dns.inUse
  /\ dns' = DNSResolve(DNSBeginUsage(dns), MqttLiteral)
  /\ mqtt' = "NAME_RESOLVE" /\ mqttAge' = 0
  /\ UNCHANGED <<mqttServer, sockets, sntpvars, dhcpSocket>>

\* mutant: out of patience it just leaves
MqttLeavesDnsInUse ==
  /\ mqtt = "NAME_RESOLVE" /\ mqttAge > MqttPatience
  /\ mqtt' = "elsewhere"
  /\ UNCHANGED <<mqttAge, mqttServer, dns, sockets, sntpvars, dhcpSocket>>

\* MQTT_NAME_RESOLVE: out of patience it lets go of the resolver, wherever
\* that is.
MqttResolves ==
  /\ mqtt = "NAME_RESOLVE"
  /\ \E o \in DNSIsResolved(dns, sockets) :
       LET e == DNSEndUsage(o.dns, o.pool)
       IN \/ /\ o.host = "pending" /\ mqttAge <= MqttPatience
             /\ dns' = o.dns /\ sockets' = o.pool
             /\ UNCHANGED <<mqtt, mqttServer>>
          \/ /\ o.host = "pending" /\ mqttAge > MqttPatience
             /\ dns' = e.dns /\ sockets' = e.pool
             /\ mqtt' = "elsewhere" /\ UNCHANGED mqttServer
          \/ /\ o.host # "pending"
             /\ dns' = e.dns /\ sockets' = e.pool
             /\ mqtt' = IF e.ok THEN "connecting" ELSE "elsewhere"
             /\ mqttServer' = o.host
  /\ UNCHANGED <<mqttAge, sntpvars, dhcpSocket>>

MQTTTask == MqttComesBack \/ MqttBegins \/ MqttResolves

-----------------------------------------------------------------------------
(* DHCP's socket, and time *)

DhcpOpens ==
  /\ dhcpSocket = Invalid
  /\ LET o == UDPOpenEx(sockets, "opened", "none")
     IN dhcpSocket' = o.handle /\ sockets' = o.pool
  /\ UNCHANGED <<dns, sntpvars, mqttvars>>

\* A lease, or DHCPInit after the link was lost.
DhcpCloses ==
  /\ dhcpSocket # Invalid
  /\ sockets' = UDPClose(sockets, dhcpSocket) /\ dhcpSocket' = Invalid
  /\ UNCHANGED <<dns, sntpvars, mqttvars>>

Tick ==
  /\ dns' = [dns EXCEPT !.age = Older(@, DnsPatience)]
  /\ sntpAge' = Older(sntpAge, SntpLimit)
  /\ mqttAge' = Older(mqttAge, MqttPatience)
  /\ UNCHANGED <<sockets, sntp, sntpSocket, timeSet, mqtt, mqttServer, dhcpSocket>>

Next == SNTPClient \/ UDPTask \/ MQTTTask \/ DhcpOpens \/ DhcpCloses \/ Tick

Spec == Init /\ [][Next]_vars

(***************************************************************************)
(* The superloop calls every task for ever, and the tick timer runs.  A    *)
(* task that only waits for the resolver gets its turn between any two     *)
(* calls of another task.                                                  *)
(***************************************************************************)
Fairness ==
  /\ WF_vars(SntpHome \/ SntpOpenTimesOut \/ SntpOpened \/ SntpSend
              \/ SntpReplyTimesOut \/ SntpWaited)
  /\ \A s \in Socket : WF_vars(UdpResolves(s)) /\ SF_vars(UdpTakesDns(s))
  /\ WF_vars(MqttComesBack) /\ SF_vars(MqttBegins) /\ WF_vars(MqttResolves)
  /\ WF_vars(Tick)

FairSpec == Spec /\ Fairness

-----------------------------------------------------------------------------
(* Properties *)

Owners == <<dns.socket, sntpSocket, dhcpSocket>>

Users == {s \in Socket : sockets[s].state = "dnsIsResolved"}

TypeOK ==
  /\ sockets \in Pool /\ dns \in DnsState
  /\ sntp \in SntpState /\ sntpSocket \in Socket \cup {Invalid}
  /\ sntpAge \in Nat /\ timeSet \in BOOLEAN
  /\ mqtt \in MqttState /\ mqttAge \in Nat /\ mqttServer \in {"address", "zero"}
  /\ dhcpSocket \in Socket \cup {Invalid}

(***************************************************************************)
(* Every open socket is held by exactly one of the resolver, SNTP and      *)
(* DHCP, and every handle names an open socket: no path of time-out, retry *)
(* and failure leaks one, closes one twice or goes on using one that was   *)
(* given to somebody else.                                                 *)
(***************************************************************************)
SocketsAccountedFor ==
  /\ \A s \in Socket :
       sockets[s].state # "closed" => \E i \in 1 .. 3 : Owners[i] = s
  /\ \A i, j \in 1 .. 3 :
       Owners[i] # Invalid =>
         /\ sockets[Owners[i]].state # "closed"
         /\ Owners[i] = Owners[j] => i = j

(***************************************************************************)
(* The resolver works for one user at a time, although DNSEndUsage lets    *)
(* anybody release it and its flag has no owner.                           *)
(***************************************************************************)
OneUserOfDns ==
  /\ mqtt = "NAME_RESOLVE" => dns.inUse /\ Users = {}
  /\ \A s, t \in Users : dns.inUse /\ s = t

(***************************************************************************)
(* Nobody connects to an address that was never found: the union that      *)
(* holds the name is only overwritten by an address, and DNSEndUsage does  *)
(* not vouch for the answer of an earlier resolution.                      *)
(***************************************************************************)
OnlyAddressesAreUsed ==
  /\ mqtt = "connecting" => mqttServer = "address"
  /\ \A s \in Socket :
       /\ sockets[s].state \in Resolving => sockets[s].remote = "name"
       /\ sockets[s].state \in Connecting => sockets[s].remote = "address"

(***************************************************************************)
(* SNTP never asks for the state of a socket it has not got, which would   *)
(* read past the end of UDPSocketInfo: SM_HOME goes on without looking at  *)
(* what UDPOpenEx returned.                                                *)
(***************************************************************************)
SntpHasItsSocket ==
  sntp \in {"UDP_IS_OPENED", "UDP_SEND", "UDP_RECV"} => sntpSocket # Invalid

Abandoned == dns.inUse /\ mqtt # "NAME_RESOLVE" /\ Users = {}

(***************************************************************************)
(* Of all the ways out of a resolution, only SNTP's time-out forgets to    *)
(* release the resolver.                                                   *)
(***************************************************************************)
OnlySntpAbandonsDns ==
  [][~Abandoned /\ Abandoned' => sntp = "UDP_IS_OPENED" /\ sntp' = "HOME"]_vars

(***************************************************************************)
(* Whatever goes wrong with names, ARP and answers, SNTP starts over again *)
(* and again: UDPTask by itself would resolve, or ARP, for ever.           *)
(***************************************************************************)
SntpKeepsTrying == []<>(sntp = "HOME")

-----------------------------------------------------------------------------
(* What DNS.c says of its users, and SNTP does not do *)

\* "Ensure that DNSEndUsage is always called once your application has
\* obtained control of the DNS module": who has it is waiting for it, or
\* will be done with it.
DnsIsReleased == dns.inUse ~> ~dns.inUse

=============================================================================
