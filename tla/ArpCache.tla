------------------------------ MODULE ArpCache ------------------------------
(***************************************************************************)
(* The one-entry cache of net/ARP.c and the client sockets that share it:  *)
(* each asks for its peer, or for the gateway when the peer is not on the  *)
(* local network, waits until the cache resolves it and copies the MAC     *)
(* address.  MAC addresses are numbered as a node's interface is replaced. *)
(***************************************************************************)
EXTENDS Integers, FiniteSets

CONSTANTS User,           \* client sockets of UDP.c and TCP.c
          Node, Gateway,  \* addresses on the local network
          RemoteHost,         \* the address each user talks to
          MaxReplaced     \* bound: interfaces that are replaced

ASSUME ArpCacheAssumption ==
  /\ Gateway \in Node /\ MaxReplaced \in Nat /\ "none" \notin Node
  /\ \A u \in User : RemoteHost[u] # "none"

VARIABLES
  mac,            \* the interface each node has now
  onWire,         \* answers under way
  Cache,
  opening,        \* TCP_ or UDP_GATEWAY_SEND_ARP, _GET_ARP; opened; closed
  peer,           \* remoteNode.MACAddr of each user: a MAC address, or none
  deaf            \* the request was sent as the 16-bit clock was about to wrap:
                  \* the time-out never comes (RepeatedForEver in GatewayArp)

arpUsers == <<opening, peer, deaf>>
arpvars == <<mac, onWire, Cache, arpUsers>>

NoEntry == [IPAddr |-> "none", MACAddr |-> <<"none", 0>>]
Interface(n) == <<n, mac[n]>>

\* ARPResolve asks the gateway in place of a host of another network.
OffLink(u) == RemoteHost[u] \notin Node
AskedFor(u) == IF OffLink(u) THEN Gateway ELSE RemoteHost[u]

\* ARPInit, at boot; no socket is open
ArpInit ==
  /\ mac = [n \in Node |-> 0] /\ onWire = {} /\ Cache = NoEntry
  /\ opening = [u \in User |-> "closed"]
  /\ peer = [u \in User |-> NoEntry.MACAddr] /\ deaf = [u \in User |-> FALSE]

-----------------------------------------------------------------------------
(* The network *)

Replace(n) ==
  /\ mac[n] < MaxReplaced /\ mac' = [mac EXCEPT ![n] = @ + 1]
  /\ UNCHANGED <<onWire, Cache, arpUsers>>

Lose(m) == m \in onWire /\ onWire' = onWire \ {m} /\ UNCHANGED <<mac, Cache, arpUsers>>

\* ARPProcess keeps every answer, whoever asked.
ARPProcess(m) ==
  /\ m \in onWire /\ onWire' = onWire \ {m}
  /\ Cache' = m /\ UNCHANGED <<mac, arpUsers>>

-----------------------------------------------------------------------------
(* A client socket *)

Open(u) ==
  /\ opening[u] = "closed" /\ opening' = [opening EXCEPT ![u] = "SEND_ARP"]
  /\ UNCHANGED <<mac, onWire, Cache, peer, deaf>>

\* mutant: whatever the cache holds will do
ARPIsResolvedByAny(u) == Cache # NoEntry

ARPIsResolved(u) == Cache.IPAddr = RemoteHost[u] \/ (Cache.IPAddr = Gateway /\ OffLink(u))

\* mutant: no request is sent for what the cache already resolves
ARPResolveUnlessCached(u) ==
  onWire' = IF ARPIsResolved(u) THEN onWire
            ELSE onWire \cup {[IPAddr |-> AskedFor(u), MACAddr |-> Interface(AskedFor(u))]}

ARPResolve(u) ==
  onWire' = onWire \cup {[IPAddr |-> AskedFor(u), MACAddr |-> Interface(AskedFor(u))]}

AskByArp(u) ==
  /\ opening[u] = "SEND_ARP" /\ opening' = [opening EXCEPT ![u] = "GET_ARP"]
  /\ ARPResolve(u) /\ \E d \in BOOLEAN : deaf' = [deaf EXCEPT ![u] = d]
  /\ UNCHANGED <<mac, Cache, peer>>

GetArp(u) ==
  /\ opening[u] = "GET_ARP" /\ ARPIsResolved(u)
  /\ opening' = [opening EXCEPT ![u] = "opened"]
  /\ peer' = [peer EXCEPT ![u] = Cache.MACAddr]
  /\ UNCHANGED <<mac, onWire, Cache, deaf>>

ArpTimeOut(u) ==
  /\ opening[u] = "GET_ARP" /\ ~ARPIsResolved(u) /\ ~deaf[u]
  /\ opening' = [opening EXCEPT ![u] = "SEND_ARP"]
  /\ UNCHANGED <<mac, onWire, Cache, peer, deaf>>

\* TCPDisconnect, UDPClose: in any state
Close(u) ==
  /\ opening[u] # "closed" /\ opening' = [opening EXCEPT ![u] = "closed"]
  /\ UNCHANGED <<mac, onWire, Cache, peer, deaf>>

Connects(u) == AskByArp(u) \/ GetArp(u) \/ ArpTimeOut(u)

\* Packets go astray to an interface that is no longer there.
Astray(u) == opening[u] = "opened" /\ peer[u] # Interface(AskedFor(u))

ArpNext ==
  \/ \E n \in Node : Replace(n)
  \/ \E m \in onWire : Lose(m) \/ ARPProcess(m)
  \/ \E u \in User : Open(u) \/ Connects(u) \/ Close(u)

(***************************************************************************)
(* The main loop polls every socket; the network does not lose everything; *)
(* the owner of a socket that hears nothing closes it and tries again.     *)
(***************************************************************************)
Answered == {[IPAddr |-> n, MACAddr |-> <<n, k>>] : n \in Node, k \in 0 .. MaxReplaced}

ArpFairness ==
  /\ \A u \in User : WF_arpvars(Connects(u)) /\ WF_arpvars(Astray(u) /\ Close(u))
  /\ \A u \in User : WF_arpvars(Open(u))
  /\ \A m \in Answered : SF_arpvars(ARPProcess(m))

ArpSpec == ArpInit /\ [][ArpNext]_arpvars

FairArp == ArpSpec /\ ArpFairness

-----------------------------------------------------------------------------
(* Properties *)

ArpTypeOK ==
  /\ mac \in [Node -> 0 .. MaxReplaced]
  /\ onWire \subseteq Answered /\ Cache \in Answered \cup {NoEntry}
  /\ opening \in [User -> {"closed", "SEND_ARP", "GET_ARP", "opened"}]
  /\ peer \in [User -> {m.MACAddr : m \in Answered \cup {NoEntry}}] /\ deaf \in [User -> BOOLEAN]

(***************************************************************************)
(* Although the users overwrite each other's only entry, and an answer may *)
(* come when somebody else waits, a socket never sends to the interface of *)
(* another node than the one its packets have to go to.                    *)
(***************************************************************************)
NeverToAnotherNode == \A u \in User : opening[u] = "opened" => peer[u][1] = AskedFor(u)

(***************************************************************************)
(* The entry never expires, but a gateway that was replaced is not         *)
(* believed for ever: every user that opens a socket asks all the same,    *)
(* and the answer comes in time for the next one.                          *)
(***************************************************************************)
StaleIsCorrected == <>[](\A u \in User : ~Astray(u))

(***************************************************************************)
(* A user whose answer was overwritten before it looked gets its turn once *)
(* the others stop asking.                                                 *)
(***************************************************************************)
WaitsForNothing(u) == opening[u] \in {"opened", "closed"} \/ deaf[u]

OverwrittenIsAskedAgain ==
  \A u \in User :
    <>[](\A v \in User \ {u} : opening[v] \in {"opened", "closed"}) => []<>WaitsForNothing(u)

(***************************************************************************)
(* The one entry, overwritten by others or out of date, delays a user of   *)
(* ARP but never stops or misleads it for good.                            *)
(***************************************************************************)
ArpRecovers == StaleIsCorrected /\ OverwrittenIsAskedAgain

=============================================================================
