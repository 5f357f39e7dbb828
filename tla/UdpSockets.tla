------------------------------ MODULE UdpSockets ------------------------------
(***************************************************************************)
(* The pool of UDP sockets of net/UDP.c.  A socket is free when its local  *)
(* port is INVALID_UDP_PORT, which UDPClose sets together with UDP_CLOSED, *)
(* so one value stands for both.  What an open socket's `remote` union     *)
(* holds is kept, because UDPTask overwrites a host name with an address.  *)
(*                                                                         *)
(* Calls nest (UDPTask calls DNSIsResolved, which opens and closes sockets *)
(* of its own), so the operations are functions from one state of the pool *)
(* to the next.                                                            *)
(***************************************************************************)
EXTENDS Naturals

CONSTANT MaxSockets                    \* MAX_UDP_SOCKETS

ASSUME SocketsAssumption == MaxSockets \in Nat /\ MaxSockets > 0

VARIABLE sockets                       \* UDPSocketInfo

Socket == 1 .. MaxSockets
Invalid == 0                           \* INVALID_UDP_SOCKET

\* smState, in the order a socket that was given a host name passes through.
Resolving == {"dnsResolve", "dnsIsResolved"}
Connecting == {"sendArp", "getArp"}
SocketState == {"closed", "opened"} \cup Resolving \cup Connecting

Remote == {"none", "name", "address", "zero"}

ClosedSocket == [state |-> "closed", remote |-> "none"]

Pool == [Socket -> [state : SocketState, remote : Remote]]

FreeSockets(pool) == {s \in Socket : pool[s].state = "closed"}

\* UDPOpenEx takes the first free entry.
FirstFree(pool) ==
  IF FreeSockets(pool) = {} THEN Invalid
  ELSE CHOOSE s \in FreeSockets(pool) : \A t \in FreeSockets(pool) : s <= t

UDPOpenEx(pool, state, remote) ==
  LET s == FirstFree(pool)
  IN [handle |-> s,
      pool   |-> IF s = Invalid THEN pool
                 ELSE [pool EXCEPT ![s] = [state |-> state, remote |-> remote]]]

UDPClose(pool, s) ==
  IF s = Invalid THEN pool ELSE [pool EXCEPT ![s] = ClosedSocket]

UDPInit == sockets = [s \in Socket |-> ClosedSocket]

=============================================================================
