------------------------------ MODULE TcpSocket ------------------------------
(***************************************************************************)
(* The one client socket of the firmware (TCPIPConfig.h gives purpose      *)
(* DEFAULT a single TCB, and the MQTT client is its only user), as the API *)
(* of TCP.c shows it.  Segments, windows and retransmission are left out:  *)
(* what stays is the socket's state as the API functions distinguish it,   *)
(* the self-clearing reset flag, and the packets the broker has sent or is *)
(* bound to send on this connection, in order.                             *)
(*                                                                         *)
(*   closed       TCP_CLOSED                                               *)
(*   opening      TCP_GATEWAY_SEND_ARP .. TCP_SYN_SENT                     *)
(*   established  TCP_ESTABLISHED                                          *)
(*   closeWait    TCP_CLOSE_WAIT, the remote has sent its FIN              *)
(*   finishing    TCP_FIN_WAIT_1 / _2, TCP_CLOSING, TCP_LAST_ACK           *)
(*   reserved     TCP_CLOSED_BUT_RESERVED                                  *)
(***************************************************************************)
EXTENDS Naturals, Sequences

VARIABLES tcp,         \* MyTCBStub.smState
          wasReset,    \* MyTCBStub.Flags.bSocketReset
          inbound      \* packets on their way to us, oldest first

tcpvars == <<tcp, wasReset, inbound>>

TcpState ==
  {"closed", "opening", "established", "closeWait", "finishing", "reserved"}

\* TCPInit closes every socket, which leaves the reset flag set.
TcpInit == tcp = "closed" /\ wasReset = TRUE /\ inbound = << >>

IsConnected == tcp = "established"

\* TCPIsPutReady is 0 in any other state, whatever the FIFO holds.
MayHaveRoom == tcp \in {"established", "closeWait"}

\* Received bytes stay readable until CloseSocket or TCPDisconnect.
BytesMayCome == tcp \in {"established", "closeWait", "finishing"}

CloseSocket == tcp' = "closed" /\ wasReset' = TRUE /\ inbound' = << >>

TCPOpen ==
  /\ tcp = "closed"
  /\ tcp' = "opening"
  /\ UNCHANGED <<wasReset, inbound>>

\* TCP_CLOSED falls into the switch's default, which closes once more.
TCPDisconnect ==
  \/ /\ tcp \in {"opening", "finishing", "closed"}
     /\ CloseSocket
  \/ /\ tcp \in {"established", "closeWait"}
     /\ tcp' = "finishing" /\ inbound' = << >> /\ UNCHANGED wasReset
  \/ /\ tcp = "reserved"
     /\ tcp' = "closed" /\ inbound' = << >> /\ UNCHANGED wasReset

-----------------------------------------------------------------------------
(* What the stack does on its own: TCPTick's timers, HandleTCPSeg's segments *)

HandshakeDone ==
  /\ tcp = "opening"
  /\ tcp' = "established"
  /\ UNCHANGED <<wasReset, inbound>>

\* The FIN comes after the packets that were sent; those not sent never are.
RemoteFin ==
  /\ tcp = "established"
  /\ tcp' = "closeWait"
  /\ \E n \in 0 .. Len(inbound) : inbound' = SubSeq(inbound, 1, n)
  /\ UNCHANGED wasReset

\* The CLOSE_WAIT timer, or too many retransmissions: FIN, then wait.
GiveUpLink ==
  /\ tcp \in {"established", "closeWait"}
  /\ tcp' = "finishing"
  /\ UNCHANGED <<wasReset, inbound>>

\* Six keep-alives unanswered: closed, but kept for the handle's owner.
KeepAliveFails ==
  /\ tcp = "established"
  /\ tcp' = "reserved" /\ wasReset' = TRUE /\ inbound' = << >>

RemoteReset ==
  /\ tcp \in {"established", "closeWait", "finishing"}
  /\ CloseSocket

\* The FIN is acknowledged, or its retries run out.
FinishClosing ==
  /\ tcp = "finishing"
  /\ CloseSocket

StackStep ==
  HandshakeDone \/ RemoteFin \/ GiveUpLink \/ KeepAliveFails \/ RemoteReset
    \/ FinishClosing

=============================================================================
