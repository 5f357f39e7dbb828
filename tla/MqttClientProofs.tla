-------------------------- MODULE MqttClientProofs --------------------------
(***************************************************************************)
(* Proofs about MqttClient, for every ring size, every kind and body of    *)
(* message, every timeout and every bound on the broker's packets.         *)
(***************************************************************************)
EXTENDS MqttClient, SequenceTheorems, TLAPS

-----------------------------------------------------------------------------
(***************************************************************************)
(* The ring implements a bounded queue that an overflow empties: what Put, *)
(* Take, Front and Clear do to Contents, for every size and every item.    *)
(***************************************************************************)

(***************************************************************************)
(* The next cursor stays in the array.                                     *)
(***************************************************************************)
LEMMA SuccInIndex ==
  ASSUME NEW i \in Index
  PROVE  Succ(i) \in Index
  BY RingSizeAssumption DEF Index, Succ

(***************************************************************************)
(* The ring's operations keep slots and cursors well typed.                *)
(***************************************************************************)
LEMMA RingTyped ==
  ASSUME NEW Item, NEW r \in RingOf(Item), NEW item \in Item
  PROVE  /\ Put(r, item) \in RingOf(Item)
         /\ Take(r) \in RingOf(Item)
         /\ Front(r) \in Item
         /\ Clear(r) \in RingOf(Item)
         /\ [r EXCEPT !.head = 0] \in RingOf(Item)
<1>1. r.head \in Index /\ r.tail \in Index /\ r.slots \in [Index -> Item]
  BY DEF RingOf
<1>2. Succ(r.head) \in Index /\ Succ(r.tail) \in Index
  BY <1>1, SuccInIndex
<1>3. 0 \in Index
  BY RingSizeAssumption DEF Index
<1>4. Put(r, item) \in RingOf(Item)
  BY <1>1, <1>2 DEF Put, RingOf
<1>5. Take(r) \in RingOf(Item)
  BY <1>1, <1>2 DEF Take, RingOf
<1>6. Front(r) \in Item
  BY <1>1, <1>2 DEF Front
<1>7. Clear(r) \in RingOf(Item) /\ [r EXCEPT !.head = 0] \in RingOf(Item)
  BY <1>1, <1>3 DEF Clear, RingOf
<1> QED
  BY <1>4, <1>5, <1>6, <1>7

(***************************************************************************)
(* The arithmetic of the cursors: how many slots are in use, and where the *)
(* k-th of them is.                                                        *)
(***************************************************************************)
LEMMA CountInRange ==
  ASSUME NEW Item, NEW r \in RingOf(Item)
  PROVE  /\ Count(r) \in 0 .. RingSize - 1
         /\ Count(r) = 0 <=> r.head = r.tail
         /\ Count(r) = RingSize - 1 <=> Succ(r.head) = r.tail
         /\ \A k \in 1 .. Count(r) : Nth(r, k) \in Index
  BY RingSizeAssumption DEF RingOf, Index, Count, Nth, Succ

(***************************************************************************)
(* Contents is a sequence of items.                                        *)
(***************************************************************************)
LEMMA ContentsIsSeq ==
  ASSUME NEW Item, NEW r \in RingOf(Item)
  PROVE  /\ Contents(r) \in Seq(Item)
         /\ Len(Contents(r)) = Count(r)
<1>1. Count(r) \in Nat
  BY CountInRange, RingSizeAssumption
<1>2. \A k \in 1 .. Count(r) : r.slots[Nth(r, k)] \in Item
  BY CountInRange DEF RingOf
<1> QED
  BY <1>1, <1>2 DEF Contents

(***************************************************************************)
(* A write appends, or drops everything when the ring is full.             *)
(***************************************************************************)
THEOREM PutAppends ==
  ASSUME NEW Item, NEW r \in RingOf(Item), NEW item \in Item
  PROVE  Contents(Put(r, item)) =
           IF Len(Contents(r)) = RingSize - 1 THEN << >>
           ELSE Append(Contents(r), item)
<1> DEFINE s == Put(r, item)
<1>1. r.head \in Index /\ r.tail \in Index /\ Succ(r.head) \in Index
  BY SuccInIndex DEF RingOf
<1>2. s \in RingOf(Item)
  BY RingTyped
<1>3. CASE Succ(r.head) = r.tail
  <2>1. s.head = s.tail
    BY <1>3 DEF Put, RingOf
  <2>2. Count(s) = 0
    BY <2>1, <1>2, CountInRange
  <2>3. Contents(s) = << >>
    BY <2>2, <1>2, ContentsIsSeq
  <2> QED
    BY <1>3, <2>3, CountInRange, ContentsIsSeq
<1>4. CASE Succ(r.head) # r.tail
  <2>1. /\ s.head = Succ(r.head) /\ s.tail = r.tail
        /\ s.slots = [r.slots EXCEPT ![Succ(r.head)] = item]
    BY <1>4 DEF Put, RingOf
  <2>2. Count(s) = Count(r) + 1 /\ Count(r) \in Nat
    BY <2>1, <1>1, <1>4, RingSizeAssumption DEF Count, Succ, Index
  <2>3. Nth(s, Count(s)) = Succ(r.head)
    BY <2>1, <1>1, <1>4, RingSizeAssumption DEF Count, Nth, Succ, Index
  <2>4. \A k \in 1 .. Count(r) : Nth(s, k) = Nth(r, k) /\ Nth(r, k) # Succ(r.head)
    BY <2>1, <1>1, <1>4, RingSizeAssumption DEF Count, Nth, Succ, Index
  <2>5. \A k \in 1 .. Count(r) : Nth(r, k) \in Index
    BY CountInRange
  <2>6. s.slots[Succ(r.head)] = item
    BY <2>1, <1>1 DEF RingOf
  <2>7. \A k \in 1 .. Count(r) : s.slots[Nth(s, k)] = r.slots[Nth(r, k)]
    BY <2>1, <2>4, <2>5 DEF RingOf
  <2>8. /\ Contents(r) \in Seq(Item) /\ Len(Contents(r)) = Count(r)
        /\ Contents(s) \in Seq(Item) /\ Len(Contents(s)) = Count(r) + 1
    BY <1>2, <2>2, ContentsIsSeq
  <2>9. \A k \in 1 .. Count(r) : Contents(s)[k] = Contents(r)[k]
    BY <2>2, <2>7 DEF Contents
  <2>10. Contents(s)[Count(r) + 1] = item
    BY <2>2, <2>3, <2>6 DEF Contents
  <2>11. Contents(s) = Append(Contents(r), item)
    <3> DEFINE t == Append(Contents(r), item)
    <3>1. /\ t \in Seq(Item) /\ Len(t) = Count(r) + 1
          /\ \A k \in 1 .. Count(r) : t[k] = Contents(r)[k]
          /\ t[Count(r) + 1] = item
      BY <2>8, AppendProperties
    <3>2. \A k \in 1 .. Count(r) + 1 : Contents(s)[k] = t[k]
      BY <2>2, <2>9, <2>10, <3>1
    <3> QED
      BY <2>8, <3>1, <3>2, SeqEqual
  <2>12. Len(Contents(r)) # RingSize - 1
    BY <1>4, CountInRange, ContentsIsSeq
  <2> QED
    BY <2>11, <2>12
<1> QED
  BY <1>3, <1>4

(***************************************************************************)
(* A read returns the head of the queue and leaves its tail.               *)
(***************************************************************************)
THEOREM TakeRemovesHead ==
  ASSUME NEW Item, NEW r \in RingOf(Item), ~IsEmptyRing(r)
  PROVE  /\ Contents(r) # << >>
         /\ Front(r) = Head(Contents(r))
         /\ Contents(Take(r)) = Tail(Contents(r))
<1> DEFINE s == Take(r)
<1>1. r.head \in Index /\ r.tail \in Index /\ Succ(r.tail) \in Index
  BY SuccInIndex DEF RingOf
<1>2. r.head # r.tail
  BY DEF IsEmptyRing
<1>3. s.head = r.head /\ s.tail = Succ(r.tail) /\ s.slots = r.slots
  BY DEF Take, RingOf
<1>4. Count(r) = Count(s) + 1 /\ Count(s) \in Nat
  BY <1>1, <1>2, <1>3, RingSizeAssumption DEF Count, Succ, Index
<1>5. Nth(r, 1) = Succ(r.tail)
  BY <1>1, RingSizeAssumption DEF Nth, Succ, Index
<1>6. \A k \in 1 .. Count(s) : Nth(s, k) = Nth(r, k + 1)
  BY <1>1, <1>2, <1>3, RingSizeAssumption DEF Count, Nth, Succ, Index
<1>7. Len(Contents(r)) = Count(r) /\ Contents(r) \in Seq(Item)
  BY ContentsIsSeq
<1>8. Contents(r) # << >>
  BY <1>4, <1>7
<1>9. Front(r) = Head(Contents(r))
  BY <1>4, <1>5, <1>7, <1>8 DEF Front, Contents
<1>10. /\ Tail(Contents(r)) \in Seq(Item) /\ Len(Tail(Contents(r))) = Count(s)
       /\ \A k \in 1 .. Count(s) : Tail(Contents(r))[k] = Contents(r)[k + 1]
  BY <1>4, <1>7, <1>8, HeadTailProperties
<1>11. \A k \in 1 .. Count(s) : Contents(s)[k] = Contents(r)[k + 1]
  BY <1>3, <1>4, <1>6 DEF Contents
<1>12. Contents(s) \in Seq(Item) /\ Len(Contents(s)) = Count(s)
  <2>1. s \in RingOf(Item)
    BY <1>1 DEF Take, RingOf
  <2> QED
    BY <2>1, ContentsIsSeq
<1>13. Contents(s) = Tail(Contents(r))
  BY <1>10, <1>11, <1>12, SeqEqual
<1> QED
  BY <1>8, <1>9, <1>13

(***************************************************************************)
(* Clear empties the queue, and an empty ring stands for the empty queue.  *)
(***************************************************************************)
THEOREM ClearEmpties ==
  ASSUME NEW Item, NEW r \in RingOf(Item)
  PROVE  /\ Contents(Clear(r)) = << >>
         /\ IsEmptyRing(r) => Contents(r) = << >>
<1>1. Clear(r) \in RingOf(Item) /\ Clear(r).head = Clear(r).tail
  BY DEF Clear, RingOf
<1>2. \A q \in RingOf(Item) : q.head = q.tail => Contents(q) = << >>
  BY CountInRange, ContentsIsSeq
<1> QED
  BY <1>1, <1>2 DEF IsEmptyRing

-----------------------------------------------------------------------------
(* The client *)

TcpTypeOK ==
  tcp \in TcpState /\ wasReset \in BOOLEAN /\ inbound \in Seq(Packet)

(***************************************************************************)
(* The socket's own steps, and the API functions that change it, keep its  *)
(* state well typed.                                                       *)
(***************************************************************************)
LEMMA StackTyped == TcpTypeOK /\ StackStep => TcpTypeOK'
<1> SUFFICES ASSUME TcpTypeOK, StackStep PROVE TcpTypeOK'
  OBVIOUS
<1>1. CASE HandshakeDone
  BY <1>1 DEF TcpTypeOK, TcpState, HandshakeDone
<1>2. CASE RemoteFin
  <2>1. PICK n \in 0 .. Len(inbound) : inbound' = SubSeq(inbound, 1, n)
    BY <1>2 DEF RemoteFin
  <2>2. inbound' \in Seq(Packet)
    BY <2>1, SubSeqProperties DEF TcpTypeOK
  <2> QED
    BY <1>2, <2>2 DEF TcpTypeOK, TcpState, RemoteFin
<1>3. CASE GiveUpLink
  BY <1>3 DEF TcpTypeOK, TcpState, GiveUpLink
<1>4. CASE KeepAliveFails
  BY <1>4 DEF TcpTypeOK, TcpState, KeepAliveFails
<1>5. CASE RemoteReset
  BY <1>5 DEF TcpTypeOK, TcpState, RemoteReset, CloseSocket
<1>6. CASE FinishClosing
  BY <1>6 DEF TcpTypeOK, TcpState, FinishClosing, CloseSocket
<1> QED
  BY <1>1, <1>2, <1>3, <1>4, <1>5, <1>6 DEF StackStep

\* TCPDisconnect keeps the socket's state well typed.
LEMMA DisconnectTyped ==
  ASSUME TcpTypeOK, TCPDisconnect
  PROVE  TcpTypeOK' /\ tcp' \in {"closed", "finishing"}
<1>1. CASE CloseSocket
  BY <1>1 DEF TcpTypeOK, TcpState, CloseSocket
<1>2. CASE ~CloseSocket
  <2>1. tcp' \in {"closed", "finishing"} /\ inbound' = << >> /\ wasReset' = wasReset
    BY <1>2 DEF TCPDisconnect
  <2> QED
    BY <2>1 DEF TcpTypeOK, TcpState
<1> QED
  BY <1>1, <1>2

\* TCPOpen keeps the socket's state well typed.
LEMMA OpenTyped == TcpTypeOK /\ TCPOpen => TcpTypeOK'
BY DEF TcpTypeOK, TcpState, TCPOpen

\* A packet written, and the answer it may bring, keep it well typed.
LEMMA WriteTyped ==
  ASSUME TcpTypeOK, NEW answers \in SUBSET Packet, Write(answers)
  PROVE  TcpTypeOK'
BY DEF TcpTypeOK, TcpState, Write

\* MQTTReadPacket's phases keep the reader and the socket well typed.
LEMMA ReadTyped ==
  ASSUME TcpTypeOK, rx \in [phase : Phase, first : Packet, sent : Packet],
         ReadMore, UNCHANGED <<tcp, wasReset>>
  PROVE  TcpTypeOK' /\ rx' \in [phase : Phase, first : Packet, sent : Packet]
<1>1. CASE rx.phase \in {"INIT", "BEHIND"}
  <2>1. inbound # << >> /\ inbound' = Tail(inbound)
    BY <1>1 DEF ReadMore
  <2>2. Head(inbound) \in Packet /\ Tail(inbound) \in Seq(Packet)
    BY <2>1, HeadTailProperties DEF TcpTypeOK
  <2> QED
    BY <1>1, <2>1, <2>2 DEF ReadMore, TcpTypeOK, Phase
<1>2. CASE rx.phase \notin {"INIT", "BEHIND"}
  BY <1>2 DEF ReadMore, TcpTypeOK, Phase
<1> QED
  BY <1>1, <1>2

-----------------------------------------------------------------------------
(***************************************************************************)
(* Type correctness.  TypeOK is inductive as it stands: RingTyped takes    *)
(* care of the cursors, the lemmas above of the socket, and MqttAssumption *)
(* of the state a queued message is sent in.                               *)
(***************************************************************************)
LEMMA TypeTcp == TypeOK => TcpTypeOK
BY DEF TypeOK, TcpTypeOK

\* The transmit ring stays a ring of messages.
LEMMA TxRingTyped ==
  TypeOK => /\ Clear(ring) \in RingOf(Message)
            /\ Take(ring) \in RingOf(Message)
            /\ [ring EXCEPT !.head = 0] \in RingOf(Message)
            /\ Front(ring) \in Message
            /\ \A m \in Message : Put(ring, m) \in RingOf(Message)
<1>1. CASE ring \in RingOf(Message) /\ Message # {}
  BY <1>1, RingTyped
<1> QED
  BY <1>1 DEF TypeOK

\* The state after reset is well typed.
LEMMA InitTyped == Init => TypeOK
<1> SUFFICES ASSUME Init PROVE TypeOK
  OBVIOUS
<1>1. PICK m \in Message : ring = EmptyRing(m) /\ current = m
  BY DEF Init
<1>2. ring \in RingOf(Message)
  BY <1>1, RingSizeAssumption DEF EmptyRing, RingOf, Index
<1>3. inbound \in Seq(Packet)
  BY DEF Init, TcpInit
<1> QED
  BY <1>1, <1>2, <1>3
  DEF Init, TcpInit, TypeOK, State, NothingRead, Phase, Packet, TcpState

\* The API functions keep the types.
LEMMA ApiTyped ==
  ASSUME TypeOK, BeginUsage \/ Enqueue \/ EndUsage
  PROVE  TypeOK'
<1> USE DEF flags, sending, clocks, tcpvars
<1>1. CASE BeginUsage
  BY <1>1, TxRingTyped DEF BeginUsage, TypeOK, State
<1>2. CASE Enqueue
  <2>1. PICK m \in Message : ring' = Put(ring, m)
    BY <1>2 DEF Enqueue
  <2>2. ring' \in RingOf(Message)
    BY <2>1, TxRingTyped
  <2> QED
    BY <1>2, <2>2 DEF Enqueue, TypeOK
<1>3. CASE EndUsage
  <2>1. TcpTypeOK'
    BY <1>3, TypeTcp, DisconnectTyped DEF EndUsage, TcpTypeOK
  <2> QED
    BY <1>3, <2>1
    DEF EndUsage, TypeOK, TcpTypeOK, State, HoldsSocket, SessionStates, AwaitsRoom
<1> QED
  BY <1>1, <1>2, <1>3

\* TCPOpen and what MQTTTask does with its result keep the types.
LEMMA OpenSocketTyped ==
  ASSUME TypeOK, OpenSocket
  PROVE  /\ TcpTypeOK' /\ held' \in BOOLEAN /\ timer' \in Nat
         /\ st' \in {"OBTAIN_SOCKET", "SOCKET_OBTAINED", "CLOSE"}
<1>1. TcpTypeOK'
  BY TypeTcp, OpenTyped DEF OpenSocket, TcpTypeOK, tcpvars
<1> QED
  <2>1. CASE TCPOpen
    BY <1>1, <2>1 DEF OpenSocket, TypeOK, TCPOpen
  <2>2. CASE ~TCPOpen
    BY <1>1, <2>2 DEF OpenSocket, TypeOK
  <2> QED
    BY <2>1, <2>2

\* The cases from MQTT_BEGIN to MQTT_CONNECT_ACK keep the types.
LEMMA ConnectingTyped ==
  ASSUME TypeOK,
         \/ Begin \/ Resolved \/ ResolvedToNothing \/ ObtainSocket
         \/ SocketConnected \/ SocketGivenUp \/ Connect
         \/ AwaitConnack \/ Connack \/ ConnackPending
  PROVE  TypeOK'
<1> USE DEF flags, sending, clocks, tcpvars, State, HoldsSocket
<1>1. CASE Begin
  BY <1>1, TxRingTyped DEF Begin, TypeOK
<1>2. CASE Resolved \/ ObtainSocket
  BY <1>2, OpenSocketTyped DEF Resolved, ObtainSocket, TypeOK, TcpTypeOK
<1>3. CASE ResolvedToNothing
  BY <1>3 DEF ResolvedToNothing, TypeOK
<1>4. CASE SocketConnected \/ SocketGivenUp
  BY <1>4 DEF SocketConnected, SocketGivenUp, TypeOK
<1>5. CASE Connect
  <2>1. TcpTypeOK'
    BY <1>5, TypeTcp, WriteTyped DEF Connect, TcpTypeOK, Packet, Replies
  <2>2. NothingRead \in [phase : Phase, first : Packet, sent : Packet]
    BY DEF NothingRead, Phase, Packet
  <2> QED
    BY <1>5, <2>1, <2>2 DEF Connect, TypeOK, TcpTypeOK
<1>6. CASE AwaitConnack
  BY <1>6, TypeTcp, ReadTyped DEF AwaitConnack, TypeOK, TcpTypeOK
<1>7. CASE Connack
  <2>1. /\ NothingRead \in [phase : Phase, first : Packet, sent : Packet]
        /\ "BEHIND" \in Phase
    BY DEF NothingRead, Phase, Packet
  <2> QED
    BY <1>7, <2>1 DEF Connack, TypeOK, SessionStates
<1>8. CASE ConnackPending
  BY <1>8 DEF ConnackPending, TypeOK
<1> QED
  BY <1>1, <1>2, <1>3, <1>4, <1>5, <1>6, <1>7, <1>8

\* MQTT_IDLE and the cases that send keep the types.
LEMMA SessionTyped ==
  ASSUME TypeOK,
         \/ IdleReset \/ PingTimesOut \/ PingFallsDue \/ AckTimesOut
         \/ TakeMessage \/ IdleReads \/ Dispatch \/ Ping \/ Publish
         \/ Subscribe \/ Unsubscribe \/ PubAck \/ PingAck \/ Disconnect
  PROVE  TypeOK'
<1> USE DEF flags, sending, clocks, tcpvars, State, HoldsSocket, SessionStates
<1>1. CASE IdleReset \/ PingTimesOut \/ PingFallsDue \/ AckTimesOut
  <2>1. CASE IdleReset
    BY <2>1 DEF IdleReset, TypeOK
  <2>2. CASE PingTimesOut
    BY <2>2 DEF PingTimesOut, TypeOK
  <2>3. CASE PingFallsDue
    BY <2>3 DEF PingFallsDue, TypeOK
  <2>4. CASE AckTimesOut
    BY <2>4 DEF AckTimesOut, TypeOK
  <2> QED
    BY <1>1, <2>1, <2>2, <2>3, <2>4
<1>2. CASE TakeMessage
  <2>1. Front(ring).kind \in {"publish", "subscribe", "unsubscribe"}
    BY TxRingTyped, MqttAssumption DEF Message
  <2>2. st' \in State
    BY <1>2, <2>1 DEF TakeMessage, StateFor, AwaitsRoom
  <2>3. current' \in Message /\ ring' \in RingOf(Message)
    BY <1>2, TxRingTyped DEF TakeMessage
  <2>4. \/ waitingAck' = TRUE /\ ackAge' = 0
        \/ UNCHANGED <<waitingAck, ackAge>>
    BY <1>2, Zenon DEF TakeMessage
  <2>5. UNCHANGED <<inUse, connectedOnce, pingOutstanding, bConnected, held, rx,
                    timer, pingAge, dns, tcpvars>>
    BY <1>2 DEF TakeMessage
  <2>6. CASE waitingAck' = TRUE /\ ackAge' = 0
    BY <2>2, <2>3, <2>5, <2>6 DEF TypeOK
  <2>7. CASE UNCHANGED <<waitingAck, ackAge>>
    BY <2>2, <2>3, <2>5, <2>7 DEF TypeOK
  <2> QED
    BY <2>4, <2>6, <2>7
<1>3. CASE IdleReads
  BY <1>3, TypeTcp, ReadTyped DEF IdleReads, TypeOK, TcpTypeOK
<1>4. CASE Dispatch
  <2>1. NothingRead \in [phase : Phase, first : Packet, sent : Packet]
    BY DEF NothingRead, Phase, Packet
  <2>2. st' \in State /\ pingAge' \in Nat /\ rx' = NothingRead
    BY <1>4 DEF Dispatch, TypeOK, AwaitsRoom
  <2>3. pingOutstanding' \in BOOLEAN
    BY <1>4 DEF Dispatch, TypeOK
  <2>4. waitingAck' \in BOOLEAN
    BY <1>4 DEF Dispatch
  <2>5. UNCHANGED <<inUse, connectedOnce, bConnected, held, sending, timer, ackAge,
                    dns, tcpvars>>
    BY <1>4 DEF Dispatch
  <2> QED
    BY <2>1, <2>2, <2>3, <2>4, <2>5 DEF TypeOK
<1>5. CASE Ping
  <2>1. Overwritten \in [phase : Phase, first : Packet, sent : Packet]
    BY DEF Overwritten, TypeOK, Packet
  <2>2. TcpTypeOK'
    BY <1>5, TypeTcp, WriteTyped DEF Ping, TcpTypeOK, Packet, Replies
  <2> QED
    BY <1>5, <2>1, <2>2 DEF Ping, TypeOK, TcpTypeOK
<1>6. CASE Publish
  <2>1. {"PUBACK"} \subseteq Packet /\ {} \subseteq Packet
    BY DEF Packet, Replies
  <2>2. TcpTypeOK'
    BY <1>6, <2>1, TypeTcp, WriteTyped DEF Publish, TcpTypeOK
  <2> QED
    BY <1>6, <2>2 DEF Publish, TypeOK, TcpTypeOK
<1>7. CASE Subscribe \/ Unsubscribe
  <2>1. {"SUBACK"} \subseteq Packet /\ {"UNSUBACK"} \subseteq Packet
    BY DEF Packet, Replies
  <2>2. TcpTypeOK'
    BY <1>7, <2>1, TypeTcp, WriteTyped DEF Subscribe, Unsubscribe, SendWhenRoom
  <2> QED
    BY <1>7, <2>2 DEF Subscribe, Unsubscribe, SendWhenRoom, TypeOK, TcpTypeOK
<1>8. CASE PubAck \/ PingAck \/ Disconnect
  BY <1>8 DEF PubAck, PingAck, Disconnect, AnswerWhenRoom, TypeOK
<1> QED
  BY <1>1, <1>2, <1>3, <1>4, <1>5, <1>6, <1>7, <1>8

\* The cases from MQTT_CLOSE back to MQTT_BEGIN keep the types.
LEMMA ClosingTyped ==
  ASSUME TypeOK, Close \/ Quit \/ Reconnect \/ ReconnectWaited
  PROVE  TypeOK'
<1> USE DEF flags, sending, clocks, tcpvars, State
<1>1. CASE Close
  <2>1. TcpTypeOK'
    BY <1>1, TypeTcp, DisconnectTyped DEF Close
  <2> QED
    BY <1>1, <2>1 DEF Close, TypeOK, TcpTypeOK
<1>2. CASE Quit \/ Reconnect \/ ReconnectWaited
  <2>1. CASE Quit
    BY <2>1 DEF Quit, TypeOK
  <2>2. CASE Reconnect
    BY <2>2 DEF Reconnect, TypeOK
  <2>3. CASE ReconnectWaited
    BY <2>3 DEF ReconnectWaited, TypeOK
  <2> QED
    BY <1>2, <2>1, <2>2, <2>3
<1> QED
  BY <1>1, <1>2

\* The tick timer, the other DNS users, the broker and the stack keep the types.
LEMMA EnvironmentTyped ==
  ASSUME TypeOK, Environment
  PROVE  TypeOK'
<1> USE DEF flags, sending, clocks, tcpvars
<1>1. CASE Tick
  BY <1>1 DEF Tick, Older, TypeOK
<1>2. CASE OtherTakesDns \/ OtherFreesDns
  BY <1>2 DEF OtherTakesDns, OtherFreesDns, TypeOK
<1>3. CASE BrokerSpeaks
  <2>1. PICK p \in Unsolicited : inbound' = Append(inbound, p)
    BY <1>3 DEF BrokerSpeaks
  <2>2. inbound' \in Seq(Packet)
    BY <2>1, MqttAssumption DEF TypeOK, Packet
  <2> QED
    BY <1>3, <2>2 DEF BrokerSpeaks, TypeOK
<1>4. CASE Stack
  <2>1. TcpTypeOK'
    BY <1>4, TypeTcp, StackTyped DEF Stack
  <2> QED
    BY <1>4, <2>1 DEF Stack, TypeOK, TcpTypeOK
<1> QED
  BY <1>1, <1>2, <1>3, <1>4 DEF Environment

\* Every step of the system keeps the types.
LEMMA NextTyped == TypeOK /\ [Next]_vars => TypeOK'
<1> SUFFICES ASSUME TypeOK, [Next]_vars PROVE TypeOK'
  OBVIOUS
<1>1. CASE BeginUsage \/ Enqueue \/ EndUsage
  BY <1>1, ApiTyped
<1>2. CASE MQTTTask
  BY <1>2, ConnectingTyped, SessionTyped, ClosingTyped
  DEF MQTTTask, OwnSteps, AnsweredSteps, ResolveTimesOut
<1>3. CASE Environment
  BY <1>3, EnvironmentTyped
<1>4. CASE UNCHANGED vars
  BY <1>4 DEF vars, flags, sending, clocks, tcpvars, TypeOK
<1> QED
  BY <1>1, <1>2, <1>3, <1>4 DEF Next

(***************************************************************************)
(* Every variable of the client, its ring's cursors included, stays within *)
(* its type, whatever the application, the broker and the network do.      *)
(***************************************************************************)
THEOREM TypeCorrect == Spec => []TypeOK
<1>1. Init => TypeOK
  BY InitTyped
<1>2. TypeOK /\ [Next]_vars => TypeOK'
  BY NextTyped
<1> QED
  BY <1>1, <1>2, PTL DEF Spec

-----------------------------------------------------------------------------
(***************************************************************************)
(* The safety invariants.  ResourcesMatchState and SessionMatchesState     *)
(* need each other: MQTT_CONNECT is safe because no path into name         *)
(* resolution has a session or ConnectedOnce set, and a socket that is     *)
(* held is the one the flags speak of.  What the ring holds before the     *)
(* broker's answer follows from the session flag.  An application that     *)
(* begins again while the machine reconnects loses the socket or the DNS   *)
(* module it was about to use, but neither the session nor the queue.      *)
(***************************************************************************)
ResourcesIfBegunOnce == BeginsAgain \/ ResourcesMatchState

IInv ==
  /\ TypeOK
  /\ ResourcesIfBegunOnce
  /\ SessionMatchesState
  /\ NothingQueuedBeforeSession

\* The inductive invariant holds after reset.
LEMMA InitInvariant == Init => IInv
<1> SUFFICES ASSUME Init PROVE IInv
  OBVIOUS
<1>1. st = "HOME" /\ held = FALSE /\ bConnected = FALSE /\ connectedOnce = FALSE
      /\ dns = "free" /\ tcp = "closed"
  BY DEF Init, TcpInit
<1> QED
  BY <1>1, InitTyped
  DEF IInv, ResourcesIfBegunOnce, ResourcesMatchState, SessionMatchesState,
      NothingQueuedBeforeSession, HoldsSocket, SessionStates, AwaitsRoom

\* What the invariant says beyond types.
Agreement == ResourcesIfBegunOnce /\ SessionMatchesState /\ NothingQueuedBeforeSession

\* The API functions, called at any moment, keep the agreement.
LEMMA ApiKeeps ==
  ASSUME IInv, BeginUsage \/ Enqueue \/ EndUsage
  PROVE  Agreement'
<1> USE DEF IInv, Agreement, ResourcesIfBegunOnce, ResourcesMatchState, SessionMatchesState,
            NothingQueuedBeforeSession, flags, sending, clocks, tcpvars,
            HoldsSocket, SessionStates, AwaitsRoom
<1>1. CASE BeginUsage
  BY <1>1 DEF BeginUsage
<1>2. CASE Enqueue
  BY <1>2 DEF Enqueue
<1>3. CASE EndUsage
  <2>1. CASE bConnected
    BY <1>3, <2>1 DEF EndUsage
  <2>2. CASE ~bConnected
    <3>1. ~BeginsAgain => tcp' \in {"closed", "finishing"}
      BY <1>3, <2>2, DisconnectTyped, TypeTcp DEF EndUsage
    <3>2. st' = "HOME" /\ held' = FALSE /\ bConnected' = bConnected
          /\ dns' = (IF st = "NAME_RESOLVE" THEN "free" ELSE dns)
      BY <1>3, <2>2 DEF EndUsage
    <3> QED
      BY <2>2, <3>1, <3>2
  <2> QED
    BY <2>1, <2>2
<1> QED
  BY <1>1, <1>2, <1>3

\* Opening the socket, or failing to, keeps the agreement.
LEMMA OpenSocketKeeps ==
  ASSUME IInv, OpenSocket, st \in {"NAME_RESOLVE", "OBTAIN_SOCKET"}
  PROVE  \/ held' = TRUE /\ st' = "SOCKET_OBTAINED"
         \/ held' = FALSE /\ tcp' = tcp /\ st' = "OBTAIN_SOCKET"
  BY DEF OpenSocket, IInv, SessionMatchesState, tcpvars

\* The cases from MQTT_BEGIN to MQTT_CONNECT_ACK keep the agreement.
LEMMA ConnectingKeeps ==
  ASSUME IInv,
         \/ Begin \/ Resolved \/ ResolvedToNothing \/ ObtainSocket
         \/ SocketConnected \/ SocketGivenUp \/ Connect
         \/ AwaitConnack \/ Connack \/ ConnackPending
  PROVE  Agreement'
<1> USE DEF IInv, Agreement, ResourcesIfBegunOnce, ResourcesMatchState, SessionMatchesState,
            NothingQueuedBeforeSession, flags, sending, clocks, tcpvars,
            HoldsSocket, SessionStates, AwaitsRoom
<1>1. CASE Begin
  <2>1. IsEmptyRing(ring')
    BY <1>1, SMT DEF Begin, Clear, IsEmptyRing, TypeOK, RingOf
  <2> QED
    BY <1>1, <2>1 DEF Begin
<1>2. CASE Resolved
  <2>1. \/ held' = TRUE /\ st' = "SOCKET_OBTAINED"
        \/ held' = FALSE /\ tcp' = tcp /\ st' = "OBTAIN_SOCKET"
    BY <1>2, OpenSocketKeeps DEF Resolved
  <2>2. UNCHANGED <<bConnected, connectedOnce, ring>> /\ dns' # "mqtt"
    BY <1>2 DEF Resolved
  <2> QED
    BY <1>2, <2>1, <2>2 DEF Resolved, TypeOK
<1>3. CASE ResolvedToNothing
  BY <1>3 DEF ResolvedToNothing
<1>4. CASE ObtainSocket
  <2>1. \/ held' = TRUE /\ st' = "SOCKET_OBTAINED"
        \/ held' = FALSE /\ tcp' = tcp /\ st' = "OBTAIN_SOCKET"
    BY <1>4, OpenSocketKeeps DEF ObtainSocket
  <2>2. UNCHANGED <<bConnected, connectedOnce, ring, dns>>
    BY <1>4 DEF ObtainSocket
  <2> QED
    BY <1>4, <2>1, <2>2 DEF ObtainSocket, TypeOK
<1>5. CASE SocketConnected
  BY <1>5 DEF SocketConnected
<1>6. CASE SocketGivenUp
  BY <1>6 DEF SocketGivenUp
<1>7. CASE Connect
  BY <1>7 DEF Connect, Write
<1>8. CASE AwaitConnack
  BY <1>8 DEF AwaitConnack
<1>9. CASE Connack
  BY <1>9 DEF Connack, TypeOK
<1>10. CASE ConnackPending
  BY <1>10 DEF ConnackPending
<1> QED
  BY <1>1, <1>2, <1>3, <1>4, <1>5, <1>6, <1>7, <1>8, <1>9, <1>10

\* MQTT_IDLE and the cases that send keep the agreement.
LEMMA SessionKeeps ==
  ASSUME IInv,
         \/ IdleReset \/ PingTimesOut \/ PingFallsDue \/ AckTimesOut
         \/ TakeMessage \/ IdleReads \/ Dispatch \/ Ping \/ Publish
         \/ Subscribe \/ Unsubscribe \/ PubAck \/ PingAck \/ Disconnect
  PROVE  Agreement'
<1> USE DEF IInv, Agreement, ResourcesIfBegunOnce, ResourcesMatchState, SessionMatchesState,
            NothingQueuedBeforeSession, flags, sending, clocks, tcpvars,
            HoldsSocket, SessionStates, AwaitsRoom
<1>1. CASE IdleReset
  BY <1>1 DEF IdleReset
<1>2. CASE PingTimesOut
  BY <1>2 DEF PingTimesOut, Running
<1>3. CASE PingFallsDue
  BY <1>3 DEF PingFallsDue, Running
<1>4. CASE AckTimesOut
  BY <1>4 DEF AckTimesOut, Running
<1>5. CASE TakeMessage
  <2>1. Front(ring).kind \in {"publish", "subscribe", "unsubscribe"}
    BY TxRingTyped, MqttAssumption DEF Message
  <2>2. st' \in {"PUBLISH", "SUBSCRIBE", "UNSUBSCRIBE"}
    BY <1>5, <2>1 DEF TakeMessage, StateFor
  <2>3. st = "IDLE" /\ bConnected
    BY <1>5 DEF TakeMessage, Quiet, Running
  <2>4. UNCHANGED <<connectedOnce, bConnected, held, dns, tcp>>
    BY <1>5 DEF TakeMessage
  <2> QED
    BY <2>2, <2>3, <2>4
<1>6. CASE IdleReads
  BY <1>6 DEF IdleReads, Quiet, Running
<1>7. CASE Dispatch
  <2>1. st = "IDLE" /\ bConnected /\ st' \in {"PUBACK", "PING_ACK", "IDLE"}
    BY <1>7 DEF Dispatch, Quiet, Running
  <2>2. UNCHANGED <<connectedOnce, bConnected, held, dns, tcp>>
    BY <1>7 DEF Dispatch
  <2> QED
    BY <2>1, <2>2
<1>8. CASE Ping
  BY <1>8 DEF Ping, Write
<1>9. CASE Publish
  BY <1>9 DEF Publish, Write
<1>10. CASE Subscribe \/ Unsubscribe
  BY <1>10 DEF Subscribe, Unsubscribe, SendWhenRoom, Write
<1>11. CASE PubAck \/ PingAck \/ Disconnect
  BY <1>11 DEF PubAck, PingAck, Disconnect, AnswerWhenRoom
<1> QED
  BY <1>1, <1>2, <1>3, <1>4, <1>5, <1>6, <1>7, <1>8, <1>9, <1>10, <1>11

\* The cases from MQTT_CLOSE back to MQTT_BEGIN keep the agreement.
LEMMA ClosingKeeps ==
  ASSUME IInv, Close \/ Quit \/ Reconnect \/ ReconnectWaited
  PROVE  Agreement'
<1> USE DEF IInv, Agreement, ResourcesIfBegunOnce, ResourcesMatchState, SessionMatchesState,
            NothingQueuedBeforeSession, flags, sending, clocks, tcpvars,
            HoldsSocket, SessionStates, AwaitsRoom
<1>1. CASE Close
  BY <1>1, TypeTcp, DisconnectTyped DEF Close
<1>2. CASE Quit
  BY <1>2 DEF Quit
<1>3. CASE Reconnect
  BY <1>3 DEF Reconnect
<1>4. CASE ReconnectWaited
  BY <1>4 DEF ReconnectWaited
<1> QED
  BY <1>1, <1>2, <1>3, <1>4

\* What happens outside MQTTTask keeps the agreement.
LEMMA EnvironmentKeeps ==
  ASSUME IInv, Environment
  PROVE  Agreement'
<1> USE DEF IInv, Agreement, ResourcesIfBegunOnce, ResourcesMatchState, SessionMatchesState,
            NothingQueuedBeforeSession, flags, sending, clocks, tcpvars
<1>1. CASE Tick
  BY <1>1 DEF Tick
<1>2. CASE OtherTakesDns
  BY <1>2 DEF OtherTakesDns
<1>3. CASE OtherFreesDns
  BY <1>3 DEF OtherFreesDns
<1>4. CASE BrokerSpeaks
  BY <1>4 DEF BrokerSpeaks
<1>5. CASE Stack
  <2>1. tcp \in {"closed", "finishing"} => tcp' \in {"closed", "finishing"}
    BY <1>5 DEF Stack, StackStep, HandshakeDone, RemoteFin, GiveUpLink,
                KeepAliveFails, RemoteReset, FinishClosing, CloseSocket
  <2> QED
    BY <1>5, <2>1 DEF Stack
<1> QED
  BY <1>1, <1>2, <1>3, <1>4, <1>5 DEF Environment

\* Every step of the system keeps the inductive invariant.
LEMMA NextInvariant == IInv /\ [Next]_vars => IInv'
<1> SUFFICES ASSUME IInv, [Next]_vars PROVE IInv'
  OBVIOUS
<1>1. TypeOK'
  BY NextTyped DEF IInv
<1>2. CASE BeginUsage \/ Enqueue \/ EndUsage
  BY <1>1, <1>2, ApiKeeps DEF IInv, Agreement
<1>3. CASE MQTTTask
  <2>1. Agreement'
    BY <1>3, ConnectingKeeps, SessionKeeps, ClosingKeeps
    DEF MQTTTask, OwnSteps, AnsweredSteps, ResolveTimesOut
  <2> QED
    BY <1>1, <2>1 DEF IInv, Agreement
<1>4. CASE Environment
  BY <1>1, <1>4, EnvironmentKeeps DEF IInv, Agreement
<1>5. CASE UNCHANGED vars
  BY <1>1, <1>5 DEF vars, flags, sending, clocks, tcpvars, IInv,
              ResourcesIfBegunOnce, ResourcesMatchState, SessionMatchesState,
              NothingQueuedBeforeSession
<1> QED
  BY <1>1, <1>2, <1>3, <1>4, <1>5 DEF Next, IInv, Agreement

\* The client's resources, its session flag and its queue agree with the state
\* of its machine at every moment.
THEOREM Invariant == Spec => []IInv
<1>1. Init => IInv
  BY InitInvariant
<1>2. IInv /\ [Next]_vars => IInv'
  BY NextInvariant
<1> QED
  BY <1>1, <1>2, PTL DEF Spec

(***************************************************************************)
(* MQTTTask neither leaks nor reuses the client socket or the DNS module,  *)
(* for an application that, like the firmware, calls MQTTBeginUsage only   *)
(* with the machine at rest.                                               *)
(***************************************************************************)
THEOREM ResourcesAlwaysMatch ==
  ASSUME BeginsAgain = FALSE
  PROVE  Spec => []ResourcesMatchState
<1>1. IInv => ResourcesMatchState
  BY DEF IInv, ResourcesIfBegunOnce
<1> QED
  BY <1>1, Invariant, PTL

(***************************************************************************)
(* The session flag and the machine's state never part, so MQTT_CONNECT    *)
(* is never entered in a way it has no exit from.                          *)
(***************************************************************************)
THEOREM SessionAlwaysMatches == Spec => []SessionMatchesState
<1>1. IInv => SessionMatchesState
  BY DEF IInv
<1> QED
  BY <1>1, Invariant, PTL

-----------------------------------------------------------------------------
(***************************************************************************)
(* The refinement.  Offer is MQTTPutMessageInRingBuffer, TakeUp is the     *)
(* case of MQTT_IDLE that reads the ring, GoOnline is a CONNACK that       *)
(* accepts us and GoOffline is MQTT_QUIT, or an application that begins    *)
(* again; all else is a stuttering step.                                   *)
(***************************************************************************)
LEMMA OtherStepsStutter ==
  ASSUME IInv, [Next]_vars,
         ~Enqueue, ~TakeMessage, ~Connack, ~Quit, ~Begin, ~BeginUsage
  PROVE  UNCHANGED <<bConnected, ring, current>>
<1> USE DEF flags, sending
<1>1. CASE EndUsage
  BY <1>1 DEF EndUsage
<1>2. CASE Resolved \/ ResolvedToNothing \/ ObtainSocket
  BY <1>2 DEF Resolved, ResolvedToNothing, ObtainSocket
<1>3. CASE SocketConnected \/ SocketGivenUp \/ Connect \/ AwaitConnack
           \/ ConnackPending
  BY <1>3 DEF SocketConnected, SocketGivenUp, Connect, AwaitConnack, ConnackPending
<1>4. CASE IdleReset \/ PingTimesOut \/ PingFallsDue \/ AckTimesOut
  BY <1>4 DEF IdleReset, PingTimesOut, PingFallsDue, AckTimesOut
<1>5. CASE IdleReads \/ Dispatch
  BY <1>5 DEF IdleReads, Dispatch
<1>6. CASE Ping \/ Publish \/ Subscribe \/ Unsubscribe
  BY <1>6 DEF Ping, Publish, Subscribe, Unsubscribe, SendWhenRoom
<1>7. CASE PubAck \/ PingAck \/ Disconnect
  BY <1>7 DEF PubAck, PingAck, Disconnect, AnswerWhenRoom
<1>8. CASE Close \/ Reconnect \/ ReconnectWaited
  BY <1>8 DEF Close, Reconnect, ReconnectWaited
<1>9. CASE Environment
  BY <1>9 DEF Environment, Tick, OtherTakesDns, OtherFreesDns, BrokerSpeaks, Stack
<1>10. CASE UNCHANGED vars
  BY <1>10 DEF vars
<1> QED
  BY <1>1, <1>2, <1>3, <1>4, <1>5, <1>6, <1>7, <1>8, <1>9, <1>10
  DEF Next, MQTTTask, OwnSteps, AnsweredSteps, ResolveTimesOut

\* Every step of the client is a step of the session, or none.
LEMMA StepRefines ==
  ASSUME IInv, IInv', [Next]_vars
  PROVE  [Session!SNext]_(Session!svars)
<1> DEFINE queue == IF bConnected THEN Contents(ring) ELSE << >>
<1> USE DEF IInv
<1>0. ring \in RingOf(Message) /\ ring' \in RingOf(Message)
  BY DEF TypeOK
<1>1. CASE Enqueue
  <2>1. PICK m \in Message : ring' = Put(ring, m)
    BY <1>1 DEF Enqueue
  <2>2. bConnected /\ bConnected' /\ current' = current
    BY <1>1 DEF Enqueue, flags
  <2>3. Contents(ring') = IF Len(Contents(ring)) = RingSize - 1 THEN << >>
                          ELSE Append(Contents(ring), m)
    BY <1>0, <2>1, PutAppends
  <2>4. Session!Offer(m)
    BY <2>2, <2>3 DEF Session!Offer, Enqueue
  <2> QED
    BY <2>4 DEF Session!SNext
<1>2. CASE TakeMessage
  <2>1. bConnected /\ bConnected' = bConnected /\ ~IsEmptyRing(ring)
    BY <1>2 DEF TakeMessage, Quiet, Running, MaySend
  <2>2. current' = Front(ring) /\ ring' = Take(ring)
    BY <1>2 DEF TakeMessage
  <2>3. /\ Contents(ring) # << >> /\ current' = Head(Contents(ring))
        /\ Contents(ring') = Tail(Contents(ring))
    BY <1>0, <2>1, <2>2, TakeRemovesHead
  <2>4. Session!TakeUp
    BY <2>1, <2>3 DEF Session!TakeUp
  <2> QED
    BY <2>4 DEF Session!SNext
<1>3. CASE Connack
  <2>1. ~bConnected /\ IsEmptyRing(ring)
    BY <1>3 DEF Connack, SessionMatchesState, NothingQueuedBeforeSession,
                SessionStates, AwaitsRoom
  <2>2. ring' = ring /\ current' = current /\ bConnected' \in BOOLEAN
    BY <1>3 DEF Connack, sending, TypeOK
  <2>3. Contents(ring') = << >>
    BY <1>0, <2>1, <2>2, ClearEmpties
  <2>4. CASE bConnected'
    <3>1. Session!GoOnline
      BY <2>1, <2>2, <2>3, <2>4 DEF Session!GoOnline, TypeOK
    <3> QED
      BY <3>1 DEF Session!SNext
  <2>5. CASE ~bConnected'
    BY <2>1, <2>2, <2>5 DEF Session!svars, TypeOK
  <2> QED
    BY <2>4, <2>5
<1>4. CASE Quit \/ BeginUsage
  <2>1. bConnected' = FALSE /\ current' = current
    BY <1>4 DEF Quit, BeginUsage, sending
  <2>2. CASE bConnected
    <3>1. Session!GoOffline
      BY <2>1, <2>2 DEF Session!GoOffline
    <3> QED
      BY <3>1 DEF Session!SNext
  <2>3. CASE ~bConnected
    BY <2>1, <2>3 DEF Session!svars, TypeOK
  <2> QED
    BY <2>2, <2>3
<1>5. CASE Begin
  <2>1. ~bConnected /\ ~bConnected' /\ current' = current
    BY <1>5 DEF Begin, flags, SessionMatchesState, SessionStates, AwaitsRoom
  <2> QED
    BY <2>1 DEF Session!svars, TypeOK
<1>6. CASE ~Enqueue /\ ~TakeMessage /\ ~Connack /\ ~Quit /\ ~Begin /\ ~BeginUsage
  <2>1. UNCHANGED <<bConnected, ring, current>>
    BY <1>6, OtherStepsStutter
  <2> QED
    BY <2>1 DEF Session!svars
<1> QED
  BY <1>1, <1>2, <1>3, <1>4, <1>5, <1>6

(***************************************************************************)
(* The client keeps the session's promise: first in, first out, each       *)
(* message once, and only in the session it was queued in.                 *)
(***************************************************************************)
THEOREM Refinement == Spec => ImplementsSession
<1>1. Init => Session!SInit
  BY DEF Init, Session!SInit
<1>2. IInv /\ IInv' /\ [Next]_vars => [Session!SNext]_(Session!svars)
  BY StepRefines
<1> QED
  BY <1>1, <1>2, Invariant, PTL DEF Spec, ImplementsSession, Session!SSpec

-----------------------------------------------------------------------------
(***************************************************************************)
(* The reader.  What a connection has brought before CONNECT is nothing,   *)
(* and until the answer to it is read nothing but that answer: a closed    *)
(* socket keeps no byte for the next connection on it.  A broker that      *)
(* speaks unasked only in a session never leaves the reader BEHIND.        *)
(***************************************************************************)
Connacks == {"CONNACK_OK", "CONNACK_REJ"}
Fresh ==
  /\ tcp \in {"closed", "opening", "reserved"} => inbound = << >>
  /\ st \in {"SOCKET_OBTAINED", "CONNECT"} => inbound = << >>
  /\ st = "CONNECT_ACK" => \A k \in 1 .. Len(inbound) : inbound[k] \in Connacks
  /\ st = "CONNECT_ACK" /\ rx.phase # "INIT" =>
       rx.sent \in Connacks /\ rx.first \in Connacks
  /\ rx.phase # "BEHIND"

\* The connection's packets before a session, while the task waits.
Early(q) ==
  /\ tcp' \in {"closed", "opening", "reserved"} => q = << >>
  /\ st \in {"SOCKET_OBTAINED", "CONNECT"} => q = << >>
  /\ st = "CONNECT_ACK" => \A k \in 1 .. Len(q) : q[k] \in Connacks

\* The stack drops packets, and keeps none of a closed connection.
LEMMA StackKeepsFresh == ASSUME IInv, Fresh, StackStep PROVE Early(inbound')
<1> USE DEF Fresh, Early
<1>1. CASE HandshakeDone \/ GiveUpLink
  BY <1>1 DEF HandshakeDone, GiveUpLink
<1>2. CASE KeepAliveFails \/ RemoteReset \/ FinishClosing
  BY <1>2 DEF KeepAliveFails, RemoteReset, FinishClosing, CloseSocket
<1>3. CASE RemoteFin
  <2>1. PICK n \in 0 .. Len(inbound) : inbound' = SubSeq(inbound, 1, n)
    BY <1>3 DEF RemoteFin
  <2>2. inbound \in Seq(Packet) /\ tcp' = "closeWait"
    BY <1>3 DEF RemoteFin, IInv, TypeOK
  <2>3. Len(inbound') = n /\ \A k \in 1 .. n : inbound'[k] = inbound[k]
    BY <2>1, <2>2
  <2>4. inbound = << >> => inbound' = << >>
    BY <2>1, <2>2
  <2> QED
    BY <2>2, <2>3, <2>4
<1> QED
  BY <1>1, <1>2, <1>3 DEF StackStep

\* TCPDisconnect forgets what has come.
LEMMA DisconnectKeepsFresh ==
  ASSUME Fresh, TCPDisconnect, rx' = rx,
         st' \notin {"SOCKET_OBTAINED", "CONNECT", "CONNECT_ACK"}
  PROVE  Fresh'
BY DEF Fresh, TCPDisconnect, CloseSocket

\* MQTTReadPacket while the task waits for CONNACK.
LEMMA AwaitKeepsFresh == ASSUME IInv, Fresh, AwaitConnack PROVE Fresh'
<1>1. inbound \in Seq(Packet) /\ rx \in [phase : Phase, first : Packet, sent : Packet]
      /\ st = "CONNECT_ACK" /\ st' = "CONNECT_ACK" /\ tcp' = tcp
  BY DEF IInv, TypeOK, AwaitConnack
<1>2. CASE rx.phase = "INIT"
  <2>1. /\ inbound # << >> /\ inbound' = Tail(inbound)
        /\ rx'.sent = Head(inbound) /\ rx'.first = Head(inbound)
        /\ rx'.phase = "READ_LEN"
    BY <1>2 DEF AwaitConnack, ReadMore
  <2>2. Head(inbound) \in Connacks
    BY <1>1, <2>1 DEF Fresh
  <2>3. \A k \in 1 .. Len(inbound') : inbound'[k] \in Connacks
    BY <1>1, <2>1 DEF Fresh
  <2> QED
    BY <1>1, <2>1, <2>2, <2>3 DEF Fresh
<1>3. CASE rx.phase # "INIT"
  <2>1. /\ inbound' = inbound /\ rx'.sent = rx.sent /\ rx'.first = rx.first
        /\ rx'.phase # "BEHIND"
    BY <1>1, <1>3 DEF AwaitConnack, ReadMore, Fresh
  <2> QED
    BY <1>1, <1>3, <2>1 DEF Fresh
<1> QED
  BY <1>2, <1>3

\* A step that neither moves the machine into these states nor adds a packet
\* to a closed socket.
LEMMA OthersKeepFresh ==
  ASSUME IInv, Fresh,
         \/ UNCHANGED <<tcp, inbound, st, rx>>
         \/ /\ st' \notin {"SOCKET_OBTAINED", "CONNECT", "CONNECT_ACK"}
            /\ tcp' = tcp /\ (rx' = rx \/ rx'.phase # "BEHIND")
            /\ inbound' = inbound \/ tcp \notin {"closed", "opening", "reserved"}
  PROVE  Fresh'
BY DEF Fresh

\* The socket's opening, its connection, and MQTT_CONNECT.
LEMMA ConnectKeepsFresh ==
  ASSUME IInv, Fresh, Resolved \/ ObtainSocket \/ SocketConnected \/ Connect
  PROVE  Fresh'
<1> USE DEF Fresh
<1>1. CASE Resolved \/ ObtainSocket
  <2>1. OpenSocket /\ rx' = rx
    BY <1>1 DEF Resolved, ObtainSocket
  <2> QED
    BY <2>1 DEF OpenSocket, TCPOpen, tcpvars
<1>2. CASE SocketConnected
  BY <1>2 DEF SocketConnected, IsConnected, tcpvars
<1>3. CASE Connect
  <2>1. st' = "CONNECT_ACK" /\ rx' = NothingRead /\ inbound = << >> /\ tcp' = tcp
    BY <1>3 DEF Connect, Write, tcpvars
  <2>2. \/ inbound' = inbound
        \/ tcp = "established" /\ \E a \in Connacks : inbound' = Append(inbound, a)
    BY <1>3 DEF Connect, Write, tcpvars, Connacks
  <2>3. CASE inbound' = inbound
    BY <2>1, <2>3 DEF NothingRead
  <2>4. CASE tcp = "established" /\ \E a \in Connacks : inbound' = Append(inbound, a)
    <3>1. PICK a \in Connacks : inbound' = <<a>>
      BY <2>1, <2>4
    <3>2. Len(inbound') = 1 /\ inbound'[1] = a
      BY <3>1
    <3> QED
      BY <2>1, <2>4, <3>2 DEF NothingRead
  <2> QED
    BY <2>2, <2>3, <2>4
<1> QED
  BY <1>1, <1>2, <1>3

\* The packet MQTT_CONNECT_ACK is handed is an answer to its CONNECT.
LEMMA ConnackAnswers ==
  ASSUME Fresh, Connack
  PROVE  rx' = NothingRead /\ st' = "IDLE" /\ inbound' = inbound
<1>1. rx.first \in Connacks
  BY DEF Fresh, Connack
<1> QED
  BY <1>1 DEF Connack, Connacks

\* Every step keeps the reader fresh.
LEMMA NextFresh == ASSUME IInv, Fresh, [Next]_vars PROVE Fresh'
<1>1. CASE UNCHANGED vars
  BY <1>1, OthersKeepFresh DEF vars, tcpvars
<1>2. CASE BeginUsage \/ Enqueue
  BY <1>2, OthersKeepFresh DEF BeginUsage, Enqueue, tcpvars
<1>3. CASE EndUsage
  <2>1. st' \in {"DISCONNECT", "HOME"} /\ (TCPDisconnect \/ UNCHANGED tcpvars) /\ rx' = rx
    BY <1>3 DEF EndUsage
  <2> QED
    BY <2>1, DisconnectKeepsFresh, OthersKeepFresh DEF tcpvars
<1>4. CASE Environment
  <2>1. CASE Stack
    <3>1. Early(inbound') /\ UNCHANGED <<st, rx>>
      BY <2>1, StackKeepsFresh DEF Stack
    <3> QED
      BY <3>1 DEF Early, Fresh
  <2>2. CASE BrokerSpeaks
    <3>1. st \notin {"SOCKET_OBTAINED", "CONNECT", "CONNECT_ACK"}
      BY <2>2 DEF BrokerSpeaks, IInv, SessionMatchesState, SessionStates, AwaitsRoom
    <3> QED
      BY <2>2, <3>1, OthersKeepFresh DEF BrokerSpeaks
  <2> QED
    BY <1>4, <2>1, <2>2, OthersKeepFresh DEF Environment, Tick, OtherTakesDns, OtherFreesDns, tcpvars
<1>5. CASE Begin \/ ResolvedToNothing \/ SocketGivenUp \/ IdleReset \/ PingTimesOut \/ PingFallsDue
           \/ AckTimesOut \/ Quit \/ Reconnect \/ ReconnectWaited
  BY <1>5, OthersKeepFresh DEF Begin, ResolvedToNothing, SocketGivenUp, IdleReset, PingTimesOut,
     PingFallsDue, AckTimesOut, Quit, Reconnect, ReconnectWaited, Running, tcpvars
<1>6. CASE Close
  BY <1>6, DisconnectKeepsFresh DEF Close
<1>7. CASE AwaitConnack
  BY <1>7, AwaitKeepsFresh
<1>8. CASE Connack
  <2>1. rx' = NothingRead /\ st' = "IDLE" /\ UNCHANGED <<tcp, inbound>>
    BY <1>8, ConnackAnswers DEF Connack
  <2> QED
    BY <2>1, OthersKeepFresh DEF NothingRead
<1>9. CASE ConnackPending
  BY <1>9, OthersKeepFresh DEF ConnackPending, tcpvars
<1>10. CASE TakeMessage
  <2>1. Front(ring).kind \in {"publish", "subscribe", "unsubscribe"}
    BY TxRingTyped, MqttAssumption DEF Message, IInv
  <2>2. st' \in {"PUBLISH", "SUBSCRIBE", "UNSUBSCRIBE"}
    BY <1>10, <2>1 DEF TakeMessage, StateFor
  <2> QED
    BY <1>10, <2>2, OthersKeepFresh DEF TakeMessage, tcpvars
<1>11. CASE IdleReads
  <2>1. st' = "IDLE" /\ tcp' = tcp /\ (inbound' = inbound \/ inbound # << >>)
    BY <1>11 DEF IdleReads, Quiet, Running, ReadMore
  <2>2. rx'.phase # "BEHIND"
    BY <1>11 DEF IdleReads, ReadMore, IInv, TypeOK
  <2> QED
    BY <2>1, <2>2 DEF Fresh
<1>12. CASE Dispatch
  BY <1>12, OthersKeepFresh DEF Dispatch, NothingRead, tcpvars
<1>13. CASE Ping \/ Publish \/ Subscribe \/ Unsubscribe \/ PubAck \/ PingAck \/ Disconnect
  <2>1. st' \in {"IDLE", "CLOSE"} /\ tcp' = tcp
        /\ (inbound' = inbound \/ tcp = "established")
    BY <1>13 DEF Ping, Publish, Subscribe, Unsubscribe, SendWhenRoom, PubAck, PingAck, Disconnect,
       AnswerWhenRoom, Write, tcpvars
  <2>2. rx'.phase = rx.phase
    BY <1>13 DEF Ping, Publish, Subscribe, Unsubscribe, SendWhenRoom, PubAck, PingAck, Disconnect,
       AnswerWhenRoom, Overwritten, IInv, TypeOK
  <2> QED
    BY <2>1, <2>2, OthersKeepFresh DEF Fresh
<1> QED
  BY <1>1, <1>2, <1>3, <1>4, <1>5, <1>6, <1>7, <1>8, <1>9, <1>10, <1>11, <1>12, <1>13,
     ConnectKeepsFresh DEF Next, MQTTTask, OwnSteps, AnsweredSteps, ResolveTimesOut

(***************************************************************************)
(* What MQTT_CONNECT_ACK reads is the answer to its CONNECT, never the     *)
(* rest of a packet of an earlier connection.                              *)
(***************************************************************************)
THEOREM ReaderAlwaysStartsAfresh == Spec => []ReaderStartsAfresh
<1>1. Init => Fresh
  BY DEF Init, TcpInit, Fresh, NothingRead
<1>2. IInv /\ Fresh /\ [Next]_vars => Fresh'
  BY NextFresh
<1>3. Fresh => ReaderStartsAfresh
  BY DEF Fresh, ReaderStartsAfresh, Connacks
<1> QED
  BY <1>1, <1>2, <1>3, Invariant, PTL DEF Spec

-----------------------------------------------------------------------------
(***************************************************************************)
(* Acknowledgements, when the application only publishes.  A PUBACK is     *)
(* owed for one message at a time: the machine takes the next one up only  *)
(* when WaitingAck is clear, and then none is under way; nothing but a     *)
(* PUBACK read in full clears the flag on a connection that goes on.       *)
(***************************************************************************)
Acks == {"PUBACK", "SUBACK", "UNSUBACK"}
Owed == UnderWay("PUBACK")
AckInv ==
  /\ OneAckAtATime
  /\ st = "PUBLISH" => Owed = {} /\ (QOS > 0 => waitingAck)
  /\ st \notin {"SUBSCRIBE", "UNSUBSCRIBE"}
  /\ \A k \in 1 .. Len(inbound) : inbound[k] \notin Acks \ {"PUBACK"}
  /\ rx.phase # "INIT" /\ rx.first \in Acks => rx.sent = "PUBACK"

\* No place of Owed is new, no other ack is, and the reader holds nothing new.
NoNewAck ==
  /\ Owed' \subseteq Owed
  /\ \A k \in 1 .. Len(inbound') : inbound'[k] \notin Acks \ {"PUBACK"}
  /\ rx'.phase # "INIT" /\ rx'.first \in Acks => rx'.sent = "PUBACK"

\* With no new ack, the flag is all there is to see to.
LEMMA NoNewAckKeeps ==
  ASSUME AckInv, NoNewAck, st' \notin {"PUBLISH", "SUBSCRIBE", "UNSUBSCRIBE"},
         \/ st' \notin SessionStates
         \/ Owed' = {}
         \/ st \in SessionStates /\ waitingAck' = waitingAck
  PROVE  AckInv'
BY DEF AckInv, NoNewAck, OneAckAtATime, Owed

\* Packets stay where they are.
LEMMA NothingMoved ==
  ASSUME AckInv, UNCHANGED <<inbound, rx>>
  PROVE  NoNewAck /\ Owed' = Owed
BY DEF AckInv, NoNewAck, Owed, UnderWay

\* The socket loses packets from the end, or all of them.
LEMMA PacketsLost ==
  ASSUME IInv, AckInv, rx' = rx,
         inbound' = << >> \/ \E n \in 0 .. Len(inbound) : inbound' = SubSeq(inbound, 1, n)
  PROVE  NoNewAck
<1>1. inbound \in Seq(Packet)
  BY DEF IInv, TypeOK
<1>2. /\ Len(inbound') \in Nat /\ Len(inbound') <= Len(inbound)
      /\ \A k \in 1 .. Len(inbound') : inbound'[k] = inbound[k]
  <2>1. CASE inbound' = << >>
    BY <1>1, <2>1
  <2>2. CASE \E n \in 0 .. Len(inbound) : inbound' = SubSeq(inbound, 1, n)
    BY <1>1, <2>2
  <2> QED
    BY <2>1, <2>2
<1>3. \A k \in 1 .. Len(inbound') : k \in 1 .. Len(inbound)
  BY <1>1, <1>2
<1> QED
  BY <1>2, <1>3 DEF AckInv, NoNewAck, Owed, UnderWay

\* The reader is restarted: what it had in hand is gone.
LEMMA ReaderRestarted ==
  ASSUME AckInv, inbound' = inbound, rx'.phase = "INIT"
  PROVE  NoNewAck /\ 0 \notin Owed' /\ Owed' = Owed \ {0}
BY DEF AckInv, NoNewAck, Owed, UnderWay

\* The reader goes on: the packets move up one place, or stay.
LEMMA ReaderGoesOn ==
  ASSUME IInv, Fresh, AckInv, ReadMore
  PROVE  /\ \A i \in Owed' : \E j \in Owed : j = i + 1 \/ j = i
         /\ \A i, j \in Owed' : i = j
         /\ \A k \in 1 .. Len(inbound') : inbound'[k] \notin Acks \ {"PUBACK"}
         /\ rx'.phase # "INIT" /\ rx'.first \in Acks => rx'.sent = "PUBACK"
<1>1. inbound \in Seq(Packet) /\ rx \in [phase : Phase, first : Packet, sent : Packet]
  BY DEF IInv, TypeOK
<1>2. CASE rx.phase = "INIT"
  <2>1. /\ inbound # << >> /\ inbound' = Tail(inbound)
        /\ rx'.sent = Head(inbound) /\ rx'.first = Head(inbound)
    BY <1>2 DEF ReadMore
  <2>2. /\ Len(inbound) \in Nat /\ Len(inbound') = Len(inbound) - 1 /\ Len(inbound) > 0
        /\ \A k \in 1 .. Len(inbound') : inbound'[k] = inbound[k + 1]
        /\ Head(inbound) = inbound[1]
    BY <1>1, <2>1
  <2>3. /\ 1 \in 1 .. Len(inbound)
        /\ \A k \in 1 .. Len(inbound') : k \in Nat /\ k + 1 \in 1 .. Len(inbound)
    BY <2>2
  <2>4. ASSUME NEW i \in Owed'
        PROVE  i \in Nat /\ i + 1 \in Owed
    <3>1. CASE i \in 1 .. Len(inbound') /\ inbound'[i] = "PUBACK"
      BY <2>2, <2>3, <3>1 DEF Owed, UnderWay
    <3>2. CASE i = 0 /\ rx'.sent = "PUBACK"
      <4>1. 1 \in Owed
        BY <2>1, <2>2, <2>3, <3>2 DEF Owed, UnderWay
      <4> QED
        BY <3>2, <4>1
    <3> QED
      BY <3>1, <3>2 DEF Owed, UnderWay
  <2>5. \A i, j \in Owed' : i = j
    <3> SUFFICES ASSUME NEW i \in Owed', NEW j \in Owed' PROVE i = j
      OBVIOUS
    <3>1. i \in Nat /\ j \in Nat /\ i + 1 \in Owed /\ j + 1 \in Owed
      BY <2>4
    <3>2. i + 1 = j + 1
      BY <3>1 DEF AckInv, OneAckAtATime, Owed
    <3> QED
      BY <3>1, <3>2
  <2>6. \A k \in 1 .. Len(inbound) : inbound[k] \notin Acks \ {"PUBACK"}
    BY DEF AckInv
  <2> QED
    BY <2>1, <2>2, <2>3, <2>4, <2>5, <2>6
<1>3. CASE rx.phase # "INIT"
  <2>1. /\ inbound' = inbound /\ rx'.sent = rx.sent /\ rx'.first = rx.first
        /\ rx'.phase # "INIT"
    BY <1>1, <1>3 DEF ReadMore, Fresh
  <2>2. Owed' = Owed
    BY <1>3, <2>1 DEF Owed, UnderWay
  <2> QED
    BY <1>3, <2>1, <2>2 DEF AckInv, OneAckAtATime, Owed
<1> QED
  BY <1>2, <1>3

\* Before a session no ack is under way.
LEMMA NoAckBeforeSession ==
  ASSUME Fresh, st = "CONNECT_ACK"
  PROVE  Owed = {}
BY DEF Fresh, Owed, UnderWay, Connacks

\* A packet added to the connection.
LEMMA PacketAdded ==
  ASSUME IInv, AckInv, NEW a \in Packet, inbound' = Append(inbound, a), rx' = rx,
         a \notin Acks \ {"PUBACK"}
  PROVE  /\ a # "PUBACK" => NoNewAck /\ Owed' = Owed
         /\ Owed = {} => \A i, j \in Owed' : i = j
         /\ \A k \in 1 .. Len(inbound') : inbound'[k] \notin Acks \ {"PUBACK"}
<1>1. /\ Len(inbound) \in Nat /\ Len(inbound') = Len(inbound) + 1
      /\ \A k \in 1 .. Len(inbound) : inbound'[k] = inbound[k]
      /\ inbound'[Len(inbound) + 1] = a
  BY DEF IInv, TypeOK
<1>2. \A k : k \in 1 .. Len(inbound') <=> k \in 1 .. Len(inbound) \/ k = Len(inbound) + 1
  BY <1>1
<1>3. \A k \in 1 .. Len(inbound') : inbound'[k] \notin Acks \ {"PUBACK"}
  BY <1>1, <1>2 DEF AckInv
<1>4. CASE a # "PUBACK"
  <2>1. Owed' = Owed
    BY <1>1, <1>2, <1>4 DEF Owed, UnderWay
  <2> QED
    BY <1>3, <1>4, <2>1 DEF AckInv, NoNewAck, OneAckAtATime, Owed
<1>5. CASE a = "PUBACK"
  <2>1. Owed' \subseteq Owed \cup {Len(inbound) + 1}
    BY <1>1, <1>2, <1>5 DEF Owed, UnderWay
  <2> QED
    BY <1>3, <1>5, <2>1
<1> QED
  BY <1>4, <1>5

\* What Write puts on its way is one of the answers.
LEMMA WriteAdds ==
  ASSUME NEW answers, Write(answers)
  PROVE  inbound' = inbound \/ \E a \in answers : inbound' = Append(inbound, a)
BY DEF Write

\* The application takes up a message only when no ack is owed.
LEMMA TakeKeepsAcks ==
  ASSUME Kinds = {"publish"}, IInv, AckInv, TakeMessage
  PROVE  AckInv'
<1>1. st' = "PUBLISH"
  BY TxRingTyped DEF TakeMessage, StateFor, Message, IInv
<1>2. st = "IDLE" /\ ~waitingAck /\ UNCHANGED <<inbound, rx>>
  BY DEF TakeMessage, Quiet, Running, MaySend, tcpvars
<1>3. QOS > 0 => waitingAck'
  BY TxRingTyped DEF TakeMessage, Message, IInv
<1>4. Owed = {}
  BY <1>2 DEF AckInv, OneAckAtATime, Owed, SessionStates
<1>5. NoNewAck /\ Owed' = {}
  BY <1>2, <1>4, NothingMoved
<1> QED
  BY <1>1, <1>3, <1>5 DEF AckInv, NoNewAck, OneAckAtATime, Owed

\* Publishing at QoS 1 owes the one ack there may be.
LEMMA PublishKeepsAcks == ASSUME IInv, AckInv, Publish PROVE AckInv'
<1>1. /\ st = "PUBLISH" /\ st' \in {"IDLE", "CLOSE"} /\ rx' = rx
      /\ waitingAck' = waitingAck
  BY DEF Publish, flags
<1>2. Owed = {} /\ (QOS > 0 => waitingAck)
  BY <1>1 DEF AckInv
<1>3. CASE inbound' = inbound
  <2>1. NoNewAck /\ Owed' = {}
    BY <1>1, <1>2, <1>3, NothingMoved
  <2> QED
    BY <1>1, <2>1, NoNewAckKeeps
<1>4. CASE QOS > 0 /\ inbound' = Append(inbound, "PUBACK")
  <2>1. /\ \A i, j \in Owed' : i = j
        /\ \A k \in 1 .. Len(inbound') : inbound'[k] \notin Acks \ {"PUBACK"}
    BY <1>1, <1>2, <1>4, PacketAdded DEF Packet, Replies
  <2> QED
    BY <1>1, <1>2, <1>4, <2>1 DEF AckInv, OneAckAtATime, Owed
<1> QED
  BY <1>3, <1>4, WriteAdds DEF Publish, tcpvars

\* Only a PUBACK that was read clears the flag, and then it is the one owed.
LEMMA DispatchKeepsAcks == ASSUME IInv, AckInv, Dispatch PROVE AckInv'
<1>1. /\ st = "IDLE" /\ st' \in {"PUBACK", "PING_ACK", "IDLE"} /\ inbound' = inbound
      /\ rx.phase = "FINALIZE" /\ rx' = NothingRead
  BY DEF Dispatch, Quiet, Running, tcpvars
<1>2. NoNewAck /\ Owed' = Owed \ {0}
  BY <1>1, ReaderRestarted DEF NothingRead
<1>3. CASE rx.first \in Acks
  <2>1. 0 \in Owed
    BY <1>1, <1>3 DEF AckInv, Owed, UnderWay
  <2>2. Owed' = {}
    BY <1>2, <2>1 DEF AckInv, OneAckAtATime, Owed
  <2> QED
    BY <1>1, <1>2, <2>2, NoNewAckKeeps
<1>4. CASE rx.first \notin Acks
  <2>1. waitingAck' = waitingAck
    BY <1>4 DEF Dispatch, Acks, IInv, TypeOK
  <2> QED
    BY <1>1, <1>2, <2>1, NoNewAckKeeps DEF SessionStates
<1> QED
  BY <1>3, <1>4

\* A ping overwrites the type of the packet in the reader's hands.
LEMMA PingKeepsAcks == ASSUME IInv, AckInv, Ping PROVE AckInv'
<1>1. /\ st = "PING" /\ st' \in {"IDLE", "CLOSE"} /\ waitingAck' = waitingAck
      /\ rx' = Overwritten
  BY DEF Ping, flags
<1>2. rx \in [phase : Phase, first : Packet, sent : Packet]
  BY DEF IInv, TypeOK
<1>3. /\ rx'.phase = rx.phase /\ rx'.sent = rx.sent
      /\ rx.phase # "INIT" => rx'.first = "PINGREQ"
  BY <1>1, <1>2 DEF Overwritten
<1>4. Owed' \subseteq Owed
      /\ \A k \in 1 .. Len(inbound') : inbound'[k] \notin Acks \ {"PUBACK"}
  <2>1. CASE inbound' = inbound
    BY <1>3, <2>1 DEF AckInv, Owed, UnderWay
  <2>2. CASE inbound' = Append(inbound, "PINGRESP")
    <3>1. /\ Len(inbound) \in Nat /\ Len(inbound') = Len(inbound) + 1
          /\ \A k \in 1 .. Len(inbound) : inbound'[k] = inbound[k]
          /\ inbound'[Len(inbound) + 1] = "PINGRESP"
      BY <2>2 DEF IInv, TypeOK
    <3>2. \A k : k \in 1 .. Len(inbound') <=> k \in 1 .. Len(inbound) \/ k = Len(inbound) + 1
      BY <3>1
    <3> QED
      BY <1>3, <3>1, <3>2 DEF AckInv, Owed, UnderWay, Acks
  <2> QED
    BY <2>1, <2>2, WriteAdds DEF Ping, tcpvars
<1>5. NoNewAck
  BY <1>3, <1>4 DEF NoNewAck, Acks
<1> QED
  BY <1>1, <1>5, NoNewAckKeeps DEF SessionStates

\* MQTT_IDLE and the states that send, the others.
LEMMA SessionKeepsAcks ==
  ASSUME IInv, Fresh, AckInv,
         \/ IdleReset \/ PingTimesOut \/ PingFallsDue \/ AckTimesOut \/ IdleReads
         \/ Subscribe \/ Unsubscribe \/ PubAck \/ PingAck \/ Disconnect
  PROVE  AckInv'
<1>1. CASE IdleReset \/ PingTimesOut \/ AckTimesOut \/ Disconnect
  <2>1. st' = "CLOSE" /\ UNCHANGED <<inbound, rx>>
    BY <1>1 DEF IdleReset, PingTimesOut, AckTimesOut, Disconnect, AnswerWhenRoom, tcpvars
  <2>2. NoNewAck
    BY <2>1, NothingMoved
  <2> QED
    BY <2>1, <2>2, NoNewAckKeeps DEF SessionStates, AwaitsRoom
<1>2. CASE PingFallsDue \/ PubAck \/ PingAck
  <2>1. /\ st \in SessionStates /\ st' \in {"PING", "IDLE"} /\ UNCHANGED <<inbound, rx>>
        /\ waitingAck' = waitingAck
    BY <1>2 DEF PingFallsDue, PubAck, PingAck, AnswerWhenRoom, Running, tcpvars, flags,
       SessionStates, AwaitsRoom
  <2>2. NoNewAck
    BY <2>1, NothingMoved
  <2> QED
    BY <2>1, <2>2, NoNewAckKeeps
<1>3. CASE IdleReads
  <2>1. ReadMore /\ st = "IDLE" /\ st' = "IDLE" /\ waitingAck' = waitingAck
    BY <1>3 DEF IdleReads, Quiet, Running, flags
  <2>2. Owed' # {} => Owed # {}
    BY <2>1, ReaderGoesOn
  <2> QED
    BY <2>1, <2>2, ReaderGoesOn DEF AckInv, OneAckAtATime, Owed
<1>4. CASE Subscribe \/ Unsubscribe
  BY <1>4 DEF Subscribe, Unsubscribe, SendWhenRoom, AckInv
<1> QED
  BY <1>1, <1>2, <1>3, <1>4

\* The cases that make a connection, and those that end one.
LEMMA ConnectionKeepsAcks ==
  ASSUME IInv, Fresh, AckInv,
         \/ Begin \/ Resolved \/ ResolvedToNothing \/ ObtainSocket
         \/ SocketConnected \/ SocketGivenUp \/ Connect
         \/ AwaitConnack \/ Connack \/ ConnackPending
         \/ Close \/ Quit \/ Reconnect \/ ReconnectWaited
  PROVE  AckInv'
<1> USE DEF SessionStates, AwaitsRoom
<1>1. CASE \/ Begin \/ ResolvedToNothing \/ SocketConnected \/ SocketGivenUp
           \/ ConnackPending \/ Quit \/ Reconnect \/ ReconnectWaited
  <2>1. /\ UNCHANGED <<inbound, rx>>
        /\ st' \in {"BEGIN", "NAME_RESOLVE", "RECONNECT", "CONNECT", "CLOSE",
                    "CONNECT_ACK", "RECONNECT_WAIT"}
    BY <1>1 DEF Begin, ResolvedToNothing, SocketConnected, SocketGivenUp,
       ConnackPending, Quit, Reconnect, ReconnectWaited, tcpvars
  <2>2. NoNewAck
    BY <2>1, NothingMoved
  <2> QED
    BY <2>1, <2>2, NoNewAckKeeps
<1>2. CASE Resolved \/ ObtainSocket
  <2>1. /\ UNCHANGED <<inbound, rx>>
        /\ st' \in {"CLOSE", "SOCKET_OBTAINED", "OBTAIN_SOCKET"}
    BY <1>2 DEF Resolved, ObtainSocket, OpenSocket, TCPOpen, tcpvars
  <2>2. NoNewAck
    BY <2>1, NothingMoved
  <2> QED
    BY <2>1, <2>2, NoNewAckKeeps
<1>3. CASE Connect
  <2>1. /\ st = "CONNECT" /\ st' = "CONNECT_ACK" /\ rx' = NothingRead /\ inbound = << >>
    BY <1>3 DEF Connect, Fresh
  <2>2. inbound' = << >> \/ \E a \in Connacks : inbound' = <<a>>
    BY <1>3, <2>1, WriteAdds DEF Connect, tcpvars, Connacks
  <2>3. \A k \in 1 .. Len(inbound') : inbound'[k] \in Connacks
    BY <2>2
  <2>4. Owed' = {}
    BY <2>1, <2>3 DEF Owed, UnderWay, NothingRead, Connacks
  <2>5. NoNewAck
    BY <2>1, <2>3, <2>4 DEF NoNewAck, NothingRead, Connacks, Acks
  <2> QED
    BY <2>1, <2>5, NoNewAckKeeps
<1>4. CASE AwaitConnack
  <2>1. ReadMore /\ st = "CONNECT_ACK" /\ st' = "CONNECT_ACK"
    BY <1>4 DEF AwaitConnack
  <2> QED
    BY <2>1, ReaderGoesOn DEF AckInv, OneAckAtATime, Owed
<1>5. CASE Connack
  <2>1. Owed = {}
    BY <1>5, NoAckBeforeSession DEF Connack
  <2>2. /\ inbound' = inbound /\ rx'.phase = "INIT" /\ st' \in {"IDLE", "CONNECT_ACK"}
    BY <1>5, ConnackAnswers DEF NothingRead
  <2>3. NoNewAck /\ Owed' = {}
    BY <2>1, <2>2, ReaderRestarted
  <2> QED
    BY <2>2, <2>3, NoNewAckKeeps
<1>6. CASE Close
  <2>1. inbound' = << >> /\ rx' = rx /\ st' = "QUIT"
    BY <1>6 DEF Close, TCPDisconnect, CloseSocket
  <2>2. NoNewAck
    BY <2>1, PacketsLost
  <2> QED
    BY <2>1, <2>2, NoNewAckKeeps
<1> QED
  BY <1>1, <1>2, <1>3, <1>4, <1>5, <1>6

\* The API's calls and the environment.
LEMMA OutsideKeepsAcks ==
  ASSUME IInv, AckInv, BeginUsage \/ Enqueue \/ EndUsage \/ Environment
  PROVE  AckInv'
<1> USE DEF SessionStates, AwaitsRoom
<1>1. CASE BeginUsage
  <2>1. UNCHANGED <<inbound, rx>> /\ st' = "BEGIN"
    BY <1>1 DEF BeginUsage, tcpvars
  <2> QED
    BY <2>1, NothingMoved, NoNewAckKeeps
<1>2. CASE \/ Enqueue \/ Tick \/ OtherTakesDns \/ OtherFreesDns
  <2>1. UNCHANGED <<inbound, rx, st, waitingAck>>
    BY <1>2 DEF Enqueue, Tick, OtherTakesDns, OtherFreesDns, tcpvars, flags
  <2> QED
    BY <2>1 DEF AckInv, OneAckAtATime, Owed, UnderWay
<1>3. CASE EndUsage
  <2>1. CASE bConnected
    <3>1. st = "IDLE" /\ st' = "DISCONNECT" /\ UNCHANGED <<inbound, rx, waitingAck>>
      BY <1>3, <2>1 DEF EndUsage, flags, tcpvars
    <3> QED
      BY <3>1, NothingMoved, NoNewAckKeeps
  <2>2. CASE ~bConnected
    <3>1. st' = "HOME" /\ rx' = rx /\ (inbound' = inbound \/ inbound' = << >>)
      BY <1>3, <2>2 DEF EndUsage, TCPDisconnect, CloseSocket, tcpvars
    <3>2. NoNewAck
      BY <3>1, NothingMoved, PacketsLost
    <3> QED
      BY <3>1, <3>2, NoNewAckKeeps
  <2> QED
    BY <2>1, <2>2
<1>4. CASE BrokerSpeaks
  <2>1. /\ \E p \in Unsolicited : inbound' = Append(inbound, p)
        /\ UNCHANGED <<st, rx, waitingAck>>
    BY <1>4 DEF BrokerSpeaks, flags
  <2>2. PICK p \in Unsolicited : inbound' = Append(inbound, p)
    BY <2>1
  <2>3. p \in Packet /\ p \notin Acks
    BY MqttAssumption DEF Packet, Acks
  <2>4. NoNewAck /\ Owed' = Owed
    BY <2>1, <2>2, <2>3, PacketAdded DEF Acks
  <2> QED
    BY <2>1, <2>4 DEF AckInv, NoNewAck, OneAckAtATime, Owed
<1>5. CASE Stack
  <2>1. /\ UNCHANGED <<st, rx, waitingAck>>
        /\ \/ inbound' = inbound \/ inbound' = << >>
           \/ \E n \in 0 .. Len(inbound) : inbound' = SubSeq(inbound, 1, n)
    BY <1>5 DEF Stack, StackStep, HandshakeDone, RemoteFin, GiveUpLink,
       KeepAliveFails, RemoteReset, FinishClosing, CloseSocket, flags
  <2>2. NoNewAck
    BY <2>1, NothingMoved, PacketsLost
  <2> QED
    BY <2>1, <2>2 DEF AckInv, NoNewAck, OneAckAtATime, Owed
<1> QED
  BY <1>1, <1>2, <1>3, <1>4, <1>5 DEF Environment

\* Every step of a client that only publishes.
LEMMA NextAcks ==
  ASSUME Kinds = {"publish"}, IInv, Fresh, AckInv, [Next]_vars
  PROVE  AckInv'
<1>1. CASE UNCHANGED vars
  <2>1. UNCHANGED <<inbound, rx, st, waitingAck>>
    BY <1>1 DEF vars, tcpvars, flags
  <2> QED
    BY <2>1 DEF AckInv, OneAckAtATime, Owed, UnderWay
<1>2. CASE BeginUsage \/ Enqueue \/ EndUsage \/ Environment
  BY <1>2, OutsideKeepsAcks
<1>3. CASE MQTTTask
  BY <1>3, ConnectionKeepsAcks, SessionKeepsAcks, TakeKeepsAcks, PublishKeepsAcks,
     DispatchKeepsAcks, PingKeepsAcks
  DEF MQTTTask, OwnSteps, AnsweredSteps, ResolveTimesOut
<1> QED
  BY <1>1, <1>2, <1>3 DEF Next

(***************************************************************************)
(* A client that only publishes, as the firmware's does, never credits an  *)
(* ack to a message other than the one it is for, whatever the broker      *)
(* sends unasked, however late it answers and wherever the link breaks.    *)
(***************************************************************************)
THEOREM OneAckAlways ==
  ASSUME Kinds = {"publish"}
  PROVE  Spec => []OneAckAtATime
<1>1. Init => Fresh /\ AckInv
  BY DEF Init, TcpInit, Fresh, AckInv, OneAckAtATime, Owed, UnderWay, NothingRead
<1>2. IInv /\ Fresh /\ [Next]_vars => Fresh'
  BY NextFresh
<1>3. IInv /\ Fresh /\ AckInv /\ [Next]_vars => AckInv'
  BY NextAcks
<1>4. AckInv => OneAckAtATime
  BY DEF AckInv
<1> QED
  BY <1>1, <1>2, <1>3, <1>4, Invariant, PTL DEF Spec

=============================================================================
