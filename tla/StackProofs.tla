---------------------------- MODULE StackProofs ----------------------------
(***************************************************************************)
(* Proofs about the parts of the stack that MCStack has side by side: the  *)
(* one-entry ARP cache and its users (ArpCache), one socket's requests on  *)
(* a clock that wraps (GatewayArp), and the receive FIFO (TcpReceive).     *)
(***************************************************************************)
EXTENDS ArpCache, GatewayArp, TcpReceive, Recursion, TLAPS

-----------------------------------------------------------------------------
(***************************************************************************)
(* One entry is enough for any number of users, nodes and replacements:    *)
(* nobody takes an address that was meant for another.                     *)
(***************************************************************************)

\* What an answer says of the interface of a node is under the node's name.
LEMMA AnswersAreTrue ==
  ASSUME NEW m \in Answered
  PROVE  m.MACAddr[1] = m.IPAddr /\ m.IPAddr \in Node /\ m.MACAddr \in {a.MACAddr : a \in Answered \cup {NoEntry}}
BY DEF Answered

\* A user asks for a node of the local network, if it asks for one there.
LEMMA AsksItsNode ==
  ASSUME NEW u \in User, AskedFor(u) \in Node, ArpTypeOK
  PROVE  [IPAddr |-> AskedFor(u), MACAddr |-> Interface(AskedFor(u))] \in Answered
<1>1. mac[AskedFor(u)] \in 0 .. MaxReplaced
  BY DEF ArpTypeOK
<1> QED
  BY <1>1 DEF Answered, Interface

\* Whoever the user is, ARPResolve names a node of the local network.
LEMMA AsksLocally == \A u \in User : AskedFor(u) \in Node
BY ArpCacheAssumption DEF AskedFor, OffLink

(***************************************************************************)
(* What resolves a user's question is the node that it asked for: an entry *)
(* made at boot resolves nothing, and an entry for the gateway only those  *)
(* who have to go through it.                                              *)
(***************************************************************************)
LEMMA ResolvedByItsNode ==
  ASSUME NEW u \in User, ArpTypeOK, ARPIsResolved(u)
  PROVE  Cache \in Answered /\ Cache.MACAddr[1] = AskedFor(u)
<1>1. RemoteHost[u] # "none" /\ Gateway # "none"
  BY ArpCacheAssumption
<1>2. CASE Cache \in Answered
  <2>1. Cache.IPAddr \in Node /\ Cache.MACAddr[1] = Cache.IPAddr
    BY <1>2, AnswersAreTrue
  <2>2. CASE OffLink(u)
    BY <1>2, <2>1, <2>2 DEF ARPIsResolved, AskedFor, OffLink
  <2>3. CASE ~OffLink(u)
    BY <1>2, <2>1, <2>3 DEF ARPIsResolved, AskedFor
  <2> QED
    BY <2>2, <2>3
<1>3. CASE Cache = NoEntry
  <2>1. Cache.IPAddr = "none"
    BY <1>3 DEF NoEntry
  <2> QED
    BY <2>1, <1>1 DEF ARPIsResolved
<1> QED
  BY <1>2, <1>3 DEF ArpTypeOK

ArpInv == ArpTypeOK /\ NeverToAnotherNode

\* At boot no socket is open.
LEMMA InitArp == ArpInit => ArpInv
<1> SUFFICES ASSUME ArpInit PROVE ArpInv
  OBVIOUS
<1>1. ArpTypeOK
  BY ArpCacheAssumption DEF ArpInit, ArpTypeOK
<1>2. NeverToAnotherNode
  BY DEF ArpInit, NeverToAnotherNode
<1> QED
  BY <1>1, <1>2 DEF ArpInv

Network == (\E n \in Node : Replace(n)) \/ (\E m \in onWire : Lose(m) \/ ARPProcess(m))

\* A step of the network leaves the users alone.
LEMMA NetworkKeeps == ArpInv /\ Network => ArpInv'
<1> SUFFICES ASSUME ArpInv, Network PROVE ArpInv'
  OBVIOUS
<1>1. ArpTypeOK'
  <2>1. ASSUME NEW n \in Node, Replace(n) PROVE ArpTypeOK'
    BY <2>1, ArpCacheAssumption DEF ArpInv, ArpTypeOK, Replace, arpUsers
  <2>2. ASSUME NEW m \in onWire, Lose(m) PROVE ArpTypeOK'
    BY <2>2 DEF ArpInv, ArpTypeOK, Lose, arpUsers
  <2>3. ASSUME NEW m \in onWire, ARPProcess(m) PROVE ArpTypeOK'
    BY <2>3 DEF ArpInv, ArpTypeOK, ARPProcess, arpUsers
  <2> QED
    BY <2>1, <2>2, <2>3 DEF Network
<1>2. NeverToAnotherNode'
  <2>1. opening' = opening /\ peer' = peer
    BY DEF Network, Replace, Lose, ARPProcess, arpUsers
  <2> QED
    BY <2>1 DEF ArpInv, NeverToAnotherNode, AskedFor, OffLink
<1> QED
  BY <1>1, <1>2 DEF ArpInv

\* A user changes its own socket, and the wire by a true answer.
LEMMA UserKeeps ==
  ASSUME ArpInv, NEW u \in User, Open(u) \/ Connects(u) \/ Close(u)
  PROVE  ArpInv'
<1> USE DEF ArpInv, ArpTypeOK
<1>1. CASE Open(u)
  BY <1>1 DEF Open, NeverToAnotherNode, AskedFor, OffLink
<1>2. CASE AskByArp(u)
  <2>1. onWire' \subseteq Answered
    BY <1>2, AsksItsNode, AsksLocally DEF AskByArp, ARPResolve
  <2>2. ArpTypeOK'
    BY <1>2, <2>1 DEF AskByArp
  <2> QED
    BY <1>2, <2>2 DEF AskByArp, NeverToAnotherNode, AskedFor, OffLink
<1>3. CASE GetArp(u)
  <2>1. Cache \in Answered /\ Cache.MACAddr[1] = AskedFor(u)
    BY <1>3, ResolvedByItsNode DEF GetArp
  <2>2. ArpTypeOK'
    BY <1>3, <2>1, AnswersAreTrue DEF GetArp
  <2>3. ASSUME NEW v \in User, opening'[v] = "opened" PROVE peer'[v][1] = AskedFor(v)
    BY <1>3, <2>1, <2>3 DEF GetArp, NeverToAnotherNode
  <2> QED
    BY <2>2, <2>3 DEF NeverToAnotherNode, AskedFor, OffLink
<1>4. CASE ArpTimeOut(u)
  BY <1>4 DEF ArpTimeOut, NeverToAnotherNode, AskedFor, OffLink
<1>5. CASE Close(u)
  BY <1>5 DEF Close, NeverToAnotherNode, AskedFor, OffLink
<1> QED
  BY <1>1, <1>2, <1>3, <1>4, <1>5 DEF Connects

(***************************************************************************)
(* For any number of users, nodes and replaced interfaces, ARPIsResolved   *)
(* gives no user the address of a node it did not ask for.                 *)
(***************************************************************************)
THEOREM NeverMisdirected == ArpSpec => [](ArpTypeOK /\ NeverToAnotherNode)
<1>1. ArpInv /\ UNCHANGED arpvars => ArpInv'
  BY DEF ArpInv, ArpTypeOK, NeverToAnotherNode, AskedFor, OffLink, arpvars, arpUsers
<1>2. ArpInv /\ [ArpNext]_arpvars => ArpInv'
  <2> SUFFICES ASSUME ArpInv, ArpNext PROVE ArpInv'
    BY <1>1
  <2>1. CASE Network
    BY <2>1, NetworkKeeps
  <2>2. ASSUME NEW u \in User, Open(u) \/ Connects(u) \/ Close(u) PROVE ArpInv'
    BY <2>2, UserKeeps
  <2> QED
    BY <2>1, <2>2 DEF ArpNext, Network
<1>3. ArpInv => ArpTypeOK /\ NeverToAnotherNode
  BY DEF ArpInv
<1> QED
  BY InitArp, <1>2, <1>3, PTL DEF ArpSpec

-----------------------------------------------------------------------------
(***************************************************************************)
(* RxInv is inductive: for every size of the ring, length of the stream    *)
(* and size of a segment, and whatever arrives in whatever order, what the *)
(* application reads is the stream.                                        *)
(***************************************************************************)
USE DEF NoByte, Cell

-----------------------------------------------------------------------------
(* The ring *)

(***************************************************************************)
(* A place less than two rings away wraps into the ring, and two places    *)
(* less than a ring apart do not wrap to the same cell.                    *)
(***************************************************************************)
LEMMA WrapIsCell ==
  ASSUME NEW a \in 0 .. 2 * RxSize - 1
  PROVE  Wrap(a) \in Cell
  BY ReceiveAssumption DEF Wrap

\* Offsets less than a FIFO apart have cells of their own.
LEMMA WrapIsInjective ==
  ASSUME NEW a \in 0 .. 2 * RxSize - 1, NEW b \in 0 .. 2 * RxSize - 1,
         a < b + RxSize, b < a + RxSize, Wrap(a) = Wrap(b)
  PROVE  a = b
  BY ReceiveAssumption DEF Wrap

(***************************************************************************)
(* Every cell but one is either full or free, and the free ones follow the *)
(* full ones around the ring.                                              *)
(***************************************************************************)
LEMMA FullAndFree ==
  ASSUME rxHead \in Cell, rxTail \in Cell
  PROVE  /\ Ready \in 0 .. RxSize - 1 /\ FreeSpace \in 0 .. RxSize - 1
         /\ Ready + FreeSpace = RxSize - 1
         /\ rxHead = Wrap(rxTail + Ready)
  BY ReceiveAssumption DEF Ready, FreeSpace, Wrap

(***************************************************************************)
(* What a move of the head by n cells that were free leaves full and free. *)
(***************************************************************************)
LEMMA HeadMoves ==
  ASSUME rxHead \in Cell, rxTail \in Cell, NEW n \in 0 .. FreeSpace,
         rxHead' = Wrap(rxHead + n), rxTail' = rxTail
  PROVE  /\ rxHead' \in Cell
         /\ Ready' = Ready + n /\ FreeSpace' = FreeSpace - n
         /\ \A k \in 0 .. FreeSpace - n, j \in Nat :
              j = n + k => Wrap(rxHead' + k) = Wrap(rxHead + j)
  BY ReceiveAssumption DEF Ready, FreeSpace, Wrap

\* What the application takes leaves at the tail; the rest stays where it is.
LEMMA TailMoves ==
  ASSUME rxHead \in Cell, rxTail \in Cell, NEW n \in 0 .. Ready,
         rxTail' = Wrap(rxTail + n), rxHead' = rxHead
  PROVE  /\ rxTail' \in Cell
         /\ Ready' = Ready - n /\ FreeSpace' = FreeSpace + n
         /\ \A k \in 0 .. Ready - n, j \in Nat :
              j = n + k => Wrap(rxTail' + k) = Wrap(rxTail + j)
  BY ReceiveAssumption DEF Ready, FreeSpace, Wrap

(***************************************************************************)
(* A copy of n bytes ahead of the head puts them where they belong and     *)
(* disturbs neither the full cells nor the other free ones.                *)
(***************************************************************************)
LEMMA CopyIsTrue ==
  ASSUME rxHead \in Cell, rxTail \in Cell,
         NEW offset \in Nat, NEW n \in Nat, NEW first \in Int, offset + n <= FreeSpace,
         fifo \in [Cell -> Int]
  PROVE  /\ Copied(offset, n, first) \in [Cell -> Int]
         /\ \A k \in 0 .. n - 1 : Copied(offset, n, first)[Wrap(rxHead + offset + k)] = first + k
         /\ \A k \in 0 .. FreeSpace - 1 :
              k \notin offset .. offset + n - 1
                => Copied(offset, n, first)[Wrap(rxHead + k)] = fifo[Wrap(rxHead + k)]
         /\ \A k \in 0 .. Ready - 1 :
              Copied(offset, n, first)[Wrap(rxTail + k)] = fifo[Wrap(rxTail + k)]
         /\ \A c \in Cell : \/ Copied(offset, n, first)[c] = fifo[c]
                            \/ \E k \in 0 .. n - 1 : Copied(offset, n, first)[c] = first + k
<1> DEFINE Hit(c, k) == c = Wrap(rxHead + offset + k)
           copy == Copied(offset, n, first)
<1>0. /\ Ready \in 0 .. RxSize - 1 /\ FreeSpace \in 0 .. RxSize - 1
      /\ RxSize \in Nat /\ RxSize > 1 /\ rxHead \in 0 .. RxSize - 1 /\ rxTail \in 0 .. RxSize - 1
  BY FullAndFree, ReceiveAssumption
<1>1. \A c \in Cell : copy[c] = IF \E k \in 0 .. n - 1 : Hit(c, k)
                                THEN first + (CHOOSE k \in 0 .. n - 1 : Hit(c, k))
                                ELSE fifo[c]
  BY DEF Copied
<1>2. \A c \in Cell : (\E k \in 0 .. n - 1 : Hit(c, k))
         => \E k \in 0 .. n - 1 : Hit(c, k) /\ copy[c] = first + k
  <2> SUFFICES ASSUME NEW c \in Cell, \E k \in 0 .. n - 1 : Hit(c, k)
               PROVE  \E k \in 0 .. n - 1 : Hit(c, k) /\ copy[c] = first + k
    OBVIOUS
  <2> DEFINE j == CHOOSE k \in 0 .. n - 1 : Hit(c, k)
  <2>1. j \in 0 .. n - 1 /\ Hit(c, j)
    BY Zenon
  <2>2. copy[c] = first + j
    BY <1>1, Zenon
  <2> QED
    BY <2>1, <2>2, Zenon
<1>3. DOMAIN copy = Cell /\ copy = [c \in Cell |-> copy[c]]
  BY DEF Copied
<1> HIDE DEF copy, Hit
<1>4. \A c \in Cell : \/ copy[c] = fifo[c]
                      \/ \E k \in 0 .. n - 1 : copy[c] = first + k
  BY <1>1, <1>2
<1>5. copy \in [Cell -> Int]
  <2>1. \A c \in Cell : copy[c] \in Int
    BY <1>4
  <2> QED
    BY <1>3, <2>1
<1>6. \A k \in 0 .. n - 1 : copy[Wrap(rxHead + offset + k)] = first + k
  <2> SUFFICES ASSUME NEW k \in 0 .. n - 1
               PROVE  copy[Wrap(rxHead + offset + k)] = first + k
    OBVIOUS
  <2> DEFINE c == Wrap(rxHead + offset + k)
  <2>1. rxHead + offset + k \in 0 .. 2 * RxSize - 1
    BY <1>0
  <2>2. c \in Cell /\ Hit(c, k)
    BY <2>1, WrapIsCell DEF Hit
  <2>3. PICK j \in 0 .. n - 1 : Hit(c, j) /\ copy[c] = first + j
    BY <1>2, <2>2
  <2>4. j = k
    <3>1. rxHead + offset + j \in 0 .. 2 * RxSize - 1
      BY <1>0
    <3>2. Wrap(rxHead + offset + j) = Wrap(rxHead + offset + k)
      BY <2>3 DEF Hit
    <3>3. rxHead + offset + j = rxHead + offset + k
      BY <2>1, <3>1, <3>2, WrapIsInjective, <1>0
    <3> QED
      BY <3>3
  <2> QED
    BY <2>3, <2>4
<1>7. \A k \in 0 .. FreeSpace - 1 :
        k \notin offset .. offset + n - 1 => copy[Wrap(rxHead + k)] = fifo[Wrap(rxHead + k)]
  <2> SUFFICES ASSUME NEW k \in 0 .. FreeSpace - 1, k \notin offset .. offset + n - 1
               PROVE  copy[Wrap(rxHead + k)] = fifo[Wrap(rxHead + k)]
    OBVIOUS
  <2>1. rxHead + k \in 0 .. 2 * RxSize - 1 /\ Wrap(rxHead + k) \in Cell
    BY <1>0, WrapIsCell
  <2>2. ~ \E j \in 0 .. n - 1 : Hit(Wrap(rxHead + k), j)
    <3> SUFFICES ASSUME NEW j \in 0 .. n - 1, Wrap(rxHead + k) = Wrap(rxHead + offset + j)
                 PROVE  FALSE
      BY DEF Hit
    <3>1. rxHead + offset + j \in 0 .. 2 * RxSize - 1
      BY <1>0
    <3>2. rxHead + k = rxHead + offset + j
      BY <2>1, <3>1, WrapIsInjective, <1>0
    <3> QED
      BY <3>2
  <2> QED
    BY <1>1, <2>1, <2>2
<1>8. \A k \in 0 .. Ready - 1 : copy[Wrap(rxTail + k)] = fifo[Wrap(rxTail + k)]
  <2> SUFFICES ASSUME NEW k \in 0 .. Ready - 1
               PROVE  copy[Wrap(rxTail + k)] = fifo[Wrap(rxTail + k)]
    OBVIOUS
  <2>1. Wrap(rxTail + k) \in Cell
    BY <1>0, WrapIsCell
  <2>2. ~ \E j \in 0 .. n - 1 : Hit(Wrap(rxTail + k), j)
    BY <1>0, ReceiveAssumption DEF Hit, Wrap, Ready, FreeSpace
  <2> QED
    BY <1>1, <2>1, <2>2
<1> QED
  BY <1>4, <1>5, <1>6, <1>7, <1>8 DEF copy

-----------------------------------------------------------------------------
(* What HandleTCPSeg takes of a segment *)

(***************************************************************************)
(* A cast to SHORT leaves small numbers alone.                             *)
(***************************************************************************)
LEMMA ShortIsSame ==
  ASSUME NEW n \in Int, -SeqRange <= 2 * n, 2 * n < SeqRange
  PROVE  Short(n) = n
<1>1. SeqRange \in Nat /\ SeqRange > 2
  BY ReceiveAssumption
<1>2. CASE n >= 0
  <2>1. n % SeqRange = n
    BY <1>1, <1>2
  <2> QED
    BY <1>1, <2>1 DEF Short
<1>3. CASE n < 0
  <2>1. n % SeqRange = n + SeqRange
    BY <1>1, <1>3
  <2> QED
    BY <1>1, <1>3, <2>1 DEF Short
<1> QED
  BY <1>2, <1>3

(***************************************************************************)
(* A segment that passes the test of its sequence number starts within the *)
(* window, or ends in it.                                                  *)
(***************************************************************************)
Arriving(s) ==
  /\ s \in Segment /\ s.seq + s.len <= StreamLength
  /\ s.fin => s.seq + s.len = StreamLength
  /\ s.seq + MaxStale >= RemoteSEQ

\* What is accepted fits in the room of the FIFO.
LEMMA AcceptableFits ==
  ASSUME RxTypeOK, NEW s, Arriving(s), Acceptable(s)
  PROVE  /\ Offset(s) = s.seq - RemoteSEQ
         /\ s.len > 0 => s.len + Offset(s) >= 0 /\ Offset(s) < FreeSpace
<1> DEFINE missing == s.seq - RemoteSEQ
           length == WithFin(s)
<1>1. /\ s.seq \in Nat /\ s.len \in 0 .. MaxSegment /\ s.fin \in BOOLEAN
      /\ RemoteSEQ \in Nat /\ missing \in Int /\ missing >= -MaxStale
  BY ReceiveAssumption DEF Arriving, Segment, RxTypeOK
<1>2. length \in 0 .. MaxSegment + 1 /\ length >= s.len /\ length <= s.len + 1
  BY <1>1, ReceiveAssumption DEF WithFin
<1>3. FreeSpace \in 0 .. RxSize - 1
  BY FullAndFree DEF RxTypeOK
<1> HIDE DEF length, missing
<1>4. Short(FreeSpace - length) = FreeSpace - length
  BY <1>2, <1>3, ReceiveAssumption, ShortIsSame
<1>5. CASE length = 0
  <2>1. missing = 0 \/ (0 <= missing /\ missing < FreeSpace)
    BY <1>5 DEF Acceptable, missing, length
  <2>2. Short(missing) = missing
    BY <1>1, <1>3, <2>1, ReceiveAssumption, ShortIsSame
  <2> QED
    BY <1>1, <1>2, <1>5, <2>2 DEF Offset, missing
<1>6. CASE length > 0
  <2>1. \/ 0 <= missing /\ missing < FreeSpace
        \/ missing + length > 0 /\ missing <= Short(FreeSpace - length)
        \/ missing < FreeSpace /\ Short(missing) + length > 0
    BY <1>2, <1>6 DEF Acceptable, missing, length
  <2>2. missing < FreeSpace
    BY <1>1, <1>2, <1>3, <1>4, <1>6, <2>1
  <2>3. Short(missing) = missing
    BY <1>1, <1>3, <2>2, ReceiveAssumption, ShortIsSame
  <2>4. missing + length > 0
    BY <1>1, <1>2, <1>6, <2>1, <2>3
  <2> QED
    BY <1>1, <1>2, <2>2, <2>3, <2>4 DEF Offset, missing
<1> QED
  BY <1>2, <1>5, <1>6

(***************************************************************************)
(* What is stored of it: what is new, as far as there is room.             *)
(***************************************************************************)
LEMMA StoredFits ==
  ASSUME RxTypeOK, NEW s, Arriving(s), Acceptable(s)
  PROVE  /\ Stored(s) \in 0 .. FreeSpace
         /\ s.len = 0 => Stored(s) = 0
         /\ s.len > 0 /\ Offset(s) <= 0 => RemoteSEQ + Stored(s) <= s.seq + s.len
         /\ s.len > 0 /\ Offset(s) > 0 => /\ Stored(s) > 0 /\ Stored(s) <= s.len
                                          /\ Offset(s) + Stored(s) <= FreeSpace
<1>1. /\ s.seq \in Nat /\ s.len \in Nat /\ RemoteSEQ \in Nat
  BY ReceiveAssumption DEF Arriving, Segment, RxTypeOK
<1>2. FreeSpace \in Nat
  BY FullAndFree, ReceiveAssumption DEF RxTypeOK
<1> QED
  BY <1>1, <1>2, AcceptableFits DEF Stored, Smaller

-----------------------------------------------------------------------------
(* The invariant *)

\* An empty FIFO before the first byte holds the start of the stream.
LEMMA InitHolds == RxInit => RxInv
<1> SUFFICES ASSUME RxInit PROVE RxInv
  OBVIOUS
<1>1. Ready = 0 /\ RxSize \in Nat /\ RxSize > 1 /\ StreamLength \in Nat
  BY ReceiveAssumption DEF RxInit, Ready
<1>2. RxTypeOK
  <2>1. fifo \in [Cell -> 0 .. StreamLength - 1 \cup {NoByte}]
    BY DEF RxInit
  <2>2. /\ rxHead \in Cell /\ rxTail \in Cell /\ RemoteSEQ \in 0 .. StreamLength + 1
        /\ wFutureDataSize \in 0 .. RxSize - 1 /\ taken \in 0 .. StreamLength
    BY <1>1 DEF RxInit
  <2>3. finReceived \in BOOLEAN
    BY DEF RxInit
  <2>4. sHoleSize \in -1 .. RxSize - 2
    BY <1>1 DEF RxInit
  <2> QED
    BY <2>1, <2>2, <2>3, <2>4 DEF RxTypeOK
<1>3. FifoHoldsTheStream /\ FinComesLast /\ HoleIsTrue
  BY <1>1 DEF RxInit, FifoHoldsTheStream, FinComesLast, HoleIsTrue
<1> QED
  BY <1>2, <1>3 DEF RxInv

(***************************************************************************)
(* The hole is filled, or not yet: how far the stream goes on.             *)
(***************************************************************************)
LEMMA AdvanceFits ==
  ASSUME RxInv, NEW n \in 0 .. FreeSpace, RemoteSEQ + n <= StreamLength
  PROVE  /\ Advance(n) \in n .. FreeSpace /\ RemoteSEQ + Advance(n) <= StreamLength
         /\ Advance(n) > n => /\ sHoleSize # -1 /\ sHoleSize <= n
                              /\ Advance(n) = sHoleSize + wFutureDataSize
         /\ HoleAfter(n) # -1 => /\ Advance(n) = n /\ sHoleSize # -1
                                 /\ HoleAfter(n) = sHoleSize - n /\ sHoleSize > n
<1>1. /\ sHoleSize \in -1 .. RxSize - 2 /\ wFutureDataSize \in 0 .. RxSize - 1
      /\ RemoteSEQ \in Nat /\ RxSize \in Nat /\ StreamLength \in Nat
      /\ rxHead \in 0 .. RxSize - 1 /\ rxTail \in 0 .. RxSize - 1
  BY ReceiveAssumption DEF RxInv, RxTypeOK
<1>2. FreeSpace \in 0 .. RxSize - 1
  BY <1>1, FullAndFree
<1>3. sHoleSize # -1 => sHoleSize > 0 /\ sHoleSize + wFutureDataSize <= FreeSpace
  BY DEF RxInv, HoleIsTrue
<1>4. sHoleSize # -1 /\ wFutureDataSize > 0
        => RemoteSEQ + sHoleSize + wFutureDataSize <= StreamLength
  <2> SUFFICES ASSUME sHoleSize # -1, wFutureDataSize > 0
               PROVE  RemoteSEQ + sHoleSize + wFutureDataSize <= StreamLength
    OBVIOUS
  <2> DEFINE last == wFutureDataSize - 1
             c == Wrap(rxHead + sHoleSize + last)
  <2>1. last \in 0 .. wFutureDataSize - 1
    BY <1>1
  <2>2. rxHead + sHoleSize + last \in 0 .. 2 * RxSize - 1
    BY <1>1, <1>2, <1>3
  <2>3. fifo[c] \in 0 .. StreamLength - 1 \cup {-1}
    BY <2>2, WrapIsCell DEF RxInv, RxTypeOK
  <2>4. fifo[c] = RemoteSEQ + sHoleSize + last
    BY <2>1 DEF RxInv, HoleIsTrue
  <2> QED
    BY <1>1, <1>3, <2>3, <2>4
<1> QED
  BY <1>1, <1>2, <1>3, <1>4 DEF Advance, HoleAfter

(***************************************************************************)
(* A segment that starts at the byte wanted, or before it.                 *)
(***************************************************************************)
LEMMA InOrderKeeps ==
  ASSUME RxInv, NEW s, Arriving(s), Acceptable(s), ~finReceived,
         s.len = 0 \/ Offset(s) <= 0, InOrder(s), UNCHANGED <<rxTail, taken>>
  PROVE  RxInv'
<1> DEFINE n == Stored(s)
           adv == Advance(n)
           first == s.seq - Offset(s)
<1>1. /\ sHoleSize \in -1 .. RxSize - 2 /\ wFutureDataSize \in 0 .. RxSize - 1
      /\ RemoteSEQ \in Nat /\ RxSize \in Nat /\ StreamLength \in Nat /\ taken \in Nat
      /\ rxHead \in 0 .. RxSize - 1 /\ rxTail \in 0 .. RxSize - 1 /\ RxSize > 1
      /\ fifo \in [Cell -> 0 .. StreamLength - 1 \cup {-1}]
      /\ s.seq \in Nat /\ s.len \in Nat /\ s.fin \in BOOLEAN /\ s.seq + s.len <= StreamLength
  BY ReceiveAssumption DEF RxInv, RxTypeOK, Arriving, Segment
<1>2. /\ RemoteSEQ = taken + Ready
      /\ \A k \in 0 .. Ready - 1 : fifo[Wrap(rxTail + k)] = taken + k
      /\ Ready \in 0 .. RxSize - 1 /\ FreeSpace \in 0 .. RxSize - 1
      /\ Ready + FreeSpace = RxSize - 1 /\ rxHead = Wrap(rxTail + Ready)
  BY <1>1, FullAndFree DEF RxInv, FifoHoldsTheStream
<1>3. n \in 0 .. FreeSpace /\ (n > 0 => RemoteSEQ + n <= s.seq + s.len /\ first = RemoteSEQ)
  BY <1>1, StoredFits, AcceptableFits DEF RxInv
<1>4. RemoteSEQ + n <= StreamLength
  <2>1. CASE n > 0
    BY <1>1, <1>2, <1>3, <2>1
  <2>2. CASE n = 0
    <3>1. RemoteSEQ <= StreamLength
      <4>1. CASE Ready = 0
        BY <1>1, <1>2, <4>1 DEF RxInv, RxTypeOK
      <4>2. CASE Ready > 0
        <5>1. Wrap(rxTail + (Ready - 1)) \in Cell
          <6>1. rxTail + (Ready - 1) \in 0 .. 2 * RxSize - 1
            BY <1>1, <1>2, <4>2
          <6> QED
            BY <6>1, WrapIsCell
        <5>2. fifo[Wrap(rxTail + (Ready - 1))] = taken + (Ready - 1)
          BY <1>2, <4>2
        <5> QED
          BY <1>1, <1>2, <5>1, <5>2
      <4> QED
        BY <1>2, <4>1, <4>2
    <3> QED
      BY <2>2, <3>1, <1>1
  <2> QED
    BY <1>3, <2>1, <2>2
<1>5. /\ adv \in n .. FreeSpace /\ RemoteSEQ + adv <= StreamLength
      /\ adv > n => /\ sHoleSize # -1 /\ sHoleSize <= n
                    /\ adv = sHoleSize + wFutureDataSize
      /\ HoleAfter(n) # -1 => /\ adv = n /\ sHoleSize # -1
                              /\ HoleAfter(n) = sHoleSize - n /\ sHoleSize > n
  BY <1>3, <1>4, AdvanceFits
<1>6. first \in Int
  BY <1>1, AcceptableFits DEF RxInv
<1>7. fifo \in [Cell -> Int]
  BY <1>1
<1> HIDE DEF n, adv, first
<1>8. /\ fifo' = Copied(0, n, first) /\ rxHead' = Wrap(rxHead + adv)
      /\ RemoteSEQ' = RemoteSEQ + adv + (IF FinInOrder(s) THEN 1 ELSE 0)
      /\ finReceived' = FinInOrder(s) /\ sHoleSize' = HoleAfter(n)
      /\ wFutureDataSize' = wFutureDataSize /\ rxTail' = rxTail /\ taken' = taken
  BY DEF InOrder, n, adv, first
<1>9. /\ fifo' \in [Cell -> Int]
      /\ \A k \in 0 .. n - 1 : fifo'[Wrap(rxHead + k)] = first + k
      /\ \A k \in 0 .. FreeSpace - 1 :
           k \notin 0 .. n - 1 => fifo'[Wrap(rxHead + k)] = fifo[Wrap(rxHead + k)]
      /\ \A k \in 0 .. Ready - 1 : fifo'[Wrap(rxTail + k)] = fifo[Wrap(rxTail + k)]
      /\ \A c \in Cell : \/ fifo'[c] = fifo[c]
                         \/ \E k \in 0 .. n - 1 : fifo'[c] = first + k
  <2>1. 0 \in Nat /\ 0 + n <= FreeSpace /\ n \in Nat /\ rxHead \in Cell /\ rxTail \in Cell
    BY <1>1, <1>2, <1>3
  <2> DEFINE copy == Copied(0, n, first)
  <2>2. /\ copy \in [Cell -> Int]
        /\ \A k \in 0 .. n - 1 : copy[Wrap(rxHead + 0 + k)] = first + k
        /\ \A k \in 0 .. FreeSpace - 1 :
             k \notin 0 .. 0 + n - 1 => copy[Wrap(rxHead + k)] = fifo[Wrap(rxHead + k)]
        /\ \A k \in 0 .. Ready - 1 : copy[Wrap(rxTail + k)] = fifo[Wrap(rxTail + k)]
        /\ \A c \in Cell : \/ copy[c] = fifo[c]
                           \/ \E k \in 0 .. n - 1 : copy[c] = first + k
    BY <1>6, <1>7, <2>1, CopyIsTrue, Zenon
  <2>3. rxHead + 0 = rxHead /\ 0 + n - 1 = n - 1
    BY <1>1, <2>1
  <2>4. fifo' = copy
    BY <1>8
  <2> HIDE DEF copy
  <2>5. \A k \in 0 .. n - 1 : copy[Wrap(rxHead + k)] = first + k
    BY <2>2, <2>3
  <2>6. \A k \in 0 .. FreeSpace - 1 :
          k \notin 0 .. n - 1 => copy[Wrap(rxHead + k)] = fifo[Wrap(rxHead + k)]
    BY <2>2, <2>3
  <2> QED
    BY <2>2, <2>4, <2>5, <2>6, Zenon
<1>10. /\ rxHead' \in Cell
       /\ Ready' = Ready + adv /\ FreeSpace' = FreeSpace - adv
       /\ \A k \in 0 .. FreeSpace - adv, j \in Nat :
            j = adv + k => Wrap(rxHead' + k) = Wrap(rxHead + j)
  <2>1. adv \in 0 .. FreeSpace
    BY <1>2, <1>3, <1>5
  <2>2. rxHead \in Cell /\ rxTail \in Cell /\ rxTail' = rxTail /\ rxHead' = Wrap(rxHead + adv)
    BY <1>1, <1>8
  <2> QED
    BY <2>1, <2>2, HeadMoves, Zenon
<1>11. FinInOrder(s) => s.fin /\ RemoteSEQ + adv = StreamLength
  <2> SUFFICES ASSUME FinInOrder(s) PROVE s.fin /\ RemoteSEQ + adv = StreamLength
    OBVIOUS
  <2>1. s.fin /\ RemoteSEQ + adv + 1 = s.seq + WithFin(s)
    BY DEF FinInOrder, adv, n
  <2>2. WithFin(s) = s.len + 1 /\ s.seq + s.len = StreamLength
    BY <2>1 DEF WithFin, Arriving
  <2> QED
    BY <1>1, <1>2, <1>3, <1>5, <2>1, <2>2
<1>12. RxTypeOK'
  <2>1. fifo' \in [Cell -> 0 .. StreamLength - 1 \cup {-1}]
    <3>1. ASSUME NEW c \in Cell PROVE fifo'[c] \in 0 .. StreamLength - 1 \cup {-1}
      <4>1. CASE fifo'[c] = fifo[c]
        BY <1>1, <4>1
      <4>2. ASSUME NEW k \in 0 .. n - 1, fifo'[c] = first + k
            PROVE  fifo'[c] \in 0 .. StreamLength - 1
        BY <1>1, <1>2, <1>3, <4>2
      <4> QED
        BY <1>9, <4>1, <4>2
    <3> QED
      BY <1>9, <3>1
  <2>2. RemoteSEQ' \in 0 .. StreamLength + 1
    BY <1>1, <1>3, <1>5, <1>2, <1>8
  <2>3. sHoleSize' \in -1 .. RxSize - 2
    BY <1>1, <1>3, <1>5, <1>8, <1>2
  <2> QED
    BY <1>1, <1>8, <1>10, <2>1, <2>2, <2>3 DEF RxTypeOK, RxInv, FinInOrder
<1>13. \A k \in 0 .. adv - 1 : fifo'[Wrap(rxHead + k)] = RemoteSEQ + k
  <2> SUFFICES ASSUME NEW k \in 0 .. adv - 1
               PROVE  fifo'[Wrap(rxHead + k)] = RemoteSEQ + k
    OBVIOUS
  <2>1. CASE k < n
    BY <1>1, <1>2, <1>3, <1>5, <1>9, <2>1
  <2>2. CASE k >= n
    <3> DEFINE j == k - sHoleSize
    <3>1. /\ sHoleSize # -1 /\ sHoleSize <= n /\ adv = sHoleSize + wFutureDataSize
          /\ j \in 0 .. wFutureDataSize - 1 /\ sHoleSize + j = k
      BY <1>1, <1>2, <1>3, <1>5, <2>2
    <3>2. fifo[Wrap(rxHead + sHoleSize + j)] = RemoteSEQ + sHoleSize + j
      BY <3>1 DEF RxInv, HoleIsTrue
    <3>3. rxHead + sHoleSize + j = rxHead + k /\ RemoteSEQ + sHoleSize + j = RemoteSEQ + k
      BY <1>1, <3>1
    <3>4. k \in 0 .. FreeSpace - 1 /\ k \notin 0 .. n - 1
      BY <1>2, <1>3, <1>5, <2>2
    <3>5. fifo'[Wrap(rxHead + k)] = fifo[Wrap(rxHead + k)]
      BY <1>9, <3>4
    <3> QED
      BY <3>2, <3>3, <3>5
  <2> QED
    BY <1>3, <1>2, <1>5, <2>1, <2>2
<1>14. FifoHoldsTheStream'
  <2>1. RemoteSEQ' = taken' + Ready' + (IF finReceived' THEN 1 ELSE 0)
    BY <1>1, <1>2, <1>3, <1>5, <1>8, <1>10
  <2>2. ASSUME NEW k \in 0 .. Ready' - 1
        PROVE  fifo'[Wrap(rxTail + k)] = taken + k
    <3>1. CASE k < Ready
      BY <1>2, <1>9, <3>1
    <3>2. CASE k >= Ready
      <4> DEFINE j == k - Ready
      <4>1. j \in 0 .. adv - 1 /\ j \in 0 .. RxSize - 2 /\ k = Ready + j /\ Ready + j < RxSize
        BY <1>1, <1>2, <1>3, <1>5, <1>10, <3>2
      <4>2. Wrap(rxTail + k) = Wrap(rxHead + j)
        BY <1>1, <1>2, <4>1 DEF Wrap
      <4>3. fifo'[Wrap(rxHead + j)] = RemoteSEQ + j
        BY <1>13, <4>1
      <4> QED
        BY <1>1, <1>2, <4>1, <4>2, <4>3
    <3> QED
      BY <1>2, <1>3, <1>5, <1>10, <3>1, <3>2
  <2>3. \A k \in 0 .. Ready' - 1 : fifo'[(Wrap(rxTail + k))'] = taken' + k
    BY <1>8, <2>2 DEF Wrap
  <2> QED
    BY <2>1, <2>3 DEF FifoHoldsTheStream
<1>15. FinComesLast'
  BY <1>1, <1>2, <1>3, <1>5, <1>8, <1>10, <1>11 DEF FinComesLast
<1>16. HoleIsTrue'
  <2> SUFFICES ASSUME sHoleSize' # -1
               PROVE  /\ sHoleSize' > 0 /\ sHoleSize' + wFutureDataSize' <= FreeSpace'
                      /\ \A k \in 0 .. wFutureDataSize' - 1 :
                           fifo'[Wrap(rxHead' + sHoleSize' + k)] = RemoteSEQ' + sHoleSize' + k
    BY DEF HoleIsTrue, Wrap
  <2>1. /\ adv = n /\ sHoleSize # -1 /\ sHoleSize' = sHoleSize - n /\ sHoleSize > n
    BY <1>5, <1>8
  <2>2. sHoleSize + wFutureDataSize <= FreeSpace
    BY <2>1 DEF RxInv, HoleIsTrue
  <2>3. sHoleSize' > 0 /\ sHoleSize' + wFutureDataSize' <= FreeSpace'
    BY <1>1, <1>2, <1>3, <1>8, <1>10, <2>1, <2>2
  <2>4. ASSUME NEW k \in 0 .. wFutureDataSize - 1
        PROVE  fifo'[Wrap(rxHead' + sHoleSize' + k)] = RemoteSEQ' + sHoleSize' + k
    <3> DEFINE j == sHoleSize + k
    <3>1. /\ j \in 0 .. FreeSpace - 1 /\ j \notin 0 .. n - 1 /\ j \in Nat
          /\ sHoleSize' + k \in 0 .. FreeSpace - adv
      BY <1>1, <1>2, <1>3, <2>1, <2>2
    <3>2. fifo[Wrap(rxHead + j)] = RemoteSEQ + j
      <4>1. rxHead + sHoleSize + k = rxHead + j /\ RemoteSEQ + sHoleSize + k = RemoteSEQ + j
        BY <1>1
      <4>2. fifo[Wrap(rxHead + sHoleSize + k)] = RemoteSEQ + sHoleSize + k
        BY <2>1 DEF RxInv, HoleIsTrue
      <4> QED
        BY <4>1, <4>2
    <3>3. fifo'[Wrap(rxHead + j)] = RemoteSEQ + j
      BY <1>9, <3>1, <3>2
    <3>4. Wrap(rxHead' + sHoleSize' + k) = Wrap(rxHead + j)
      <4> DEFINE i == sHoleSize' + k
      <4>1. j = adv + i /\ i \in 0 .. FreeSpace - adv /\ j \in Nat
        BY <1>1, <1>2, <1>3, <2>1, <3>1
      <4>2. rxHead' + sHoleSize' + k = rxHead' + i
        BY <1>1, <1>10, <1>3, <1>2, <2>1
      <4> HIDE DEF i, j
      <4>3. Wrap(rxHead' + i) = Wrap(rxHead + j)
        BY <1>10, <4>1
      <4> QED
        BY <4>2, <4>3
    <3>5. ~FinInOrder(s)
      <4>1. Wrap(rxHead + j) \in Cell
        <5>1. rxHead + j \in 0 .. 2 * RxSize - 1
          BY <1>1, <1>2, <3>1
        <5> QED
          BY <5>1, WrapIsCell
      <4>2. fifo[Wrap(rxHead + j)] <= StreamLength - 1
        BY <1>1, <3>2, <3>1, <4>1
      <4> QED
        BY <1>1, <1>2, <1>3, <1>11, <2>1, <3>2, <4>2
    <3>6. RemoteSEQ' + sHoleSize' + k = RemoteSEQ + j
      BY <1>1, <1>2, <1>3, <1>8, <2>1, <3>5
    <3> QED
      BY <3>3, <3>4, <3>6
  <2> QED
    BY <1>8, <2>3, <2>4
<1> QED
  BY <1>12, <1>14, <1>15, <1>16 DEF RxInv

(***************************************************************************)
(* A segment that starts behind a gap: what is then known to be behind the *)
(* hole is its own, or joins what was there.                               *)
(***************************************************************************)
LEMMA AheadOfOrderKeeps ==
  ASSUME RxInv, NEW s, Arriving(s), Acceptable(s), ~finReceived,
         s.len > 0, Offset(s) > 0, AheadOfOrder(s), UNCHANGED <<rxTail, taken>>
  PROVE  RxInv'
<1> DEFINE n == Stored(s)
           gap == Offset(s)
<1>1. /\ sHoleSize \in -1 .. RxSize - 2 /\ wFutureDataSize \in 0 .. RxSize - 1
      /\ RemoteSEQ \in Nat /\ RxSize \in Nat /\ StreamLength \in Nat
      /\ rxHead \in 0 .. RxSize - 1 /\ rxTail \in 0 .. RxSize - 1 /\ RxSize > 1
      /\ s.seq \in Nat /\ s.len \in Nat /\ s.seq + s.len <= StreamLength
  BY ReceiveAssumption DEF RxInv, RxTypeOK, Arriving, Segment
<1>0. fifo \in [Cell -> 0 .. StreamLength - 1 \cup {-1}]
  BY DEF RxInv, RxTypeOK
<1>2. FreeSpace \in 0 .. RxSize - 1 /\ Ready \in 0 .. RxSize - 1
  BY <1>1, FullAndFree
<1>3. /\ gap \in 1 .. FreeSpace - 1 /\ s.seq = RemoteSEQ + gap
      /\ n \in 1 .. FreeSpace /\ n <= s.len /\ gap + n <= FreeSpace
  <2>1. /\ gap = s.seq - RemoteSEQ /\ gap < FreeSpace /\ gap > 0
        /\ n \in 0 .. FreeSpace /\ n > 0 /\ n <= s.len /\ gap + n <= FreeSpace
    BY AcceptableFits, StoredFits DEF RxInv
  <2> HIDE DEF n, gap
  <2>2. n \in Int /\ s.seq \in Int /\ RemoteSEQ \in Int /\ FreeSpace \in Int /\ gap \in Int
    BY <1>1, <1>2, <2>1
  <2> QED
    BY <2>1, <2>2
<1>4. sHoleSize # -1 => sHoleSize > 0 /\ sHoleSize + wFutureDataSize <= FreeSpace
  BY DEF RxInv, HoleIsTrue
<1>5. /\ fifo' = Copied(gap, n, s.seq)
      /\ sHoleSize' = (IF sHoleSize = -1 \/ gap < sHoleSize THEN gap ELSE sHoleSize)
      /\ wFutureDataSize' = FutureAfter(gap, n)
      /\ rxHead' = rxHead /\ RemoteSEQ' = RemoteSEQ /\ finReceived' = finReceived
      /\ rxTail' = rxTail /\ taken' = taken
  BY DEF AheadOfOrder
<1> HIDE DEF n, gap
<1>6. /\ fifo' \in [Cell -> Int]
      /\ \A k \in 0 .. n - 1 : fifo'[Wrap(rxHead + gap + k)] = s.seq + k
      /\ \A k \in 0 .. FreeSpace - 1 :
           k \notin gap .. gap + n - 1 => fifo'[Wrap(rxHead + k)] = fifo[Wrap(rxHead + k)]
      /\ \A k \in 0 .. Ready - 1 : fifo'[Wrap(rxTail + k)] = fifo[Wrap(rxTail + k)]
      /\ \A c \in Cell : \/ fifo'[c] = fifo[c]
                         \/ \E k \in 0 .. n - 1 : fifo'[c] = s.seq + k
  <2>1. /\ gap \in Nat /\ n \in Nat /\ s.seq \in Int /\ gap + n <= FreeSpace
        /\ rxHead \in Cell /\ rxTail \in Cell
    BY <1>1, <1>2, <1>3
  <2>0. fifo \in [Cell -> Int]
    BY <1>0, <1>1
  <2> DEFINE copy == Copied(gap, n, s.seq)
  <2>2. /\ copy \in [Cell -> Int]
        /\ \A k \in 0 .. n - 1 : copy[Wrap(rxHead + gap + k)] = s.seq + k
        /\ \A k \in 0 .. FreeSpace - 1 :
             k \notin gap .. gap + n - 1 => copy[Wrap(rxHead + k)] = fifo[Wrap(rxHead + k)]
        /\ \A k \in 0 .. Ready - 1 : copy[Wrap(rxTail + k)] = fifo[Wrap(rxTail + k)]
        /\ \A c \in Cell : \/ copy[c] = fifo[c]
                           \/ \E k \in 0 .. n - 1 : copy[c] = s.seq + k
    BY <2>0, <2>1, CopyIsTrue, Zenon
  <2>3. fifo' = copy
    BY <1>5
  <2> HIDE DEF copy
  <2> QED
    BY <2>2, <2>3
<1>7. Ready' = Ready /\ FreeSpace' = FreeSpace
  BY <1>5 DEF Ready, FreeSpace
<1> DEFINE hole == sHoleSize'
           future == wFutureDataSize'
<1>8. /\ hole \in 1 .. RxSize - 2 /\ future \in 0 .. RxSize - 1
      /\ hole + future <= FreeSpace
  BY <1>1, <1>2, <1>3, <1>4, <1>5 DEF FutureAfter, hole, future
<1> HIDE DEF hole, future
<1>9. fifo' \in [Cell -> 0 .. StreamLength - 1 \cup {NoByte}]
  <2>1. ASSUME NEW c \in Cell PROVE fifo'[c] \in 0 .. StreamLength - 1 \cup {-1}
    <3>1. CASE fifo'[c] = fifo[c]
      BY <1>0, <3>1
    <3>2. ASSUME NEW k \in 0 .. n - 1, fifo'[c] = s.seq + k
          PROVE  fifo'[c] \in 0 .. StreamLength - 1
      BY <1>1, <1>2, <1>3, <3>2
    <3> QED
      BY <1>6, <3>1, <3>2
  <2> QED
    BY <1>6, <2>1
<1>10. RxTypeOK'
  BY <1>1, <1>5, <1>8, <1>9 DEF RxTypeOK, RxInv, hole, future
<1>11. FifoHoldsTheStream' /\ FinComesLast'
  BY <1>5, <1>6, <1>7 DEF RxInv, FifoHoldsTheStream, FinComesLast, Wrap
<1>12. ASSUME NEW p \in Int, hole <= p, p < hole + future
       PROVE  fifo'[Wrap(rxHead + p)] = RemoteSEQ + p
  <2>0. /\ hole \in Int /\ future \in Int /\ FreeSpace \in Int
        /\ hole >= 1 /\ hole + future <= FreeSpace
    BY <1>1, <1>2, <1>8
  <2>1. p \in 0 .. FreeSpace - 1
    BY <1>12, <2>0
  <2>2. CASE p \in gap .. gap + n - 1
    <3> DEFINE k == p - gap
    <3>1. /\ k \in 0 .. n - 1 /\ rxHead + gap + k = rxHead + p
          /\ s.seq + k = RemoteSEQ + p
      BY <1>1, <1>2, <1>3, <2>2
    <3>2. fifo'[Wrap(rxHead + gap + k)] = s.seq + k
      BY <1>6, <3>1
    <3> QED
      BY <3>1, <3>2
  <2>3. CASE p \notin gap .. gap + n - 1
    <3>1. sHoleSize # -1 /\ p - sHoleSize \in 0 .. wFutureDataSize - 1
      BY <1>1, <1>2, <1>3, <1>4, <1>5, <1>12, <2>1, <2>3 DEF FutureAfter, hole, future
    <3> DEFINE k == p - sHoleSize
    <3>2. fifo[Wrap(rxHead + sHoleSize + k)] = RemoteSEQ + sHoleSize + k
      BY <3>1 DEF RxInv, HoleIsTrue
    <3>3. rxHead + sHoleSize + k = rxHead + p /\ RemoteSEQ + sHoleSize + k = RemoteSEQ + p
      BY <1>1, <2>1, <3>1
    <3>4. fifo'[Wrap(rxHead + p)] = fifo[Wrap(rxHead + p)]
      BY <1>6, <2>1, <2>3
    <3> QED
      BY <3>2, <3>3, <3>4
  <2> QED
    BY <2>2, <2>3
<1>13. HoleIsTrue'
  <2>1. ASSUME NEW k \in 0 .. future - 1
        PROVE  fifo'[Wrap(rxHead + hole + k)] = RemoteSEQ + hole + k
    <3> DEFINE p == hole + k
    <3>1. /\ p \in Int /\ hole <= p /\ p < hole + future
          /\ rxHead + hole + k = rxHead + p /\ RemoteSEQ + hole + k = RemoteSEQ + p
      <4>1. hole \in Int /\ future \in Int /\ rxHead \in Int /\ RemoteSEQ \in Int
        BY <1>1, <1>8
      <4> QED
        BY <4>1
    <3> QED
      BY <1>12, <3>1
  <2>2. \A k \in 0 .. future - 1 :
          fifo'[(Wrap(rxHead + sHoleSize + k))'] = RemoteSEQ' + hole + k
    BY <1>5, <2>1 DEF Wrap, hole, future
  <2>3. hole > 0 /\ hole + future <= FreeSpace'
    BY <1>1, <1>7, <1>8
  <2> QED
    BY <2>2, <2>3 DEF HoleIsTrue, hole, future
<1> QED
  BY <1>10, <1>11, <1>13 DEF RxInv

(***************************************************************************)
(* The application reads: the ring's tail moves, and nothing else.         *)
(***************************************************************************)
LEMMA TakesKeeps ==
  ASSUME RxInv, NEW n \in 1 .. RxSize - 1, TCPGetArray(n)
  PROVE  RxInv'
<1>1. /\ RxSize \in Nat /\ RxSize > 1 /\ taken \in Nat /\ RemoteSEQ \in 0 .. StreamLength + 1
      /\ rxHead \in 0 .. RxSize - 1 /\ rxTail \in 0 .. RxSize - 1 /\ StreamLength \in Nat
      /\ RemoteSEQ = taken + Ready + (IF finReceived THEN 1 ELSE 0)
      /\ sHoleSize \in -1 .. RxSize - 2 /\ wFutureDataSize \in 0 .. RxSize - 1
  BY ReceiveAssumption DEF RxInv, RxTypeOK, FifoHoldsTheStream
<1>2. FreeSpace \in 0 .. RxSize - 1 /\ Ready \in 0 .. RxSize - 1
  BY <1>1, FullAndFree
<1>3. /\ n <= Ready /\ rxTail' = Wrap(rxTail + n) /\ taken' = taken + n
      /\ rxHead' = rxHead /\ fifo' = fifo /\ RemoteSEQ' = RemoteSEQ /\ sHoleSize' = sHoleSize
      /\ wFutureDataSize' = wFutureDataSize /\ finReceived' = finReceived
  BY DEF TCPGetArray
<1>4. /\ rxTail' \in Cell /\ Ready' = Ready - n /\ FreeSpace' = FreeSpace + n
      /\ \A k \in 0 .. Ready - n, j \in Nat :
           j = n + k => Wrap(rxTail' + k) = Wrap(rxTail + j)
  <2>1. n \in 0 .. Ready /\ rxHead \in Cell /\ rxTail \in Cell
    BY <1>1, <1>2, <1>3
  <2> QED
    BY <1>3, <2>1, TailMoves, Zenon
<1>5. RemoteSEQ' = taken' + Ready' + (IF finReceived' THEN 1 ELSE 0)
  BY <1>1, <1>2, <1>3, <1>4
<1>6. ASSUME NEW k \in 0 .. Ready' - 1
      PROVE  fifo'[Wrap(rxTail' + k)] = taken' + k
  <2> DEFINE j == n + k
  <2>1. j \in 0 .. Ready - 1 /\ k \in 0 .. Ready - n /\ j \in Nat
    BY <1>1, <1>2, <1>3, <1>4
  <2>2. fifo[Wrap(rxTail + j)] = taken + j
    BY <2>1 DEF RxInv, FifoHoldsTheStream
  <2>3. Wrap(rxTail' + k) = Wrap(rxTail + j)
    BY <1>4, <2>1
  <2>4. taken + j = taken' + k
    BY <1>1, <1>3, <2>1
  <2> QED
    BY <1>3, <2>2, <2>3, <2>4
<1>7. taken' <= StreamLength
  <2>1. CASE finReceived
    BY <1>1, <1>2, <1>3, <2>1
  <2>2. CASE ~finReceived
    <3> DEFINE k == Ready - 1
    <3>1. k \in 0 .. Ready - 1 /\ rxTail + k \in 0 .. 2 * RxSize - 1
      BY <1>1, <1>2, <1>3
    <3>2. fifo[Wrap(rxTail + k)] = taken + k /\ Wrap(rxTail + k) \in Cell
      BY <3>1, WrapIsCell DEF RxInv, FifoHoldsTheStream
    <3>3. fifo[Wrap(rxTail + k)] \in 0 .. StreamLength - 1 \cup {-1}
      BY <3>2 DEF RxInv, RxTypeOK
    <3> QED
      BY <1>1, <1>2, <1>3, <3>1, <3>2, <3>3
  <2> QED
    BY <2>1, <2>2
<1>8. RxTypeOK'
  BY <1>1, <1>3, <1>4, <1>7 DEF RxInv, RxTypeOK
<1>9. FifoHoldsTheStream'
  BY <1>5, <1>6 DEF FifoHoldsTheStream, Wrap
<1>10. FinComesLast'
  BY <1>1, <1>2, <1>3, <1>4 DEF RxInv, FinComesLast
<1>11. HoleIsTrue'
  <2>1. sHoleSize' # -1 => sHoleSize' > 0 /\ sHoleSize' + wFutureDataSize' <= FreeSpace'
    BY <1>1, <1>2, <1>3, <1>4 DEF RxInv, HoleIsTrue
  <2> QED
    BY <1>3, <2>1 DEF RxInv, HoleIsTrue, Wrap
<1> QED
  BY <1>8, <1>9, <1>10, <1>11 DEF RxInv

(***************************************************************************)
(* Whatever arrives and whenever the application reads, the FIFO holds the *)
(* remote node's stream from the next byte to be read on, the FIN is taken *)
(* last, and the bytes that wait behind the hole are those of the stream.  *)
(***************************************************************************)
THEOREM StreamIsTrue == RxSpec => []RxInv
<1>1. RxInv /\ [RxNext]_rxvars => RxInv'
  <2> SUFFICES ASSUME RxInv, [RxNext]_rxvars PROVE RxInv'
    OBVIOUS
  <2>1. ASSUME NEW s \in Segment, s.seq + s.len <= StreamLength,
               s.fin => s.seq + s.len = StreamLength, s.seq + MaxStale >= RemoteSEQ,
               Receive(s)
        PROVE  RxInv'
    <3>1. Arriving(s) /\ Acceptable(s) /\ ~finReceived /\ UNCHANGED <<rxTail, taken>>
      BY <2>1 DEF Arriving, Receive
    <3>2. s.len \in Nat /\ Offset(s) \in Int
      <4>1. s.len \in Nat /\ s.seq \in Int /\ RemoteSEQ \in Int
        BY ReceiveAssumption DEF Segment, RxInv, RxTypeOK
      <4> QED
        BY <3>1, <4>1, AcceptableFits DEF RxInv
    <3>3. CASE s.len > 0 /\ Offset(s) > 0
      <4>1. AheadOfOrder(s)
        BY <2>1, <3>3 DEF Receive
      <4> QED
        BY <3>1, <3>3, <4>1, AheadOfOrderKeeps
    <3>4. CASE s.len = 0 \/ Offset(s) <= 0
      <4>1. InOrder(s)
        BY <2>1, <3>2, <3>4 DEF Receive
      <4> QED
        BY <3>1, <3>4, <4>1, InOrderKeeps
    <3> QED
      BY <3>2, <3>3, <3>4
  <2>2. CASE Takes
    BY <2>2, TakesKeeps DEF Takes
  <2>3. CASE UNCHANGED rxvars
    BY <2>3 DEF rxvars, RxInv, RxTypeOK, FifoHoldsTheStream, FinComesLast, HoleIsTrue,
         Ready, FreeSpace, Wrap
  <2> QED
    BY <2>1, <2>2, <2>3 DEF RxNext, Arrives
<1> QED
  BY <1>1, InitHolds, PTL DEF RxSpec

-----------------------------------------------------------------------------
(***************************************************************************)
(* A socket's requests.  While one is not answered no more time shows on   *)
(* the 16-bit clock than has passed, for the clock can only wrap back.     *)
(***************************************************************************)

\* What the history says of the clock.
Measured == smState = "GET_ARP" => now - eventTime <= elapsed
GatewayInv == GatewayTypeOK /\ Measured

\* The constants' types.
LEMMA GatewayNumbers ==
  /\ WordRange \in Nat /\ WordRange > 0 /\ MaxRetries \in Nat
  /\ Interval \in [0 .. MaxRetries -> Nat] /\ Interval[0] = FirstInterval
  /\ \A k \in 1 .. MaxRetries : Interval[k] = 2 * Interval[k - 1]
<1> DEFINE Is(f) == f = [k \in 0 .. MaxRetries |-> IF k = 0 THEN FirstInterval ELSE 2 * f[k - 1]]
           step == [k \in Nat |-> [v \in Nat |-> 2 * v]]
<1>1. WordRange \in Nat /\ MaxRetries \in Nat /\ FirstInterval \in Nat
  BY ArpAssumption
<1>2. Interval = CHOOSE f : Is(f)
  BY DEF Interval
<1>3. Steps(step, Nat)
  BY DEF Steps
<1>4. PICK f : Reaches(f, Nat, FirstInterval, step, MaxRetries)
  <2> HIDE DEF step
  <2> QED
    BY <1>1, <1>3, Iterates, Zenon
<1>5. f \in [0 .. MaxRetries -> Nat] /\ f[0] = FirstInterval
  BY <1>4 DEF Reaches
<1>6. ASSUME NEW k \in 1 .. MaxRetries PROVE f[k] = 2 * f[k - 1]
  <2>1. f[k] = step[k][f[k - 1]]
    BY <1>4 DEF Reaches
  <2>2. k \in Nat /\ k - 1 \in 0 .. MaxRetries
    BY <1>1
  <2>3. f[k - 1] \in Nat
    BY <1>5, <2>2
  <2> QED
    BY <2>1, <2>2, <2>3
<1>7. Is(f)
  <2>1. ASSUME NEW n \in 0 .. MaxRetries
        PROVE  f[n] = IF n = 0 THEN FirstInterval ELSE 2 * f[n - 1]
    <3>1. CASE n = 0
      BY <1>5, <3>1
    <3>2. CASE n # 0
      <4>1. n \in 1 .. MaxRetries
        BY <1>1, <3>2
      <4> QED
        BY <1>6, <3>2, <4>1
    <3> QED
      BY <3>1, <3>2
  <2> QED
    BY <1>5, <2>1
<1>8. Is(Interval)
  BY <1>2, <1>7, Zenon
<1>9. \A k \in 0 .. MaxRetries : Interval[k] = IF k = 0 THEN FirstInterval ELSE 2 * Interval[k - 1]
  <2> DEFINE g == Interval
  <2>1. Is(g)
    BY <1>8
  <2> HIDE DEF g
  <2>2. \A k \in 0 .. MaxRetries : g[k] = IF k = 0 THEN FirstInterval ELSE 2 * g[k - 1]
    BY <2>1
  <2> QED
    BY <2>2 DEF g
<1>10. Interval[0] = FirstInterval
  <2>1. 0 \in 0 .. MaxRetries
    BY <1>1
  <2> QED
    BY <1>9, <2>1
<1>11. \A k \in 1 .. MaxRetries : Interval[k] = 2 * Interval[k - 1]
  <2> SUFFICES ASSUME NEW k \in 1 .. MaxRetries PROVE Interval[k] = 2 * Interval[k - 1]
    OBVIOUS
  <2>1. k \in 0 .. MaxRetries /\ k # 0
    BY <1>1
  <2> QED
    BY <1>9, <2>1
<1> HIDE DEF Is
<1> DEFINE T == {m \in Nat : m <= MaxRetries => Interval[m] \in Nat}
<1>12. 0 \in T
  BY <1>1, <1>10
<1>13. ASSUME NEW m \in T PROVE m + 1 \in T
  <2> DEFINE k == m + 1
  <2>1. SUFFICES ASSUME k <= MaxRetries PROVE Interval[k] \in Nat
    OBVIOUS
  <2>2. k \in 1 .. MaxRetries /\ k - 1 = m /\ Interval[m] \in Nat
    BY <1>1, <2>1
  <2> HIDE DEF k, T
  <2> QED
    BY <1>11, <2>2
<1>14. T = Nat
  <2> HIDE DEF T
  <2>1. T \subseteq Nat
    BY DEF T
  <2> QED
    BY <1>12, <1>13, <2>1, Induct
<1>15. \A k \in 0 .. MaxRetries : Interval[k] \in Nat
  BY <1>1, <1>14
<1>16. Interval \in [0 .. MaxRetries -> Nat]
  <2> DEFINE g == Interval
  <2>1. Is(g) /\ \A k \in 0 .. MaxRetries : g[k] \in Nat
    BY <1>8, <1>15
  <2> HIDE DEF g
  <2>2. g = [k \in 0 .. MaxRetries |-> IF k = 0 THEN FirstInterval ELSE 2 * g[k - 1]]
    BY <2>1 DEF Is
  <2>3. g \in [0 .. MaxRetries -> Nat]
    BY <2>1, <2>2
  <2> QED
    BY <2>3 DEF g
<1>17. WordRange > 0
  BY <1>1, <1>15, ArpAssumption
<1> QED
  BY <1>1, <1>10, <1>11, <1>16, <1>17

\* Every step of the socket, of the clock and of the cache.
LEMMA GatewayKeeps == ASSUME GatewayInv, [GatewayNext]_gatewayvars PROVE GatewayInv'
<1>1. /\ now \in 0 .. WordRange - 1 /\ eventTime \in 0 .. WordRange - 1
      /\ smState \in {"SEND_ARP", "GET_ARP", "OPENED"} /\ retryCount \in 0 .. MaxRetries
      /\ cached \in BOOLEAN /\ polled \in BOOLEAN /\ elapsed \in 0 .. ElapsedBound
  BY DEF GatewayInv, GatewayTypeOK
<1>2. retryInterval = Interval[retryCount] /\ Measured
  BY DEF GatewayInv, GatewayTypeOK
<1>3. WordRange \in Nat /\ WordRange > 0 /\ MaxRetries \in Nat /\ ElapsedBound = 2 * WordRange
  BY GatewayNumbers DEF ElapsedBound
<1>4. CASE ClockTicks
  <2>1. UNCHANGED <<smState, eventTime, retryInterval, retryCount, cached>> /\ polled' = FALSE
        /\ now' = (now + 1) % WordRange /\ elapsed' = IF elapsed < ElapsedBound THEN elapsed + 1 ELSE elapsed
    BY <1>4 DEF ClockTicks, gatewaySocket
  <2>2. now' = IF now + 1 < WordRange THEN now + 1 ELSE 0
    <3>1. CASE now + 1 < WordRange
      BY <1>1, <1>3, <2>1, <3>1
    <3>2. CASE now + 1 = WordRange
      BY <1>1, <1>3, <2>1, <3>2
    <3> QED
      BY <1>1, <1>3, <3>1, <3>2
  <2>3. now' \in 0 .. WordRange - 1 /\ now' <= now + 1
    BY <1>1, <1>3, <2>2
  <2>4. elapsed' \in 0 .. ElapsedBound
    BY <1>1, <1>3, <2>1
  <2>5. Measured'
    <3> SUFFICES ASSUME smState = "GET_ARP" PROVE now' - eventTime <= elapsed'
      BY <2>1 DEF Measured
    <3>1. now - eventTime <= elapsed
      BY <1>2 DEF Measured
    <3> QED
      BY <1>1, <1>3, <2>1, <2>3, <3>1
  <2> QED
    BY <1>1, <1>2, <2>1, <2>3, <2>4, <2>5 DEF GatewayInv, GatewayTypeOK
<1>5. CASE ArpCacheChanges
  BY <1>1, <1>2, <1>5 DEF ArpCacheChanges, gatewaySocket, GatewayInv, GatewayTypeOK, Measured
<1>6. CASE SendArp
  <2>1. now - now <= 0 /\ 0 \in 0 .. ElapsedBound
    BY <1>1, <1>3
  <2> QED
    BY <1>1, <1>2, <1>6, <2>1 DEF SendArp, GatewayInv, GatewayTypeOK, Measured
<1>7. CASE Resolved
  BY <1>1, <1>2, <1>7 DEF Resolved, GatewayInv, GatewayTypeOK, Measured
<1>8. CASE Wait
  BY <1>1, <1>2, <1>8 DEF Wait, gatewaySocket, GatewayInv, GatewayTypeOK, Measured
<1>9. CASE TimeOut
  <2>1. UNCHANGED <<now, eventTime, cached, elapsed>> /\ smState' = "SEND_ARP" /\ polled' = TRUE
    BY <1>9 DEF TimeOut
  <2>2. retryCount' \in 0 .. MaxRetries /\ retryInterval' = Interval[retryCount']
    <3>1. CASE retryCount < MaxRetries
      <4> DEFINE k == retryCount + 1
      <4>1. k \in 1 .. MaxRetries /\ k - 1 = retryCount /\ k \in 0 .. MaxRetries
        BY <1>1, <1>3, <3>1
      <4>2. retryCount' = k /\ retryInterval' = 2 * retryInterval
        BY <1>9, <3>1 DEF TimeOut
      <4> HIDE DEF k
      <4>3. Interval[k] = 2 * Interval[retryCount]
        BY <4>1, GatewayNumbers
      <4> QED
        BY <1>2, <4>1, <4>2, <4>3
    <3>2. CASE ~(retryCount < MaxRetries)
      BY <1>1, <1>2, <1>9, <3>2 DEF TimeOut
    <3> QED
      BY <3>1, <3>2
  <2> QED
    BY <1>1, <2>1, <2>2 DEF GatewayInv, GatewayTypeOK, Measured
<1>10. CASE PassBy
  BY <1>1, <1>2, <1>10 DEF PassBy, gatewaySocket, GatewayInv, GatewayTypeOK, Measured
<1>11. CASE Reopen
  <2>1. 0 \in 0 .. MaxRetries /\ Interval[0] = FirstInterval
    BY <1>3, GatewayNumbers
  <2> QED
    BY <1>1, <1>2, <1>11, <2>1 DEF Reopen, GatewayInv, GatewayTypeOK, Measured
<1>12. CASE UNCHANGED gatewayvars
  BY <1>1, <1>2, <1>12 DEF gatewayvars, gatewaySocket, GatewayInv, GatewayTypeOK, Measured
<1> QED
  BY <1>4, <1>5, <1>6, <1>7, <1>8, <1>9, <1>10, <1>11, <1>12 DEF GatewayNext, Task

\* At the start the clock shows any time, and nothing waits.
LEMMA GatewayStarts == GatewayInit => GatewayInv
<1> SUFFICES ASSUME GatewayInit PROVE GatewayInv
  OBVIOUS
<1>1. WordRange \in Nat /\ WordRange > 0 /\ MaxRetries \in Nat /\ Interval[0] = FirstInterval
  BY GatewayNumbers
<1>2. 0 \in 0 .. WordRange - 1 /\ 0 \in 0 .. MaxRetries /\ 0 \in 0 .. ElapsedBound
  BY <1>1 DEF ElapsedBound
<1> QED
  BY <1>1, <1>2 DEF GatewayInit, GatewayInv, GatewayTypeOK, Measured

\* A time-out comes only when the interval has passed.
LEMMA TimeOutIsDue == GatewayInv /\ TimeOut => elapsed > retryInterval
<1> SUFFICES ASSUME GatewayInv, TimeOut PROVE elapsed > retryInterval
  OBVIOUS
<1>1. now - eventTime > retryInterval /\ now - eventTime <= elapsed
  BY DEF TimeOut, TimedOut, GatewayInv, Measured
<1>2. now \in Int /\ eventTime \in Int /\ elapsed \in Int
  BY DEF GatewayInv, GatewayTypeOK
<1>3. retryInterval \in Int
  BY GatewayNumbers DEF GatewayInv, GatewayTypeOK
<1> QED
  BY <1>1, <1>2, <1>3

(***************************************************************************)
(* The safety half of RepeatedInTime: the interval is the one of so many   *)
(* retries, and no request is repeated before it has really passed since   *)
(* the last one, wherever the 16-bit clock stands or wraps.                *)
(***************************************************************************)
THEOREM NeverEarlyAlways == GatewaySpec => []GatewayTypeOK /\ NeverEarly
<1>1. GatewayInv /\ [GatewayNext]_gatewayvars => GatewayInv'
  BY GatewayKeeps
<1>2. GatewayInv /\ [GatewayNext]_gatewayvars => [TimeOut => elapsed > retryInterval]_gatewayvars
  BY TimeOutIsDue
<1>3. GatewayInv => GatewayTypeOK
  BY DEF GatewayInv
<1> QED
  BY <1>1, <1>2, <1>3, GatewayStarts, PTL DEF GatewaySpec, NeverEarly

=============================================================================
