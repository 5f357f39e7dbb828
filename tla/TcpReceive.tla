------------------------------ MODULE TcpReceive ------------------------------
(***************************************************************************)
(* The receiving half of a socket of net/TCP.c: HandleTCPSeg's test of a   *)
(* segment's sequence number, and the RX FIFO into which it copies the     *)
(* segment, in order or, leaving one hole, ahead of order.                 *)
(*                                                                         *)
(* Bytes and sequence numbers are positions in the stream of the remote    *)
(* node.  The network is what may arrive: at any moment any piece of the   *)
(* stream, again or for the first time, so segments are lost, repeated,    *)
(* reordered and cut up anew.  The FIFO is the ring of the code, with the  *)
(* pointers counted from bufferRxStart; a copy in two parts, before and    *)
(* after the end of the ring, is a write at wrapped places.                *)
(***************************************************************************)
EXTENDS Integers

CONSTANTS
  RxSize,        \* bufferEnd - bufferRxStart + 1
  SeqRange,      \* values of a WORD: 2^16
  StreamLength,  \* bytes the remote node sends before its FIN
  MaxSegment,    \* bytes of a segment
  MaxStale       \* bound: how far behind the stream a late segment may start

ASSUME ReceiveAssumption ==
  /\ RxSize \in Nat /\ RxSize > 1
  /\ StreamLength \in Nat /\ MaxSegment \in Nat
  /\ MaxStale \in Nat /\ SeqRange \in Nat
  /\ 2 * RxSize <= SeqRange /\ 2 * MaxSegment + 2 < SeqRange
  /\ 2 * MaxStale <= SeqRange

VARIABLES
  rxHead, rxTail,               \* MyTCBStub
  fifo,                         \* the bytes of the ring
  RemoteSEQ,                    \* MyTCB: the next byte wanted
  sHoleSize, wFutureDataSize,   \* MyTCB
  finReceived,                  \* the FIN was taken: TCP_CLOSE_WAIT
  taken                         \* history: bytes the application took

rxvars == <<rxHead, rxTail, fifo, RemoteSEQ, sHoleSize, wFutureDataSize,
            finReceived, taken>>

NoByte == -1
Cell == 0 .. RxSize - 1
Segment == [seq : 0 .. StreamLength, len : 0 .. MaxSegment, fin : BOOLEAN]

RxInit ==
  /\ rxHead = 0 /\ rxTail = 0 /\ fifo = [c \in Cell |-> NoByte]
  /\ RemoteSEQ = 0 /\ sHoleSize = -1 /\ wFutureDataSize = 0
  /\ finReceived = FALSE /\ taken = 0

Smaller(a, b) == IF a < b THEN a ELSE b
Wrap(place) == IF place > RxSize - 1 THEN place - RxSize ELSE place

\* (SHORT)(WORD)n
Short(n) == IF 2 * (n % SeqRange) < SeqRange
            THEN n % SeqRange ELSE (n % SeqRange) - SeqRange

\* TCPIsGetReady, and what TCPGetRxFIFOFree makes of it
Ready == IF rxHead >= rxTail THEN rxHead - rxTail
                             ELSE RxSize - rxTail + rxHead
FreeSpace == IF rxHead >= rxTail THEN RxSize - 1 - (rxHead - rxTail)
                                 ELSE rxTail - rxHead - 1

-----------------------------------------------------------------------------
(* HandleTCPSeg *)

WithFin(s) == s.len + (IF s.fin THEN 1 ELSE 0)

Acceptable(s) ==
  LET missing == s.seq - RemoteSEQ
      length == WithFin(s)
  IN  IF length = 0
      THEN missing = 0 \/ (0 <= missing /\ missing < FreeSpace)
      ELSE /\ FreeSpace > 0
           /\ \/ 0 <= missing /\ missing < FreeSpace
              \/ missing + length > 0 /\ missing <= Short(FreeSpace - length)
              \/ missing < FreeSpace /\ Short(missing) + length > 0

\* The FIFO after n bytes of the stream from `first` on were put at place
\* `offset` ahead of the head.
Copied(offset, n, first) ==
  [c \in Cell |->
     IF \E k \in 0 .. n - 1 : c = Wrap(rxHead + offset + k)
     THEN first + (CHOOSE k \in 0 .. n - 1 : c = Wrap(rxHead + offset + k))
     ELSE fifo[c]]

\* The hole is filled as far as n bytes go; the bytes behind it join.
Advance(n) ==
  LET left == sHoleSize - n
      joins == wFutureDataSize + left
  IN  IF sHoleSize = -1 \/ joins < 0 \/ left > 0 THEN n ELSE n + joins

HoleAfter(n) ==
  IF sHoleSize # -1 /\ sHoleSize - n > 0 /\ wFutureDataSize + (sHoleSize - n) >= 0
  THEN sHoleSize - n ELSE -1

\* Where a segment starts, counted from the byte wanted, and how many of its
\* bytes are stored: not those already there, nor those there is no room for.
Offset(s) == Short(s.seq - RemoteSEQ)
Stored(s) ==
  IF s.len = 0 THEN 0
  ELSE IF Offset(s) <= 0 THEN Smaller(s.len + Offset(s), FreeSpace)
                         ELSE Smaller(s.len, FreeSpace - Offset(s))

\* mutant: the FIN is not counted as the byte it takes
FinUncounted(s) ==
  s.fin /\ RemoteSEQ + Advance(Stored(s)) = s.seq + WithFin(s)

\* A FIN counts only when all before it is stored, by this segment or before.
FinInOrder(s) ==
  s.fin /\ RemoteSEQ + Advance(Stored(s)) + 1 = s.seq + WithFin(s)

InOrder(s) ==
  LET n == Stored(s)
  IN  /\ fifo' = Copied(0, n, s.seq - Offset(s))
      /\ rxHead' = Wrap(rxHead + Advance(n))
      /\ RemoteSEQ' = RemoteSEQ + Advance(n) + (IF FinInOrder(s) THEN 1 ELSE 0)
      /\ finReceived' = FinInOrder(s)
      /\ sHoleSize' = HoleAfter(n)
      /\ UNCHANGED wFutureDataSize

\* mutant: data behind a second hole is counted in
FutureOverSecondHole(gap, n) ==
  IF sHoleSize = -1 THEN n
  ELSE IF gap < sHoleSize
       THEN IF gap + n > sHoleSize + wFutureDataSize \/ gap + n < sHoleSize
            THEN n ELSE sHoleSize + wFutureDataSize - gap
       ELSE IF gap + n > sHoleSize + wFutureDataSize
            THEN gap + n - sHoleSize ELSE wFutureDataSize

\* What is known of the bytes behind the hole once n more are there.
FutureAfter(gap, n) ==
  IF sHoleSize = -1 THEN n
  ELSE IF gap < sHoleSize
       THEN IF gap + n > sHoleSize + wFutureDataSize \/ gap + n < sHoleSize
            THEN n ELSE sHoleSize + wFutureDataSize - gap
       ELSE IF /\ gap + n > sHoleSize + wFutureDataSize
               /\ gap <= sHoleSize + wFutureDataSize
            THEN gap + n - sHoleSize ELSE wFutureDataSize

\* Bytes that come too early wait behind a hole; a FIN with them is ignored.
AheadOfOrder(s) ==
  LET gap == Offset(s)
      n == Stored(s)
  IN  /\ fifo' = Copied(gap, n, s.seq)
      /\ sHoleSize' = IF sHoleSize = -1 \/ gap < sHoleSize THEN gap ELSE sHoleSize
      /\ wFutureDataSize' = FutureAfter(gap, n)
      /\ UNCHANGED <<rxHead, RemoteSEQ, finReceived>>

\* After the FIN, in TCP_CLOSE_WAIT, nothing more is stored.
Receive(s) ==
  /\ ~finReceived /\ Acceptable(s)
  /\ IF s.len > 0 /\ Offset(s) > 0 THEN AheadOfOrder(s) ELSE InOrder(s)
  /\ UNCHANGED <<rxTail, taken>>

\* Any piece of the stream the remote node may have sent, first or again.
Arrives ==
  \E s \in Segment :
    /\ s.seq + s.len <= StreamLength
    /\ s.fin => s.seq + s.len = StreamLength
    /\ s.seq + MaxStale >= RemoteSEQ
    /\ Receive(s)

-----------------------------------------------------------------------------
(* The application *)

\* TCPGet, TCPGetArray; TCPDiscard takes all there is.
TCPGetArray(n) ==
  /\ n <= Ready
  /\ rxTail' = Wrap(rxTail + n) /\ taken' = taken + n
  /\ UNCHANGED <<rxHead, fifo, RemoteSEQ, sHoleSize, wFutureDataSize, finReceived>>

Takes == \E n \in 1 .. RxSize - 1 : TCPGetArray(n)

RxNext == Arrives \/ Takes

RxSpec == RxInit /\ [][RxNext]_rxvars

\* The remote node sends again what is not acknowledged, from the first such
\* byte on, as far as the window goes; the application reads.
FirstMissing(s) ==
  /\ s.seq = RemoteSEQ /\ s.len <= FreeSpace
  /\ s.len = MaxSegment \/ s.len = FreeSpace \/ s.seq + s.len = StreamLength
  /\ s.fin <=> s.seq + s.len = StreamLength

Resends == \E s \in Segment : FirstMissing(s) /\ s.seq + s.len <= StreamLength /\ Receive(s)

RxFairness == WF_rxvars(Resends) /\ WF_rxvars(Takes)

-----------------------------------------------------------------------------
(* Properties *)

RxTypeOK ==
  /\ rxHead \in Cell /\ rxTail \in Cell
  /\ fifo \in [Cell -> 0 .. StreamLength - 1 \cup {NoByte}]
  /\ RemoteSEQ \in 0 .. StreamLength + 1
  /\ sHoleSize \in -1 .. RxSize - 2 /\ wFutureDataSize \in 0 .. RxSize - 1
  /\ finReceived \in BOOLEAN /\ taken \in 0 .. StreamLength

(***************************************************************************)
(* However the stream is cut up, reordered and repeated on its way, what   *)
(* the application can read is the stream: the byte it takes next is the   *)
(* one that follows those it took, and nothing is acknowledged that is not *)
(* there.                                                                  *)
(***************************************************************************)
FifoHoldsTheStream ==
  /\ RemoteSEQ = taken + Ready + (IF finReceived THEN 1 ELSE 0)
  /\ \A k \in 0 .. Ready - 1 : fifo[Wrap(rxTail + k)] = taken + k

(***************************************************************************)
(* The FIN is taken last: the application finds the connection closing     *)
(* with the whole stream in the FIFO or already read.                      *)
(***************************************************************************)
FinComesLast == finReceived => taken + Ready = StreamLength

(***************************************************************************)
(* Why: the bytes behind the hole are those of the stream, and they are    *)
(* within the free part of the ring.                                       *)
(***************************************************************************)
HoleIsTrue ==
  sHoleSize # -1 =>
    /\ sHoleSize > 0 /\ sHoleSize + wFutureDataSize <= FreeSpace
    /\ \A k \in 0 .. wFutureDataSize - 1 :
         fifo[Wrap(rxHead + sHoleSize + k)] = RemoteSEQ + sHoleSize + k

(***************************************************************************)
(* The receiving half as a whole: what is read, what ends it, and what waits*)
(* behind the hole, each of which the next segment may disturb.            *)
(***************************************************************************)
RxInv == RxTypeOK /\ FifoHoldsTheStream /\ FinComesLast /\ HoleIsTrue

(***************************************************************************)
(* The test of sequence numbers never refuses what is missing: a remote    *)
(* node that repeats it gets everything through, and its FIN, although the *)
(* window closes and opens and bytes wait behind holes.                    *)
(***************************************************************************)
StreamGetsThrough == RemoteSEQ > 0 ~> taken = StreamLength /\ finReceived

=============================================================================
