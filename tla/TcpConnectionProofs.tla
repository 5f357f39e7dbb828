------------------------- MODULE TcpConnectionProofs -------------------------
(***************************************************************************)
(* The TCP engine keeps our stream whole, and its socket passes through    *)
(* the states that TcpSocket shows to its user: for every size of FIFO,    *)
(* segment, window and word, and every number of retries.                  *)
(*                                                                         *)
(* A call works on a copy of the TCB, c, and leaves in c.sent what it has  *)
(* sent; the invariant is therefore one of such a c, and of what the       *)
(* remote node has when it got none, some or all of it.                    *)
(***************************************************************************)
EXTENDS TcpConnection, Recursion, TLAPS

Segment == [seq : Int, len : Nat, syn : BOOLEAN, fin : BOOLEAN]

Tcb ==
  [smState : State, MySEQ : Int, txTail : Nat, txUnackedTail : Nat,
   txHead : 0 .. MaxPut, remoteWindow : 0 .. WordRange - 1,
   rx : 0 .. RxRoom, remoteFin : BOOLEAN, bTimerEnabled : BOOLEAN,
   retryCount : 0 .. MaxRetries + MaxSynRetries, keepAlives : 0 .. MaxKeepAlives,
   noneACKed : 0 .. 2, due : {"no", "yes", "quick"}, oneSegment : BOOLEAN,
   bTXFIN : BOOLEAN, bFINSent : BOOLEAN, bSYNSent : BOOLEAN,
   bSocketReset : BOOLEAN, sent : Seq(Segment)]

\* Our numbers are known from the first SYN on; until then there is nothing.
Numbered(c) ==
  /\ c.txTail <= c.txUnackedTail /\ c.txUnackedTail <= c.txHead /\ c.txHead <= c.txTail + TxSize
  /\ c.bSYNSent => c.MySEQ = c.txUnackedTail
  /\ ~c.bSYNSent => /\ c.MySEQ = -1 /\ c.txHead = 0 /\ c.rx = 0 /\ c.sent = << >>
                    /\ c.due = "no" /\ ~c.oneSegment

\* What a segment bears was put before, and a FIN comes after all of it.
WellSent(s, c) ==
  /\ s.seq + s.len <= c.txHead
  /\ s.fin => s.seq + s.len = c.txHead /\ c.bFINSent

CallOK(c) == c \in Tcb /\ Numbered(c) /\ \A i \in 1 .. Len(c.sent) : WellSent(c.sent[i], c)

\* What the assumptions say of the numbers.
LEMMA Sizes ==
  /\ TxSize \in Nat /\ RxRoom \in Nat /\ MSS \in Nat /\ MSS > 0 /\ WordRange \in Nat /\ WordRange > 1
  /\ PeerWindow \in 0 .. WordRange - 1 /\ MaxPut \in Nat /\ TxSize > 0
  /\ MaxRetries \in Nat /\ MaxSynRetries \in Nat /\ MaxKeepAlives \in Nat /\ MaxRetries > 0
  /\ 0 \in 0 .. WordRange - 1 /\ 1 \in 0 .. WordRange - 1
BY ConnectionAssumption

\* The smaller of two numbers is one of them.
LEMMA SmallerIs ==
  ASSUME NEW a \in Int, NEW b \in Int
  PROVE  Smaller(a, b) \in {a, b} /\ Smaller(a, b) <= a /\ Smaller(a, b) <= b
BY DEF Smaller

-----------------------------------------------------------------------------
(* SendTCP                                                                 *)

\* What SendTCP sends and how it counts it
SentLength(c, flags) ==
  IF flags \cap {"SYN", "RST"} # {} THEN 0
  ELSE Smaller(Smaller(c.txHead - c.txUnackedTail, c.remoteWindow), MSS)

\* A call's data fits the window and the FIFO.
LEMMA LengthFits ==
  ASSUME NEW c \in Tcb, Numbered(c), NEW flags
  PROVE  LET len == SentLength(c, flags)
         IN /\ len \in Nat /\ c.txUnackedTail + len <= c.txHead
            /\ c.remoteWindow - len \in 0 .. WordRange - 1
            /\ FinFits(c, len) /\ flags \cap {"SYN", "RST"} = {} => c.txUnackedTail + len = c.txHead
<1> DEFINE room == c.txHead - c.txUnackedTail
           win == c.remoteWindow
<1>1. room \in Nat /\ c.txUnackedTail \in Nat /\ c.txHead \in Nat /\ win \in 0 .. WordRange - 1
  BY Sizes DEF Tcb, Numbered
<1> HIDE DEF win
<1>2. CASE flags \cap {"SYN", "RST"} # {}
  BY <1>1, <1>2, Sizes DEF SentLength, win
<1>3. CASE flags \cap {"SYN", "RST"} = {}
  <2> DEFINE len == Smaller(Smaller(room, win), MSS)
  <2>1. /\ len \in Nat /\ len <= room /\ len <= win
        /\ len # win /\ len # MSS => len = room
    BY <1>1, Sizes DEF Smaller
  <2>2. SentLength(c, flags) = len
    BY <1>3 DEF SentLength, win
  <2> HIDE DEF len
  <2>3. c.txUnackedTail + len <= c.txHead /\ (len = room => c.txUnackedTail + len = c.txHead)
    BY <1>1, <2>1
  <2>4. win - len \in 0 .. WordRange - 1
    BY <1>1, <2>1, Sizes
  <2>5. FinFits(c, len) => len # win /\ len # MSS
    BY DEF FinFits, win
  <2> QED
    BY <2>1, <2>2, <2>3, <2>4, <2>5 DEF win
<1> QED
  BY <1>2, <1>3

\* The TCB after SendTCP, field by field, for those that others read
LEMMA SendFields ==
  ASSUME NEW c \in Tcb, NEW flags, NEW mode
  PROVE  LET r == SendTCP(c, flags, mode)
             len == SentLength(c, flags)
             syn == "SYN" \in flags
             probe == mode = "keepalive"
         IN /\ r.smState = c.smState /\ r.txTail = c.txTail /\ r.txHead = c.txHead /\ r.rx = c.rx
            /\ r.remoteFin = c.remoteFin /\ r.noneACKed = c.noneACKed
            /\ r.bSocketReset = c.bSocketReset
            /\ r.txUnackedTail = c.txUnackedTail + len /\ r.remoteWindow = c.remoteWindow - len
            /\ r.MySEQ = c.MySEQ + len + (IF syn /\ ~c.bSYNSent THEN 1 ELSE 0)
            /\ r.bTXFIN = (c.bTXFIN \/ "FIN" \in flags)
            /\ r.bSYNSent = (c.bSYNSent \/ syn)
            /\ r.bFINSent => c.bFINSent \/ r.bTXFIN
            /\ c.bFINSent => r.bFINSent
BY DEF SendTCP, SentLength, Tcb

\* The segment that SendTCP appends
LEMMA SendAppends ==
  ASSUME NEW c \in Tcb, NEW flags, NEW mode
  PROVE  LET r == SendTCP(c, flags, mode)
             len == SentLength(c, flags)
         IN \E s \in [seq : Int, len : {len}, syn : BOOLEAN, fin : BOOLEAN] :
              /\ r.sent = Append(c.sent, s)
              /\ s.seq \in {c.MySEQ, c.MySEQ - 1}
              /\ s.fin => /\ flags \cap {"SYN", "RST"} = {} /\ FinFits(c, len) /\ r.bFINSent
                          /\ c.bTXFIN \/ "FIN" \in flags
              /\ s.fin => s.seq = c.MySEQ
              /\ s.len > 0 => s.seq = c.MySEQ
<1> DEFINE control == flags \cap {"SYN", "RST"} # {}
           wantsFin == c.bTXFIN \/ "FIN" \in flags
           len == SentLength(c, flags)
           syn == "SYN" \in flags
           fin == ~control /\ wantsFin /\ FinFits(c, len)
           counts == len > 0 \/ syn \/ fin
           probe == ~counts /\ mode = "keepalive"
           seq == IF probe \/ (syn /\ c.bSYNSent) THEN c.MySEQ - 1 ELSE c.MySEQ
           s == [seq |-> seq, len |-> len, syn |-> syn, fin |-> fin]
<1>1. SendTCP(c, flags, mode).sent = Append(c.sent, s) /\ SendTCP(c, flags, mode).bFINSent = (c.bFINSent \/ fin)
  BY DEF SendTCP, SentLength, Tcb
<1>2. c.MySEQ \in Int
  BY DEF Tcb
<1>3. s \in [seq : Int, len : {len}, syn : BOOLEAN, fin : BOOLEAN]
  BY <1>2
<1>4. s.seq \in {c.MySEQ, c.MySEQ - 1}
  OBVIOUS
<1>5. s.fin => /\ ~control /\ FinFits(c, len) /\ SendTCP(c, flags, mode).bFINSent
               /\ c.bTXFIN \/ "FIN" \in flags
  BY <1>1
<1>6. syn => control
  OBVIOUS
<1>7. s.fin => s.seq = c.MySEQ
  BY <1>6
<1>8. s.len > 0 => s.seq = c.MySEQ
  <2>1. control => len = 0
    BY DEF SentLength
  <2> QED
    BY <1>6, <2>1
<1> QED
  BY <1>1, <1>3, <1>4, <1>5, <1>7, <1>8

\* SendTCP keeps the types, if a probe is not one too many.
LEMMA SendTyped ==
  ASSUME NEW c \in Tcb, Numbered(c), NEW flags, NEW mode,
         mode = "keepalive" => c.keepAlives < MaxKeepAlives
  PROVE  SendTCP(c, flags, mode) \in Tcb
<1> DEFINE control == flags \cap {"SYN", "RST"} # {}
           wantsFin == c.bTXFIN \/ "FIN" \in flags
           allowed == Smaller(c.txHead - c.txUnackedTail, c.remoteWindow)
           len == SentLength(c, flags)
           syn == "SYN" \in flags
           fin == ~control /\ wantsFin /\ FinFits(c, len)
           counts == len > 0 \/ syn \/ fin
           probe == ~counts /\ mode = "keepalive"
           count == CASE counts /\ mode = "reset" -> 0
                      [] ~counts /\ ~probe /\ c.bTimerEnabled /\ mode # "reset" /\ c.retryCount > 0
                           -> c.retryCount - 1
                      [] OTHER -> c.retryCount
           alive == IF probe THEN c.keepAlives + 1 ELSE c.keepAlives
           due == IF ~control /\ allowed > MSS THEN "quick" ELSE "no"
           next == c.MySEQ + len + (IF syn /\ ~c.bSYNSent THEN 1 ELSE 0)
           r == SendTCP(c, flags, mode)
<1>1. /\ len \in Nat /\ c.txUnackedTail + len \in Nat /\ c.remoteWindow - len \in 0 .. WordRange - 1
  BY LengthFits DEF Tcb
<1>2. next \in Int
  BY <1>1 DEF Tcb
<1>3. count \in 0 .. MaxRetries + MaxSynRetries
  <2>1. c.retryCount \in 0 .. MaxRetries + MaxSynRetries
    BY DEF Tcb
  <2>2. count \in {0, c.retryCount} \/ (c.retryCount > 0 /\ count = c.retryCount - 1)
    OBVIOUS
  <2> HIDE DEF count
  <2> QED
    BY <2>1, <2>2, Sizes
<1>4. alive \in 0 .. MaxKeepAlives
  <2>1. c.keepAlives \in 0 .. MaxKeepAlives
    BY DEF Tcb
  <2>2. alive = c.keepAlives \/ (mode = "keepalive" /\ alive = c.keepAlives + 1)
    OBVIOUS
  <2> HIDE DEF alive
  <2> QED
    BY <2>1, <2>2, Sizes
<1>6. r.sent \in Seq(Segment)
  <2>1. PICK s \in [seq : Int, len : {len}, syn : BOOLEAN, fin : BOOLEAN] : r.sent = Append(c.sent, s)
    BY SendAppends
  <2>2. s \in Segment /\ c.sent \in Seq(Segment)
    BY <1>1, <2>1 DEF Segment, Tcb
  <2> QED
    BY <2>1, <2>2
<1>7. r = [c EXCEPT !.bTXFIN = wantsFin, !.bFINSent = c.bFINSent \/ fin, !.bSYNSent = c.bSYNSent \/ syn,
             !.due = due, !.oneSegment = FALSE, !.txUnackedTail = c.txUnackedTail + len,
             !.remoteWindow = c.remoteWindow - len, !.MySEQ = next, !.keepAlives = alive,
             !.bTimerEnabled = c.bTimerEnabled \/ counts, !.retryCount = count, !.sent = r.sent]
  BY DEF SendTCP, SentLength, Tcb
<1> DEFINE news == r.sent
<1>8. /\ wantsFin \in BOOLEAN /\ (c.bFINSent \/ fin) \in BOOLEAN /\ (c.bSYNSent \/ syn) \in BOOLEAN
      /\ due \in {"no", "yes", "quick"} /\ (c.bTimerEnabled \/ counts) \in BOOLEAN
  OBVIOUS
<1> DEFINE unacked == c.txUnackedTail + len
           window == c.remoteWindow - len
<1>9. unacked \in Nat /\ window \in 0 .. WordRange - 1 /\ news \in Seq(Segment)
  BY <1>1, <1>6
<1> DEFINE finSent == c.bFINSent \/ fin
           synSent == c.bSYNSent \/ syn
           timer == c.bTimerEnabled \/ counts
<1>10. r = [c EXCEPT !.bTXFIN = wantsFin, !.bFINSent = finSent, !.bSYNSent = synSent,
             !.due = due, !.oneSegment = FALSE, !.txUnackedTail = unacked,
             !.remoteWindow = window, !.MySEQ = next, !.keepAlives = alive,
             !.bTimerEnabled = timer, !.retryCount = count, !.sent = news]
  BY <1>7
<1>12. /\ finSent \in BOOLEAN /\ synSent \in BOOLEAN /\ timer \in BOOLEAN /\ wantsFin \in BOOLEAN
       /\ due \in {"no", "yes", "quick"}
  BY <1>8
<1> HIDE DEF r, news, unacked, window, next, alive, count, due, finSent, synSent, timer, wantsFin
<1>11. r \in Tcb
  <2>1. /\ next \in Int /\ count \in 0 .. MaxRetries + MaxSynRetries /\ alive \in 0 .. MaxKeepAlives
        /\ unacked \in Nat /\ window \in 0 .. WordRange - 1 /\ news \in Seq(Segment)
    BY <1>2, <1>3, <1>4, <1>9
  <2> DEFINE d == [c EXCEPT !.bTXFIN = wantsFin, !.bFINSent = finSent, !.bSYNSent = synSent,
                          !.due = due, !.oneSegment = FALSE, !.bTimerEnabled = timer]
             e == [d EXCEPT !.txUnackedTail = unacked, !.remoteWindow = window, !.MySEQ = next,
                            !.keepAlives = alive, !.retryCount = count, !.sent = news]
  <2>2. d \in Tcb
    BY <1>12 DEF Tcb
  <2>3. r = e
    BY <1>10 DEF Tcb
  <2> HIDE DEF d
  <2> QED
    BY <2>1, <2>2, <2>3 DEF Tcb
<1> QED
  BY <1>11 DEF r

\* What a call has sent so far stays well sent when a segment is added.
LEMMA SendWellSent ==
  ASSUME NEW c \in Tcb, CallOK(c), NEW flags, NEW mode, c.bSYNSent \/ "SYN" \in flags
  PROVE  LET r == SendTCP(c, flags, mode)
         IN \A i \in 1 .. Len(r.sent) : WellSent(r.sent[i], r)
<1> DEFINE r == SendTCP(c, flags, mode)
           len == SentLength(c, flags)
<1>1. PICK s \in [seq : Int, len : {len}, syn : BOOLEAN, fin : BOOLEAN] :
        /\ r.sent = Append(c.sent, s)
        /\ s.seq \in {c.MySEQ, c.MySEQ - 1}
        /\ s.fin => /\ flags \cap {"SYN", "RST"} = {} /\ FinFits(c, len) /\ r.bFINSent
                    /\ c.bTXFIN \/ "FIN" \in flags
        /\ s.fin => s.seq = c.MySEQ
        /\ s.len > 0 => s.seq = c.MySEQ
  BY SendAppends
<1>2. /\ len \in Nat /\ c.txUnackedTail + len <= c.txHead
      /\ FinFits(c, len) /\ flags \cap {"SYN", "RST"} = {} => c.txUnackedTail + len = c.txHead
  BY LengthFits DEF CallOK
<1>3. r.txHead = c.txHead /\ (c.bFINSent => r.bFINSent)
  BY SendFields
<1> DEFINE seq == s.seq
           head == c.txHead
           unacked == c.txUnackedTail
           number == c.MySEQ
           k == s.len
<1>4. k = len /\ seq \in Int /\ head \in Nat /\ unacked \in Nat /\ number \in Int /\ unacked <= head
  BY Sizes DEF CallOK, Tcb, Numbered
<1>5. (c.bSYNSent => number = unacked) /\ (~c.bSYNSent => number = -1)
  BY DEF CallOK, Numbered
<1>6. s.fin => c.bSYNSent
  BY <1>1
<1>7. s.fin => seq = number /\ unacked + k = head
  BY <1>1, <1>2, <1>4
<1>8. (k > 0 => seq = number) /\ seq \in {number, number - 1} /\ unacked + k <= head
  BY <1>1, <1>2, <1>4
<1>9. k \in Nat
  BY <1>2, <1>4
<1> HIDE DEF r, len, seq, head, unacked, number, k
<1>10. seq + k <= head
  <2>1. CASE c.bSYNSent
    BY <1>4, <1>5, <1>8, <1>9, <2>1
  <2>2. CASE ~c.bSYNSent
    BY <1>4, <1>5, <1>8, <1>9, <2>2
  <2> QED
    BY <2>1, <2>2
<1>11. s.fin => seq + k = head
  BY <1>4, <1>5, <1>6, <1>7, <1>9
<1>12. WellSent(s, r)
  BY <1>1, <1>3, <1>10, <1>11 DEF WellSent, seq, head, k
<1>13. ASSUME NEW i \in 1 .. Len(c.sent) PROVE WellSent(c.sent[i], r)
  BY <1>3 DEF CallOK, WellSent
<1>14. ASSUME NEW i \in 1 .. Len(r.sent) PROVE WellSent(r.sent[i], r)
  <2>1. c.sent \in Seq(Segment)
    BY DEF Tcb
  <2>2. CASE i \in 1 .. Len(c.sent)
    <3>1. r.sent[i] = c.sent[i]
      BY <1>1, <2>1, <2>2
    <3> QED
      BY <1>13, <2>2, <3>1
  <2>3. CASE i \notin 1 .. Len(c.sent)
    <3>1. r.sent[i] = s
      BY <1>1, <1>14, <2>1, <2>3
    <3> QED
      BY <1>12, <3>1
  <2> QED
    BY <2>2, <2>3
<1> QED
  BY <1>14 DEF r

\* The part of a TCB that sending leaves as it is
Same(r, c) ==
  /\ r.smState = c.smState /\ r.bSocketReset = c.bSocketReset
  /\ r.txTail = c.txTail /\ r.txHead = c.txHead

\* A connection's TCB stays one whatever is sent, when its SYN is out or goes out.
LEMMA SendCall ==
  ASSUME NEW c, CallOK(c), NEW flags, NEW mode, c.bSYNSent \/ "SYN" \in flags,
         mode = "keepalive" => c.keepAlives < MaxKeepAlives
  PROVE  LET r == SendTCP(c, flags, mode)
         IN /\ CallOK(r) /\ Same(r, c) /\ r.bSYNSent
            /\ r.bTXFIN \/ r.bFINSent => c.bTXFIN \/ c.bFINSent \/ "FIN" \in flags
<1> DEFINE r == SendTCP(c, flags, mode)
           len == SentLength(c, flags)
           syn == "SYN" \in flags
<1>1. c \in Tcb /\ Numbered(c)
  BY DEF CallOK
<1>2. r \in Tcb
  BY <1>1, SendTyped
<1>3. \A i \in 1 .. Len(r.sent) : WellSent(r.sent[i], r)
  BY <1>1, SendWellSent
<1>4. /\ r.smState = c.smState /\ r.txTail = c.txTail /\ r.txHead = c.txHead /\ r.rx = c.rx
      /\ r.bSocketReset = c.bSocketReset
      /\ r.txUnackedTail = c.txUnackedTail + len
      /\ r.MySEQ = c.MySEQ + len + (IF syn /\ ~c.bSYNSent THEN 1 ELSE 0)
      /\ r.bTXFIN = (c.bTXFIN \/ "FIN" \in flags)
      /\ r.bSYNSent = (c.bSYNSent \/ syn)
      /\ r.bFINSent => c.bFINSent \/ r.bTXFIN
  BY <1>1, SendFields
<1>5. len \in Nat /\ c.txUnackedTail + len <= c.txHead /\ (syn => len = 0)
  <2>1. syn => flags \cap {"SYN", "RST"} # {}
    OBVIOUS
  <2> QED
    BY <1>1, <2>1, LengthFits DEF SentLength
<1> DEFINE unacked == c.txUnackedTail
           tail == c.txTail
           head == c.txHead
           number == c.MySEQ
           new == r.MySEQ
<1>6. /\ unacked \in Nat /\ tail \in Nat /\ head \in Nat /\ number \in Int
      /\ tail <= unacked /\ head <= tail + TxSize
      /\ c.bSYNSent => number = unacked
      /\ ~c.bSYNSent => number = -1 /\ head = 0
  BY <1>1, Sizes DEF Tcb, Numbered
<1>7. new = number + len + (IF syn /\ ~c.bSYNSent THEN 1 ELSE 0)
  BY <1>4
<1>8. unacked + len <= head
  BY <1>5
<1>9. len \in Nat /\ (syn => len = 0)
  BY <1>5
<1>10. c.bSYNSent \/ syn
  OBVIOUS
<1>11. new = unacked + len
  <2> HIDE DEF unacked, tail, head, number, new, len, syn
  <2>1. CASE c.bSYNSent
    BY <1>6, <1>7, <1>9, <2>1
  <2>2. CASE ~c.bSYNSent
    <3>1. syn /\ unacked = 0
      BY <1>6, <1>8, <1>9, <1>10, <2>2
    <3> QED
      BY <1>6, <1>7, <1>9, <2>2, <3>1
  <2> QED
    BY <2>1, <2>2
<1>12. tail <= unacked + len
  <2> HIDE DEF unacked, tail, len
  <2> QED
    BY <1>6, <1>9
<1>13. Numbered(r)
  <2>1. r.bSYNSent
    BY <1>4
  <2>2. r.txTail = tail /\ r.txUnackedTail = unacked + len /\ r.txHead = head /\ r.MySEQ = new
    BY <1>4
  <2> HIDE DEF unacked, tail, head, new, len, r
  <2> QED
    BY <1>6, <1>8, <1>11, <1>12, <2>1, <2>2 DEF Numbered
<1>14. CallOK(r)
  <2> HIDE DEF r
  <2> QED
    BY <1>2, <1>3, <1>13 DEF CallOK
<1> QED
  BY <1>4, <1>14 DEF Same

-----------------------------------------------------------------------------
(* What the remote node has after a call                                   *)

Peer == [syn : BOOLEAN, got : 0 .. MaxPut, fin : BOOLEAN]

PeerOK(p, c) ==
  /\ p \in Peer
  /\ c.txTail <= p.got /\ p.got <= c.txHead
  /\ p.fin => p.got = c.txHead /\ c.smState \in Closing

\* One segment leaves it with a part of our stream.
LEMMA TakesKeeps ==
  ASSUME NEW c, CallOK(c), c.bFINSent => c.smState \in Closing,
         NEW i \in 1 .. Len(c.sent), NEW p, PeerOK(p, c), NEW q \in Takes(p, c.sent[i])
  PROVE  PeerOK(q, c)
<1> DEFINE s == c.sent[i]
           head == c.txHead
           tail == c.txTail
           got == p.got
<1>1. s \in Segment /\ head \in 0 .. MaxPut /\ tail \in Nat /\ head \in Nat
  BY Sizes DEF CallOK, Tcb
<1>2. /\ s.seq + s.len <= head
      /\ s.fin => s.seq + s.len = head /\ c.smState \in Closing
  BY DEF CallOK, WellSent
<1>3. p \in Peer /\ got \in Nat /\ tail <= got /\ got <= head /\ (p.fin => got = head)
  BY Sizes DEF PeerOK, Peer
<1>4. CASE q = p
  BY <1>4
<1>5. CASE q = [p EXCEPT !.syn = TRUE]
  BY <1>5 DEF PeerOK, Peer
<1>6. CASE \E k \in 0 .. s.len : q = [p EXCEPT !.got = IF s.seq + k > @ THEN s.seq + k ELSE @,
                                               !.fin = @ \/ (s.fin /\ k = s.len)]
  <2>1. PICK k \in 0 .. s.len : q = [p EXCEPT !.got = IF s.seq + k > @ THEN s.seq + k ELSE @,
                                              !.fin = @ \/ (s.fin /\ k = s.len)]
    BY <1>6
  <2> DEFINE seq == s.seq
             len == s.len
             new == IF seq + k > got THEN seq + k ELSE got
  <2>2. seq \in Int /\ len \in Nat /\ k \in Nat /\ k <= len /\ seq + len <= head
    BY <1>1, <1>2 DEF Segment
  <2>3. q.got = new /\ q.fin = (p.fin \/ (s.fin /\ k = len)) /\ q.syn = p.syn
    BY <1>3, <2>1 DEF Peer
  <2>4. new \in 0 .. MaxPut /\ tail <= new /\ new <= head /\ (got = head => new = head)
        /\ (seq + len = head /\ k = len => new = head)
    <3>1. MaxPut \in Nat /\ head <= MaxPut
      BY <1>1, Sizes
    <3>2. head \in Nat /\ tail \in Nat /\ got \in Nat /\ tail <= got /\ got <= head
      BY <1>1, <1>3
    <3> HIDE DEF seq, len, got, head, tail
    <3> QED
      BY <2>2, <3>1, <3>2
  <2>5. q \in Peer
    <3>1. q = [p EXCEPT !.got = new, !.fin = p.fin \/ (s.fin /\ k = len)]
      BY <1>3, <2>1 DEF Peer
    <3> HIDE DEF new, len, s
    <3> QED
      BY <1>3, <2>4, <3>1 DEF Peer
  <2>6. q.fin => new = head /\ c.smState \in Closing
    BY <1>2, <1>3, <2>3, <2>4 DEF PeerOK
  <2> QED
    BY <2>3, <2>4, <2>5, <2>6 DEF PeerOK
<1> QED
  BY <1>4, <1>5, <1>6 DEF Takes

\* Whatever part of a call's segments arrives, our stream stays whole there.
LEMMA AfterKeeps ==
  ASSUME NEW c, CallOK(c), c.bFINSent => c.smState \in Closing,
         NEW p, PeerOK(p, c), NEW q \in After(p, c.sent)
  PROVE  PeerOK(q, c)
<1> DEFINE sent == c.sent
           n == Len(sent)
           Good == {x \in Peer : PeerOK(x, c)}
           V == SUBSET Good
           Step(k, Q) == UNION {Takes(x, sent[k]) : x \in Q}
           Is(f) == f = [k \in 0 .. n |-> IF k = 0 THEN {p} ELSE Step(k, f[k - 1])]
           reached == CHOOSE f : Is(f)
<1>1. n \in Nat
  BY DEF CallOK, Tcb
<1>2. {p} \in V
  BY DEF PeerOK
<1>3. ASSUME NEW k \in 1 .. n, NEW Q \in V PROVE Step(k, Q) \in V
  <2>1. ASSUME NEW x \in Q, NEW y \in Takes(x, sent[k]) PROVE y \in Good
    <3>1. PeerOK(x, c)
      OBVIOUS
    <3>2. PeerOK(y, c)
      BY <3>1, <2>1, TakesKeeps
    <3> QED
      BY <3>2 DEF PeerOK
  <2> QED
    BY <2>1
<1> DEFINE step == [k \in Nat |-> [Q \in V |-> IF k \in 1 .. n THEN Step(k, Q) ELSE Q]]
<1>4. step \in [Nat -> [V -> V]]
  BY <1>3
<1> HIDE DEF V, Good, Step, n
<1>5. \E f : Reaches(f, V, {p}, step, n)
  <2>1. Steps(step, V)
    BY <1>4 DEF Steps
  <2> HIDE DEF step
  <2> QED
    BY <1>1, <1>2, <2>1, Iterates, Zenon
<1>6. PICK f \in [0 .. n -> V] : f[0] = {p} /\ \A k \in 1 .. n : f[k] = step[k][f[k - 1]]
  BY <1>5 DEF Reaches
<1>7. Is(f)
  <2>1. f[0] = {p}
    BY <1>6
  <2>2. ASSUME NEW k \in 1 .. n PROVE f[k] = Step(k, f[k - 1])
    <3>1. k \in Nat /\ k - 1 \in 0 .. n
      BY <1>1
    <3>2. f[k - 1] \in V
      BY <3>1, <1>6
    <3> QED
      BY <1>6, <3>1, <3>2
  <2>3. ASSUME NEW k \in 0 .. n PROVE f[k] = IF k = 0 THEN {p} ELSE Step(k, f[k - 1])
    BY <1>1, <2>1, <2>2
  <2> QED
    BY <1>6, <2>3
<1>8. Is(reached)
  BY <1>7, Zenon
<1>9. After(p, c.sent) = reached[n]
  BY DEF After, Step, n
<1> DEFINE T == {m \in Nat : m <= n => reached[m] \in V}
<1> HIDE DEF reached
<1>10. 0 \in T
  BY <1>1, <1>2, <1>8
<1>11. ASSUME NEW m \in T PROVE m + 1 \in T
  <2>1. SUFFICES ASSUME m + 1 <= n PROVE reached[m + 1] \in V
    OBVIOUS
  <2>2. m \in Nat /\ m + 1 \in 1 .. n /\ m + 1 \in 0 .. n /\ m + 1 # 0 /\ m + 1 - 1 = m
    BY <1>1, <2>1
  <2>3. reached[m] \in V
    BY <1>1, <2>1
  <2>4. reached[m + 1] = Step(m + 1, reached[m])
    <3>1. \A k \in 0 .. n : reached[k] = IF k = 0 THEN {p} ELSE Step(k, reached[k - 1])
      BY <1>8
    <3> DEFINE j == m + 1
    <3>2. j \in 0 .. n /\ j # 0 /\ j - 1 = m
      BY <2>2
    <3> HIDE DEF j
    <3>3. reached[j] = Step(j, reached[j - 1])
      BY <3>1, <3>2, Zenon
    <3>4. reached[j] = Step(j, reached[m])
      BY <3>2, <3>3, Zenon
    <3> QED
      BY <3>4 DEF j
  <2> QED
    BY <1>3, <2>2, <2>3, <2>4
<1>12. T = Nat
  <2> HIDE DEF T
  <2>1. T \subseteq Nat
    BY DEF T
  <2> QED
    BY <1>10, <1>11, <2>1, Induct
<1>13. reached[n] \in V
  BY <1>1, <1>12
<1> QED
  BY <1>9, <1>13 DEF V, Good

-----------------------------------------------------------------------------
(* SendFin                                                                 *)

\* SendFin is some calls of SendTCP with the FIN.
LEMMA SendFinCall ==
  ASSUME NEW c, CallOK(c), c.bSYNSent
  PROVE  CallOK(SendFin(c)) /\ Same(SendFin(c), c) /\ SendFin(c).bSYNSent
<1> DEFINE V == {b \in Tcb : CallOK(b) /\ Same(b, c) /\ b.bSYNSent}
           Sent(b) == SendTCP(b, {"FIN", "ACK"}, "reset")
           Step(b) == IF b.remoteWindow = 0 \/ b.txHead = b.txUnackedTail THEN b ELSE Sent(b)
           Is(f) == f = [k \in 0 .. TxSize |-> IF k = 0 THEN Sent(c) ELSE Step(f[k - 1])]
           sends == CHOOSE f : Is(f)
<1>1. ASSUME NEW b, CallOK(b), Same(b, c), b.bSYNSent PROVE Sent(b) \in V
  <2>1. CallOK(Sent(b)) /\ Same(Sent(b), b) /\ Sent(b).bSYNSent
    BY <1>1, SendCall
  <2>2. Same(Sent(b), c)
    BY <1>1, <2>1 DEF Same
  <2> HIDE DEF Sent
  <2> QED
    BY <2>1, <2>2 DEF CallOK
<1>2. Sent(c) \in V
  BY <1>1 DEF Same
<1>3. ASSUME NEW b \in V PROVE Step(b) \in V
  <2> HIDE DEF Sent
  <2> QED
    BY <1>1
<1> DEFINE step == [k \in Nat |-> [b \in V |-> Step(b)]]
<1>4. step \in [Nat -> [V -> V]]
  BY <1>3
<1>5. TxSize \in Nat
  BY Sizes
<1> HIDE DEF V, Sent, Step
<1>6. \E f : Reaches(f, V, Sent(c), step, TxSize)
  <2>1. Steps(step, V)
    BY <1>4 DEF Steps
  <2> HIDE DEF step
  <2> QED
    BY <1>2, <1>5, <2>1, Iterates, Zenon
<1>7. PICK f \in [0 .. TxSize -> V] :
        f[0] = Sent(c) /\ \A k \in 1 .. TxSize : f[k] = step[k][f[k - 1]]
  BY <1>6 DEF Reaches
<1>8. Is(f)
  <2>1. f[0] = Sent(c)
    BY <1>7
  <2>2. ASSUME NEW k \in 1 .. TxSize PROVE f[k] = Step(f[k - 1])
    <3>1. k \in Nat /\ k - 1 \in 0 .. TxSize
      BY <1>5
    <3>2. f[k - 1] \in V
      BY <3>1, <1>7
    <3> QED
      BY <1>7, <3>1, <3>2
  <2>3. ASSUME NEW k \in 0 .. TxSize PROVE f[k] = IF k = 0 THEN Sent(c) ELSE Step(f[k - 1])
    BY <1>5, <2>1, <2>2
  <2> QED
    BY <1>7, <2>3
<1>9. Is(sends)
  BY <1>8, Zenon
<1>10. SendFin(c) = sends[TxSize]
  BY DEF SendFin, Step, Sent
<1> DEFINE T == {m \in Nat : m <= TxSize => sends[m] \in V}
<1> HIDE DEF sends
<1>11. 0 \in T
  BY <1>2, <1>5, <1>9
<1>12. ASSUME NEW m \in T PROVE m + 1 \in T
  <2>1. SUFFICES ASSUME m + 1 <= TxSize PROVE sends[m + 1] \in V
    OBVIOUS
  <2>2. m \in Nat /\ m + 1 \in 0 .. TxSize /\ m + 1 # 0 /\ m + 1 - 1 = m
    BY <1>5, <2>1
  <2>3. sends[m] \in V
    BY <1>5, <2>1
  <2>4. sends[m + 1] = Step(sends[m])
    <3>1. \A k \in 0 .. TxSize : sends[k] = IF k = 0 THEN Sent(c) ELSE Step(sends[k - 1])
      BY <1>9
    <3> DEFINE j == m + 1
    <3>2. j \in 0 .. TxSize /\ j # 0 /\ j - 1 = m
      BY <2>2
    <3> HIDE DEF j
    <3>3. sends[j] = Step(sends[j - 1])
      BY <3>1, <3>2, Zenon
    <3>4. sends[j] = Step(sends[m])
      BY <3>2, <3>3, Zenon
    <3> QED
      BY <3>4 DEF j
  <2> QED
    BY <1>3, <2>3, <2>4
<1>13. T = Nat
  <2> HIDE DEF T
  <2>1. T \subseteq Nat
    BY DEF T
  <2> QED
    BY <1>11, <1>12, <2>1, Induct
<1>14. sends[TxSize] \in V
  BY <1>5, <1>13
<1> QED
  BY <1>10, <1>14 DEF V

-----------------------------------------------------------------------------
(* The inductive invariant                                                 *)

Synced == {"SYN_SENT"} \cup Connected
Carrying == {"ESTABLISHED", "CLOSE_WAIT"} \cup Closing
Gone == {"CLOSED", "LISTEN", "CLOSED_BUT_RESERVED"}

\* What the state tells of the rest: data is put only when there is a
\* connection, and the FIN only goes out with the states that close it.
StateOK(c) ==
  /\ c.bSYNSent <=> c.smState \in Synced
  /\ c.smState \notin Carrying => c.txHead = 0
  /\ c.bTXFIN \/ c.bFINSent => c.smState \in Closing
  /\ c.smState = "LISTEN" => bServer

\* What a call may make of the TCB
Result(c) == CallOK(c) /\ StateOK(c) /\ (c.smState \notin Gone => PeerOK(peer, c))

(***************************************************************************)
(* TcpInv is not inductive: it says nothing of the time before the SYN, in *)
(* which MySEQ does not match the FIFO yet and nothing may be due, nor of  *)
(* a FIN that is on its way, which the remote node may take any time.      *)
(***************************************************************************)
IInv ==
  /\ TcpInv /\ StateOK(tcb)
  /\ ~tcb.bSYNSent => /\ tcb.MySEQ = -1 /\ tcb.due = "no" /\ ~tcb.oneSegment /\ tcb.rx = 0

\* Between calls nothing is on its way, and the TCB is one a call may start with.
LEMMA InvResult ==
  ASSUME IInv
  PROVE  Result(tcb) /\ tcb.sent = << >> /\ PeerOK(peer, tcb) /\ bServer \in BOOLEAN /\ silent \in BOOLEAN
<1>1. tcb \in Tcb /\ tcb.sent = << >>
  <2>1. tcb.sent = << >>
    BY DEF IInv, TcpInv, TypeOK
  <2>2. << >> \in Seq(Segment)
    OBVIOUS
  <2> QED
    BY <2>1, <2>2 DEF IInv, TcpInv, TypeOK, Tcb
<1>2. tcb.bSYNSent \/ tcb.txHead = 0
  BY DEF IInv, StateOK, Synced, Carrying, Connected
<1>3. Numbered(tcb)
  BY <1>1, <1>2 DEF IInv, TcpInv, SequenceMatchesFifo, Numbered
<1>4. \A i \in 1 .. Len(tcb.sent) : WellSent(tcb.sent[i], tcb)
  BY <1>1
<1>5. PeerOK(peer, tcb)
  BY DEF IInv, TcpInv, TypeOK, NothingLost, FinComesLast, PeerOK, Peer
<1> QED
  BY <1>1, <1>3, <1>4, <1>5 DEF Result, CallOK, IInv, TcpInv, TypeOK

\* When a call is over, the invariant holds again.
LEMMA BecomesKeeps ==
  ASSUME NEW c, Result(c), Becomes(c), bServer \in BOOLEAN, silent' \in BOOLEAN
  PROVE  IInv'
<1>1. /\ tcb' = [c EXCEPT !.sent = << >>]
      /\ IF c.smState \in Gone THEN peer' = Nothing ELSE peer' \in After(peer, c.sent)
      /\ bServer' = bServer
  BY DEF Becomes, Gone
<1>2. c \in Tcb /\ Numbered(c) /\ CallOK(c) /\ StateOK(c)
  BY DEF Result, CallOK
<1>3. /\ tcb'.smState = c.smState /\ tcb'.MySEQ = c.MySEQ /\ tcb'.txTail = c.txTail
      /\ tcb'.txUnackedTail = c.txUnackedTail /\ tcb'.txHead = c.txHead /\ tcb'.rx = c.rx
      /\ tcb'.due = c.due /\ tcb'.oneSegment = c.oneSegment /\ tcb'.bTXFIN = c.bTXFIN
      /\ tcb'.bFINSent = c.bFINSent /\ tcb'.bSYNSent = c.bSYNSent
  BY <1>1, <1>2 DEF Tcb
<1>4. PeerOK(peer', c)
  <2>1. CASE c.smState \in Gone
    <3>1. c.txHead = 0 /\ c.txTail = 0
      BY <1>2, <2>1, Sizes DEF StateOK, Gone, Carrying, Closing, Numbered, Tcb
    <3>2. peer' = Nothing
      BY <1>1, <2>1
    <3>3. 0 \in 0 .. MaxPut
      BY Sizes
    <3>4. peer'.got = 0 /\ ~peer'.fin /\ peer' \in Peer
      BY <3>2, <3>3 DEF Nothing, Peer
    <3> QED
      BY <3>1, <3>4 DEF PeerOK
  <2>2. CASE c.smState \notin Gone
    <3>1. PeerOK(peer, c)
      BY <2>2 DEF Result
    <3>2. c.bFINSent => c.smState \in Closing
      BY <1>2 DEF StateOK
    <3> QED
      BY <1>1, <1>2, <2>2, <3>1, <3>2, AfterKeeps
  <2> QED
    BY <2>1, <2>2
<1>5. TypeOK'
  <2>1. tcb' \in [smState : State, MySEQ : Int, txTail : Nat, txUnackedTail : Nat,
              txHead : 0 .. MaxPut, remoteWindow : 0 .. WordRange - 1,
              rx : 0 .. RxRoom, remoteFin : BOOLEAN, bTimerEnabled : BOOLEAN,
              retryCount : 0 .. MaxRetries + MaxSynRetries, keepAlives : 0 .. MaxKeepAlives,
              noneACKed : 0 .. 2, due : {"no", "yes", "quick"}, oneSegment : BOOLEAN,
              bTXFIN : BOOLEAN, bFINSent : BOOLEAN, bSYNSent : BOOLEAN,
              bSocketReset : BOOLEAN, sent : {<< >>}]
    BY <1>1, <1>2 DEF Tcb
  <2> QED
    BY <1>1, <1>4, <2>1 DEF TypeOK, PeerOK, Peer
<1>6. SequenceMatchesFifo'
  BY <1>2, <1>3 DEF SequenceMatchesFifo, Numbered
<1>7. NothingLost' /\ FinComesLast'
  BY <1>3, <1>4 DEF NothingLost, FinComesLast, PeerOK
<1>8. StateOK(tcb)'
  BY <1>1, <1>2, <1>3 DEF StateOK
<1>9. (~tcb.bSYNSent => /\ tcb.MySEQ = -1 /\ tcb.due = "no" /\ ~tcb.oneSegment /\ tcb.rx = 0)'
  BY <1>2, <1>3 DEF Numbered
<1> QED
  BY <1>5, <1>6, <1>7, <1>8, <1>9 DEF IInv, TcpInv

\* A socket that is closed starts afresh.
LEMMA ClosedResult ==
  ASSUME bServer \in BOOLEAN
  PROVE  /\ Result(CloseSocket)
         /\ CloseSocket.smState = (IF bServer THEN "LISTEN" ELSE "CLOSED")
         /\ CloseSocket.bSocketReset = TRUE /\ CloseSocket.bSYNSent = FALSE
         /\ Result([CloseSocket EXCEPT !.smState = IF bServer THEN "LISTEN" ELSE "CLOSED_BUT_RESERVED"])
<1> DEFINE state == IF bServer THEN "LISTEN" ELSE "CLOSED"
<1>1. ASSUME NEW st \in Gone, st = "LISTEN" => bServer PROVE Result(Fresh(st))
  <2>1. Fresh(st) \in Tcb
    <3>1. st \in State /\ << >> \in Seq(Segment) /\ 0 \in 0 .. MaxPut /\ 1 \in 0 .. WordRange - 1
          /\ 0 \in 0 .. RxRoom /\ 0 \in 0 .. MaxRetries + MaxSynRetries /\ 0 \in 0 .. MaxKeepAlives
      BY <1>1, Sizes DEF State, Gone
    <3> QED
      BY <3>1 DEF Fresh, Tcb
  <2>2. Numbered(Fresh(st)) /\ Fresh(st).sent = << >>
    BY Sizes DEF Fresh, Numbered
  <2>3. StateOK(Fresh(st))
    BY <1>1 DEF Fresh, StateOK, Gone, Synced, Connected, Carrying, Closing
  <2>4. Fresh(st).smState = st
    BY DEF Fresh
  <2> QED
    BY <1>1, <2>1, <2>2, <2>3, <2>4 DEF Result, CallOK
<1>2. CloseSocket = Fresh(state)
  BY DEF CloseSocket
<1>4. state \in Gone /\ (state = "LISTEN" => bServer)
  BY DEF Gone
<1>5. Result(Fresh(state))
  BY <1>1, <1>4
<1> DEFINE left == IF bServer THEN "LISTEN" ELSE "CLOSED_BUT_RESERVED"
           d == [CloseSocket EXCEPT !.smState = left]
<1>3. left \in Gone /\ left \in State /\ (left = "LISTEN" => bServer)
  BY DEF Gone, State
<1>6. Result(d)
  <2>1. CloseSocket \in Tcb /\ Numbered(CloseSocket) /\ StateOK(CloseSocket) /\ CloseSocket.sent = << >>
        /\ CloseSocket.bSYNSent = FALSE /\ CloseSocket.bTXFIN = FALSE /\ CloseSocket.bFINSent = FALSE
        /\ CloseSocket.txHead = 0
    BY <1>2, <1>5 DEF Result, CallOK, Fresh
  <2> HIDE DEF left
  <2>2. d \in Tcb
    BY <1>3, <2>1 DEF Tcb
  <2>3. d.smState = left /\ d.MySEQ = CloseSocket.MySEQ /\ d.txTail = CloseSocket.txTail
        /\ d.txUnackedTail = CloseSocket.txUnackedTail /\ d.txHead = CloseSocket.txHead
        /\ d.rx = CloseSocket.rx /\ d.due = CloseSocket.due /\ d.sent = CloseSocket.sent
        /\ d.oneSegment = CloseSocket.oneSegment /\ d.bTXFIN = CloseSocket.bTXFIN
        /\ d.bFINSent = CloseSocket.bFINSent /\ d.bSYNSent = CloseSocket.bSYNSent
    BY <2>1 DEF Tcb
  <2> HIDE DEF d
  <2>4. Numbered(d)
    BY <2>1, <2>3 DEF Numbered
  <2>5. StateOK(d)
    BY <1>3, <2>1, <2>3 DEF StateOK, Gone, Synced, Connected, Carrying, Closing
  <2> QED
    BY <1>3, <2>1, <2>2, <2>3, <2>4, <2>5 DEF Result, CallOK
<1>7. Fresh(state).smState = state /\ Fresh(state).bSocketReset = TRUE /\ Fresh(state).bSYNSent = FALSE
  BY DEF Fresh
<1> QED
  BY <1>2, <1>5, <1>6, <1>7

\* A connection stays what a call may leave when a segment is sent, without the
\* FIN or when it is closing already.
LEMMA SendResult ==
  ASSUME NEW c, Result(c), c.bSYNSent, NEW flags, "FIN" \notin flags \/ c.smState \in Closing,
         NEW mode, mode = "keepalive" => c.keepAlives < MaxKeepAlives
  PROVE  LET r == SendTCP(c, flags, mode) IN Result(r) /\ Same(r, c) /\ r.bSYNSent
<1> DEFINE r == SendTCP(c, flags, mode)
<1>1. /\ CallOK(r) /\ Same(r, c) /\ r.bSYNSent
      /\ r.bTXFIN \/ r.bFINSent => c.bTXFIN \/ c.bFINSent \/ "FIN" \in flags
  BY SendCall DEF Result
<1> HIDE DEF r
<1>2. StateOK(r)
  BY <1>1 DEF Result, StateOK, Same
<1>3. r.smState \notin Gone => PeerOK(peer, r)
  BY <1>1 DEF Result, PeerOK, Same
<1>4. Result(r)
  BY <1>1, <1>2, <1>3 DEF Result
<1> QED
  BY <1>1, <1>4 DEF r

\* A TCB that differs in what the invariant does not speak of
Alike(d, c) ==
  /\ d \in Tcb
  /\ d.smState = c.smState /\ d.MySEQ = c.MySEQ /\ d.txTail = c.txTail
  /\ d.txUnackedTail = c.txUnackedTail /\ d.txHead = c.txHead
  /\ d.bTXFIN => c.bTXFIN
  /\ d.bFINSent = c.bFINSent /\ d.bSYNSent = c.bSYNSent /\ d.sent = c.sent

\* It is as good as the other.
LEMMA AlikeResult ==
  ASSUME NEW c, Result(c), c.bSYNSent, NEW d, Alike(d, c)
  PROVE  Result(d)
<1>1. CallOK(d)
  BY DEF Alike, Result, CallOK, Numbered, WellSent
<1>2. StateOK(d)
  BY DEF Alike, Result, StateOK
<1>3. d.smState \notin Gone => PeerOK(peer, d)
  BY DEF Alike, Result, PeerOK
<1> QED
  BY <1>1, <1>2, <1>3 DEF Result

\* What a piece of work makes of a connection: its state stays
Kept(d, c) ==
  Result(d) /\ d.bSYNSent /\ d.smState = c.smState /\ d.bSocketReset = c.bSocketReset

-----------------------------------------------------------------------------
(* Acknowledgements                                                        *)

\* Going back to the first byte not acknowledged keeps the numbers together.
LEMMA RollBackKeeps ==
  ASSUME NEW c, Result(c), c.bSYNSent
  PROVE  /\ Kept(RollBack(c), c) /\ RollBack(c) \in Tcb
         /\ RollBack(c).remoteWindow = c.remoteWindow /\ RollBack(c).retryCount = c.retryCount
         /\ RollBack(c).keepAlives = c.keepAlives
<1> DEFINE d == RollBack(c)
<1>1. c \in Tcb /\ Numbered(c)
  BY DEF Result, CallOK
<1> DEFINE tail == c.txTail
           unacked == c.txUnackedTail
           number == c.MySEQ
<1>2. tail \in Nat /\ unacked \in Nat /\ number \in Int /\ number = unacked
  BY <1>1 DEF Tcb, Numbered
<1>3. number - (unacked - tail) = tail
  <2> HIDE DEF tail, unacked, number
  <2> QED
    BY <1>2
<1>4. d = [c EXCEPT !.MySEQ = tail, !.txUnackedTail = tail]
  BY <1>1, <1>3 DEF RollBack, Tcb
<1>5. tail \in Int
  BY <1>2
<1>6. d \in Tcb
  <2> HIDE DEF tail, d
  <2> QED
    BY <1>1, <1>2, <1>4, <1>5 DEF Tcb
<1>7. /\ d.smState = c.smState /\ d.MySEQ = tail /\ d.txTail = c.txTail
      /\ d.txUnackedTail = tail /\ d.txHead = c.txHead
      /\ d.bTXFIN = c.bTXFIN /\ d.bFINSent = c.bFINSent /\ d.bSYNSent = c.bSYNSent
      /\ d.sent = c.sent /\ d.bSocketReset = c.bSocketReset
      /\ d.remoteWindow = c.remoteWindow /\ d.retryCount = c.retryCount /\ d.keepAlives = c.keepAlives
  BY <1>1, <1>4 DEF Tcb
<1> HIDE DEF d
<1>8. Numbered(d)
  <2>1. tail <= c.txHead
    BY <1>1, <1>2, Sizes DEF Numbered, Tcb
  <2> QED
    BY <1>1, <1>2, <1>7, <2>1 DEF Numbered
<1>9. \A i \in 1 .. Len(d.sent) : WellSent(d.sent[i], d)
  BY <1>7 DEF Result, CallOK, WellSent
<1>10. StateOK(d) /\ (d.smState \notin Gone => PeerOK(peer, d))
  BY <1>7 DEF Result, StateOK, PeerOK
<1>11. Kept(d, c)
  BY <1>6, <1>7, <1>8, <1>9, <1>10 DEF Kept, Result, CallOK
<1> QED
  BY <1>6, <1>7, <1>11 DEF d

\* A TCB with other numbers is one.
LEMMA MovedTyped ==
  ASSUME NEW c \in Tcb, NEW t \in Nat, NEW u \in Nat, NEW m \in Int
  PROVE  [c EXCEPT !.txTail = t, !.noneACKed = 0, !.MySEQ = m, !.txUnackedTail = u] \in Tcb
<1> DEFINE z == 0
<1>1. z \in 0 .. 2
  OBVIOUS
<1> HIDE DEF z
<1> DEFINE d == [c EXCEPT !.txTail = t, !.noneACKed = z, !.MySEQ = m, !.txUnackedTail = u]
<1>2. d \in Tcb
  BY <1>1 DEF Tcb
<1> QED
  BY <1>2 DEF z

\* What frees bytes of the FIFO is what the remote node has.
LEMMA FreeAckedKeeps ==
  ASSUME NEW c, Result(c), c.bSYNSent, c.smState \in Connected,
         NEW ack \in Int, ack <= c.txHead, ack <= peer.got
  PROVE  Kept(FreeAcked(c, ack), c)
<1>1. c \in Tcb /\ Numbered(c)
  BY DEF Result, CallOK
<1> DEFINE tail == c.txTail
           unacked == c.txUnackedTail
           number == c.MySEQ
           head == c.txHead
           n == ack - (number - (unacked - tail))
           new == tail + n
           skipped == IF new > unacked THEN new - unacked ELSE 0
           base == unacked + skipped
           seq == number + skipped
<1>2. /\ tail \in Nat /\ unacked \in Nat /\ number \in Int /\ head \in Nat /\ number = unacked
      /\ tail <= unacked /\ unacked <= head /\ head <= tail + TxSize
  BY <1>1, Sizes DEF Tcb, Numbered
<1>3. CASE n > 0 /\ n <= TxSize + 1
  <2> DEFINE d == [c EXCEPT !.txTail = new, !.noneACKed = 0, !.MySEQ = seq,
                            !.txUnackedTail = base]
  <2>1. FreeAcked(c, ack) = d
    BY <1>1, <1>3 DEF FreeAcked, Tcb
  <2>2. ack <= head /\ TxSize \in Nat
    BY Sizes
  <2>3. /\ new = ack /\ tail < new /\ new \in Nat /\ base \in Nat /\ seq \in Int /\ seq = base
        /\ new <= base /\ base <= head /\ head <= new + TxSize
    <3> HIDE DEF tail, unacked, number, head
    <3> QED
      BY <1>2, <1>3, <2>2
  <2>10. new \in Nat /\ base \in Nat /\ seq \in Int
    BY <2>3
  <2> HIDE DEF new, base, seq
  <2>4. d \in Tcb
    BY <1>1, <2>10, MovedTyped, Zenon
  <2>5. /\ d.smState = c.smState /\ d.MySEQ = seq /\ d.txTail = new
        /\ d.txUnackedTail = base /\ d.txHead = c.txHead
        /\ d.bTXFIN = c.bTXFIN /\ d.bFINSent = c.bFINSent /\ d.bSYNSent = c.bSYNSent
        /\ d.sent = c.sent /\ d.bSocketReset = c.bSocketReset
    BY <1>1 DEF Tcb
  <2> HIDE DEF d
  <2>6. Numbered(d)
    BY <2>3, <2>5 DEF Numbered
  <2>7. \A i \in 1 .. Len(d.sent) : WellSent(d.sent[i], d)
    BY <2>5 DEF Result, CallOK, WellSent
  <2>8. StateOK(d)
    BY <2>5 DEF Result, StateOK
  <2>9. d.smState \notin Gone => PeerOK(peer, d)
    BY <2>3, <2>5 DEF Result, PeerOK
  <2> QED
    BY <2>1, <2>4, <2>5, <2>6, <2>7, <2>8, <2>9 DEF Kept, Result, CallOK
<1>4. CASE ~(n > 0 /\ n <= TxSize + 1)
  <2>1. FreeAcked(c, ack) = IF c.txTail = c.txUnackedTail THEN c
                            ELSE IF c.noneACKed = 2 THEN [RollBack(c) EXCEPT !.due = "quick"]
                            ELSE [c EXCEPT !.noneACKed = @ + 1]
    BY <1>4, Zenon DEF FreeAcked
  <2>2. CASE FreeAcked(c, ack) = c
    BY <2>2 DEF Kept
  <2>3. CASE FreeAcked(c, ack) = [RollBack(c) EXCEPT !.due = "quick"]
    <3> DEFINE b == RollBack(c)
               d == [b EXCEPT !.due = "quick"]
    <3>1. Kept(b, c) /\ b \in Tcb
      BY RollBackKeeps
    <3> HIDE DEF b
    <3>2. Alike(d, b) /\ d.bSocketReset = b.bSocketReset
      BY <3>1 DEF Alike, Tcb
    <3> HIDE DEF d
    <3>3. Result(d)
      BY <3>1, <3>2, AlikeResult DEF Kept
    <3> QED
      BY <2>3, <3>1, <3>2, <3>3 DEF Kept, Alike, d, b
  <2>4. CASE FreeAcked(c, ack) = [c EXCEPT !.noneACKed = @ + 1] /\ c.noneACKed # 2
    <3> DEFINE k == c.noneACKed + 1
               d == [c EXCEPT !.noneACKed = k]
    <3>1. k \in 0 .. 2
      BY <1>1, <2>4 DEF Tcb
    <3> HIDE DEF k
    <3>2. Alike(d, c) /\ d.bSocketReset = c.bSocketReset
      BY <1>1, <3>1 DEF Alike, Tcb
    <3>3. FreeAcked(c, ack) = d
      BY <1>1, <2>4 DEF k, Tcb
    <3> HIDE DEF d
    <3>4. Result(d)
      BY <3>2, AlikeResult
    <3> QED
      BY <3>2, <3>3, <3>4 DEF Kept, Alike
  <2> QED
    BY <2>1, <2>2, <2>3, <2>4
<1> QED
  BY <1>3, <1>4

\* An acknowledgement of what the remote node has keeps the connection whole.
LEMMA AcknowledgeKeeps ==
  ASSUME NEW c, Result(c), c.bSYNSent, c.smState \in Connected,
         NEW ack \in Int, ack <= c.txHead, ack <= peer.got, NEW win \in Nat
  PROVE  Kept(Acknowledge(c, ack, win), c)
<1> DEFINE d == FreeAcked(c, ack)
           e == StopTimer(d, ack)
           r == UpdateWindow(e, ack, win)
<1>1. Kept(d, c) /\ d \in Tcb
  BY FreeAckedKeeps DEF Kept, Result, CallOK
<1> HIDE DEF d
<1>2. Alike(e, d) /\ e.bSocketReset = d.bSocketReset
  BY <1>1 DEF StopTimer, Alike, Tcb
<1>3. Kept(e, c) /\ e \in Tcb
  BY <1>1, <1>2, AlikeResult DEF Kept, Alike
<1> HIDE DEF e
<1> DEFINE new == (win - (e.MySEQ - ack)) % WordRange
           due == IF e.remoteWindow = 0 /\ new > 0 /\ e.due = "no" THEN "yes" ELSE e.due
<1>4. new \in 0 .. WordRange - 1
  <2>1. win - (e.MySEQ - ack) \in Int
    BY <1>3 DEF Tcb
  <2> QED
    BY <2>1, Sizes
<1> HIDE DEF new
<1>5. due \in {"no", "yes", "quick"}
  BY <1>3 DEF Tcb
<1>6. r = [e EXCEPT !.remoteWindow = new, !.due = due]
  BY <1>3 DEF UpdateWindow, Tcb, new
<1> HIDE DEF due, r
<1>7. Alike(r, e) /\ r.bSocketReset = e.bSocketReset
  BY <1>3, <1>4, <1>5, <1>6 DEF Alike, Tcb
<1>8. Kept(r, c)
  BY <1>3, <1>7, AlikeResult DEF Kept, Alike
<1>9. Acknowledge(c, ack, win) = r
  BY DEF Acknowledge, r, e, d
<1> QED
  BY <1>8, <1>9

-----------------------------------------------------------------------------
(* HandleTCPSeg                                                            *)

\* Where a segment may take a connection: TcpSocket knows of these moves, but
\* for those of SYN_RECEIVED.
Moved(c, r) ==
  \/ r.smState \in {"CLOSED", "LISTEN"} /\ r.bSocketReset = TRUE
  \/ /\ r.bSocketReset = c.bSocketReset
     /\ \/ r.smState = c.smState
        \/ c.smState = "SYN_SENT" /\ r.smState = "ESTABLISHED"
        \/ c.smState = "ESTABLISHED" /\ r.smState = "CLOSE_WAIT"
        \/ c.smState \in Closing /\ r.smState \in Closing
        \/ "SYN_RECEIVED" \in {c.smState, r.smState}

Outcome(c, r) == Result(r) /\ Moved(c, r)

\* Closing is an outcome of whatever comes, and so is doing without a move.
LEMMA CloseOutcome ==
  ASSUME bServer \in BOOLEAN, NEW c
  PROVE  Outcome(c, CloseSocket)
BY ClosedResult DEF Outcome, Moved

\* What is kept has not moved.
LEMMA KeptOutcome ==
  ASSUME NEW c, NEW d, Kept(d, c)
  PROVE  Outcome(c, d)
BY DEF Kept, Outcome, Moved

\* What a piece of work has kept has the outcomes of what it was made of.
LEMMA OutcomeOfKept ==
  ASSUME NEW c, NEW d, Kept(d, c), NEW r, Outcome(d, r)
  PROVE  Outcome(c, r)
BY DEF Kept, Outcome, Moved

\* A connection goes on to another state, never back from closing.
LEMMA StateMoves ==
  ASSUME NEW c, Result(c), c.bSYNSent, NEW st \in Synced,
         st \in Carrying \/ c.smState \notin Carrying, c.smState \in Closing => st \in Closing
  PROVE  LET d == [c EXCEPT !.smState = st]
         IN  Result(d) /\ d.bSYNSent /\ d.smState = st /\ d.bSocketReset = c.bSocketReset
<1> DEFINE d == [c EXCEPT !.smState = st]
<1>1. c \in Tcb /\ st \in State
  BY DEF Result, CallOK, Synced, State, Opening
<1>2. d \in Tcb
  BY <1>1 DEF Tcb
<1>3. /\ d.smState = st /\ d.MySEQ = c.MySEQ /\ d.txTail = c.txTail
      /\ d.txUnackedTail = c.txUnackedTail /\ d.txHead = c.txHead
      /\ d.bTXFIN = c.bTXFIN /\ d.bFINSent = c.bFINSent /\ d.bSYNSent = c.bSYNSent
      /\ d.sent = c.sent /\ d.bSocketReset = c.bSocketReset
  BY <1>1 DEF Tcb
<1> HIDE DEF d
<1>4. CallOK(d)
  BY <1>2, <1>3 DEF Result, CallOK, Numbered, WellSent
<1>5. StateOK(d)
  <2>1. st # "LISTEN"
    BY DEF Synced, Connected, Closing
  <2>2. st \in Carrying \/ c.txHead = 0
    BY DEF Result, StateOK
  <2> QED
    BY <1>3, <2>1, <2>2 DEF Result, StateOK
<1>6. PeerOK(peer, d)
  <2>1. c.smState \notin Gone
    BY DEF Result, StateOK, Synced, Gone, Connected, Closing
  <2> QED
    BY <1>3, <2>1 DEF Result, PeerOK
<1> QED
  BY <1>3, <1>4, <1>5, <1>6 DEF Result, d

\* So it does when the FIN has been sent: then it is closing.
LEMMA ClosingResult ==
  ASSUME NEW c, Result(c), c.smState \in Synced, NEW b, CallOK(b), Same(b, c), b.bSYNSent,
         NEW st \in Closing
  PROVE  LET d == [b EXCEPT !.smState = st]
         IN  Result(d) /\ d.bSYNSent /\ d.smState = st /\ d.bSocketReset = c.bSocketReset
<1> DEFINE d == [b EXCEPT !.smState = st]
<1>1. b \in Tcb /\ st \in State /\ st \in Synced /\ st \in Carrying
  BY DEF CallOK, State, Synced, Carrying, Connected
<1>2. d \in Tcb
  BY <1>1 DEF Tcb
<1>3. /\ d.smState = st /\ d.MySEQ = b.MySEQ /\ d.txTail = b.txTail
      /\ d.txUnackedTail = b.txUnackedTail /\ d.txHead = b.txHead
      /\ d.bFINSent = b.bFINSent /\ d.bSYNSent = b.bSYNSent
      /\ d.sent = b.sent /\ d.bSocketReset = b.bSocketReset
  BY <1>1 DEF Tcb
<1> HIDE DEF d
<1>4. CallOK(d)
  BY <1>2, <1>3 DEF CallOK, Numbered, WellSent
<1>5. StateOK(d)
  BY <1>1, <1>3 DEF StateOK, Closing
<1>6. PeerOK(peer, d)
  <2>1. c.smState \notin Gone
    BY DEF Synced, Gone, Connected, Closing
  <2> QED
    BY <1>3, <2>1 DEF Result, PeerOK, Same
<1> QED
  BY <1>3, <1>4, <1>5, <1>6 DEF Result, Same, d

\* The text and the FIN of a segment: the states behind ESTABLISHED.
LEMMA RestOutcome ==
  ASSUME NEW c, Result(c), c.bSYNSent, c.smState \in Connected \ {"SYN_RECEIVED"},
         bServer \in BOOLEAN, NEW s, s.len \in Nat, NEW ack
  PROVE  Outcome(c, Rest(c, s, ack))
<1> DEFINE b == StoreText(c, s)
           d == AcknowledgeText(b, s)
           e == [d EXCEPT !.remoteFin = TRUE]
<1>1. c \in Tcb
  BY DEF Result, CallOK
<1>2. Kept(c, c) /\ Outcome(c, c)
  BY DEF Kept, Outcome, Moved
<1>3. Kept(b, c)
  <2> DEFINE rx == IF c.smState # "ESTABLISHED" /\ Length(s) > 0 THEN 0
                   ELSE IF s.at = "next" THEN Smaller(c.rx + s.len, RxRoom) ELSE c.rx
  <2>1. rx \in 0 .. RxRoom
    <3>1. c.rx \in 0 .. RxRoom /\ RxRoom \in Nat
      BY <1>1, Sizes DEF Tcb
    <3> DEFINE old == c.rx
               len == s.len
    <3>2. Smaller(old + len, RxRoom) \in 0 .. RxRoom
      <4>1. old \in 0 .. RxRoom /\ len \in Nat
        BY <3>1
      <4> HIDE DEF old, len
      <4> QED
        BY <3>1, <4>1 DEF Smaller
    <3>3. rx \in {0, Smaller(old + len, RxRoom), old}
      OBVIOUS
    <3>4. 0 \in 0 .. RxRoom
      BY <3>1
    <3> HIDE DEF rx
    <3> QED
      BY <3>1, <3>2, <3>3, <3>4
  <2>2. b = [c EXCEPT !.rx = rx]
    BY <1>1 DEF StoreText, Tcb
  <2> HIDE DEF rx, b
  <2>3. Alike(b, c) /\ b.bSocketReset = c.bSocketReset
    BY <1>1, <2>1, <2>2 DEF Alike, Tcb
  <2> QED
    BY <1>2, <2>3, AlikeResult DEF Kept, Alike
<1> HIDE DEF b
<1>4. b \in Tcb /\ b.bSYNSent
  BY <1>3 DEF Kept, Result, CallOK
<1>5. Kept(d, c)
  <2>1. CASE Length(s) = 0
    BY <1>3, <2>1 DEF AcknowledgeText
  <2>2. CASE Length(s) # 0 /\ b.oneSegment
    <3>1. d = SendTCP(b, {"ACK"}, "reset")
      BY <2>2 DEF AcknowledgeText
    <3>2. Result(d) /\ Same(d, b) /\ d.bSYNSent
      BY <1>3, <1>4, <3>1, SendResult DEF Kept
    <3> QED
      BY <1>3, <3>2 DEF Kept, Same
  <2>3. CASE Length(s) # 0 /\ ~b.oneSegment
    <3>1. d = [b EXCEPT !.oneSegment = TRUE]
      BY <2>3 DEF AcknowledgeText
    <3>2. Alike(d, b) /\ d.bSocketReset = b.bSocketReset
      BY <1>4, <3>1 DEF Alike, Tcb
    <3> QED
      BY <1>3, <1>4, <3>2, AlikeResult DEF Kept, Alike
  <2> QED
    BY <2>1, <2>2, <2>3
<1> HIDE DEF d
<1>6. d \in Tcb /\ Result(d) /\ d.bSYNSent /\ d.smState = c.smState /\ d.bSocketReset = c.bSocketReset
  BY <1>5 DEF Kept, Result, CallOK
<1>7. Alike(e, d) /\ e.bSocketReset = d.bSocketReset
  BY <1>6 DEF Alike, Tcb
<1> HIDE DEF e
<1>8. Result(e) /\ e.bSYNSent /\ e.smState = c.smState /\ e.bSocketReset = c.bSocketReset
  BY <1>6, <1>7, AlikeResult DEF Alike
<1>9. ASSUME NEW st \in Carrying,
             \/ c.smState = "ESTABLISHED" /\ st = "CLOSE_WAIT"
             \/ c.smState \in Closing /\ st \in Closing
      PROVE  Outcome(c, SendTCP([e EXCEPT !.smState = st], {"ACK"}, "reset"))
  <2> DEFINE f == [e EXCEPT !.smState = st]
  <2>1. st \in Synced /\ (e.smState \in Closing => st \in Closing)
    BY <1>8, <1>9 DEF Synced, Carrying, Connected, Closing
  <2>2. Result(f) /\ f.bSYNSent /\ f.smState = st /\ f.bSocketReset = e.bSocketReset
    BY <1>8, <2>1, StateMoves
  <2> HIDE DEF f
  <2> DEFINE r == SendTCP(f, {"ACK"}, "reset")
  <2>3. Result(r) /\ Same(r, f)
    BY <2>2, SendResult
  <2> HIDE DEF r
  <2>4. r.smState = st /\ r.bSocketReset = c.bSocketReset
    BY <1>8, <2>2, <2>3 DEF Same
  <2>5. Outcome(c, r)
    BY <1>9, <2>3, <2>4 DEF Outcome, Moved
  <2> QED
    BY <2>5 DEF r, f
<1>10. Outcome(c, Fin(c, d, s, ack))
  <2>1. Fin(c, d, s, ack) = d \/ Fin(c, d, s, ack) = CloseSocket
        \/ (d.smState = "ESTABLISHED"
            /\ Fin(c, d, s, ack) = SendTCP([e EXCEPT !.smState = "CLOSE_WAIT"], {"ACK"}, "reset"))
        \/ (d.smState = "FIN_WAIT_1"
            /\ Fin(c, d, s, ack) = SendTCP([e EXCEPT !.smState = "CLOSING"], {"ACK"}, "reset"))
    BY DEF Fin, e
  <2>2. CASE Fin(c, d, s, ack) = d
    BY <1>5, <2>2, KeptOutcome
  <2>3. CASE Fin(c, d, s, ack) = CloseSocket
    BY <2>3, CloseOutcome
  <2>4. CASE d.smState = "ESTABLISHED"
             /\ Fin(c, d, s, ack) = SendTCP([e EXCEPT !.smState = "CLOSE_WAIT"], {"ACK"}, "reset")
    <3>1. c.smState = "ESTABLISHED" /\ "CLOSE_WAIT" \in Carrying
      BY <1>6, <2>4 DEF Carrying
    <3>2. Outcome(c, SendTCP([e EXCEPT !.smState = "CLOSE_WAIT"], {"ACK"}, "reset"))
      BY <1>9, <3>1, Zenon
    <3> QED
      BY <2>4, <3>2, Zenon
  <2>5. CASE d.smState = "FIN_WAIT_1"
             /\ Fin(c, d, s, ack) = SendTCP([e EXCEPT !.smState = "CLOSING"], {"ACK"}, "reset")
    <3>1. c.smState \in Closing /\ "CLOSING" \in Carrying /\ "CLOSING" \in Closing
      BY <1>6, <2>5 DEF Carrying, Closing
    <3> QED
      BY <1>9, <2>5, <3>1
  <2> QED
    BY <2>1, <2>2, <2>3, <2>4, <2>5
<1>11. Rest(c, s, ack) = c \/ Rest(c, s, ack) = Fin(c, d, s, ack)
  BY DEF Rest, d, b
<1> QED
  BY <1>2, <1>10, <1>11

\* What the remote node can have sent
LEMMA SegmentFacts ==
  ASSUME PeerOK(peer, tcb), NEW s \in Segments
  PROVE  /\ s.len \in Nat /\ s.win \in 0 .. WordRange - 1 /\ s.ack \in Nat
         /\ s.ack = Foreign \/ s.ack <= peer.got \/ (peer.fin /\ s.ack <= peer.got + 1)
<1>1. Acks \subseteq Nat /\ peer.got \in Nat /\ Foreign \in Nat
  BY Sizes DEF Acks, Foreign, PeerOK, Peer
<1>2. ASSUME NEW a \in Acks \cup {0, Foreign}
      PROVE  a \in Nat /\ (a = Foreign \/ a <= peer.got \/ (peer.fin /\ a <= peer.got + 1))
  <2>1. CASE peer.syn /\ peer.fin
    BY <1>1, <1>2, <2>1 DEF Acks
  <2>2. CASE peer.syn /\ ~peer.fin
    BY <1>1, <1>2, <2>2 DEF Acks
  <2>3. CASE ~peer.syn
    BY <1>1, <1>2, <2>3 DEF Acks
  <2> QED
    BY <2>1, <2>2, <2>3
<1>3. s.ack \in Acks \cup {0, Foreign} /\ s.len \in 0 .. 1 /\ s.win \in {0, PeerWindow}
  BY DEF Segments
<1>4. 0 \in 0 .. WordRange - 1 /\ PeerWindow \in 0 .. WordRange - 1
  BY Sizes
<1>5. s.len \in Nat
  BY <1>3
<1>6. s.win \in 0 .. WordRange - 1
  BY <1>3, <1>4
<1> QED
  BY <1>2, <1>3, <1>5, <1>6

\* An acknowledgement that is not too much, less the FIN, is of bytes that the
\* remote node has.
LEMMA AckIsTrue ==
  ASSUME NEW c, Result(c), c.bSYNSent, c.smState \in Connected, NEW a \in Nat,
         a = Foreign \/ a <= peer.got \/ (peer.fin /\ a <= peer.got + 1), ~AcksTooMuch(c, a)
  PROVE  LET ack == WithoutFin(c, a) IN ack \in Int /\ ack <= c.txHead /\ ack <= peer.got
<1> DEFINE head == c.txHead
           unacked == c.txUnackedTail
           number == c.MySEQ
           got == peer.got
<1>1. c \in Tcb /\ Numbered(c) /\ PeerOK(peer, c)
  <2>1. c.smState \notin Gone
    BY DEF Gone, Connected, Closing
  <2> QED
    BY <2>1 DEF Result, CallOK
<1>2. /\ head \in Nat /\ unacked \in Nat /\ number = unacked /\ head <= MaxPut
      /\ got \in Nat /\ got <= head /\ (peer.fin => got = head)
  BY <1>1, Sizes DEF Tcb, Numbered, PeerOK, Peer
<1>3. Highest(c) = head
  <2>1. number + (head - unacked) = head
    <3> HIDE DEF head, unacked, number
    <3> QED
      BY <1>2
  <2> QED
    BY <2>1 DEF Highest
<1>4. a > head => c.bFINSent /\ a = head + 1
  BY <1>3 DEF AcksTooMuch
<1>5. WithoutFin(c, a) = IF a > head THEN a - 1 ELSE a
  BY <1>3 DEF WithoutFin
<1>6. Foreign > head + 1 /\ Foreign \in Nat
  <2> HIDE DEF head
  <2> QED
    BY <1>2, Sizes DEF Foreign
<1>7. a = Foreign \/ a <= got \/ (peer.fin /\ a <= got + 1)
  OBVIOUS
<1> HIDE DEF head, got, unacked, number
<1>8. a <= got \/ (got = head /\ a <= got + 1)
  BY <1>2, <1>4, <1>6, <1>7
<1>9. WithoutFin(c, a) \in Int /\ WithoutFin(c, a) <= head /\ WithoutFin(c, a) <= got
  <2>1. CASE a > head
    BY <1>2, <1>5, <1>8, <2>1
  <2>2. CASE ~(a > head)
    BY <1>2, <1>5, <1>8, <2>2
  <2> QED
    BY <2>1, <2>2
<1> QED
  BY <1>9 DEF head, got

\* A segment with an acknowledgement
LEMMA AckingOutcome ==
  ASSUME PeerOK(peer, tcb), bServer \in BOOLEAN, NEW s \in Segments,
         NEW c, Result(c), c.bSYNSent, c.smState \in Connected \ {"SYN_RECEIVED"}
  PROVE  Outcome(c, Acking(c, s))
<1> DEFINE ack == WithoutFin(c, s.ack)
           d == Acknowledge(c, ack, s.win)
           g == [d EXCEPT !.smState = "FIN_WAIT_2", !.bTimerEnabled = TRUE]
<1>1. /\ s.len \in Nat /\ s.win \in 0 .. WordRange - 1 /\ s.ack \in Nat
      /\ s.ack = Foreign \/ s.ack <= peer.got \/ (peer.fin /\ s.ack <= peer.got + 1)
  BY SegmentFacts
<1>2. s.win \in Nat
  BY <1>1, Sizes
<1>3. CASE AcksTooMuch(c, s.ack)
  <2> DEFINE r == SendTCP(c, {"ACK"}, "none")
  <2>1. Result(r) /\ Same(r, c) /\ r.bSYNSent
    BY SendResult
  <2> HIDE DEF r
  <2>2. Outcome(c, r)
    BY <2>1 DEF Outcome, Moved, Same
  <2>3. Acking(c, s) = r
    BY <1>3 DEF Acking, r
  <2> QED
    BY <2>2, <2>3
<1>4. CASE ~AcksTooMuch(c, s.ack)
  <2>1. c.smState \in Connected
    OBVIOUS
  <2>2. ack \in Int /\ ack <= c.txHead /\ ack <= peer.got
    BY <1>1, <1>4, <2>1, AckIsTrue, Zenon
  <2>3. Kept(d, c)
    <3> HIDE DEF ack
    <3> QED
      BY <1>2, <2>1, <2>2, AcknowledgeKeeps
  <2>4. \/ d.smState = "FIN_WAIT_1" /\ Acking(c, s) = Rest(g, s, ack)
        \/ Acking(c, s) \in {CloseSocket, d}
        \/ Acking(c, s) = Rest(d, s, ack)
    BY <1>4 DEF Acking
  <2> HIDE DEF d
  <2>5. Result(d) /\ d.bSYNSent /\ d.smState = c.smState /\ d.bSocketReset = c.bSocketReset /\ d \in Tcb
    BY <2>3 DEF Kept, Result, CallOK
  <2>6. CASE d.smState = "FIN_WAIT_1" /\ Acking(c, s) = Rest(g, s, ack)
    <3> DEFINE f == [d EXCEPT !.smState = "FIN_WAIT_2"]
    <3>1. "FIN_WAIT_2" \in Synced /\ "FIN_WAIT_2" \in Carrying /\ "FIN_WAIT_2" \in Closing
          /\ "FIN_WAIT_1" \in Closing /\ "FIN_WAIT_2" \in Connected \ {"SYN_RECEIVED"}
          /\ "FIN_WAIT_2" \in State
      BY DEF Synced, Carrying, Closing, Connected, State
    <3>2. Result(f) /\ f.bSYNSent /\ f.smState = "FIN_WAIT_2" /\ f.bSocketReset = d.bSocketReset
      BY <2>5, <3>1, StateMoves
    <3>3. Alike(g, f) /\ g.bSocketReset = f.bSocketReset
      BY <2>5, <3>1 DEF Alike, Tcb
    <3> HIDE DEF f, g
    <3>4. Result(g) /\ g.bSYNSent /\ g.smState = "FIN_WAIT_2" /\ g.bSocketReset = c.bSocketReset
      BY <2>5, <3>2, <3>3, AlikeResult DEF Alike
    <3> HIDE DEF ack
    <3> DEFINE r == Rest(g, s, ack)
    <3>5. Outcome(g, r)
      BY <1>1, <3>1, <3>4, RestOutcome
    <3> HIDE DEF r
    <3>6. Outcome(c, r)
      BY <2>5, <2>6, <3>1, <3>4, <3>5 DEF Outcome, Moved
    <3> QED
      BY <2>6, <3>6 DEF r
  <2>7. CASE Acking(c, s) \in {CloseSocket, d}
    BY <2>3, <2>7, CloseOutcome, KeptOutcome
  <2>8. CASE Acking(c, s) = Rest(d, s, ack)
    <3> HIDE DEF ack
    <3>1. Outcome(d, Rest(d, s, ack))
      BY <1>1, <2>5, RestOutcome
    <3> QED
      BY <2>3, <2>8, <3>1, OutcomeOfKept
  <2> QED
    BY <2>4, <2>6, <2>7, <2>8
<1> QED
  BY <1>3, <1>4

\* A segment whose sequence number was accepted
LEMMA AcceptedOutcome ==
  ASSUME PeerOK(peer, tcb), bServer \in BOOLEAN, NEW s \in Segments,
         NEW c, Result(c), c.bSYNSent, c.smState \in Connected
  PROVE  Outcome(c, Accepted(c, s))
<1>1. Outcome(c, c) /\ Outcome(c, CloseSocket)
  BY CloseOutcome DEF Outcome, Moved
<1>2. ASSUME c.smState = "SYN_RECEIVED", Accepted(c, s) = ResetOnly(c)
      PROVE  Outcome(c, Accepted(c, s))
  <2> DEFINE r == ResetOnly(c)
  <2>1. Result(r) /\ Same(r, c) /\ r.bSYNSent
    BY SendResult DEF ResetOnly
  <2> HIDE DEF r
  <2>2. Outcome(c, r)
    BY <2>1 DEF Outcome, Moved, Same
  <2> QED
    BY <1>2, <2>2 DEF r
<1>3. ASSUME c.smState = "SYN_RECEIVED", Accepted(c, s) = Acking([c EXCEPT !.smState = "ESTABLISHED"], s)
      PROVE  Outcome(c, Accepted(c, s))
  <2> DEFINE e == [c EXCEPT !.smState = "ESTABLISHED"]
  <2>1. "ESTABLISHED" \in Synced /\ "ESTABLISHED" \in Carrying /\ c.smState \notin Closing
        /\ "ESTABLISHED" \in Connected \ {"SYN_RECEIVED"}
    BY <1>3 DEF Synced, Carrying, Connected, Closing
  <2>2. Result(e) /\ e.bSYNSent /\ e.smState = "ESTABLISHED" /\ e.bSocketReset = c.bSocketReset
    BY <2>1, StateMoves
  <2> HIDE DEF e
  <2> DEFINE r == Acking(e, s)
  <2>3. Outcome(e, r)
    BY <2>1, <2>2, AckingOutcome
  <2> HIDE DEF r
  <2>4. Outcome(c, r)
    BY <1>3, <2>2, <2>3 DEF Outcome, Moved
  <2> QED
    BY <1>3, <2>4 DEF r, e
<1>4. ASSUME c.smState # "SYN_RECEIVED" PROVE Outcome(c, Acking(c, s))
  BY <1>4, AckingOutcome
<1>5. \/ Accepted(c, s) \in {CloseSocket, c}
      \/ c.smState = "SYN_RECEIVED" /\ Accepted(c, s) = ResetOnly(c)
      \/ c.smState = "SYN_RECEIVED" /\ Accepted(c, s) = Acking([c EXCEPT !.smState = "ESTABLISHED"], s)
      \/ c.smState # "SYN_RECEIVED" /\ Accepted(c, s) = Acking(c, s)
  <2>1. CASE s.flags \cap {"RST", "SYN"} # {} \/ ~Acked(s)
    BY <2>1 DEF Accepted
  <2>2. CASE s.flags \cap {"RST", "SYN"} = {} /\ Acked(s)
    <3>1. CASE c.smState = "SYN_RECEIVED"
      BY <2>2, <3>1, Zenon DEF Accepted
    <3>2. CASE c.smState = "LAST_ACK"
      BY <2>2, <3>2 DEF Accepted
    <3>3. CASE c.smState \notin {"SYN_RECEIVED", "LAST_ACK"}
      BY <2>2, <3>3 DEF Accepted
    <3> QED
      BY <3>1, <3>2, <3>3
  <2> QED
    BY <2>1, <2>2
<1>6. CASE Accepted(c, s) \in {CloseSocket, c}
  BY <1>1, <1>6
<1>7. CASE c.smState # "SYN_RECEIVED" /\ Accepted(c, s) = Acking(c, s)
  BY <1>4, <1>7
<1> QED
  BY <1>2, <1>3, <1>5, <1>6, <1>7

\* A TCB whose SYN is out and that has no more than that
LEMMA SynResult ==
  ASSUME NEW d, CallOK(d), d.bSYNSent, ~d.bTXFIN, ~d.bFINSent,
         d.smState \in {"SYN_SENT", "SYN_RECEIVED"}, d.txHead = 0, PeerOK(peer, d)
  PROVE  Result(d)
BY DEF Result, StateOK, Synced, Connected, Carrying, Closing

\* The SYN of a remote node, for a socket that listens
LEMMA ListeningOutcome ==
  ASSUME bServer \in BOOLEAN, NEW s, NEW c, Result(c), c.smState = "LISTEN",
         PeerOK(peer, c)
  PROVE  Outcome(c, Listening(c, s))
<1> DEFINE b == SendTCP(c, {"SYN", "ACK"}, "reset")
           d == [b EXCEPT !.smState = "SYN_RECEIVED"]
<1>1. ~c.bTXFIN /\ ~c.bFINSent /\ c.txHead = 0
  BY DEF Result, StateOK, Closing, Carrying
<1>2. CallOK(b) /\ Same(b, c) /\ b.bSYNSent /\ ~b.bTXFIN /\ ~b.bFINSent
  BY <1>1, SendCall DEF Result
<1> HIDE DEF b
<1>3. b \in Tcb
  BY <1>2 DEF CallOK
<1>4. d \in Tcb
  <2>1. "SYN_RECEIVED" \in State
    BY DEF State, Connected
  <2> QED
    BY <1>3, <2>1 DEF Tcb
<1>5. /\ d.smState = "SYN_RECEIVED" /\ d.MySEQ = b.MySEQ /\ d.txTail = b.txTail
      /\ d.txUnackedTail = b.txUnackedTail /\ d.txHead = b.txHead /\ d.bTXFIN = b.bTXFIN
      /\ d.bFINSent = b.bFINSent /\ d.bSYNSent = b.bSYNSent
      /\ d.sent = b.sent /\ d.bSocketReset = b.bSocketReset
  BY <1>3 DEF Tcb
<1> HIDE DEF d
<1>6. CallOK(d)
  BY <1>2, <1>4, <1>5 DEF CallOK, Numbered, WellSent
<1>7. PeerOK(peer, d)
  BY <1>2, <1>5 DEF PeerOK, Same, Closing
<1>8. Result(d)
  BY <1>1, <1>2, <1>5, <1>6, <1>7, SynResult DEF Same
<1>9. Outcome(c, d)
  BY <1>2, <1>5, <1>8 DEF Outcome, Moved, Same
<1>10. Listening(c, s) = CloseSocket \/ Listening(c, s) = d
  BY DEF Listening, b, d
<1> QED
  BY <1>9, <1>10, CloseOutcome

\* What answers our own SYN
LEMMA SynSentOutcome ==
  ASSUME PeerOK(peer, tcb), NEW s \in Segments, NEW c, Result(c), c.smState = "SYN_SENT"
  PROVE  Outcome(c, SynSent(c, s))
<1> DEFINE win == s.win
           w == [c EXCEPT !.remoteWindow = win]
<1>1. c \in Tcb /\ c.bSYNSent
  BY DEF Result, CallOK, StateOK, Synced
<1>2. win \in 0 .. WordRange - 1
  BY SegmentFacts
<1>3. Alike(w, c) /\ w.bSocketReset = c.bSocketReset
  <2> HIDE DEF win
  <2> QED
    BY <1>1, <1>2 DEF Alike, Tcb
<1> HIDE DEF w
<1>4. Result(w) /\ w.bSYNSent /\ w.smState = "SYN_SENT" /\ w.bSocketReset = c.bSocketReset
  BY <1>1, <1>3, AlikeResult DEF Alike
<1>5. Outcome(c, ResetOnly(c))
  <2> DEFINE r == ResetOnly(c)
  <2>1. Result(r) /\ Same(r, c) /\ r.bSYNSent
    BY <1>1, SendResult DEF ResetOnly
  <2> HIDE DEF r
  <2>2. Outcome(c, r)
    BY <2>1 DEF Outcome, Moved, Same
  <2> QED
    BY <2>2 DEF r
<1>6. ASSUME NEW flags, "FIN" \notin flags, NEW st \in {"ESTABLISHED", "SYN_RECEIVED"}
      PROVE  LET d == [SendTCP(w, flags, "reset") EXCEPT !.smState = st]
             IN  Result(d) /\ d.bSYNSent /\ d.smState = st /\ d.bSocketReset = c.bSocketReset
  <2> DEFINE b == SendTCP(w, flags, "reset")
  <2>1. Result(b) /\ Same(b, w) /\ b.bSYNSent
    BY <1>4, <1>6, SendResult
  <2> HIDE DEF b
  <2>2. st \in Synced /\ b.smState \notin Carrying /\ b.smState \notin Closing
        /\ b.bSocketReset = c.bSocketReset
    BY <1>4, <2>1 DEF Synced, Carrying, Connected, Closing, Same
  <2>3. LET d == [b EXCEPT !.smState = st]
        IN  Result(d) /\ d.bSYNSent /\ d.smState = st /\ d.bSocketReset = b.bSocketReset
    BY <2>1, <2>2, StateMoves
  <2> QED
    BY <2>2, <2>3 DEF b
<1> DEFINE e == [SendTCP(w, {"ACK"}, "reset") EXCEPT !.smState = "ESTABLISHED"]
           f == [SendTCP(w, {"ACK"}, "reset") EXCEPT !.smState = "ESTABLISHED", !.bTimerEnabled = FALSE]
           g == [SendTCP(w, {"SYN", "ACK"}, "reset") EXCEPT !.smState = "SYN_RECEIVED"]
<1>7. Outcome(c, f)
  <2>1. Result(e) /\ e.bSYNSent /\ e.smState = "ESTABLISHED" /\ e.bSocketReset = c.bSocketReset
    BY <1>6
  <2>2. Alike(f, e) /\ f.bSocketReset = e.bSocketReset
    <3> DEFINE b == SendTCP(w, {"ACK"}, "reset")
    <3>1. b \in Tcb
      BY <1>4, SendResult DEF Result, CallOK
    <3> HIDE DEF b
    <3>2. "ESTABLISHED" \in State
      BY DEF State, Connected
    <3>3. LET x == [b EXCEPT !.smState = "ESTABLISHED"]
              y == [b EXCEPT !.smState = "ESTABLISHED", !.bTimerEnabled = FALSE]
          IN  Alike(y, x) /\ y.bSocketReset = x.bSocketReset
      BY <3>1, <3>2 DEF Alike, Tcb
    <3> QED
      BY <3>3 DEF b
  <2> HIDE DEF e, f
  <2> QED
    BY <2>1, <2>2, AlikeResult DEF Outcome, Moved, Alike
<1>8. Outcome(c, g)
  <2>1. Result(g) /\ g.smState = "SYN_RECEIVED" /\ g.bSocketReset = c.bSocketReset
    BY <1>6
  <2> HIDE DEF g
  <2> QED
    BY <2>1 DEF Outcome, Moved
<1>9. Outcome(c, c)
  BY DEF Outcome, Moved
<1>10. SynSent(c, s) \in {c, ResetOnly(c), f, g}
  BY DEF SynSent, w
<1> QED
  BY <1>5, <1>7, <1>8, <1>9, <1>10

\* Whatever segment comes
LEMMA HandleOutcome ==
  ASSUME PeerOK(peer, tcb), bServer \in BOOLEAN, NEW s \in Segments,
         NEW c, Result(c), PeerOK(peer, c), c.smState \in {"LISTEN", "SYN_SENT"} \cup Connected
  PROVE  Outcome(c, Handle(c, s))
<1>1. CASE c.smState = "LISTEN"
  <2>1. Handle(c, s) = Listening(c, s)
    BY <1>1 DEF Handle, Connected, Closing
  <2> QED
    BY <1>1, <2>1, ListeningOutcome
<1>2. CASE c.smState = "SYN_SENT"
  <2>1. Handle(c, s) = SynSent(c, s)
    BY <1>2 DEF Handle, Connected, Closing
  <2> QED
    BY <1>2, <2>1, SynSentOutcome
<1>3. CASE c.smState \in Connected
  <2>1. c.bSYNSent
    BY <1>3 DEF Result, StateOK, Synced
  <2>2. Outcome(c, Accepted(c, s))
    BY <1>3, <2>1, AcceptedOutcome
  <2> DEFINE r == SendTCP(c, {"ACK"}, "reset")
  <2>3. Result(r) /\ Same(r, c) /\ r.bSYNSent
    BY <2>1, SendResult
  <2> HIDE DEF r
  <2>4. Outcome(c, r) /\ Outcome(c, c)
    BY <2>3 DEF Outcome, Moved, Same
  <2>5. c.smState # "LISTEN" /\ c.smState # "SYN_SENT"
    BY <1>3 DEF Connected, Closing
  <2>6. Handle(c, s) \in {Accepted(c, s), c, r}
    BY <1>3, <2>5 DEF Handle, r
  <2> QED
    BY <2>2, <2>4, <2>6
<1> QED
  BY <1>1, <1>2, <1>3

-----------------------------------------------------------------------------
(* The steps                                                               *)

\* What TcpSocket shows of a call, as a pair of TCBs
Shown(a, c) ==
  \/ a.smState \in {"LISTEN", "SYN_SENT"} \cup Connected /\ Moved(a, c)
  \/ /\ c.smState \in {"CLOSED", "LISTEN"} /\ c.bSocketReset = TRUE
     /\ a.smState # "CLOSED_BUT_RESERVED"
  \/ /\ c.bSocketReset = a.bSocketReset
     /\ \/ c.smState = a.smState
        \/ a.smState \in {"CLOSED"} \cup Opening /\ c.smState \in Opening
        \/ a.smState \in {"SYN_RECEIVED", "ESTABLISHED", "CLOSE_WAIT"} /\ c.smState \in Closing
        \/ a.smState = "CLOSED_BUT_RESERVED" /\ c.smState = "CLOSED"
  \/ c.smState = a.smState /\ c.bSocketReset = FALSE
  \/ /\ a.smState = "ESTABLISHED" /\ c.smState \in {"LISTEN", "CLOSED_BUT_RESERVED"}
     /\ c.bSocketReset = TRUE

Call == \E c : Result(c) /\ Shown(tcb, c) /\ Becomes(c) /\ silent' = silent

\* A TCB without a connection that differs in what the invariant does not speak of
AlikeBefore(d, c) ==
  /\ d \in Tcb
  /\ d.MySEQ = c.MySEQ /\ d.txTail = c.txTail /\ d.rx = c.rx
  /\ d.txUnackedTail = c.txUnackedTail /\ d.txHead = c.txHead
  /\ d.due = c.due /\ d.oneSegment = c.oneSegment /\ d.bTXFIN = c.bTXFIN
  /\ d.bFINSent = c.bFINSent /\ d.bSYNSent = c.bSYNSent /\ d.sent = c.sent
  /\ d.bSocketReset = c.bSocketReset

\* Before the SYN, too, it is as good as the other, in any state without one.
LEMMA BeforeResult ==
  ASSUME NEW c, Result(c), PeerOK(peer, c), ~c.bSYNSent, NEW d, AlikeBefore(d, c)
  PROVE  /\ CallOK(d) /\ ~d.bTXFIN /\ ~d.bFINSent /\ d.txHead = 0
         /\ d.smState \notin Closing => PeerOK(peer, d)
         /\ d.smState \in State \ (Synced \cup {"LISTEN"}) => Result(d)
<1>1. ~c.bTXFIN /\ ~c.bFINSent /\ c.txHead = 0 /\ c.smState \notin Closing
  BY DEF Result, StateOK, Synced, Connected, Carrying
<1>2. CallOK(d)
  BY DEF AlikeBefore, Result, CallOK, Numbered, WellSent
<1>3. ~d.bTXFIN /\ ~d.bFINSent /\ d.txHead = 0 /\ ~d.bSYNSent
  BY <1>1 DEF AlikeBefore
<1>4. d.smState \notin Closing => PeerOK(peer, d)
  BY <1>1 DEF AlikeBefore, PeerOK
<1>5. ASSUME d.smState \in State \ (Synced \cup {"LISTEN"}) PROVE Result(d)
  <2>1. StateOK(d)
    BY <1>3, <1>5 DEF StateOK
  <2>2. d.smState \notin Closing
    BY <1>5 DEF Synced, Connected
  <2> QED
    BY <1>2, <1>4, <2>1, <2>2 DEF Result
<1> QED
  BY <1>2, <1>3, <1>4, <1>5

\* TCPDisconnect, whatever the state of the socket is
LEMMA DisconnectedResult ==
  ASSUME bServer \in BOOLEAN, NEW c, Result(c), PeerOK(peer, c)
  PROVE  LET r == Disconnected(c)
         IN  /\ Result(r) /\ Shown(c, r)
             /\ c.smState = "ESTABLISHED" => r.smState = "FIN_WAIT_1"
             /\ c.smState = "FIN_WAIT_1" => r = CloseSocket
<1> DEFINE d == [c EXCEPT !.rx = 0]
           b == SendFin(d)
<1>1. c \in Tcb
  BY DEF Result, CallOK
<1>2. 0 \in 0 .. RxRoom
  BY Sizes
<1>3. d \in Tcb /\ d.smState = c.smState
  BY <1>1, <1>2 DEF Tcb
<1>4. CASE c.smState \in {"SYN_RECEIVED", "ESTABLISHED", "CLOSE_WAIT"}
  <2>1. c.bSYNSent
    BY <1>4 DEF Result, StateOK, Synced, Connected
  <2>2. Alike(d, c) /\ d.bSocketReset = c.bSocketReset
    BY <1>1, <1>3 DEF Alike, Tcb
  <2> HIDE DEF d
  <2>3. Result(d) /\ d.bSYNSent /\ d.smState \in Synced
    BY <1>4, <2>1, <2>2, AlikeResult DEF Alike, Synced, Connected
  <2>4. CallOK(b) /\ Same(b, d) /\ b.bSYNSent
    BY <2>3, SendFinCall DEF Result
  <2> HIDE DEF b
  <2>5. ASSUME NEW st \in Closing
        PROVE  LET r == [b EXCEPT !.smState = st]
               IN  Result(r) /\ r.smState = st /\ r.bSocketReset = c.bSocketReset
    <3>1. LET r == [b EXCEPT !.smState = st]
          IN  Result(r) /\ r.bSYNSent /\ r.smState = st /\ r.bSocketReset = d.bSocketReset
      BY <2>3, <2>4, ClosingResult
    <3> QED
      BY <2>2, <3>1
  <2>6. PICK st \in {"FIN_WAIT_1", "LAST_ACK"} :
           Disconnected(c) = [b EXCEPT !.smState = st] /\ (c.smState = "ESTABLISHED" => st = "FIN_WAIT_1")
    BY <1>3, <1>4 DEF Disconnected, d, b
  <2> DEFINE r == [b EXCEPT !.smState = st]
  <2>7. Result(r) /\ r.smState = st /\ r.bSocketReset = c.bSocketReset /\ st \in Closing
    BY <2>5 DEF Closing
  <2> HIDE DEF r
  <2>8. Shown(c, r)
    BY <1>4, <2>7 DEF Shown
  <2>9. Disconnected(c) = r
    BY <2>6 DEF r
  <2> QED
    BY <1>4, <2>6, <2>7, <2>8, <2>9
<1>5. CASE c.smState = "CLOSED_BUT_RESERVED"
  <2> DEFINE r == [d EXCEPT !.smState = "CLOSED"]
  <2>1. ~c.bSYNSent
    BY <1>5 DEF Result, StateOK, Synced, Connected, Closing
  <2>2. c.rx = 0
    BY <2>1 DEF Result, CallOK, Numbered
  <2>3. AlikeBefore(r, c) /\ r.smState = "CLOSED"
    <3>1. "CLOSED" \in State
      BY DEF State
    <3> QED
      BY <1>1, <1>2, <2>2, <3>1 DEF AlikeBefore, Tcb
  <2>4. Disconnected(c) = r
    BY <1>3, <1>5 DEF Disconnected
  <2> HIDE DEF r
  <2>5. "CLOSED" \in State \ (Synced \cup {"LISTEN"})
    BY DEF State, Synced, Connected, Closing
  <2>6. Result(r)
    BY <2>1, <2>3, <2>5, BeforeResult
  <2>7. Shown(c, r)
    BY <1>5, <2>3 DEF Shown, AlikeBefore
  <2> QED
    BY <1>5, <2>4, <2>6, <2>7
<1>6. CASE c.smState \notin {"SYN_RECEIVED", "ESTABLISHED", "CLOSE_WAIT", "CLOSED_BUT_RESERVED"}
  <2>1. Disconnected(c) = CloseSocket
    BY <1>3, <1>6 DEF Disconnected
  <2> QED
    BY <1>6, <2>1, ClosedResult DEF Shown
<1> QED
  BY <1>4, <1>5, <1>6

\* Retransmit goes back and sends once more.
LEMMA RetransmitResult ==
  ASSUME NEW c, Result(c), c.bSYNSent, c.retryCount < MaxRetries + MaxSynRetries,
         NEW flags, "FIN" \notin flags \/ c.smState \in Closing
  PROVE  LET r == Retransmit(c, flags)
         IN  Result(r) /\ r.smState = c.smState /\ r.bSocketReset = c.bSocketReset
<1> DEFINE b == RollBack(c)
           tries == b.retryCount + 1
           window == (b.remoteWindow + (c.txUnackedTail - c.txTail)) % WordRange
           d == [b EXCEPT !.retryCount = tries, !.remoteWindow = window]
           r == SendTCP(d, flags, "none")
<1>1. Kept(b, c) /\ b \in Tcb /\ b.remoteWindow = c.remoteWindow /\ b.retryCount = c.retryCount
  BY RollBackKeeps
<1>2. c \in Tcb
  BY DEF Result, CallOK
<1>3. Retransmit(c, flags) = r
  BY <1>1 DEF Retransmit, Tcb
<1>4. tries \in 0 .. MaxRetries + MaxSynRetries
  <2> DEFINE k == b.retryCount
  <2>1. k \in 0 .. MaxRetries + MaxSynRetries /\ k < MaxRetries + MaxSynRetries
    BY <1>1 DEF Tcb
  <2> HIDE DEF k
  <2>2. k + 1 \in 0 .. MaxRetries + MaxSynRetries
    BY <2>1, Sizes
  <2> QED
    BY <2>2 DEF k
<1>5. window \in 0 .. WordRange - 1
  <2>1. b.remoteWindow + (c.txUnackedTail - c.txTail) \in Int
    <3>1. b.remoteWindow \in 0 .. WordRange - 1 /\ c.txUnackedTail \in Nat /\ c.txTail \in Nat
      BY <1>1, <1>2 DEF Tcb
    <3> DEFINE x == b.remoteWindow
               y == c.txUnackedTail
               z == c.txTail
    <3>2. x \in 0 .. WordRange - 1 /\ y \in Nat /\ z \in Nat
      BY <3>1
    <3> HIDE DEF x, y, z
    <3>3. x + (y - z) \in Int
      BY <3>2, Sizes
    <3> QED
      BY <3>3 DEF x, y, z
  <2> QED
    BY <2>1, Sizes
<1> HIDE DEF b, tries, window
<1>6. Alike(d, b) /\ d.bSocketReset = b.bSocketReset
  BY <1>1, <1>4, <1>5 DEF Alike, Tcb
<1> HIDE DEF d
<1>7. Result(d) /\ d.bSYNSent /\ d.smState = c.smState /\ d.bSocketReset = c.bSocketReset
  BY <1>1, <1>6, AlikeResult DEF Kept, Alike
<1>8. Result(r) /\ Same(r, d)
  BY <1>7, SendResult
<1> QED
  BY <1>3, <1>7, <1>8 DEF Same

\* Each operation, timer and segment makes a call of the kind above, of which
\* the remote node gets some part; only GoesSilent does not.
LEMMA NextCalls ==
  ASSUME IInv, Next
  PROVE  Call \/ GoesSilent
<1>1. /\ Result(tcb) /\ tcb.sent = << >> /\ PeerOK(peer, tcb)
      /\ bServer \in BOOLEAN /\ silent \in BOOLEAN
  BY InvResult
<1>2. tcb \in Tcb
  BY <1>1 DEF Result, CallOK
<1>3. /\ (tcb.bSYNSent <=> tcb.smState \in Synced)
      /\ (tcb.due # "no" \/ tcb.oneSegment \/ tcb.rx > 0) => tcb.bSYNSent
  BY <1>2 DEF IInv, StateOK, Tcb
<1>4. CASE TCPOpen
  <2> DEFINE c == [tcb EXCEPT !.smState = "GATEWAY_SEND_ARP", !.bTimerEnabled = TRUE, !.retryCount = 0]
  <2>1. tcb.smState = "CLOSED" /\ Becomes(c) /\ silent' = silent
    BY <1>4 DEF TCPOpen
  <2>2. "GATEWAY_SEND_ARP" \in State \ (Synced \cup {"LISTEN"}) /\ "GATEWAY_SEND_ARP" \in Opening
        /\ "CLOSED" \notin Synced /\ 0 \in 0 .. MaxRetries + MaxSynRetries
    BY Sizes DEF State, Synced, Connected, Closing, Opening
  <2>3. AlikeBefore(c, tcb) /\ c.smState = "GATEWAY_SEND_ARP"
    BY <1>2, <2>2 DEF AlikeBefore, Tcb
  <2> HIDE DEF c
  <2>4. Result(c)
    BY <1>1, <1>3, <2>1, <2>2, <2>3, BeforeResult
  <2>5. Shown(tcb, c)
    BY <2>1, <2>2, <2>3 DEF Shown, AlikeBefore
  <2> QED
    BY <2>1, <2>4, <2>5 DEF Call
<1>5. ASSUME NEW n \in 1 .. TxSize, TCPPutArray(n) PROVE Call
  <2> DEFINE free == TxSize - (tcb.txHead - tcb.txTail)
             Put(x) == [x EXCEPT !.txHead = @ + Smaller(n, free)]
  <2>1. tcb.smState \in {"ESTABLISHED", "CLOSE_WAIT"} /\ tcb.txHead + n <= MaxPut /\ silent' = silent
        /\ tcb.bSYNSent
    BY <1>3, <1>5 DEF TCPPutArray, Synced, Connected
  <2>2. ASSUME NEW x, Kept(x, tcb) PROVE Kept(TCPFlush(x), tcb)
    <3>1. CASE x.txHead # x.txUnackedTail
      <4> DEFINE r == SendTCP(x, {"ACK"}, "reset")
      <4>1. Result(r) /\ Same(r, x) /\ r.bSYNSent
        BY <2>2, SendResult DEF Kept
      <4> HIDE DEF r
      <4>2. Kept(r, tcb)
        BY <2>2, <4>1 DEF Kept, Same
      <4> QED
        BY <3>1, <4>2 DEF TCPFlush, r
    <3>2. CASE x.txHead = x.txUnackedTail
      BY <2>2, <3>2 DEF TCPFlush
    <3> QED
      BY <3>1, <3>2
  <2>3. TCPFlush(tcb).txHead = tcb.txHead /\ TCPFlush(tcb).txTail = tcb.txTail
    <3>1. Same(SendTCP(tcb, {"ACK"}, "reset"), tcb)
      BY <1>1, <2>1, SendResult
    <3> QED
      BY <3>1 DEF TCPFlush, Same
  <2>4. ASSUME NEW x, Kept(x, tcb), x.txHead = tcb.txHead, x.txTail = tcb.txTail, free # 0
        PROVE  Kept(Put(x), tcb)
    <3> DEFINE head == tcb.txHead
               tail == tcb.txTail
               room == TxSize - (head - tail)
               new == head + Smaller(n, room)
               y == [x EXCEPT !.txHead = new]
    <3>1. x \in Tcb /\ Numbered(x) /\ CallOK(x) /\ StateOK(x) /\ PeerOK(peer, x)
      BY <2>1, <2>4 DEF Kept, Result, CallOK, Gone
    <3>2. Put(x) = y
      BY <2>4, <3>1 DEF Tcb
    <3>3. head \in Nat /\ tail \in Nat /\ head <= tail + TxSize /\ head + n <= MaxPut /\ MaxPut \in Nat
          /\ TxSize \in Nat /\ n \in Nat
      BY <1>2, <2>1, <3>1, Sizes, <2>4 DEF Tcb, Numbered
    <3>4. new \in Nat /\ head <= new /\ new <= tail + TxSize /\ new <= MaxPut
      <4> HIDE DEF head, tail
      <4> QED
        BY <3>3 DEF Smaller
    <3>5. new \in 0 .. MaxPut
      BY <3>3, <3>4
    <3> HIDE DEF new
    <3>6. y \in Tcb
      BY <3>1, <3>5 DEF Tcb
    <3>7. /\ y.smState = x.smState /\ y.MySEQ = x.MySEQ /\ y.txTail = x.txTail
          /\ y.txUnackedTail = x.txUnackedTail /\ y.txHead = new /\ y.bTXFIN = x.bTXFIN
          /\ y.bFINSent = x.bFINSent /\ y.bSYNSent = x.bSYNSent
          /\ y.sent = x.sent /\ y.bSocketReset = x.bSocketReset
      BY <3>1 DEF Tcb
    <3> HIDE DEF y
    <3>8. x.smState \notin Closing /\ x.bSYNSent /\ x.smState = tcb.smState /\ x.bSocketReset = tcb.bSocketReset
      BY <2>1, <2>4 DEF Kept, Closing
    <3>9. ~x.bFINSent /\ ~x.bTXFIN
      BY <3>1, <3>8 DEF StateOK
    <3>10. Numbered(y)
      <4>1. x.txUnackedTail <= new
        <5> DEFINE u == x.txUnackedTail
        <5>1. u \in Nat /\ u <= head
          BY <2>4, <3>1 DEF Numbered, Tcb
        <5> HIDE DEF u, head
        <5>2. u <= new
          BY <3>3, <3>4, <5>1
        <5> QED
          BY <5>2 DEF u
      <4> QED
        BY <2>4, <3>1, <3>4, <3>7, <3>8, <4>1 DEF Numbered
    <3>11. ASSUME NEW i \in 1 .. Len(y.sent) PROVE WellSent(y.sent[i], y)
      <4>1. WellSent(x.sent[i], x) /\ x.sent[i] \in Segment
        BY <3>1, <3>7 DEF CallOK, Tcb
      <4> DEFINE end == x.sent[i].seq + x.sent[i].len
      <4>2. end \in Int /\ end <= head /\ ~x.sent[i].fin
        BY <2>4, <3>9, <4>1 DEF WellSent, Segment
      <4> HIDE DEF end, head
      <4>3. end <= new
        BY <3>3, <3>4, <4>2
      <4> QED
        BY <3>7, <4>2, <4>3 DEF WellSent, end
    <3>12. StateOK(y)
      BY <2>1, <3>1, <3>7, <3>8, <3>9 DEF StateOK, Carrying
    <3>13. PeerOK(peer, y)
      <4> DEFINE got == peer.got
      <4>1. got \in Nat /\ got <= head /\ ~peer.fin
        BY <2>4, <3>1, <3>8, Sizes DEF PeerOK, Peer
      <4> HIDE DEF got, head
      <4>2. got <= new
        BY <3>3, <3>4, <4>1
      <4> QED
        BY <3>1, <3>7, <4>1, <4>2 DEF PeerOK, got
    <3>14. Kept(y, tcb)
      BY <3>6, <3>7, <3>8, <3>10, <3>11, <3>12, <3>13 DEF Kept, Result, CallOK
    <3> QED
      BY <3>2, <3>14
  <2>5. ASSUME NEW x, Kept(x, tcb), Becomes(x) PROVE Call
    BY <2>1, <2>5 DEF Kept, Call, Shown
  <2>6. Kept(tcb, tcb)
    BY <1>1, <2>1 DEF Kept
  <2>7. CASE free = 0
    <3>1. Becomes(TCPFlush(tcb))
      BY <1>5, <2>7 DEF TCPPutArray
    <3> QED
      BY <2>2, <2>5, <2>6, <3>1
  <2>8. CASE free # 0
    <3>1. PICK early \in BOOLEAN :
            LET c == Put(IF early THEN TCPFlush(tcb) ELSE tcb)
            IN  IF free <= n THEN Becomes(TCPFlush(c))
                ELSE Becomes([c EXCEPT !.due = IF @ = "no" THEN "yes" ELSE @])
      BY <1>5, <2>8 DEF TCPPutArray
    <3> DEFINE x == IF early THEN TCPFlush(tcb) ELSE tcb
               c == Put(x)
    <3>2. Kept(x, tcb) /\ x.txHead = tcb.txHead /\ x.txTail = tcb.txTail
      BY <2>2, <2>3, <2>6
    <3> HIDE DEF x
    <3>3. Kept(c, tcb)
      BY <2>4, <2>8, <3>2
    <3>4. IF free <= n THEN Becomes(TCPFlush(c))
          ELSE Becomes([c EXCEPT !.due = IF @ = "no" THEN "yes" ELSE @])
      BY <3>1 DEF x
    <3> HIDE DEF c, free, Put
    <3>5. CASE Becomes(TCPFlush(c))
      BY <2>2, <2>5, <3>3, <3>5
    <3>6. CASE Becomes([c EXCEPT !.due = IF @ = "no" THEN "yes" ELSE @])
      <4> DEFINE d == [c EXCEPT !.due = IF @ = "no" THEN "yes" ELSE @]
      <4>1. c \in Tcb
        BY <3>3 DEF Kept, Result, CallOK
      <4>2. Alike(d, c) /\ d.bSocketReset = c.bSocketReset
        BY <4>1 DEF Alike, Tcb
      <4> HIDE DEF d
      <4>3. Kept(d, tcb)
        BY <3>3, <4>2, AlikeResult DEF Kept, Alike
      <4>4. Becomes(d)
        BY <3>6 DEF d
      <4> QED
        BY <2>5, <4>3, <4>4
    <3> QED
      BY <3>4, <3>5, <3>6
  <2> QED
    BY <2>7, <2>8
<1>6. CASE TCPGetArray
  <2>1. PICK n \in 1 .. tcb.rx :
          Becomes([tcb EXCEPT !.rx = @ - n,
                              !.due = IF 2 * n >= tcb.rx THEN "quick"
                                      ELSE IF @ = "no" THEN "yes" ELSE @])
    BY <1>6 DEF TCPGetArray
  <2> DEFINE left == tcb.rx - n
             due == IF 2 * n >= tcb.rx THEN "quick" ELSE IF tcb.due = "no" THEN "yes" ELSE tcb.due
             c == [tcb EXCEPT !.rx = left, !.due = due]
  <2>2. left \in 0 .. RxRoom
    <3> DEFINE rx == tcb.rx
    <3>1. rx \in 0 .. RxRoom /\ n \in 1 .. rx
      BY <1>2 DEF Tcb
    <3> HIDE DEF rx
    <3>2. rx - n \in 0 .. RxRoom
      BY <3>1, Sizes
    <3> QED
      BY <3>2 DEF rx
  <2>3. due \in {"no", "yes", "quick"}
    BY <1>2 DEF Tcb
  <2>4. Becomes(c) /\ tcb.bSYNSent /\ silent' = silent
    BY <1>2, <1>3, <1>6, <2>1 DEF TCPGetArray, Tcb
  <2> HIDE DEF left, due
  <2>5. Alike(c, tcb) /\ c.bSocketReset = tcb.bSocketReset
    BY <1>2, <2>2, <2>3 DEF Alike, Tcb
  <2> HIDE DEF c
  <2>6. Result(c) /\ Shown(tcb, c)
    BY <1>1, <2>4, <2>5, AlikeResult DEF Shown, Alike
  <2> QED
    BY <2>4, <2>6 DEF Call
<1>7. CASE TCPDisconnect
  <2>1. Becomes(Disconnected(tcb)) /\ silent' = silent
    BY <1>7 DEF TCPDisconnect
  <2>2. Result(Disconnected(tcb)) /\ Shown(tcb, Disconnected(tcb))
    BY <1>1, DisconnectedResult
  <2> QED
    BY <2>1, <2>2 DEF Call
<1>8. CASE TCPWasReset
  <2> DEFINE c == [tcb EXCEPT !.bSocketReset = FALSE]
  <2>1. Becomes(c) /\ silent' = silent
    BY <1>8 DEF TCPWasReset
  <2>2. /\ c \in Tcb /\ c.smState = tcb.smState /\ c.MySEQ = tcb.MySEQ /\ c.txTail = tcb.txTail
        /\ c.txUnackedTail = tcb.txUnackedTail /\ c.txHead = tcb.txHead /\ c.rx = tcb.rx
        /\ c.due = tcb.due /\ c.oneSegment = tcb.oneSegment /\ c.bTXFIN = tcb.bTXFIN
        /\ c.bFINSent = tcb.bFINSent /\ c.bSYNSent = tcb.bSYNSent /\ c.sent = tcb.sent
        /\ c.bSocketReset = FALSE
    BY <1>2 DEF Tcb
  <2> HIDE DEF c
  <2>3. CallOK(c)
    BY <1>1, <2>2 DEF Result, CallOK, Numbered, WellSent
  <2>4. StateOK(c)
    BY <1>1, <2>2 DEF Result, StateOK
  <2>5. PeerOK(peer, c)
    BY <1>1, <2>2 DEF PeerOK
  <2>6. Shown(tcb, c)
    BY <2>2 DEF Shown
  <2> QED
    BY <2>1, <2>3, <2>4, <2>5, <2>6 DEF Call, Result
<1>9. CASE HandleTCPSeg
  <2> DEFINE zero == 0
             c == [tcb EXCEPT !.keepAlives = zero]
  <2>1. PICK s \in Segments : Becomes(Handle(c, s))
    BY <1>9 DEF HandleTCPSeg
  <2>2. zero \in 0 .. MaxKeepAlives
    BY Sizes
  <2> HIDE DEF zero
  <2>3. /\ c \in Tcb /\ c.smState = tcb.smState /\ c.MySEQ = tcb.MySEQ /\ c.txTail = tcb.txTail
        /\ c.txUnackedTail = tcb.txUnackedTail /\ c.txHead = tcb.txHead /\ c.rx = tcb.rx
        /\ c.due = tcb.due /\ c.oneSegment = tcb.oneSegment /\ c.bTXFIN = tcb.bTXFIN
        /\ c.bFINSent = tcb.bFINSent /\ c.bSYNSent = tcb.bSYNSent /\ c.sent = tcb.sent
        /\ c.bSocketReset = tcb.bSocketReset
    BY <1>2, <2>2 DEF Tcb
  <2>4. silent' = silent /\ tcb.smState \in {"LISTEN", "SYN_SENT"} \cup Connected
    BY <1>9 DEF HandleTCPSeg
  <2> HIDE DEF c
  <2>5. CallOK(c)
    BY <1>1, <2>3 DEF Result, CallOK, Numbered, WellSent
  <2>6. StateOK(c)
    BY <1>1, <2>3 DEF Result, StateOK
  <2>7. PeerOK(peer, c)
    BY <1>1, <2>3 DEF PeerOK
  <2>8. Result(c)
    BY <2>5, <2>6, <2>7 DEF Result
  <2> DEFINE r == Handle(c, s)
  <2>9. Outcome(c, r)
    BY <1>1, <2>3, <2>4, <2>7, <2>8, HandleOutcome
  <2> HIDE DEF r
  <2>10. Shown(tcb, r)
    BY <2>3, <2>4, <2>9 DEF Shown, Outcome, Moved
  <2>11. Becomes(r)
    BY <2>1 DEF r
  <2> QED
    BY <2>4, <2>9, <2>10, <2>11 DEF Call, Outcome
<1>10. CASE SendDue
  <2> DEFINE r == SendTCP(tcb, {"ACK"}, Mode(tcb))
  <2>1. Mode(tcb) # "keepalive" /\ tcb.bSYNSent /\ Becomes(r) /\ silent' = silent
    BY <1>3, <1>10 DEF SendDue, Mode
  <2>2. Result(r) /\ Same(r, tcb)
    BY <1>1, <2>1, SendResult
  <2> HIDE DEF r
  <2> QED
    BY <2>1, <2>2 DEF Call, Shown, Same
<1>11. CASE CloseWaitExpires
  <2> DEFINE b == SendTCP(tcb, {"FIN", "ACK"}, Mode(tcb))
             r == [b EXCEPT !.smState = "LAST_ACK"]
  <2>1. Mode(tcb) # "keepalive" /\ Becomes(r) /\ silent' = silent /\ tcb.smState = "CLOSE_WAIT"
    BY <1>11 DEF CloseWaitExpires, Mode
  <2>2. tcb.smState \in Synced /\ "LAST_ACK" \in Closing
    BY <2>1 DEF Synced, Connected, Closing
  <2>3. CallOK(b) /\ Same(b, tcb) /\ b.bSYNSent
    BY <1>1, <1>3, <2>1, <2>2, SendCall DEF Result
  <2> HIDE DEF b
  <2>4. Result(r) /\ r.smState = "LAST_ACK" /\ r.bSocketReset = tcb.bSocketReset
    BY <1>1, <2>2, <2>3, ClosingResult
  <2> HIDE DEF r
  <2> QED
    BY <2>1, <2>2, <2>4 DEF Call, Shown
<1>12. CASE KeepAliveDue
  <2>1. tcb.smState = "ESTABLISHED" /\ silent' = silent /\ tcb.bSYNSent
    BY <1>3, <1>12 DEF KeepAliveDue, Synced, Connected
  <2>2. CASE tcb.keepAlives = MaxKeepAlives
    <3> DEFINE r == [CloseSocket EXCEPT !.smState = IF bServer THEN "LISTEN" ELSE "CLOSED_BUT_RESERVED"]
               d == Disconnected(tcb)
    <3>1. Result(d) /\ d.smState = "FIN_WAIT_1"
      BY <1>1, <2>1, DisconnectedResult
    <3>2. PeerOK(peer, d)
      BY <3>1 DEF Result, Gone
    <3>3. Becomes([Disconnected(d) EXCEPT
                     !.smState = IF bServer THEN "LISTEN" ELSE "CLOSED_BUT_RESERVED"])
      BY <1>12, <2>2 DEF KeepAliveDue
    <3> HIDE DEF d
    <3>4. Disconnected(d) = CloseSocket
      BY <1>1, <3>1, <3>2, DisconnectedResult
    <3>5. Becomes(r)
      BY <3>3, <3>4
    <3>6. Result(r)
      BY <1>1, ClosedResult
    <3>7. r.smState \in {"LISTEN", "CLOSED_BUT_RESERVED"} /\ r.bSocketReset = TRUE
      BY DEF CloseSocket, Fresh
    <3> HIDE DEF r
    <3> QED
      BY <2>1, <3>5, <3>6, <3>7 DEF Call, Shown
  <2>3. CASE tcb.keepAlives # MaxKeepAlives
    <3> DEFINE r == SendTCP(tcb, {"ACK"}, "keepalive")
    <3>1. tcb.keepAlives < MaxKeepAlives
      <4> DEFINE k == tcb.keepAlives
      <4>1. k \in 0 .. MaxKeepAlives /\ k # MaxKeepAlives
        BY <1>2, <2>3 DEF Tcb
      <4> HIDE DEF k
      <4>2. k < MaxKeepAlives
        BY <4>1, Sizes
      <4> QED
        BY <4>2 DEF k
    <3>2. Becomes(r)
      BY <1>12, <2>3 DEF KeepAliveDue
    <3>3. Result(r) /\ Same(r, tcb)
      BY <1>1, <2>1, <3>1, SendResult
    <3> HIDE DEF r
    <3> QED
      BY <2>1, <3>2, <3>3 DEF Call, Shown, Same
  <2> QED
    BY <2>2, <2>3
<1>13. ASSUME NEW from \in Opening, from # "SYN_SENT", tcb.smState = from,
              NEW to \in {"GATEWAY_SEND_ARP", "GATEWAY_GET_ARP"},
              Becomes([tcb EXCEPT !.smState = to]), silent' = silent
       PROVE  Call
  <2> DEFINE c == [tcb EXCEPT !.smState = to]
  <2>1. to \in State \ (Synced \cup {"LISTEN"}) /\ to \in Opening /\ from \notin Synced
    BY <1>13 DEF State, Synced, Connected, Closing, Opening
  <2>2. AlikeBefore(c, tcb) /\ c.smState = to
    BY <1>2, <2>1 DEF AlikeBefore, Tcb
  <2>3. Becomes(c)
    BY <1>13
  <2> HIDE DEF c
  <2>4. Result(c)
    BY <1>1, <1>3, <1>13, <2>1, <2>2, BeforeResult
  <2>5. Shown(tcb, c)
    BY <1>13, <2>1, <2>2 DEF Shown, AlikeBefore
  <2> QED
    BY <1>13, <2>3, <2>4, <2>5 DEF Call
<1>14. CASE SendArp
  BY <1>13, <1>14 DEF SendArp, Expired, Opening
<1>15. CASE ArpTimesOut
  BY <1>13, <1>15 DEF ArpTimesOut, Expired, Opening
<1>16. CASE ArpResolved
  <2> DEFINE c == [tcb EXCEPT !.smState = "SYN_SENT"]
             r == SendTCP(c, {"SYN"}, "reset")
  <2>1. tcb.smState = "GATEWAY_GET_ARP" /\ Becomes(r) /\ silent' = silent
    BY <1>16 DEF ArpResolved, Expired
  <2>2. "SYN_SENT" \in State /\ "SYN_SENT" \in Opening /\ "GATEWAY_GET_ARP" \in Opening
        /\ "GATEWAY_GET_ARP" \notin Synced /\ "SYN_SENT" \notin Closing
    BY DEF State, Opening, Synced, Connected, Closing
  <2>3. AlikeBefore(c, tcb) /\ c.smState = "SYN_SENT"
    BY <1>2, <2>2 DEF AlikeBefore, Tcb
  <2> HIDE DEF c
  <2>4. CallOK(c) /\ ~c.bTXFIN /\ ~c.bFINSent /\ c.txHead = 0 /\ PeerOK(peer, c)
    BY <1>1, <1>3, <2>1, <2>2, <2>3, BeforeResult
  <2>5. CallOK(r) /\ Same(r, c) /\ r.bSYNSent /\ ~r.bTXFIN /\ ~r.bFINSent
    BY <2>4, SendCall
  <2> HIDE DEF r
  <2>6. Result(r)
    BY <2>3, <2>4, <2>5, SynResult DEF Same, PeerOK
  <2>7. Shown(tcb, r)
    BY <2>1, <2>2, <2>3, <2>5 DEF Shown, Same, AlikeBefore
  <2> QED
    BY <2>1, <2>6, <2>7 DEF Call
<1>17. ASSUME NEW c, Result(c), c.bSYNSent, c.smState = tcb.smState,
              c.bSocketReset = tcb.bSocketReset, c.retryCount < MaxRetries + MaxSynRetries,
              NEW flags, "FIN" \notin flags \/ c.smState \in Closing,
              Becomes(Retransmit(c, flags)), silent' = silent
       PROVE  Call
  <2> DEFINE r == Retransmit(c, flags)
  <2>1. Result(r) /\ r.smState = c.smState /\ r.bSocketReset = c.bSocketReset /\ Becomes(r)
    BY <1>17, RetransmitResult
  <2> HIDE DEF r
  <2> QED
    BY <1>17, <2>1 DEF Call, Shown
<1>18. ASSUME Becomes(CloseSocket), silent' = silent, tcb.smState # "CLOSED_BUT_RESERVED" PROVE Call
  BY <1>1, <1>18, ClosedResult DEF Call, Shown
<1> DEFINE tries == tcb.retryCount
<1>19. tries \in Nat /\ MaxRetries \in Nat /\ MaxSynRetries \in Nat /\ MaxRetries > 0
       /\ tries \in 0 .. MaxRetries + MaxSynRetries
  BY <1>2, Sizes DEF Tcb
<1>20. CASE ResendSyn
  <2> DEFINE few == Smaller(tries, MaxRetries - 1)
             c == [tcb EXCEPT !.retryCount = few]
  <2>1. tcb.smState = "SYN_SENT" /\ silent' = silent /\ tcb.bSYNSent /\ Becomes(Retransmit(c, {"SYN"}))
    BY <1>2, <1>3, <1>20 DEF ResendSyn, Expired, Synced, Tcb
  <2>2. few \in 0 .. MaxRetries + MaxSynRetries /\ few < MaxRetries + MaxSynRetries
    <3> HIDE DEF tries
    <3> QED
      BY <1>19 DEF Smaller
  <2> HIDE DEF few
  <2>3. Alike(c, tcb) /\ c.bSocketReset = tcb.bSocketReset /\ c.retryCount = few
    BY <1>2, <2>2 DEF Alike, Tcb
  <2> HIDE DEF c
  <2>4. Result(c) /\ c.bSYNSent /\ c.smState = tcb.smState
    BY <1>1, <2>1, <2>3, AlikeResult DEF Alike
  <2>5. c.retryCount < MaxRetries + MaxSynRetries
    BY <2>2, <2>3
  <2> QED
    BY <1>17, <2>1, <2>3, <2>4, <2>5
<1>21. CASE ResendSynAck
  <2>1. tcb.smState = "SYN_RECEIVED" /\ silent' = silent /\ tcb.bSYNSent
    BY <1>3, <1>21 DEF ResendSynAck, Expired, Synced, Connected
  <2>2. CASE tries < MaxSynRetries
    <3>1. Becomes(Retransmit(tcb, {"SYN", "ACK"}))
      BY <1>21, <2>2 DEF ResendSynAck
    <3>2. tries < MaxRetries + MaxSynRetries
      <4> HIDE DEF tries
      <4> QED
        BY <1>19, <2>2
    <3> QED
      BY <1>1, <1>17, <2>1, <3>1, <3>2
  <2>3. CASE ~(tries < MaxSynRetries) /\ bServer
    BY <1>18, <1>21, <2>1, <2>3 DEF ResendSynAck
  <2>4. CASE ~(tries < MaxSynRetries) /\ ~bServer
    <3> DEFINE r == SendTCP(tcb, {"SYN"}, "reset")
    <3>1. Becomes(r)
      BY <1>21, <2>4 DEF ResendSynAck
    <3>2. Result(r) /\ Same(r, tcb)
      BY <1>1, <2>1, SendResult
    <3> HIDE DEF r
    <3> QED
      BY <2>1, <3>1, <3>2 DEF Call, Shown, Same
  <2> QED
    BY <2>2, <2>3, <2>4
<1>22. CASE ResendData
  <2>1. tcb.smState \in {"ESTABLISHED", "CLOSE_WAIT"} /\ silent' = silent /\ tcb.bSYNSent
    BY <1>3, <1>22 DEF ResendData, Expired, Synced, Connected
  <2>2. CASE tries < MaxRetries
    <3>1. Becomes(Retransmit(tcb, {"ACK"}))
      BY <1>22, <2>2 DEF ResendData
    <3>2. tries < MaxRetries + MaxSynRetries
      <4> HIDE DEF tries
      <4> QED
        BY <1>19, <2>2
    <3> QED
      BY <1>1, <1>17, <2>1, <3>1, <3>2
  <2>3. CASE ~(tries < MaxRetries)
    <3> DEFINE c == [tcb EXCEPT !.smState = "FIN_WAIT_1"]
               r == SendTCP(c, {"FIN", "ACK"}, "reset")
    <3>1. "FIN_WAIT_1" \in Synced /\ "FIN_WAIT_1" \in Carrying /\ "FIN_WAIT_1" \in Closing
      BY DEF Synced, Carrying, Connected, Closing
    <3>2. Result(c) /\ c.bSYNSent /\ c.smState = "FIN_WAIT_1" /\ c.bSocketReset = tcb.bSocketReset
      BY <1>1, <2>1, <3>1, StateMoves
    <3>3. Becomes(r)
      BY <1>22, <2>3 DEF ResendData
    <3> HIDE DEF c
    <3>4. Result(r) /\ Same(r, c)
      BY <3>1, <3>2, SendResult
    <3> HIDE DEF r
    <3> QED
      BY <2>1, <3>1, <3>2, <3>3, <3>4 DEF Call, Shown, Same
  <2> QED
    BY <2>2, <2>3
<1>23. CASE ResendFin
  <2>1. tcb.smState \in Closing /\ silent' = silent /\ tcb.bSYNSent
    BY <1>3, <1>23 DEF ResendFin, Expired, Synced, Connected, Closing
  <2>2. CASE tries >= MaxRetries
    <3>1. Becomes(CloseSocket)
      BY <1>23, <2>2 DEF ResendFin
    <3>2. tcb.smState # "CLOSED_BUT_RESERVED"
      BY <2>1 DEF Closing
    <3> QED
      BY <1>18, <2>1, <3>1, <3>2
  <2>3. CASE ~(tries >= MaxRetries)
    <3>1. Becomes(Retransmit(tcb, IF tcb.smState = "CLOSING" THEN {"ACK"} ELSE {"FIN", "ACK"}))
      BY <1>23, <2>3 DEF ResendFin
    <3>2. tries < MaxRetries + MaxSynRetries
      <4> HIDE DEF tries
      <4> QED
        BY <1>19, <2>3
    <3> QED
      BY <1>1, <1>17, <2>1, <3>1, <3>2
  <2> QED
    BY <2>2, <2>3
<1>24. CASE FinWait2Expires
  <2>1. tcb.smState = "FIN_WAIT_2" /\ Becomes(CloseSocket) /\ silent' = silent
    BY <1>24 DEF FinWait2Expires, Expired
  <2> QED
    BY <1>18, <2>1
<1>25. CASE GoesSilent
  BY <1>25
<1> QED
  BY <1>4, <1>5, <1>6, <1>7, <1>8, <1>9, <1>10, <1>11, <1>12, <1>14, <1>15, <1>16, <1>20, <1>21,
     <1>22, <1>23, <1>24, <1>25 DEF Next, TCPTick, Resend

-----------------------------------------------------------------------------
(* The theorems                                                            *)

\* A socket starts closed, with nothing sent and nothing there.
LEMMA InitInv ==
  ASSUME Init
  PROVE  IInv
<1> DEFINE st == IF bServer THEN "LISTEN" ELSE "CLOSED"
<1>1. tcb = CloseSocket /\ bServer \in BOOLEAN /\ peer = Nothing /\ silent = FALSE
  BY DEF Init, CloseSocket
<1>2. Result(tcb) /\ tcb.smState = st /\ tcb.bSYNSent = FALSE /\ tcb.sent = << >>
  BY <1>1, ClosedResult DEF CloseSocket, Fresh
<1>3. tcb \in Tcb /\ Numbered(tcb) /\ StateOK(tcb)
  BY <1>2 DEF Result, CallOK
<1>4. tcb.txHead = 0 /\ tcb.txTail = 0
  <2>1. st \notin Carrying
    BY DEF Carrying, Closing
  <2> QED
    BY <1>2, <1>3, <2>1, Sizes DEF StateOK, Numbered, Tcb
<1>5. 0 \in 0 .. MaxPut
  BY Sizes
<1>6. peer \in [syn : BOOLEAN, got : 0 .. MaxPut, fin : BOOLEAN] /\ peer.got = 0 /\ peer.fin = FALSE
  BY <1>1, <1>5 DEF Nothing
<1>7. TypeOK
  BY <1>1, <1>2, <1>3, <1>6 DEF TypeOK, Tcb
<1>8. SequenceMatchesFifo /\ NothingLost /\ FinComesLast
  BY <1>2, <1>3, <1>4, <1>6 DEF SequenceMatchesFifo, NothingLost, FinComesLast, Numbered
<1> QED
  BY <1>2, <1>3, <1>7, <1>8 DEF IInv, TcpInv, Numbered

\* Every step keeps the invariant.
LEMMA NextInv ==
  ASSUME IInv, [Next]_vars
  PROVE  IInv'
<1>1. bServer \in BOOLEAN /\ silent \in BOOLEAN
  BY InvResult
<1>2. ASSUME Call PROVE IInv'
  BY <1>1, <1>2, BecomesKeeps DEF Call
<1>3. ASSUME UNCHANGED <<tcb, bServer, peer>>, silent' \in BOOLEAN PROVE IInv'
  BY <1>3 DEF IInv, TcpInv, TypeOK, SequenceMatchesFifo, NothingLost, FinComesLast, StateOK
<1>4. CASE Next
  BY <1>2, <1>3, <1>4, NextCalls DEF GoesSilent
<1>5. CASE UNCHANGED vars
  BY <1>1, <1>3, <1>5 DEF vars
<1> QED
  BY <1>4, <1>5

\* The invariant holds throughout.
LEMMA InvariantHolds == Spec => []IInv
<1>1. Init => IInv
  BY InitInv
<1>2. IInv /\ [Next]_vars => IInv'
  BY NextInv
<1> QED
  BY <1>1, <1>2, PTL DEF Spec

(***************************************************************************)
(* FIFO, sequence number and remote node agree about every byte and about  *)
(* the end of our stream, whatever is lost, late or repeated, and whatever *)
(* the application calls in between.                                       *)
(***************************************************************************)
THEOREM StreamIsWhole == Spec => []TcpInv
<1>1. IInv => TcpInv
  BY DEF IInv
<1> QED
  BY <1>1, InvariantHolds, PTL

\* What TcpSocket shows of a call is one of its steps.
LEMMA ShownIsStep ==
  ASSUME IInv, NEW c, Result(c), Shown(tcb, c), Becomes(c), Plain
  PROVE  \/ Socket!TCPOpen \/ Socket!TCPDisconnect \/ Socket!StackStep
         \/ SocketFlagRead \/ UNCHANGED <<AsSocket, tcb.bSocketReset>>
<1> DEFINE old == tcb.smState
           new == tcb'.smState
           reset == tcb.bSocketReset
           resetAfter == tcb'.bSocketReset
<1>1. new = c.smState /\ resetAfter = c.bSocketReset
  BY DEF Becomes, Result, CallOK, Tcb
<1>2. /\ old \in State \ {"LISTEN", "SYN_RECEIVED"} /\ new \in State \ {"LISTEN", "SYN_RECEIVED"}
  <2>1. old \in State /\ (old = "LISTEN" => bServer)
    BY DEF IInv, TcpInv, TypeOK, StateOK
  <2>2. c.smState \in State /\ (c.smState = "LISTEN" => bServer)
    BY DEF Result, CallOK, StateOK, Tcb
  <2> QED
    BY <1>1, <2>1, <2>2 DEF Plain
<1>3. \/ old \in {"SYN_SENT"} \cup Connected /\ new = "CLOSED" /\ resetAfter = TRUE
      \/ new = "CLOSED" /\ resetAfter = TRUE /\ old # "CLOSED_BUT_RESERVED"
      \/ /\ resetAfter = reset
         /\ \/ new = old
            \/ old = "SYN_SENT" /\ new = "ESTABLISHED"
            \/ old = "ESTABLISHED" /\ new = "CLOSE_WAIT"
            \/ old \in Closing /\ new \in Closing
            \/ old \in {"CLOSED"} \cup Opening /\ new \in Opening
            \/ old \in {"ESTABLISHED", "CLOSE_WAIT"} /\ new \in Closing
            \/ old = "CLOSED_BUT_RESERVED" /\ new = "CLOSED"
      \/ new = old /\ resetAfter = FALSE
      \/ old = "ESTABLISHED" /\ new = "CLOSED_BUT_RESERVED" /\ resetAfter = TRUE
  BY <1>1, <1>2 DEF Shown, Moved
<1>4. /\ old \in Opening => AsSocket = "opening"
      /\ old = "ESTABLISHED" => AsSocket = "established"
      /\ old = "CLOSE_WAIT" => AsSocket = "closeWait"
      /\ old \in Closing => AsSocket = "finishing"
      /\ old = "CLOSED_BUT_RESERVED" => AsSocket = "reserved"
      /\ old = "CLOSED" => AsSocket = "closed"
  BY DEF AsSocket, Opening, Closing
<1>5. /\ new \in Opening => AsSocket' = "opening"
      /\ new = "ESTABLISHED" => AsSocket' = "established"
      /\ new = "CLOSE_WAIT" => AsSocket' = "closeWait"
      /\ new \in Closing => AsSocket' = "finishing"
      /\ new = "CLOSED_BUT_RESERVED" => AsSocket' = "reserved"
      /\ new = "CLOSED" => AsSocket' = "closed"
  BY DEF AsSocket, Opening, Closing
<1>6. old = new => AsSocket' = AsSocket
  BY DEF AsSocket
<1> DEFINE S == \/ Socket!TCPOpen \/ Socket!TCPDisconnect \/ Socket!StackStep
                \/ SocketFlagRead \/ UNCHANGED <<AsSocket, tcb.bSocketReset>>
<1>7. CASE new = "CLOSED" /\ resetAfter = TRUE /\ old # "CLOSED_BUT_RESERVED"
  <2>1. AsSocket' = "closed" /\ Socket!CloseSocket
    BY <1>5, <1>7 DEF Socket!CloseSocket
  <2>2. AsSocket \in {"opening", "established", "closeWait", "finishing", "closed"}
    BY <1>2, <1>4, <1>7 DEF State, Connected, Opening, Closing
  <2>3. CASE AsSocket \in {"opening", "finishing", "closed"}
    BY <2>1, <2>3 DEF Socket!TCPDisconnect
  <2>4. CASE AsSocket \in {"established", "closeWait"}
    BY <2>1, <2>4 DEF Socket!StackStep, Socket!RemoteReset
  <2> QED
    BY <2>2, <2>3, <2>4
<1>8. CASE resetAfter = reset /\ AsSocket' = AsSocket
  BY <1>8
<1>9. CASE new = old /\ resetAfter = FALSE
  BY <1>6, <1>9 DEF SocketFlagRead
<1>10. CASE resetAfter = reset /\ old = "SYN_SENT" /\ new = "ESTABLISHED"
  BY <1>4, <1>5, <1>10 DEF Socket!StackStep, Socket!HandshakeDone, Opening
<1>11. CASE resetAfter = reset /\ old = "ESTABLISHED" /\ new = "CLOSE_WAIT"
  <2>1. \E n \in 0 .. Len(<< >>) : << >> = SubSeq(<< >>, 1, n)
    <3>1. Len(<< >>) = 0 /\ SubSeq(<< >>, 1, 0) = << >>
      OBVIOUS
    <3> QED
      BY <3>1
  <2> QED
    BY <1>4, <1>5, <1>11, <2>1 DEF Socket!StackStep, Socket!RemoteFin
<1>12. CASE resetAfter = reset /\ old = "CLOSED" /\ new \in Opening
  BY <1>4, <1>5, <1>12 DEF Socket!TCPOpen
<1>13. CASE resetAfter = reset /\ old \in {"ESTABLISHED", "CLOSE_WAIT"} /\ new \in Closing
  BY <1>4, <1>5, <1>13 DEF Socket!StackStep, Socket!GiveUpLink
<1>14. CASE resetAfter = reset /\ old = "CLOSED_BUT_RESERVED" /\ new = "CLOSED"
  BY <1>4, <1>5, <1>14 DEF Socket!TCPDisconnect
<1>15. CASE old = "ESTABLISHED" /\ new = "CLOSED_BUT_RESERVED" /\ resetAfter = TRUE
  BY <1>4, <1>5, <1>15 DEF Socket!StackStep, Socket!KeepAliveFails
<1>16. ASSUME resetAfter = reset, new = old \/ (old \in Closing /\ new \in Closing)
                                  \/ (old \in Opening /\ new \in Opening)
       PROVE  AsSocket' = AsSocket
  BY <1>4, <1>5, <1>6, <1>16
<1>17. CASE old \in {"SYN_SENT"} \cup Connected /\ new = "CLOSED" /\ resetAfter = TRUE
  BY <1>7, <1>17 DEF Connected, Closing
<1> QED
  BY <1>3, <1>7, <1>8, <1>9, <1>10, <1>11, <1>12, <1>13, <1>14, <1>15, <1>16, <1>17

(***************************************************************************)
(* A client's socket passes through its states as TcpSocket says, which    *)
(* the MQTT client builds on, and the reset flag is set by whatever closes *)
(* the socket and cleared by TCPWasReset alone.                            *)
(***************************************************************************)
THEOREM SocketIsImplemented == Spec => ImplementsSocket
<1> DEFINE Step == Plain => \/ Socket!TCPOpen \/ Socket!TCPDisconnect \/ Socket!StackStep
                            \/ SocketFlagRead \/ UNCHANGED <<AsSocket, tcb.bSocketReset>>
<1>1. IInv /\ [Next]_vars => [Step]_vars
  <2>1. SUFFICES ASSUME IInv, Next PROVE Step
    OBVIOUS
  <2>2. ASSUME Call PROVE Step
    BY <2>1, <2>2, ShownIsStep DEF Call
  <2>3. ASSUME GoesSilent PROVE Step
    BY <2>3 DEF GoesSilent, AsSocket
  <2> QED
    BY <2>1, <2>2, <2>3, NextCalls
<1> QED
  BY <1>1, InvariantHolds, PTL DEF Spec, ImplementsSocket

=============================================================================
