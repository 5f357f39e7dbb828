------------------------- MODULE NameServiceProofs -------------------------
(***************************************************************************)
(* The sockets and the resolver are accounted for, for a pool of any size, *)
(* any patience, one name server or two, and a broker with a name or not.  *)
(***************************************************************************)
EXTENDS NameService, FiniteSetTheorems, TLAPS

\* A set of sockets has a first one: of the sets of sockets up to one of
\* them, take a smallest.
LEMMA FirstOf ==
  ASSUME NEW T \in SUBSET Socket, T # {}
  PROVE  \E x \in T : \A y \in T : x <= y
<1> DEFINE UpTo(x) == {y \in T : y <= x}
           F == {UpTo(x) : x \in T}
           R == StrictSubsetOrdering(Socket)
<1>1. IsFiniteSet(Socket) /\ T \subseteq Nat
  BY SocketsAssumption, FS_Interval DEF Socket
<1>2. IsWellFoundedOn(R, SUBSET Socket)
  BY <1>1, FS_StrictSubsetOrderingWellFounded, FS_FiniteSubsetsOfFinite
<1>3. F \subseteq SUBSET Socket /\ F # {}
  OBVIOUS
<1>4. PICK U \in F : \A V \in F : <<V, U>> \notin R
  <2> HIDE DEF F, R
  <2> QED
    BY <1>2, <1>3, WFMin
<1>5. PICK x \in T : U = UpTo(x)
  OBVIOUS
<1>6. ASSUME NEW y \in T, ~(x <= y) PROVE FALSE
  <2>1. y < x /\ x \in Nat /\ y \in Nat
    BY <1>1, <1>6
  <2>2. UpTo(y) \subseteq UpTo(x)
    <3>1. \A z \in T : z \in Nat /\ (z <= y => z <= x)
      BY <1>1, <2>1
    <3> QED
      BY <3>1
  <2>3. x \in UpTo(x) /\ x \notin UpTo(y)
    BY <2>1
  <2>4. <<UpTo(y), UpTo(x)>> \in R
    BY <1>3, <2>2, <2>3 DEF StrictSubsetOrdering
  <2> QED
    BY <1>4, <1>5, <2>4
<1> QED
  BY <1>6

-----------------------------------------------------------------------------
(* The pool *)

\* INVALID_UDP_SOCKET is no socket.
LEMMA NoSocket == Invalid \notin Socket
BY SocketsAssumption DEF Socket, Invalid

\* UDPOpenEx finds a closed socket, or there is none.
LEMMA Opening ==
  ASSUME NEW pool \in Pool, NEW state \in SocketState, NEW remote \in Remote,
         NEW o, o = UDPOpenEx(pool, state, remote)
  PROVE  /\ o.pool \in Pool /\ o.handle \in Socket \cup {Invalid}
         /\ o.handle = Invalid =>
              o.pool = pool /\ \A s \in Socket : pool[s].state # "closed"
         /\ o.handle # Invalid =>
              /\ pool[o.handle].state = "closed"
              /\ o.pool = [pool EXCEPT ![o.handle] = [state |-> state, remote |-> remote]]
<1>1. CASE FreeSockets(pool) = {}
  BY <1>1 DEF UDPOpenEx, FirstFree, FreeSockets
<1>2. CASE FreeSockets(pool) # {}
  <2>1. FreeSockets(pool) \in SUBSET Socket
    BY DEF FreeSockets
  <2>2. FirstFree(pool) \in FreeSockets(pool)
    BY <1>2, <2>1, FirstOf DEF FirstFree
  <2>3. FirstFree(pool) \in Socket /\ pool[FirstFree(pool)].state = "closed"
    BY <2>2 DEF FreeSockets
  <2>4. FirstFree(pool) # Invalid
    BY <2>3, NoSocket
  <2>5. [state |-> state, remote |-> remote] \in [state : SocketState, remote : Remote]
    OBVIOUS
  <2> QED
    BY <2>3, <2>4, <2>5 DEF UDPOpenEx, Pool
<1> QED
  BY <1>1, <1>2

\* UDPClose closes its socket and no other.
LEMMA Closing ==
  ASSUME NEW pool \in Pool, NEW s \in Socket \cup {Invalid}
  PROVE  /\ UDPClose(pool, s) \in Pool
         /\ \A t \in Socket : UDPClose(pool, s)[t] = IF t = s THEN ClosedSocket ELSE pool[t]
<1>2. ClosedSocket \in [state : SocketState, remote : Remote]
  BY DEF ClosedSocket, SocketState, Remote
<1> QED
  BY <1>2, NoSocket DEF UDPClose, Pool

(***************************************************************************)
(* Who has which socket, for the sockets of the resolver, SNTP and DHCP:   *)
(* the resolver and DHCP only hold open ones, so that a socket that waits  *)
(* for a name or for ARP is SNTP's.                                        *)
(***************************************************************************)
Accounts(pool, d, n, h) ==
  /\ \A s \in Socket : pool[s].state # "closed" => s \in {d, n, h}
  /\ d # Invalid => pool[d].state = "opened" /\ d # n /\ d # h
  /\ h # Invalid => pool[h].state = "opened" /\ h # n
  /\ n # Invalid => pool[n].state # "closed"

\* The resolver holds a socket only while it asks, or has just failed, and
\* a result only when it is done.
Resolver(d) ==
  /\ d.sm \notin {"QUERY", "GET_RESULT", "FAIL"} => d.socket = Invalid
  /\ d.sm = "ARP_START_RESOLVE" => d.arpTries < 3
  /\ d.sm # "DONE" => ~d.valid
  /\ ~d.inUse => d.sm = "DONE"

\* What a call of the resolver does to sockets and to itself.
ResolverKeeps(d, pool, o, n, h) ==
  /\ o.dns \in DnsState /\ o.pool \in Pool /\ Resolver(o.dns)
  /\ o.dns.inUse = d.inUse
  /\ Accounts(o.pool, o.dns.socket, n, h)
  /\ n # Invalid => o.pool[n] = pool[n]
  /\ \A s \in Socket : o.pool[s].state \notin {"closed", "opened"} => o.pool[s] = pool[s]
  /\ o.host \in {"pending", "address", "zero"}
  /\ o.host # "pending" /\ o.dns.valid => o.host = "address"

\* A socket for the resolver.
LEMMA GivesOut ==
  ASSUME NEW pool, NEW given, NEW w \in Socket,
         NEW n \in Socket \cup {Invalid}, NEW h \in Socket \cup {Invalid},
         w \notin {n, h}, Accounts(pool, Invalid, n, h),
         given[w].state = "opened", \A s \in Socket \ {w} : given[s] = pool[s]
  PROVE  Accounts(given, w, n, h)
<1>3. \A s \in Socket : given[s].state # "closed" => s \in {w, n, h}
  BY NoSocket DEF Accounts
<1>4. h # Invalid => given[h].state = "opened" /\ h # n
  BY DEF Accounts
<1>5. n # Invalid => given[n].state # "closed"
  BY DEF Accounts
<1> QED
  BY <1>3, <1>4, <1>5 DEF Accounts

\* Opening a socket and sending the query.
LEMMA OpenAndQueryKeeps ==
  ASSUME NEW pool \in Pool, NEW d \in DnsState, Resolver(d), d.inUse,
         NEW n \in Socket \cup {Invalid}, NEW h \in Socket \cup {Invalid},
         Accounts(pool, d.socket, n, h), d.socket = Invalid, ~d.valid,
         NEW o \in OpenAndQuery(d, pool)
  PROVE  ResolverKeeps(d, pool, o, n, h)
<1> DEFINE u == UDPOpenEx(pool, "opened", "address")
<1>1. /\ u.pool \in Pool /\ u.handle \in Socket \cup {Invalid}
      /\ u.handle = Invalid => u.pool = pool
      /\ u.handle # Invalid =>
           /\ pool[u.handle].state = "closed"
           /\ u.pool = [pool EXCEPT ![u.handle] = [state |-> "opened", remote |-> "address"]]
  <2>1. "opened" \in SocketState /\ "address" \in Remote
    BY DEF SocketState, Remote
  <2> QED
    BY <2>1, Opening
<1>2. CASE u.handle = Invalid
  <2>1. o = Pending([d EXCEPT !.sm = "OPEN_SOCKET"], pool)
    BY <1>2 DEF OpenAndQuery
  <2>2. o.dns = [d EXCEPT !.sm = "OPEN_SOCKET"] /\ o.pool = pool /\ o.host = "pending"
    BY <2>1 DEF Pending, Outcome
  <2>3. o.dns \in DnsState
    BY <2>2 DEF DnsState, SmDns
  <2> QED
    BY <2>2, <2>3 DEF ResolverKeeps, Resolver, Accounts, DnsState
<1>3. CASE u.handle # Invalid
  <2>1. o \in SendQuery([d EXCEPT !.socket = u.handle], u.pool)
    BY <1>3 DEF OpenAndQuery
  <2>2. PICK e \in {[d EXCEPT !.socket = u.handle, !.sm = "QUERY"],
                    [d EXCEPT !.socket = u.handle, !.sm = "GET_RESULT", !.age = 0]} :
          o.dns = e /\ o.pool = u.pool /\ o.host = "pending"
    BY <2>1 DEF SendQuery, Pending, Outcome, DnsState
  <2>3. e \in DnsState /\ Resolver(e) /\ e.inUse /\ e.socket = u.handle
    <3>1. /\ e.inUse /\ e.socket = u.handle /\ ~e.valid /\ e.sm \in {"QUERY", "GET_RESULT"}
          /\ e \in DnsState
      <4> HIDE DEF u
      <4>1. CASE e = [d EXCEPT !.socket = u.handle, !.sm = "QUERY"]
        BY <1>1, <4>1 DEF DnsState, SmDns
      <4>2. CASE e = [d EXCEPT !.socket = u.handle, !.sm = "GET_RESULT", !.age = 0]
        BY <1>1, <4>2 DEF DnsState, SmDns
      <4> QED
        BY <2>2, <4>1, <4>2
    <3> QED
      BY <3>1 DEF Resolver
  <2>4. u.handle \in Socket /\ u.handle \notin {n, h}
    BY <1>1, <1>3 DEF Accounts
  <2>5. \A s \in Socket : u.pool[s] = IF s = u.handle THEN [state |-> "opened", remote |-> "address"]
                                      ELSE pool[s]
    BY <1>1, <1>3, <2>4 DEF Pool
  <2>6. Accounts(u.pool, u.handle, n, h)
    <3>1. Accounts(pool, Invalid, n, h) /\ u.handle # Invalid
      BY <1>3
    <3>2. u.pool[u.handle].state = "opened" /\ \A s \in Socket \ {u.handle} : u.pool[s] = pool[s]
      BY <2>4, <2>5
    <3> HIDE DEF u
    <3> QED
      BY <2>4, <3>1, <3>2, GivesOut
  <2>7. n # Invalid => u.pool[n] = pool[n]
    BY <2>4, <2>5
  <2> HIDE DEF u
  <2> QED
    BY <1>1, <2>2, <2>3, <2>5, <2>6, <2>7 DEF ResolverKeeps
<1> QED
  BY <1>2, <1>3

\* A socket handed back, by whom it was held.
LEMMA TakesBack ==
  ASSUME NEW pool \in Pool, NEW d \in Socket \cup {Invalid},
         NEW n \in Socket \cup {Invalid}, NEW h \in Socket \cup {Invalid},
         Accounts(pool, d, n, h)
  PROVE  /\ Accounts(UDPClose(pool, d), Invalid, n, h)
         /\ Accounts(UDPClose(pool, n), d, Invalid, h)
         /\ Accounts(UDPClose(pool, h), d, n, Invalid)
<1>1. \A x \in Socket \cup {Invalid} : \A s \in Socket :
        UDPClose(pool, x)[s].state = IF s = x THEN "closed" ELSE pool[s].state
  <2> TAKE x \in Socket \cup {Invalid}
  <2>1. \A s \in Socket : UDPClose(pool, x)[s] = IF s = x THEN ClosedSocket ELSE pool[s]
    BY Closing
  <2> QED
    BY <2>1 DEF ClosedSocket
<1> QED
  BY <1>1, NoSocket DEF Accounts

\* The resolver's own socket, closed.
LEMMA ResolverCloses ==
  ASSUME NEW pool \in Pool, NEW d \in DnsState,
         NEW n \in Socket \cup {Invalid}, NEW h \in Socket \cup {Invalid},
         Accounts(pool, d.socket, n, h)
  PROVE  /\ UDPClose(pool, d.socket) \in Pool
         /\ Accounts(UDPClose(pool, d.socket), Invalid, n, h)
         /\ n # Invalid => UDPClose(pool, d.socket)[n] = pool[n]
         /\ \A s \in Socket : UDPClose(pool, d.socket)[s].state \notin {"closed", "opened"} =>
                              UDPClose(pool, d.socket)[s] = pool[s]
<1>1. d.socket \in Socket \cup {Invalid}
  BY DEF DnsState
<1>2. \A t \in Socket :
        UDPClose(pool, d.socket)[t] = IF t = d.socket THEN ClosedSocket ELSE pool[t]
  BY <1>1, Closing
<1>3. n # Invalid => UDPClose(pool, d.socket)[n] = pool[n]
  BY <1>2 DEF Accounts
<1>4. \A s \in Socket : UDPClose(pool, d.socket)[s].state \notin {"closed", "opened"} =>
                        UDPClose(pool, d.socket)[s] = pool[s]
  BY <1>2 DEF ClosedSocket
<1> QED
  BY <1>1, <1>3, <1>4, Closing, TakesBack

\* A call that leaves the pool alone.
LEMMA ResolverAlone ==
  ASSUME NEW pool \in Pool, NEW d \in DnsState, NEW n, NEW h, NEW o,
         Accounts(pool, d.socket, n, h),
         o.dns \in DnsState, Resolver(o.dns), o.dns.inUse = d.inUse, o.dns.socket = d.socket,
         o.pool = pool, o.host \in {"pending", "address", "zero"},
         o.host # "pending" /\ o.dns.valid => o.host = "address"
  PROVE  ResolverKeeps(d, pool, o, n, h)
BY DEF ResolverKeeps

\* A call that gives the resolver's socket back.
LEMMA ResolverWithout ==
  ASSUME NEW pool \in Pool, NEW d \in DnsState,
         NEW n \in Socket \cup {Invalid}, NEW h \in Socket \cup {Invalid}, NEW o,
         Accounts(pool, d.socket, n, h),
         o.dns \in DnsState, Resolver(o.dns), o.dns.inUse = d.inUse, o.dns.socket = Invalid,
         o.pool = UDPClose(pool, d.socket), o.host \in {"pending", "address", "zero"},
         o.host # "pending" /\ o.dns.valid => o.host = "address"
  PROVE  ResolverKeeps(d, pool, o, n, h)
<1>1. /\ o.pool \in Pool /\ Accounts(o.pool, o.dns.socket, n, h)
      /\ n # Invalid => o.pool[n] = pool[n]
      /\ \A s \in Socket : o.pool[s].state \notin {"closed", "opened"} => o.pool[s] = pool[s]
  <2> DEFINE left == UDPClose(pool, d.socket)
  <2>1. /\ left \in Pool /\ Accounts(left, Invalid, n, h)
        /\ n # Invalid => left[n] = pool[n]
        /\ \A s \in Socket : left[s].state \notin {"closed", "opened"} => left[s] = pool[s]
    BY ResolverCloses
  <2>2. o.pool = left
    OBVIOUS
  <2> HIDE DEF left
  <2> QED
    BY <2>1, <2>2
<1> QED
  BY <1>1, Zenon DEF ResolverKeeps

\* Whatever a call of the resolver finds, it keeps its accounts.
LEMMA DNSIsResolvedKeeps ==
  ASSUME NEW pool \in Pool, NEW d \in DnsState, Resolver(d), d.inUse,
         NEW n \in Socket \cup {Invalid}, NEW h \in Socket \cup {Invalid},
         Accounts(pool, d.socket, n, h),
         NEW o \in DNSIsResolved(d, pool)
  PROVE  ResolverKeeps(d, pool, o, n, h)
<1> USE DEF Pending, Outcome
<1>1. CASE d.sm \in {"START", "ARP_START_RESOLVE"}
  <2> DEFINE e == [d EXCEPT !.sm = "ARP_RESOLVE", !.age = 0,
                            !.arpTries = IF d.sm = "START" THEN 1 ELSE @ + 1,
                            !.tries = IF d.sm = "START" THEN 0 ELSE @]
  <2>1. o.dns = e /\ o.pool = pool /\ o.host = "pending"
    BY <1>1 DEF DNSIsResolved, StartArp
  <2>2. e \in DnsState
    <3> DEFINE f == [d EXCEPT !.sm = "ARP_RESOLVE", !.age = 0]
               a == IF d.sm = "START" THEN 1 ELSE d.arpTries + 1
               t == IF d.sm = "START" THEN 0 ELSE d.tries
    <3>1. f \in DnsState
      BY DEF DnsState, SmDns
    <3>2. a \in 0 .. 3 /\ t \in 0 .. 2
      BY <1>1 DEF DnsState, Resolver
    <3>3. e = [f EXCEPT !.arpTries = a, !.tries = t]
      BY DEF DnsState
    <3> HIDE DEF e, f, a, t
    <3> QED
      BY <3>1, <3>2, <3>3 DEF DnsState
  <2>3. Resolver(e) /\ e.inUse = d.inUse /\ e.socket = d.socket
    BY <1>1 DEF DnsState, Resolver
  <2> HIDE DEF e
  <2> QED
    BY <2>1, <2>2, <2>3, ResolverAlone
<1>2. CASE d.sm \in {"ARP_RESOLVE", "OPEN_SOCKET"}
  <2>1. d.socket = Invalid /\ ~d.valid
    BY <1>2 DEF Resolver
  <2>2. CASE o \in OpenAndQuery(d, pool)
    BY <2>1, <2>2, OpenAndQueryKeeps
  <2>3. CASE o \notin OpenAndQuery(d, pool)
    <3>1. PICK e \in {d, [d EXCEPT !.sm = "ARP_START_RESOLVE"], [d EXCEPT !.sm = "FAIL"]} :
            /\ o.dns = e /\ o.pool = pool /\ o.host = "pending"
            /\ d.arpTries < 3 \/ e.sm # "ARP_START_RESOLVE"
      BY <1>2, <2>3 DEF DNSIsResolved, AwaitArp, DnsState
    <3>2. e \in DnsState /\ e.inUse = d.inUse /\ e.socket = d.socket /\ e.valid = d.valid
          /\ e.arpTries = d.arpTries
      BY DEF DnsState, SmDns
    <3>3. Resolver(e)
      BY <2>1, <3>1, <3>2 DEF Resolver
    <3> QED
      BY <3>1, <3>2, <3>3, ResolverAlone
  <2> QED
    BY <2>2, <2>3
<1>3. CASE d.sm = "QUERY"
  <2>1. PICK e \in {[d EXCEPT !.sm = "QUERY"], [d EXCEPT !.sm = "GET_RESULT", !.age = 0]} :
          o.dns = e /\ o.pool = pool /\ o.host = "pending"
    BY <1>3 DEF DNSIsResolved, SendQuery
  <2>2. e \in DnsState /\ e.inUse = d.inUse /\ e.socket = d.socket /\ e.valid = d.valid
        /\ e.sm \in {"QUERY", "GET_RESULT"}
    <3>1. CASE e = [d EXCEPT !.sm = "QUERY"]
      BY <3>1 DEF DnsState, SmDns
    <3>2. CASE e = [d EXCEPT !.sm = "GET_RESULT", !.age = 0]
      BY <3>2 DEF DnsState, SmDns
    <3> QED
      BY <3>1, <3>2
  <2>3. Resolver(e)
    BY <1>3, <2>2 DEF Resolver
  <2> QED
    BY <2>1, <2>2, <2>3, ResolverAlone
<1>4. CASE d.sm = "GET_RESULT"
  <2> DEFINE none == [dns |-> IF d.age > DnsPatience THEN [d EXCEPT !.sm = "FAIL"] ELSE d,
                      pool |-> pool, host |-> "pending"]
  <2>1. CASE o = none
    <3>1. PICK e \in {d, [d EXCEPT !.sm = "FAIL"]} :
            o.dns = e /\ o.pool = pool /\ o.host = "pending"
      BY <2>1
    <3>2. e \in DnsState /\ e.inUse = d.inUse /\ e.socket = d.socket /\ e.valid = d.valid
          /\ e.sm \in {"GET_RESULT", "FAIL"}
      BY <1>4 DEF DnsState, SmDns
    <3>3. Resolver(e)
      BY <1>4, <3>2 DEF Resolver
    <3> QED
      BY <3>1, <3>2, <3>3, ResolverAlone
  <2>2. CASE o # none
    <3>1. PICK found \in BOOLEAN :
            LET e == [d EXCEPT !.valid = @ \/ found, !.sm = "DONE", !.socket = Invalid]
            IN o = [dns |-> e, pool |-> UDPClose(pool, d.socket), host |-> Result(e)]
      <4>1. o \in AwaitReply(d, pool)
        BY <1>4 DEF DNSIsResolved
      <4> QED
        BY <2>2, <4>1, Zenon DEF AwaitReply
    <3> DEFINE e == [d EXCEPT !.valid = @ \/ found, !.sm = "DONE", !.socket = Invalid]
    <3>2. o.dns = e /\ o.pool = UDPClose(pool, d.socket)
          /\ o.host = IF e.valid THEN "address" ELSE "zero"
      BY <3>1 DEF Result
    <3>3. e \in DnsState
      BY DEF DnsState, SmDns
    <3>4. e.sm = "DONE" /\ e.socket = Invalid /\ e.inUse = d.inUse
      BY DEF DnsState
    <3>5. Resolver(e)
      BY <3>4 DEF Resolver
    <3> HIDE DEF e
    <3> QED
      BY <3>2, <3>3, <3>4, <3>5, ResolverWithout
  <2> QED
    BY <2>1, <2>2
<1>5. CASE d.sm = "DONE"
  <2>1. o.dns = d /\ o.pool = pool /\ o.host = IF d.valid THEN "address" ELSE "zero"
    BY <1>5 DEF DNSIsResolved, Result
  <2> QED
    BY <2>1, ResolverAlone
<1>6. CASE d.sm = "FAIL"
  <2>1. o \in Fail(d, pool) /\ ~d.valid
    BY <1>6 DEF DNSIsResolved, Resolver
  <2>2. CASE d.tries >= 2
    BY <2>1, <2>2, ResolverAlone DEF Fail
  <2>3. CASE ~(d.tries >= 2) /\ HasSecondary
    <3> DEFINE e == [d EXCEPT !.tries = @ + 1, !.arpTries = 0, !.socket = Invalid,
                              !.sm = "ARP_START_RESOLVE"]
    <3>1. o.dns = e /\ o.pool = UDPClose(pool, d.socket) /\ o.host = "pending"
      BY <2>1, <2>3 DEF Fail
    <3>2. e \in DnsState /\ e.inUse = d.inUse /\ e.socket = Invalid /\ e.valid = d.valid
          /\ e.arpTries = 0 /\ e.sm = "ARP_START_RESOLVE"
      <4>1. d.tries + 1 \in 0 .. 2
        BY <2>3 DEF DnsState
      <4> DEFINE f == [d EXCEPT !.tries = @ + 1, !.arpTries = 0]
      <4>2. f \in DnsState /\ f.inUse = d.inUse /\ f.valid = d.valid /\ f.arpTries = 0
        <5> DEFINE g == [d EXCEPT !.tries = @ + 1]
        <5>1. g \in DnsState /\ g.inUse = d.inUse /\ g.valid = d.valid
          BY <4>1 DEF DnsState
        <5>2. f = [g EXCEPT !.arpTries = 0]
          OBVIOUS
        <5> HIDE DEF f, g
        <5>3. f \in DnsState
          BY <5>1, <5>2 DEF DnsState
        <5>4. f.inUse = g.inUse /\ f.valid = g.valid /\ f.arpTries = 0
          BY <5>1, <5>2 DEF DnsState
        <5> QED
          BY <5>1, <5>3, <5>4, Zenon
      <4>3. e = [f EXCEPT !.socket = Invalid, !.sm = "ARP_START_RESOLVE"]
        OBVIOUS
      <4> HIDE DEF e, f
      <4> QED
        BY <4>2, <4>3 DEF DnsState, SmDns
    <3>3. Resolver(e)
      BY <2>1, <3>2 DEF Resolver
    <3> HIDE DEF e
    <3> QED
      BY <3>1, <3>2, <3>3, ResolverWithout
  <2>4. CASE ~(d.tries >= 2) /\ ~HasSecondary
    <3> DEFINE e == [d EXCEPT !.tries = @ + 1]
    <3>1. o.dns = e /\ o.pool = pool /\ o.host = "pending"
      BY <2>1, <2>4 DEF Fail
    <3>2. e \in DnsState /\ e.inUse = d.inUse /\ e.socket = d.socket /\ e.valid = d.valid
          /\ e.sm = "FAIL"
      <4>1. d.tries + 1 \in 0 .. 2
        BY <2>4 DEF DnsState
      <4> QED
        BY <1>6, <4>1 DEF DnsState
    <3>3. Resolver(e)
      BY <2>1, <3>2 DEF Resolver
    <3> HIDE DEF e
    <3> QED
      BY <3>1, <3>2, <3>3, ResolverAlone
  <2> QED
    BY <2>2, <2>3, <2>4
<1>7. d.sm \in SmDns
  BY DEF DnsState
<1> QED
  BY <1>1, <1>2, <1>3, <1>4, <1>5, <1>6, <1>7 DEF SmDns

\* Letting go of the resolver.
LEMMA EndUsageKeeps ==
  ASSUME NEW pool \in Pool, NEW d \in DnsState, NEW e, e = DNSEndUsage(d, pool),
         NEW n \in Socket \cup {Invalid}, NEW h \in Socket \cup {Invalid},
         Accounts(pool, d.socket, n, h)
  PROVE  /\ e.dns \in DnsState /\ Resolver(e.dns) /\ ~e.dns.inUse /\ e.dns.socket = Invalid
         /\ e.pool \in Pool /\ Accounts(e.pool, Invalid, n, h)
         /\ n # Invalid => e.pool[n] = pool[n]
         /\ \A s \in Socket : e.pool[s].state \notin {"closed", "opened"} => e.pool[s] = pool[s]
         /\ e.ok => d.valid
<1>1. /\ e.dns = [d EXCEPT !.socket = Invalid, !.sm = "DONE", !.inUse = FALSE]
      /\ e.pool = UDPClose(pool, d.socket) /\ e.ok = d.valid
  BY DEF DNSEndUsage
<1>2. e.dns \in DnsState
  BY <1>1 DEF DnsState, SmDns
<1>3. e.dns.sm = "DONE" /\ e.dns.socket = Invalid /\ ~e.dns.inUse
  BY <1>1 DEF DnsState
<1>4. Resolver(e.dns)
  BY <1>3 DEF Resolver
<1>5. /\ e.pool \in Pool /\ Accounts(e.pool, Invalid, n, h)
      /\ n # Invalid => e.pool[n] = pool[n]
      /\ \A s \in Socket : e.pool[s].state \notin {"closed", "opened"} => e.pool[s] = pool[s]
  <2> DEFINE left == UDPClose(pool, d.socket)
  <2>1. /\ left \in Pool /\ Accounts(left, Invalid, n, h)
        /\ n # Invalid => left[n] = pool[n]
        /\ \A s \in Socket : left[s].state \notin {"closed", "opened"} => left[s] = pool[s]
    BY ResolverCloses
  <2>2. e.pool = left
    BY <1>1
  <2> HIDE DEF left
  <2> QED
    BY <2>1, <2>2
<1> QED
  BY <1>1, <1>2, <1>3, <1>4, <1>5, Zenon

-----------------------------------------------------------------------------
(* The users *)

\* What a socket knows of its peer.
PeersKnown(pool) ==
  \A s \in Socket :
    /\ pool[s].state \in Resolving => pool[s].remote = "name"
    /\ pool[s].state \in Connecting => pool[s].remote = "address"

\* Who waits for the resolver has it.
UsersAsk ==
  /\ mqtt = "NAME_RESOLVE" => dns.inUse
  /\ \A s \in Socket :
       sockets[s].state = "dnsIsResolved" => dns.inUse /\ mqtt # "NAME_RESOLVE"

\* SNTP's socket in each of its states.
SntpSockets ==
  /\ sntp \in {"UDP_SEND", "UDP_RECV"} /\ sntpSocket # Invalid =>
       sockets[sntpSocket].state = "opened"
  /\ sntp = "WAIT" => sntpSocket = Invalid
  /\ MaxSockets >= 3 => SntpHasItsSocket

NameInv ==
  /\ TypeOK
  /\ Resolver(dns)
  /\ Accounts(sockets, dns.socket, sntpSocket, dhcpSocket)
  /\ PeersKnown(sockets)
  /\ mqtt = "connecting" => mqttServer = "address"
  /\ UsersAsk
  /\ SntpSockets

\* A socket that is neither closed nor open is SNTP's.
LEMMA WaitingIsSntps ==
  ASSUME NameInv, NEW s \in Socket, sockets[s].state \notin {"closed", "opened"}
  PROVE  s = sntpSocket
BY NoSocket DEF NameInv, Accounts

\* The reset state.
LEMMA InitNames == Init => NameInv
<1> SUFFICES ASSUME Init PROVE NameInv
  OBVIOUS
<1> USE DEF Init
<1>1. sockets \in Pool /\ \A s \in Socket : sockets[s].state = "closed"
  BY DEF UDPInit, ClosedSocket, Pool, SocketState, Remote
<1>2. dns \in DnsState /\ Resolver(dns) /\ dns.socket = Invalid
  BY DEF DnsInit, DnsState, SmDns, Resolver
<1>3. TypeOK
  BY <1>1, <1>2 DEF TypeOK, SntpState, MqttState
<1>4. Accounts(sockets, dns.socket, sntpSocket, dhcpSocket)
  BY <1>1, <1>2 DEF Accounts
<1>5. PeersKnown(sockets) /\ UsersAsk /\ SntpSockets
  BY <1>1 DEF PeersKnown, Resolving, Connecting, UsersAsk, SntpSockets, SntpHasItsSocket
<1> QED
  BY <1>2, <1>3, <1>4, <1>5 DEF NameInv

\* A socket for SNTP, or for DHCP.
LEMMA GivesOutToUser ==
  ASSUME NEW pool, NEW given, NEW w \in Socket, pool[w].state = "closed",
         NEW d \in Socket \cup {Invalid}, NEW n \in Socket \cup {Invalid},
         NEW h \in Socket \cup {Invalid}, given[w].state # "closed",
         Accounts(pool, d, n, h), \A s \in Socket \ {w} : given[s] = pool[s]
  PROVE  /\ n = Invalid => Accounts(given, d, w, h)
         /\ h = Invalid /\ given[w].state = "opened" => Accounts(given, d, n, w)
<1>1. w \notin {d, n, h} /\ w # Invalid
  BY NoSocket DEF Accounts
<1>2. \A s \in Socket : given[s].state # "closed" => s \in {w, d, n, h} \ {Invalid}
  BY NoSocket DEF Accounts
<1>3. d # Invalid => given[d].state = "opened"
  BY <1>1 DEF Accounts
<1>4. h # Invalid => given[h].state = "opened"
  BY <1>1 DEF Accounts
<1>5. n # Invalid => given[n].state # "closed"
  BY <1>1 DEF Accounts
<1> QED
  BY <1>1, <1>2, <1>3, <1>4, <1>5 DEF Accounts

\* SM_HOME: with three users and three sockets there is one for SNTP.
LEMMA SntpHomeKeeps == NameInv /\ SntpHome => NameInv'
<1> SUFFICES ASSUME NameInv, SntpHome PROVE NameInv'
  OBVIOUS
<1>1. CASE sntpSocket # Invalid
  BY <1>1 DEF SntpHome, NameInv, TypeOK, SntpState, mqttvars, UsersAsk, SntpSockets, SntpHasItsSocket
<1>2. CASE sntpSocket = Invalid
  <2> DEFINE o == UDPOpenEx(sockets, "dnsResolve", "name")
  <2>1. sntpSocket' = o.handle /\ sockets' = o.pool
    BY <1>2 DEF SntpHome
  <2>2. /\ o.pool \in Pool /\ o.handle \in Socket \cup {Invalid}
        /\ o.handle = Invalid =>
              o.pool = sockets /\ \A s \in Socket : sockets[s].state # "closed"
        /\ o.handle # Invalid =>
              /\ sockets[o.handle].state = "closed"
              /\ o.pool = [sockets EXCEPT ![o.handle] = [state |-> "dnsResolve", remote |-> "name"]]
    <3>1. "dnsResolve" \in SocketState /\ "name" \in Remote /\ sockets \in Pool
      BY DEF SocketState, Remote, Resolving, NameInv, TypeOK
    <3> QED
      BY <3>1, Opening
  <2> HIDE DEF o
  <2>3. UNCHANGED <<dns, timeSet, mqtt, mqttAge, mqttServer, dhcpSocket>>
        /\ sntp' = "UDP_IS_OPENED" /\ sntpAge' = 0
    BY DEF SntpHome, mqttvars
  <2>4. TypeOK'
    BY <2>1, <2>2, <2>3 DEF NameInv, TypeOK, SntpState
  <2>5. CASE o.handle = Invalid
    <3>1. sockets' = sockets /\ sntpSocket' = sntpSocket
      BY <1>2, <2>1, <2>2, <2>5
    <3>2. ~(MaxSockets >= 3)
      <4>1. SUFFICES ASSUME MaxSockets >= 3 PROVE FALSE
        OBVIOUS
      <4>2. {1, 2, 3} \subseteq Socket
        BY <4>1, SocketsAssumption DEF Socket
      <4>3. \A s \in {1, 2, 3} : s \in {dns.socket, dhcpSocket}
        BY <1>2, <2>2, <2>5, <4>2, NoSocket DEF NameInv, Accounts
      <4> QED
        BY <4>3
    <3> QED
      BY <2>3, <2>4, <3>1, <3>2 DEF NameInv, UsersAsk, SntpSockets
  <2>6. CASE o.handle # Invalid
    <3>1. /\ sntpSocket' \in Socket /\ sntpSocket' # Invalid
          /\ sockets[sntpSocket'].state = "closed"
          /\ \A s \in Socket : sockets'[s] = IF s = sntpSocket'
                                THEN [state |-> "dnsResolve", remote |-> "name"] ELSE sockets[s]
      BY <2>1, <2>2, <2>6 DEF NameInv, TypeOK, Pool
    <3>2. sockets'[sntpSocket'].state = "dnsResolve" /\ sockets'[sntpSocket'].remote = "name"
          /\ \A s \in Socket \ {sntpSocket'} : sockets'[s] = sockets[s]
      BY <3>1
    <3>3. Accounts(sockets', dns.socket', sntpSocket', dhcpSocket')
      <4>1. Accounts(sockets, dns.socket, Invalid, dhcpSocket)
            /\ dns.socket \in Socket \cup {Invalid} /\ dhcpSocket \in Socket \cup {Invalid}
        BY <1>2 DEF NameInv, TypeOK, DnsState
      <4>2. Accounts(sockets', dns.socket, sntpSocket', dhcpSocket)
        BY <3>1, <3>2, <4>1, GivesOutToUser
      <4> QED
        BY <2>3, <4>2
    <3>4. PeersKnown(sockets')
      BY <3>2 DEF NameInv, PeersKnown, Resolving, Connecting
    <3>5. UsersAsk'
      BY <2>3, <3>2 DEF NameInv, UsersAsk
    <3>6. SntpSockets'
      BY <2>3, <3>1 DEF SntpSockets, SntpHasItsSocket
    <3> QED
      BY <2>3, <2>4, <3>3, <3>4, <3>5, <3>6 DEF NameInv
  <2> QED
    BY <2>5, <2>6
<1> QED
  BY <1>1, <1>2

\* Giving SNTP's socket back, whatever its state.
LEMMA SntpClosesKeeps ==
  ASSUME NameInv, sockets' = UDPClose(sockets, sntpSocket), sntpSocket' = Invalid,
         sntp' \in {"HOME", "WAIT"}, sntpAge' \in Nat, timeSet' \in BOOLEAN,
         UNCHANGED <<dns, mqttvars, dhcpSocket>>
  PROVE  NameInv'
<1>1. /\ sockets \in Pool /\ sntpSocket \in Socket \cup {Invalid}
      /\ dns.socket \in Socket \cup {Invalid} /\ dhcpSocket \in Socket \cup {Invalid}
  BY DEF NameInv, TypeOK, DnsState
<1>2. /\ sockets' \in Pool
      /\ \A s \in Socket : sockets'[s] = IF s = sntpSocket THEN ClosedSocket ELSE sockets[s]
  BY <1>1, Closing
<1>3. Accounts(sockets', dns.socket, Invalid, dhcpSocket)
  BY <1>1, TakesBack DEF NameInv
<1>4. TypeOK'
  BY <1>2 DEF NameInv, TypeOK, mqttvars, SntpState
<1>5. PeersKnown(sockets')
  BY <1>2 DEF NameInv, PeersKnown, ClosedSocket, Resolving, Connecting
<1>6. UsersAsk' /\ SntpSockets'
  BY <1>2 DEF NameInv, UsersAsk, SntpSockets, SntpHasItsSocket, ClosedSocket, mqttvars
<1> QED
  BY <1>3, <1>4, <1>5, <1>6 DEF NameInv, mqttvars

\* SNTPClient opens its socket, waits for it, and gives it back.
LEMMA SntpKeeps == NameInv /\ SNTPClient => NameInv'
<1> SUFFICES ASSUME NameInv, SNTPClient PROVE NameInv'
  OBVIOUS
<1>1. CASE SntpOpenTimesOut \/ SntpCannotSend \/ SntpReplyTimesOut
  BY <1>1, SntpClosesKeeps DEF SntpOpenTimesOut, SntpCannotSend, SntpReplyTimesOut, SntpGiveUp,
     NameInv, TypeOK
<1>2. CASE SntpReply
  <2>1. timeSet' \in BOOLEAN
    BY <1>2 DEF SntpReply, NameInv, TypeOK
  <2> QED
    BY <1>2, <2>1, SntpClosesKeeps DEF SntpReply
<1>3. CASE SntpOpened
  <2>1. sntpSocket # Invalid => sockets[sntpSocket].state = "opened"
    BY <1>3 DEF SntpOpened, NameInv, TypeOK
  <2> QED
    BY <1>3, <2>1 DEF SntpOpened, NameInv, TypeOK, SntpState, UsersAsk, SntpSockets,
       SntpHasItsSocket, mqttvars
<1>4. CASE SntpSend \/ SntpWaited
  BY <1>4 DEF SntpSend, SntpWaited, NameInv, TypeOK, SntpState, UsersAsk, SntpSockets,
     SntpHasItsSocket, mqttvars
<1> QED
  BY <1>1, <1>2, <1>3, <1>4, SntpHomeKeeps DEF SNTPClient

\* UDPTask on a socket that stays in use: SNTP's.
LEMMA UdpMoves ==
  ASSUME NameInv, NEW s \in Socket, s = sntpSocket, NEW pool \in Pool, NEW d \in DnsState,
         Accounts(pool, d.socket, s, dhcpSocket), Resolver(d), PeersKnown(pool),
         pool[s].state = "opened" \/ sntp \notin {"UDP_SEND", "UDP_RECV"},
         \A t \in Socket : pool[t].state = "dnsIsResolved" => d.inUse /\ mqtt # "NAME_RESOLVE",
         mqtt = "NAME_RESOLVE" => d.inUse,
         sockets' = pool, dns' = d, UNCHANGED <<sntpvars, mqttvars, dhcpSocket>>
  PROVE  NameInv'
<1>1. TypeOK'
  BY DEF NameInv, TypeOK, sntpvars, mqttvars
<1>2. UsersAsk' /\ SntpSockets'
  BY DEF NameInv, UsersAsk, SntpSockets, SntpHasItsSocket, sntpvars, mqttvars
<1> QED
  BY <1>1, <1>2 DEF NameInv, sntpvars, mqttvars

\* A new state, and perhaps peer, for SNTP's socket.
LEMMA NewState ==
  ASSUME NEW pool, NEW next, NEW s \in Socket, NEW d \in Socket \cup {Invalid},
         NEW h \in Socket \cup {Invalid}, Accounts(pool, d, s, h), PeersKnown(pool),
         next[s].state # "closed", \A t \in Socket \ {s} : next[t] = pool[t],
         next[s].state \in Resolving => next[s].remote = "name",
         next[s].state \in Connecting => next[s].remote = "address"
  PROVE  Accounts(next, d, s, h) /\ PeersKnown(next)
<1>1. Accounts(next, d, s, h)
  BY NoSocket DEF Accounts
<1>2. PeersKnown(next)
  BY DEF PeersKnown
<1> QED
  BY <1>1, <1>2

\* UDPTask takes the resolver when nobody has it.
LEMMA UdpTakesDnsKeeps == ASSUME NameInv, NEW s \in Socket, UdpTakesDns(s) PROVE NameInv'
<1>1. /\ sockets[s].state = "dnsResolve" /\ sockets[s].remote = "name" /\ ~dns.inUse
      /\ sockets \in Pool /\ dns \in DnsState /\ s = sntpSocket
      /\ dns.socket \in Socket \cup {Invalid} /\ dhcpSocket \in Socket \cup {Invalid}
      /\ Accounts(sockets, dns.socket, s, dhcpSocket) /\ PeersKnown(sockets)
  BY WaitingIsSntps DEF UdpTakesDns, NameInv, TypeOK, PeersKnown, Resolving, DnsState
<1>2. dns.sm = "DONE" /\ dns.socket = Invalid
  BY <1>1 DEF NameInv, Resolver
<1> DEFINE d == [dns EXCEPT !.inUse = TRUE, !.valid = FALSE, !.sm = "START"]
<1>3. dns' = d
  BY DEF UdpTakesDns, DNSResolve, DNSBeginUsage
<1>4. d \in DnsState
  BY <1>1 DEF DnsState, SmDns
<1>5. d.inUse /\ ~d.valid /\ d.sm = "START" /\ d.socket = dns.socket
  BY <1>1 DEF DnsState
<1>6. Resolver(d)
  BY <1>2, <1>5 DEF Resolver
<1>7. /\ sockets' \in Pool
      /\ sockets'[s].state = "dnsIsResolved" /\ sockets'[s].remote = "name"
      /\ \A t \in Socket \ {s} : sockets'[t] = sockets[t]
  BY <1>1 DEF UdpTakesDns, Pool, SocketState, Resolving
<1>8. Accounts(sockets', dns.socket, s, dhcpSocket) /\ PeersKnown(sockets')
  <2>1. "dnsIsResolved" \notin Connecting
    BY DEF Connecting
  <2> QED
    BY <1>1, <1>7, <2>1, NewState
<1>9. sntp \notin {"UDP_SEND", "UDP_RECV"} /\ mqtt # "NAME_RESOLVE"
  BY <1>1, NoSocket DEF NameInv, SntpSockets, UsersAsk
<1> HIDE DEF d
<1> QED
  BY <1>1, <1>3, <1>4, <1>5, <1>6, <1>7, <1>8, <1>9, UdpMoves DEF UdpTakesDns

\* The wait for the gateway's address.
LEMMA UdpArpKeeps == ASSUME NameInv, NEW s \in Socket, UdpArp(s) PROVE NameInv'
<1>1. /\ sockets[s].state \in Connecting /\ sockets[s].remote = "address"
      /\ sockets \in Pool /\ dns \in DnsState /\ s = sntpSocket
      /\ dns.socket \in Socket \cup {Invalid} /\ dhcpSocket \in Socket \cup {Invalid}
      /\ Accounts(sockets, dns.socket, s, dhcpSocket) /\ PeersKnown(sockets)
  BY WaitingIsSntps DEF UdpArp, NameInv, TypeOK, PeersKnown, Connecting, DnsState
<1>2. /\ sockets' \in Pool /\ sockets'[s].state \in {"sendArp", "getArp", "opened"}
      /\ sockets'[s].remote = "address" /\ \A t \in Socket \ {s} : sockets'[t] = sockets[t]
  BY <1>1 DEF UdpArp, Pool, SocketState, Connecting
<1>3. Accounts(sockets', dns.socket, s, dhcpSocket) /\ PeersKnown(sockets')
  <2>1. sockets'[s].state # "closed" /\ sockets'[s].state \notin Resolving
    BY <1>2 DEF Resolving
  <2> QED
    BY <1>1, <1>2, <2>1, NewState
<1>4. sntp \notin {"UDP_SEND", "UDP_RECV"}
  BY <1>1, NoSocket DEF NameInv, SntpSockets, Connecting
<1>5. \A t \in Socket : sockets'[t].state = "dnsIsResolved" => dns.inUse /\ mqtt # "NAME_RESOLVE"
  BY <1>2, <1>3 DEF NameInv, UsersAsk
<1>6. Resolver(dns) /\ (mqtt = "NAME_RESOLVE" => dns.inUse)
  BY DEF NameInv, UsersAsk
<1> QED
  BY <1>1, <1>3, <1>4, <1>5, <1>6, UdpMoves, <1>2 DEF UdpArp

\* A call of the resolver for SNTP's socket, and what follows its answer.
LEMMA UdpResolvesKeeps == ASSUME NameInv, NEW s \in Socket, UdpResolves(s) PROVE NameInv'
<1>1. /\ sockets[s].state = "dnsIsResolved" /\ sockets[s].remote = "name" /\ s = sntpSocket
      /\ sockets \in Pool /\ dns \in DnsState /\ Resolver(dns)
      /\ s # Invalid /\ dhcpSocket \in Socket \cup {Invalid}
      /\ Accounts(sockets, dns.socket, s, dhcpSocket) /\ PeersKnown(sockets)
  BY WaitingIsSntps, NoSocket DEF UdpResolves, NameInv, TypeOK, PeersKnown, Resolving
<1>2. dns.inUse /\ mqtt # "NAME_RESOLVE" /\ sntp \notin {"UDP_SEND", "UDP_RECV"}
  BY <1>1, NoSocket DEF NameInv, UsersAsk, SntpSockets
<1>3. PICK o \in DNSIsResolved(dns, sockets) :
       IF o.host = "pending"
       THEN dns' = o.dns /\ sockets' = o.pool
       ELSE LET e == DNSEndUsage(o.dns, o.pool)
            IN /\ dns' = e.dns
               /\ sockets' =
                    IF e.ok
                    THEN [e.pool EXCEPT ![s] = [state |-> "sendArp", remote |-> o.host]]
                    ELSE [e.pool EXCEPT ![s].state = "dnsResolve"]
  BY DEF UdpResolves
<1>4. ResolverKeeps(dns, sockets, o, s, dhcpSocket)
  BY <1>1, <1>2, DNSIsResolvedKeeps
<1>5. /\ o.dns \in DnsState /\ o.pool \in Pool /\ Resolver(o.dns) /\ o.dns.inUse
      /\ Accounts(o.pool, o.dns.socket, s, dhcpSocket) /\ o.pool[s] = sockets[s]
      /\ \A t \in Socket : o.pool[t].state \notin {"closed", "opened"} => o.pool[t] = sockets[t]
      /\ o.host \in {"pending", "address", "zero"}
      /\ o.host # "pending" /\ o.dns.valid => o.host = "address"
  BY <1>1, <1>2, <1>4 DEF ResolverKeeps
<1>6. PeersKnown(o.pool)
  BY <1>1, <1>5 DEF PeersKnown, Resolving, Connecting
<1>7. CASE o.host = "pending"
  <2>1. \A t \in Socket : o.pool[t].state = "dnsIsResolved" => o.dns.inUse /\ mqtt # "NAME_RESOLVE"
    BY <1>2, <1>5
  <2>2. dns' = o.dns /\ sockets' = o.pool
    BY <1>3, <1>7
  <2> QED
    BY <1>1, <1>2, <1>5, <1>6, <2>1, <2>2, UdpMoves DEF UdpResolves
<1>8. CASE o.host # "pending"
  <2> DEFINE e == DNSEndUsage(o.dns, o.pool)
  <2>1. dns' = e.dns
        /\ sockets' = IF e.ok THEN [e.pool EXCEPT ![s] = [state |-> "sendArp", remote |-> o.host]]
                       ELSE [e.pool EXCEPT ![s].state = "dnsResolve"]
    BY <1>3, <1>8
  <2>2. /\ e.dns \in DnsState /\ Resolver(e.dns) /\ ~e.dns.inUse /\ e.dns.socket = Invalid
        /\ e.pool \in Pool /\ Accounts(e.pool, Invalid, s, dhcpSocket)
        /\ e.pool[s] = o.pool[s]
        /\ \A t \in Socket : e.pool[t].state \notin {"closed", "opened"} => e.pool[t] = o.pool[t]
        /\ e.ok => o.dns.valid
    BY <1>1, <1>5, EndUsageKeeps
  <2> HIDE DEF e
  <2>3. PeersKnown(e.pool)
    BY <1>6, <2>2 DEF PeersKnown, Resolving, Connecting
  <2>4. e.pool[s].state = "dnsIsResolved" /\ e.pool[s].remote = "name"
    BY <1>1, <1>5, <2>2
  <2>5. /\ sockets' \in Pool /\ sockets'[s].state \in {"sendArp", "dnsResolve"}
        /\ sockets'[s].state = "sendArp" => sockets'[s].remote = "address"
        /\ sockets'[s].state = "dnsResolve" => sockets'[s].remote = "name"
        /\ \A t \in Socket \ {s} : sockets'[t] = e.pool[t]
    <3>1. CASE e.ok
      <4>1. sockets' = [e.pool EXCEPT ![s] = [state |-> "sendArp", remote |-> "address"]]
        BY <1>5, <1>8, <2>1, <2>2, <3>1
      <4> QED
        BY <2>2, <4>1 DEF Pool, SocketState, Connecting, Remote
    <3>2. CASE ~e.ok
      <4>1. sockets' = [e.pool EXCEPT ![s].state = "dnsResolve"]
        BY <2>1, <3>2
      <4> QED
        BY <2>2, <2>4, <4>1 DEF Pool, SocketState, Resolving
    <3> QED
      BY <3>1, <3>2
  <2>6. Accounts(sockets', Invalid, s, dhcpSocket) /\ PeersKnown(sockets')
    <3>1. /\ sockets'[s].state # "closed"
          /\ sockets'[s].state \in Resolving => sockets'[s].remote = "name"
          /\ sockets'[s].state \in Connecting => sockets'[s].remote = "address"
      BY <2>5 DEF Resolving, Connecting
    <3>2. Accounts(sockets', Invalid, s, dhcpSocket)
      BY <1>1, <2>2, <2>5, <3>1, NoSocket DEF Accounts
    <3>3. PeersKnown(sockets')
      BY <2>3, <2>5, <3>1 DEF PeersKnown
    <3> QED
      BY <3>2, <3>3
  <2>7. \A t \in Socket : sockets'[t].state # "dnsIsResolved"
    <3>1. \A t \in Socket \ {s} : e.pool[t].state # "dnsIsResolved"
      BY <2>2, NoSocket DEF Accounts
    <3> QED
      BY <2>5, <3>1
  <2>8. dns' \in DnsState /\ Resolver(dns') /\ Accounts(sockets', dns'.socket, s, dhcpSocket)
    BY <2>1, <2>2, <2>6
  <2> QED
    BY <1>1, <1>2, <2>5, <2>6, <2>7, <2>8, UdpMoves DEF UdpResolves
<1> QED
  BY <1>7, <1>8

\* MQTT's part of the resolver: a new state for it and for the pool.
LEMMA MqttMoves ==
  ASSUME NameInv, sockets' \in Pool, dns' \in DnsState, Resolver(dns'),
         Accounts(sockets', dns'.socket, sntpSocket, dhcpSocket),
         \A t \in Socket : sockets'[t].state \notin {"closed", "opened"} => sockets'[t] = sockets[t],
         sntpSocket # Invalid => sockets'[sntpSocket] = sockets[sntpSocket],
         mqtt' \in MqttState, mqttAge' \in Nat, mqttServer' \in {"address", "zero"},
         mqtt' = "connecting" => mqttServer' = "address",
         UsersAsk', UNCHANGED <<sntpvars, dhcpSocket>>
  PROVE  NameInv'
<1>1. TypeOK'
  BY DEF NameInv, TypeOK, sntpvars
<1>2. PeersKnown(sockets')
  BY DEF NameInv, PeersKnown, Resolving, Connecting
<1>3. SntpSockets'
  BY DEF NameInv, SntpSockets, SntpHasItsSocket, sntpvars
<1> QED
  BY <1>1, <1>2, <1>3 DEF NameInv, sntpvars

\* MQTT takes the resolver when nobody has it.
LEMMA MqttBeginsKeeps == NameInv /\ MqttBegins => NameInv'
<1> SUFFICES ASSUME NameInv, MqttBegins PROVE NameInv'
  OBVIOUS
<1>1. dns \in DnsState /\ ~dns.inUse /\ dns.sm = "DONE" /\ dns.socket = Invalid
  BY DEF MqttBegins, NameInv, TypeOK, Resolver
<1> DEFINE d == DNSResolve(DNSBeginUsage(dns), MqttLiteral)
<1>2. d \in DnsState /\ d.inUse /\ d.socket = Invalid /\ (d.sm # "DONE" => ~d.valid)
      /\ d.sm \in {"START", "DONE"}
  <2>1. CASE MqttLiteral
    BY <1>1, <2>1 DEF DNSResolve, DNSBeginUsage, DnsState, SmDns
  <2>2. CASE ~MqttLiteral
    BY <1>1, <2>2 DEF DNSResolve, DNSBeginUsage, DnsState, SmDns
  <2> QED
    BY <2>1, <2>2
<1>3. Resolver(d)
  BY <1>2 DEF Resolver
<1>4. dns' = d /\ mqtt' = "NAME_RESOLVE"
  BY DEF MqttBegins
<1> HIDE DEF d
<1>5. UsersAsk'
  BY <1>1, <1>2, <1>4 DEF MqttBegins, NameInv, UsersAsk
<1>6. /\ sockets' \in Pool /\ mqttAge' \in Nat /\ mqttServer' \in {"address", "zero"}
      /\ Accounts(sockets', d.socket, sntpSocket, dhcpSocket) /\ mqtt' \in MqttState
      /\ sockets' = sockets
  BY <1>1, <1>2, <1>4 DEF MqttBegins, NameInv, TypeOK, MqttState
<1> QED
  BY <1>2, <1>3, <1>4, <1>5, <1>6, MqttMoves DEF MqttBegins

\* A call of the resolver for MQTT, and its three ways out.
LEMMA MqttResolvesKeeps == NameInv /\ MqttResolves => NameInv'
<1> SUFFICES ASSUME NameInv, MqttResolves PROVE NameInv'
  OBVIOUS
<1>1. PICK o \in DNSIsResolved(dns, sockets) :
       LET e == DNSEndUsage(o.dns, o.pool)
       IN \/ /\ o.host = "pending" /\ mqttAge <= MqttPatience
             /\ dns' = o.dns /\ sockets' = o.pool
             /\ UNCHANGED <<mqtt, mqttServer>>
          \/ /\ o.host = "pending" /\ mqttAge > MqttPatience
             /\ dns' = e.dns /\ sockets' = e.pool
             /\ mqtt' = "elsewhere" /\ UNCHANGED mqttServer
          \/ /\ o.host # "pending"
             /\ dns' = e.dns /\ sockets' = e.pool
             /\ mqtt' = IF e.ok THEN "connecting" ELSE "elsewhere"
             /\ mqttServer' = o.host
  BY DEF MqttResolves
<1>2. /\ mqtt = "NAME_RESOLVE" /\ dns.inUse
      /\ \A t \in Socket : sockets[t].state # "dnsIsResolved"
      /\ sockets \in Pool /\ dns \in DnsState /\ Resolver(dns)
      /\ sntpSocket \in Socket \cup {Invalid} /\ dhcpSocket \in Socket \cup {Invalid}
      /\ Accounts(sockets, dns.socket, sntpSocket, dhcpSocket)
      /\ mqttAge \in Nat /\ mqttServer \in {"address", "zero"}
  BY DEF MqttResolves, NameInv, TypeOK, UsersAsk
<1>3. ResolverKeeps(dns, sockets, o, sntpSocket, dhcpSocket)
  BY <1>2, DNSIsResolvedKeeps
<1>4. /\ o.dns \in DnsState /\ o.pool \in Pool /\ Resolver(o.dns) /\ o.dns.inUse
      /\ Accounts(o.pool, o.dns.socket, sntpSocket, dhcpSocket)
      /\ sntpSocket # Invalid => o.pool[sntpSocket] = sockets[sntpSocket]
      /\ \A t \in Socket : o.pool[t].state \notin {"closed", "opened"} => o.pool[t] = sockets[t]
      /\ o.host \in {"pending", "address", "zero"}
      /\ o.host # "pending" /\ o.dns.valid => o.host = "address"
  BY <1>2, <1>3 DEF ResolverKeeps
<1>5. /\ mqttAge' \in Nat /\ UNCHANGED <<sntpvars, dhcpSocket>>
  BY <1>2 DEF MqttResolves
<1>6. CASE dns' = o.dns /\ sockets' = o.pool /\ UNCHANGED <<mqtt, mqttServer>>
  <2>1. UsersAsk'
    BY <1>2, <1>4, <1>6 DEF UsersAsk
  <2> QED
    BY <1>2, <1>4, <1>5, <1>6, <2>1, MqttMoves DEF MqttState
<1>7. CASE LET e == DNSEndUsage(o.dns, o.pool)
           IN /\ dns' = e.dns /\ sockets' = e.pool /\ mqttServer' \in {"address", "zero"}
              /\ mqtt' \in {"connecting", "elsewhere"}
              /\ mqtt' = "connecting" => e.ok /\ mqttServer' = o.host /\ o.host # "pending"
  <2> DEFINE e == DNSEndUsage(o.dns, o.pool)
  <2>1. /\ dns' = e.dns /\ sockets' = e.pool /\ mqttServer' \in {"address", "zero"}
        /\ mqtt' \in {"connecting", "elsewhere"}
        /\ mqtt' = "connecting" => e.ok /\ mqttServer' = o.host /\ o.host # "pending"
    BY <1>7
  <2>2. /\ e.dns \in DnsState /\ Resolver(e.dns) /\ e.dns.socket = Invalid
        /\ e.pool \in Pool /\ Accounts(e.pool, Invalid, sntpSocket, dhcpSocket)
        /\ sntpSocket # Invalid => e.pool[sntpSocket] = o.pool[sntpSocket]
        /\ \A t \in Socket : e.pool[t].state \notin {"closed", "opened"} => e.pool[t] = o.pool[t]
        /\ e.ok => o.dns.valid
    <3>1. o.dns \in DnsState /\ o.pool \in Pool
          /\ Accounts(o.pool, o.dns.socket, sntpSocket, dhcpSocket)
          /\ sntpSocket \in Socket \cup {Invalid} /\ dhcpSocket \in Socket \cup {Invalid}
      BY <1>2, <1>4
    <3> QED
      BY <3>1, EndUsageKeeps, SMTT(30)
  <2> HIDE DEF e
  <2>3. \A t \in Socket : e.pool[t].state \notin {"closed", "opened"} => e.pool[t] = sockets[t]
    BY <1>4, <2>2
  <2>4. UsersAsk'
    BY <1>2, <2>1, <2>3 DEF UsersAsk
  <2>5. mqtt' = "connecting" => mqttServer' = "address"
    BY <1>4, <2>1, <2>2
  <2>6. sntpSocket # Invalid => e.pool[sntpSocket] = sockets[sntpSocket]
    BY <1>4, <2>2
  <2> QED
    BY <1>5, <2>1, <2>2, <2>3, <2>4, <2>5, <2>6, MqttMoves DEF MqttState
<1> QED
  BY <1>1, <1>2, <1>4, <1>6, <1>7

\* MQTTTask, as far as it is about names.
LEMMA MqttKeeps == NameInv /\ MQTTTask => NameInv'
<1>1. NameInv /\ MqttComesBack => NameInv'
  BY DEF MqttComesBack, NameInv, TypeOK, MqttState, UsersAsk, SntpSockets, SntpHasItsSocket, sntpvars
<1> QED
  BY <1>1, MqttBeginsKeeps, MqttResolvesKeeps DEF MQTTTask

\* DHCP's socket comes and goes without touching another.
LEMMA DhcpKeeps == NameInv /\ (DhcpOpens \/ DhcpCloses) => NameInv'
<1> SUFFICES ASSUME NameInv, DhcpOpens \/ DhcpCloses PROVE NameInv'
  OBVIOUS
<1>1. /\ sockets \in Pool /\ dns \in DnsState
      /\ dns.socket \in Socket \cup {Invalid} /\ sntpSocket \in Socket \cup {Invalid}
      /\ dhcpSocket \in Socket \cup {Invalid}
      /\ Accounts(sockets, dns.socket, sntpSocket, dhcpSocket)
  BY DEF NameInv, TypeOK, DnsState
<1>2. UNCHANGED <<dns, sntp, sntpSocket, sntpAge, timeSet, mqtt, mqttAge, mqttServer>>
  BY DEF DhcpOpens, DhcpCloses, sntpvars, mqttvars
<1>3. /\ sockets' \in Pool /\ dhcpSocket' \in Socket \cup {Invalid}
      /\ Accounts(sockets', dns.socket, sntpSocket, dhcpSocket')
      /\ \A s \in Socket : sockets'[s] = sockets[s] \/ sockets'[s].state \in {"closed", "opened"}
      /\ sntpSocket # Invalid => sockets'[sntpSocket] = sockets[sntpSocket]
  <2>1. CASE DhcpOpens
    <3> DEFINE o == UDPOpenEx(sockets, "opened", "none")
    <3>1. dhcpSocket = Invalid /\ dhcpSocket' = o.handle /\ sockets' = o.pool
      BY <2>1 DEF DhcpOpens
    <3>2. /\ o.pool \in Pool /\ o.handle \in Socket \cup {Invalid}
          /\ o.handle = Invalid => o.pool = sockets
          /\ o.handle # Invalid =>
               /\ sockets[o.handle].state = "closed"
               /\ o.pool = [sockets EXCEPT ![o.handle] = [state |-> "opened", remote |-> "none"]]
      <4>1. "opened" \in SocketState /\ "none" \in Remote
        BY DEF SocketState, Remote
      <4> QED
        BY <1>1, <4>1, Opening
    <3> HIDE DEF o
    <3>3. CASE o.handle = Invalid
      BY <1>1, <3>1, <3>2, <3>3
    <3>4. CASE o.handle # Invalid
      <4>1. /\ dhcpSocket' \in Socket /\ sockets[dhcpSocket'].state = "closed"
            /\ sockets'[dhcpSocket'].state = "opened"
            /\ \A s \in Socket \ {dhcpSocket'} : sockets'[s] = sockets[s]
        BY <1>1, <3>1, <3>2, <3>4 DEF Pool
      <4>2. Accounts(sockets, dns.socket, sntpSocket, Invalid)
        BY <1>1, <3>1
      <4>3. Accounts(sockets', dns.socket, sntpSocket, dhcpSocket')
        BY <1>1, <4>1, <4>2, GivesOutToUser
      <4>4. sntpSocket # dhcpSocket' \/ sntpSocket = Invalid
        BY <1>1, <4>1, NoSocket DEF Accounts
      <4> QED
        BY <1>1, <3>1, <3>2, <4>1, <4>3, <4>4
    <3> QED
      BY <3>3, <3>4
  <2>2. CASE DhcpCloses
    <3>1. sockets' = UDPClose(sockets, dhcpSocket) /\ dhcpSocket' = Invalid
      BY <2>2 DEF DhcpCloses
    <3>2. /\ sockets' \in Pool
          /\ \A s \in Socket : sockets'[s] = IF s = dhcpSocket THEN ClosedSocket ELSE sockets[s]
      BY <1>1, <3>1, Closing
    <3>3. Accounts(sockets', dns.socket, sntpSocket, dhcpSocket')
      BY <1>1, <3>1, TakesBack
    <3>4. sntpSocket # Invalid => sntpSocket # dhcpSocket
      BY <1>1 DEF Accounts
    <3> QED
      BY <1>1, <3>1, <3>2, <3>3, <3>4 DEF ClosedSocket
  <2> QED
    BY <2>1, <2>2
<1>4. TypeOK'
  BY <1>2, <1>3 DEF NameInv, TypeOK
<1>5. PeersKnown(sockets')
  BY <1>3 DEF NameInv, PeersKnown, Resolving, Connecting
<1>6. UsersAsk' /\ SntpSockets'
  BY <1>2, <1>3 DEF NameInv, UsersAsk, SntpSockets, SntpHasItsSocket
<1> QED
  BY <1>2, <1>3, <1>4, <1>5, <1>6 DEF NameInv

\* Time only makes things older.
LEMMA TickKeeps == NameInv /\ Tick => NameInv'
<1> SUFFICES ASSUME NameInv, Tick PROVE NameInv'
  OBVIOUS
<1>1. \A age, limit \in Nat : Older(age, limit) \in Nat
  BY DEF Older
<1>2. dns.age \in Nat /\ sntpAge' \in Nat /\ mqttAge' \in Nat /\ dns \in DnsState
  BY <1>1, NameServiceAssumption DEF Tick, NameInv, TypeOK, DnsState, SntpLimit
<1>3. dns' = [dns EXCEPT !.age = Older(dns.age, DnsPatience)]
      /\ Older(dns.age, DnsPatience) \in Nat
  BY <1>1, <1>2, DnsAssumption DEF Tick
<1>4. dns' \in DnsState /\ dns'.socket = dns.socket /\ dns'.inUse = dns.inUse
  BY <1>2, <1>3 DEF DnsState
<1>5. Resolver(dns')
  <2>1. Resolver(dns) /\ dns'.sm = dns.sm /\ dns'.valid = dns.valid
        /\ dns'.arpTries = dns.arpTries
    BY <1>2, <1>3 DEF NameInv, DnsState
  <2> QED
    BY <1>4, <2>1 DEF Resolver
<1>6. TypeOK'
  BY <1>2, <1>4 DEF Tick, NameInv, TypeOK
<1>7. Accounts(sockets', dns'.socket, sntpSocket', dhcpSocket')
  BY <1>4 DEF Tick, NameInv
<1> QED
  BY <1>4, <1>5, <1>6, <1>7 DEF Tick, NameInv, UsersAsk, SntpSockets, SntpHasItsSocket

\* Every step keeps the invariant.
LEMMA NextNames == NameInv /\ [Next]_vars => NameInv'
<1> SUFFICES ASSUME NameInv, [Next]_vars PROVE NameInv'
  OBVIOUS
<1>1. CASE UNCHANGED vars
  BY <1>1 DEF vars, sntpvars, mqttvars, NameInv, TypeOK, UsersAsk, SntpSockets, SntpHasItsSocket
<1>2. CASE UDPTask
  BY <1>2, UdpTakesDnsKeeps, UdpResolvesKeeps, UdpArpKeeps DEF UDPTask
<1> QED
  BY <1>1, <1>2, SntpKeeps, MqttKeeps, DhcpKeeps, TickKeeps DEF Next

-----------------------------------------------------------------------------
(* What follows *)

(***************************************************************************)
(* The inductive invariant: types, the resolver's own state, who holds     *)
(* which socket, and what SNTP and MQTT may assume of both.                *)
(***************************************************************************)
THEOREM NameInvariant == Spec => []NameInv
BY InitNames, NextNames, PTL DEF Spec

(***************************************************************************)
(* No path of time-out, retry and failure leaks a socket, closes one twice *)
(* or uses one of somebody else, for any size of the pool.                 *)
(***************************************************************************)
THEOREM SocketsAlwaysAccountedFor == Spec => [](TypeOK /\ SocketsAccountedFor)
<1>1. NameInv => TypeOK /\ SocketsAccountedFor
  <2> SUFFICES ASSUME NameInv PROVE TypeOK /\ SocketsAccountedFor
    OBVIOUS
  <2>1. TypeOK /\ Accounts(sockets, dns.socket, sntpSocket, dhcpSocket)
    BY DEF NameInv
  <2>2. Owners[1] = dns.socket /\ Owners[2] = sntpSocket /\ Owners[3] = dhcpSocket
    BY DEF Owners
  <2>3. \A s \in Socket : sockets[s].state # "closed" => \E i \in 1 .. 3 : Owners[i] = s
    BY <2>1, <2>2, NoSocket DEF Accounts
  <2>4. ASSUME NEW i \in 1 .. 3, NEW j \in 1 .. 3, Owners[i] # Invalid
        PROVE  sockets[Owners[i]].state # "closed" /\ (Owners[i] = Owners[j] => i = j)
    <3>1. i \in {1, 2, 3} /\ j \in {1, 2, 3}
      OBVIOUS
    <3> QED
      BY <2>1, <2>2, <2>4, <3>1 DEF Accounts
  <2> QED
    BY <2>1, <2>3, <2>4 DEF SocketsAccountedFor
<1> QED
  BY <1>1, NameInvariant, PTL

(***************************************************************************)
(* The resolver's flag has no owner, and still it never serves two.        *)
(***************************************************************************)
THEOREM OneUserOfDnsAlways == Spec => []OneUserOfDns
<1>1. NameInv => OneUserOfDns
  <2> SUFFICES ASSUME NameInv PROVE OneUserOfDns
    OBVIOUS
  <2>1. \A s \in Users : s = sntpSocket /\ dns.inUse /\ mqtt # "NAME_RESOLVE"
    BY WaitingIsSntps DEF Users, NameInv, UsersAsk
  <2> QED
    BY <2>1 DEF OneUserOfDns, NameInv, UsersAsk
<1> QED
  BY <1>1, NameInvariant, PTL

(***************************************************************************)
(* Nobody connects to an address that was never found.                     *)
(***************************************************************************)
THEOREM OnlyAddressesEverUsed == Spec => []OnlyAddressesAreUsed
<1>1. NameInv => OnlyAddressesAreUsed
  BY DEF NameInv, PeersKnown, OnlyAddressesAreUsed
<1> QED
  BY <1>1, NameInvariant, PTL

(***************************************************************************)
(* SM_HOME's unchecked handle is a socket as long as there are three       *)
(* sockets for the three that open one.                                    *)
(***************************************************************************)
THEOREM SntpAlwaysHasItsSocket ==
  ASSUME MaxSockets >= 3 PROVE Spec => []SntpHasItsSocket
<1>1. NameInv => SntpHasItsSocket
  BY DEF NameInv, SntpSockets
<1> QED
  BY <1>1, NameInvariant, PTL

\* Every call of the resolver leaves its user waiting, or lets it go.
LEMMA ResolvingKeepsUser ==
  ASSUME NameInv, NEW s \in Socket, UdpResolves(s), Abandoned'
  PROVE  Abandoned
<1>1. /\ sockets[s].state = "dnsIsResolved" /\ s = sntpSocket
      /\ sockets \in Pool /\ dns \in DnsState /\ Resolver(dns) /\ dns.inUse
      /\ s # Invalid /\ dhcpSocket \in Socket \cup {Invalid}
      /\ Accounts(sockets, dns.socket, s, dhcpSocket)
  BY WaitingIsSntps, NoSocket DEF UdpResolves, NameInv, TypeOK, UsersAsk
<1>2. PICK o \in DNSIsResolved(dns, sockets) :
        \/ dns' = o.dns /\ sockets' = o.pool
        \/ dns' = DNSEndUsage(o.dns, o.pool).dns
  BY DEF UdpResolves
<1>3. ResolverKeeps(dns, sockets, o, s, dhcpSocket)
  BY <1>1, DNSIsResolvedKeeps
<1>4. CASE dns' = o.dns /\ sockets' = o.pool
  <2>1. sockets'[s].state = "dnsIsResolved"
    BY <1>1, <1>3, <1>4 DEF ResolverKeeps
  <2> QED
    BY <2>1 DEF Abandoned, Users
<1>5. CASE dns' = DNSEndUsage(o.dns, o.pool).dns
  <2>1. o.dns \in DnsState
    BY <1>3 DEF ResolverKeeps
  <2>2. ~dns'.inUse
    BY <1>5, <2>1 DEF DNSEndUsage, DnsState
  <2> QED
    BY <2>2 DEF Abandoned
<1> QED
  BY <1>2, <1>4, <1>5

\* MQTT leaves its state only with DNSEndUsage.
LEMMA MqttKeepsUser == NameInv /\ MQTTTask /\ Abandoned' => Abandoned
<1> SUFFICES ASSUME NameInv, MQTTTask, Abandoned' PROVE Abandoned
  OBVIOUS
<1>1. CASE MqttComesBack
  BY <1>1 DEF MqttComesBack, Abandoned, Users
<1>2. CASE MqttBegins
  BY <1>2 DEF MqttBegins, Abandoned
<1>3. CASE MqttResolves
  <2>1. /\ mqtt = "NAME_RESOLVE" /\ dns.inUse /\ sockets \in Pool /\ dns \in DnsState
        /\ Resolver(dns) /\ sntpSocket \in Socket \cup {Invalid}
        /\ dhcpSocket \in Socket \cup {Invalid}
        /\ Accounts(sockets, dns.socket, sntpSocket, dhcpSocket)
    BY <1>3 DEF MqttResolves, NameInv, TypeOK, UsersAsk
  <2>2. PICK o \in DNSIsResolved(dns, sockets) :
          \/ UNCHANGED mqtt
          \/ dns' = DNSEndUsage(o.dns, o.pool).dns
    BY <1>3 DEF MqttResolves
  <2>3. o.dns \in DnsState
    BY <2>1, DNSIsResolvedKeeps DEF ResolverKeeps
  <2>4. CASE UNCHANGED mqtt
    BY <2>1, <2>4 DEF Abandoned
  <2>5. CASE dns' = DNSEndUsage(o.dns, o.pool).dns
    <3>1. ~dns'.inUse
      BY <2>3, <2>5 DEF DNSEndUsage, DnsState
    <3> QED
      BY <3>1 DEF Abandoned
  <2> QED
    BY <2>2, <2>4, <2>5
<1> QED
  BY <1>1, <1>2, <1>3 DEF MQTTTask

\* SNTP's own ways out, but for the time-out, are not those of a user.
LEMMA SntpKeepsUser ==
  NameInv /\ SNTPClient /\ ~Abandoned /\ Abandoned' => sntp = "UDP_IS_OPENED" /\ sntp' = "HOME"
<1> SUFFICES ASSUME NameInv, SNTPClient, ~Abandoned, Abandoned'
             PROVE  sntp = "UDP_IS_OPENED" /\ sntp' = "HOME"
  OBVIOUS
<1>1. UNCHANGED <<dns, mqtt>>
  BY DEF SNTPClient, SntpHome, SntpOpenTimesOut, SntpOpened, SntpSend, SntpCannotSend,
     SntpReplyTimesOut, SntpReply, SntpWaited, SntpGiveUp, mqttvars
<1>2. PICK s \in Socket : sockets[s].state = "dnsIsResolved" /\ s = sntpSocket
  BY <1>1, WaitingIsSntps DEF Abandoned, Users
<1>3. sockets'[s].state # "dnsIsResolved"
  BY DEF Abandoned, Users
<1>4. sntp \notin {"UDP_SEND", "UDP_RECV"} /\ sockets' # sockets
  BY <1>2, <1>3, NoSocket DEF NameInv, SntpSockets
<1>5. ~SntpHome
  BY <1>2, <1>4, NoSocket DEF SntpHome
<1>6. SntpOpenTimesOut
  BY <1>4, <1>5 DEF SNTPClient, SntpOpened, SntpSend, SntpCannotSend, SntpReplyTimesOut, SntpReply,
     SntpWaited
<1> QED
  BY <1>6 DEF SntpOpenTimesOut, SntpGiveUp

\* The remaining steps do not touch a user's socket.
LEMMA OthersKeepUser ==
  ASSUME NameInv, \/ DhcpOpens \/ DhcpCloses \/ Tick
                  \/ \E s \in Socket : UdpTakesDns(s) \/ UdpArp(s),
         Abandoned'
  PROVE  Abandoned
<1>1. /\ sockets \in Pool /\ dns \in DnsState /\ dhcpSocket \in Socket \cup {Invalid}
      /\ Accounts(sockets, dns.socket, sntpSocket, dhcpSocket)
  BY DEF NameInv, TypeOK
<1>2. ASSUME NEW s \in Socket, UdpTakesDns(s) PROVE FALSE
  <2>1. sockets'[s].state = "dnsIsResolved"
    BY <1>1, <1>2 DEF UdpTakesDns, Pool
  <2> QED
    BY <2>1 DEF Abandoned, Users
<1>3. dns'.inUse = dns.inUse /\ mqtt' = mqtt
  <2>1. CASE Tick
    BY <1>1, <2>1 DEF Tick, DnsState
  <2> QED
    BY <1>2, <2>1 DEF DhcpOpens, DhcpCloses, UdpArp, mqttvars
<1>4. ASSUME NEW t \in Socket, sockets[t].state = "dnsIsResolved"
      PROVE  sockets'[t].state = "dnsIsResolved"
  <2>1. t = sntpSocket /\ t # dhcpSocket
    BY <1>1, <1>4, WaitingIsSntps, NoSocket DEF Accounts
  <2>2. CASE DhcpOpens
    <3>1. /\ "opened" \in SocketState /\ "none" \in Remote
          /\ sockets' = UDPOpenEx(sockets, "opened", "none").pool
      BY <2>2 DEF DhcpOpens, SocketState, Remote
    <3>2. sockets'[t] = sockets[t]
      <4> DEFINE o == UDPOpenEx(sockets, "opened", "none")
      <4>1. /\ o.handle \in Socket \cup {Invalid}
            /\ o.handle = Invalid => o.pool = sockets
            /\ o.handle # Invalid =>
                 /\ sockets[o.handle].state = "closed"
                 /\ o.pool = [sockets EXCEPT ![o.handle] = [state |-> "opened", remote |-> "none"]]
        BY <1>1, <3>1, Opening
      <4>2. sockets' = o.pool
        BY <3>1
      <4> HIDE DEF o
      <4> QED
        BY <1>1, <1>4, <4>1, <4>2 DEF Pool
    <3> QED
      BY <1>4, <3>2
  <2>3. CASE DhcpCloses
    BY <1>1, <1>4, <2>1, <2>3, Closing DEF DhcpCloses
  <2>4. CASE Tick
    BY <1>4, <2>4 DEF Tick
  <2>5. ASSUME NEW s \in Socket, UdpArp(s) PROVE sockets'[t].state = "dnsIsResolved"
    BY <1>1, <1>4, <2>5 DEF UdpArp, Pool
  <2> QED
    BY <1>2, <2>2, <2>3, <2>4, <2>5
<1> QED
  BY <1>3, <1>4 DEF Abandoned, Users

(***************************************************************************)
(* Of all the ways out of a resolution, only SNTP's time-out forgets to    *)
(* release the resolver.                                                   *)
(***************************************************************************)
THEOREM OnlySntpEverAbandonsDns == Spec => OnlySntpAbandonsDns
<1>1. NameInv /\ [Next]_vars =>
        [~Abandoned /\ Abandoned' => sntp = "UDP_IS_OPENED" /\ sntp' = "HOME"]_vars
  <2> SUFFICES ASSUME NameInv, Next, ~Abandoned, Abandoned'
               PROVE  sntp = "UDP_IS_OPENED" /\ sntp' = "HOME"
    OBVIOUS
  <2> QED
    BY SntpKeepsUser, MqttKeepsUser, ResolvingKeepsUser, OthersKeepUser DEF Next, UDPTask
<1> QED
  BY <1>1, NameInvariant, PTL DEF Spec, OnlySntpAbandonsDns

=============================================================================
