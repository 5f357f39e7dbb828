--------------------------------- MODULE Dns ---------------------------------
(***************************************************************************)
(* The resolver of net/DNS.c: one resolution at a time, guarded by a flag  *)
(* that knows no owner, and a state machine that only moves when the       *)
(* module's user calls DNSIsResolved.  The name server, ARP and the wire   *)
(* are outside: at any call an ARP answer may be in the cache, the         *)
(* transmitter may be busy, and a reply, with or without an address, may   *)
(* have come.  The reply can only be one to the last query: every query    *)
(* goes out from a socket, and a local port, of its own.                   *)
(***************************************************************************)
EXTENDS UdpSockets

CONSTANTS DnsPatience,     \* DNS_TIMEOUT, in ticks
          HasSecondary     \* is AppConfig.SecondaryDNSServer set?

ASSUME DnsAssumption == DnsPatience \in Nat /\ HasSecondary \in BOOLEAN

VARIABLE dns
(* dns.inUse, dns.valid      Flags.bits.DNSInUse, AddressValid             *)
(* dns.sm, dns.socket        smDNS, MySocket                               *)
(* dns.arpTries, dns.tries   vARPAttemptCount, vDNSAttemptCount            *)
(* dns.age                   TickGet() - StartTime                         *)

SmDns == {"START", "ARP_START_RESOLVE", "ARP_RESOLVE", "OPEN_SOCKET", "QUERY",
          "GET_RESULT", "FAIL", "DONE"}

DnsState ==
  [inUse : BOOLEAN, valid : BOOLEAN, sm : SmDns, socket : Socket \cup {Invalid},
   arpTries : 0 .. 3, tries : 0 .. 2, age : Nat]

DnsInit ==
  dns = [inUse |-> FALSE, valid |-> FALSE, sm |-> "DONE", socket |-> Invalid,
         arpTries |-> 0, tries |-> 0, age |-> 0]

\* mutant: the result of the last resolution is not forgotten
DNSResolveKeepingResult(d, literal) ==
  IF literal THEN [d EXCEPT !.valid = TRUE, !.sm = "DONE"]
             ELSE [d EXCEPT !.sm = "START"]

\* A host name that is an IP address needs no server.
DNSResolve(d, literal) ==
  IF literal THEN [d EXCEPT !.valid = TRUE, !.sm = "DONE"]
             ELSE [d EXCEPT !.valid = FALSE, !.sm = "START"]

\* mutant: the socket of a resolution that was given up stays open
DNSEndUsageKeepingSocket(d, pool) ==
  [dns  |-> [d EXCEPT !.socket = Invalid, !.sm = "DONE", !.inUse = FALSE],
   pool |-> pool,
   ok   |-> d.valid]

DNSEndUsage(d, pool) ==
  [dns  |-> [d EXCEPT !.socket = Invalid, !.sm = "DONE", !.inUse = FALSE],
   pool |-> UDPClose(pool, d.socket),
   ok   |-> d.valid]

-----------------------------------------------------------------------------
(* DNSIsResolved: the set of outcomes one call may have.  `host` is what   *)
(* it stores through HostIP, "pending" when it returns FALSE.              *)

Outcome(d, pool, host) == [dns |-> d, pool |-> pool, host |-> host]
Pending(d, pool) == Outcome(d, pool, "pending")

\* DNS_START and DNS_ARP_START_RESOLVE
StartArp(d, pool) ==
  {Pending([d EXCEPT !.sm = "ARP_RESOLVE", !.age = 0,
                     !.arpTries = IF d.sm = "START" THEN 1 ELSE @ + 1,
                     !.tries = IF d.sm = "START" THEN 0 ELSE @],
           pool)}

\* DNS_QUERY: the transmitter may be busy.
SendQuery(d, pool) ==
  {Pending([d EXCEPT !.sm = "QUERY"], pool),
   Pending([d EXCEPT !.sm = "GET_RESULT", !.age = 0], pool)}

\* DNS_OPEN_SOCKET, which falls into DNS_QUERY
OpenAndQuery(d, pool) ==
  LET o == UDPOpenEx(pool, "opened", "address")
  IN IF o.handle = Invalid
     THEN {Pending([d EXCEPT !.sm = "OPEN_SOCKET"], pool)}
     ELSE SendQuery([d EXCEPT !.socket = o.handle], o.pool)

\* DNS_ARP_RESOLVE: the cache has the answer, or not (yet).
AwaitArp(d, pool) ==
  OpenAndQuery(d, pool) \cup
  {Pending(CASE d.age <= DnsPatience -> d
             [] d.age > DnsPatience /\ d.arpTries < 3 ->
                  [d EXCEPT !.sm = "ARP_START_RESOLVE"]
             [] OTHER -> [d EXCEPT !.sm = "FAIL"],
           pool)}

\* DNS_DONE
Result(d) == IF d.valid THEN "address" ELSE "zero"

\* DNS_GET_RESULT: no reply, or one with or without an address record.
AwaitReply(d, pool) ==
  {Pending(IF d.age > DnsPatience THEN [d EXCEPT !.sm = "FAIL"] ELSE d, pool)} \cup
  {LET e == [d EXCEPT !.valid = @ \/ found, !.sm = "DONE", !.socket = Invalid]
   IN Outcome(e, UDPClose(pool, d.socket), Result(e)) : found \in BOOLEAN}

\* DNS_FAIL: the third failure is final, else the servers change places.
Fail(d, pool) ==
  IF d.tries >= 2 THEN {Outcome(d, pool, "zero")}
  ELSE IF HasSecondary
  THEN {Pending([d EXCEPT !.tries = @ + 1, !.arpTries = 0, !.socket = Invalid,
                          !.sm = "ARP_START_RESOLVE"],
                UDPClose(pool, d.socket))}
  ELSE {Pending([d EXCEPT !.tries = @ + 1], pool)}

DNSIsResolved(d, pool) ==
  CASE d.sm \in {"START", "ARP_START_RESOLVE"} -> StartArp(d, pool)
    [] d.sm = "ARP_RESOLVE" -> AwaitArp(d, pool)
    [] d.sm = "OPEN_SOCKET" -> OpenAndQuery(d, pool)
    [] d.sm = "QUERY"       -> SendQuery(d, pool)
    [] d.sm = "GET_RESULT"  -> AwaitReply(d, pool)
    [] d.sm = "DONE"        -> {Outcome(d, pool, Result(d))}
    [] d.sm = "FAIL"        -> Fail(d, pool)

\* A second user is refused; the caller makes sure of it.
DNSBeginUsage(d) == [d EXCEPT !.inUse = TRUE]

=============================================================================
