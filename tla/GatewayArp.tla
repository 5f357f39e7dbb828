----------------------------- MODULE GatewayArp -----------------------------
(***************************************************************************)
(* How a client socket obtains the MAC address of its peer or gateway      *)
(* before it opens: UDPTask's UDP_GATEWAY_SEND_ARP and UDP_GATEWAY_GET_ARP,*)
(* and the same two states of TCPTick.  The time of the last request is 16 *)
(* bits of the tick counter, and the difference of two WORDs is an int.    *)
(***************************************************************************)
EXTENDS Integers

CONSTANTS WordRange,      \* values of a WORD: 65536
          FirstInterval,  \* (TICK_SECOND/4)/256
          MaxRetries      \* the interval is doubled so many times: 6

\* The interval after so many retries, doubled by each.
Interval ==
  LET after[k \in 0 .. MaxRetries] == IF k = 0 THEN FirstInterval ELSE 2 * after[k - 1]
  IN after

ASSUME ArpAssumption ==
  /\ WordRange \in Nat /\ MaxRetries \in Nat /\ FirstInterval \in Nat \ {0}
  /\ Interval[MaxRetries] < WordRange

VARIABLES
  now,                       \* (WORD)TickGetDiv256()
  smState, eventTime, retryInterval, retryCount,
  cached,                    \* ARPIsResolved finds the peer
  polled,                    \* the task ran since the time last changed
  elapsed                    \* history: time since the last request

gatewaySocket == <<smState, eventTime, retryInterval, retryCount>>
gatewayvars == <<now, gatewaySocket, cached, polled, elapsed>>

ElapsedBound == 2 * WordRange  \* bound of the history variable

GatewayInit ==
  /\ now \in 0 .. WordRange - 1
  /\ smState = "SEND_ARP" /\ eventTime = 0
  /\ retryInterval = FirstInterval /\ retryCount = 0
  /\ cached = FALSE /\ polled = FALSE /\ elapsed = 0

-----------------------------------------------------------------------------
(* Time passes no faster than the main loop calls the task. *)

ClockTicks ==
  /\ polled /\ polled' = FALSE
  /\ now' = (now + 1) % WordRange
  /\ elapsed' = IF elapsed < ElapsedBound THEN elapsed + 1 ELSE elapsed
  /\ UNCHANGED <<gatewaySocket, cached>>

\* ARPProcess fills the cache with the answer, or overwrites it with another.
ArpCacheChanges ==
  /\ cached' = ~cached
  /\ UNCHANGED <<now, gatewaySocket, polled, elapsed>>

-----------------------------------------------------------------------------
(* The task *)

SendArp ==
  /\ smState = "SEND_ARP" /\ smState' = "GET_ARP"
  /\ eventTime' = now /\ elapsed' = 0 /\ polled' = TRUE
  /\ UNCHANGED <<now, retryInterval, retryCount, cached>>

Resolved ==
  /\ smState = "GET_ARP" /\ cached
  /\ smState' = "OPENED" /\ polled' = TRUE
  /\ UNCHANGED <<now, eventTime, retryInterval, retryCount, cached, elapsed>>

TimedOut == now - eventTime > retryInterval

\* mutant: waiting starts anew with every poll
WaitAnew ==
  /\ smState = "GET_ARP" /\ ~cached /\ ~TimedOut
  /\ eventTime' = now /\ polled' = TRUE
  /\ UNCHANGED <<now, smState, retryInterval, retryCount, cached, elapsed>>

Wait ==
  /\ smState = "GET_ARP" /\ ~cached /\ ~TimedOut
  /\ polled' = TRUE
  /\ UNCHANGED <<now, gatewaySocket, cached, elapsed>>

TimeOut ==
  /\ smState = "GET_ARP" /\ ~cached /\ TimedOut
  /\ IF retryCount < MaxRetries
     THEN retryCount' = retryCount + 1 /\ retryInterval' = 2 * retryInterval
     ELSE UNCHANGED <<retryCount, retryInterval>>
  /\ smState' = "SEND_ARP" /\ polled' = TRUE
  /\ UNCHANGED <<now, eventTime, cached, elapsed>>

\* The socket is used and closed by its owner, and opened again later.
Reopen ==
  /\ smState = "OPENED" /\ smState' = "SEND_ARP"
  /\ retryInterval' = FirstInterval /\ retryCount' = 0 /\ polled' = TRUE
  /\ UNCHANGED <<now, eventTime, cached, elapsed>>

\* UDPTask passes an open socket by.
PassBy ==
  /\ smState = "OPENED" /\ polled' = TRUE
  /\ UNCHANGED <<now, gatewaySocket, cached, elapsed>>

Task == SendArp \/ Resolved \/ Wait \/ TimeOut \/ PassBy

GatewayNext == ClockTicks \/ ArpCacheChanges \/ Task \/ Reopen

\* The main loop calls the task for ever, and time goes on.
GatewayFairness == WF_gatewayvars(Task) /\ WF_gatewayvars(ClockTicks)

GatewaySpec == GatewayInit /\ [][GatewayNext]_gatewayvars /\ GatewayFairness

-----------------------------------------------------------------------------
(* Properties *)

GatewayTypeOK ==
  /\ now \in 0 .. WordRange - 1 /\ eventTime \in 0 .. WordRange - 1
  /\ smState \in {"SEND_ARP", "GET_ARP", "OPENED"}
  /\ retryCount \in 0 .. MaxRetries
  /\ retryInterval = Interval[retryCount]
  /\ cached \in BOOLEAN /\ polled \in BOOLEAN /\ elapsed \in 0 .. ElapsedBound

(***************************************************************************)
(* However the 16-bit clock wraps, a request is never repeated before the  *)
(* interval has really passed since the last one.                          *)
(***************************************************************************)
NeverEarly == [][TimeOut => elapsed > retryInterval]_gatewayvars

(***************************************************************************)
(* A request that is not answered is repeated, if its interval ends before *)
(* the clock wraps.                                                        *)
(***************************************************************************)
RepeatedBeforeTheWrap ==
  smState = "GET_ARP" /\ eventTime + retryInterval < WordRange - 1
    ~> smState # "GET_ARP" \/ cached

(***************************************************************************)
(* A request that is not answered is repeated when its interval has passed,*)
(* not before, and its interval is doubled up to MaxRetries times; unless  *)
(* the interval ends where the clock wraps.                                *)
(***************************************************************************)
RepeatedInTime == []GatewayTypeOK /\ NeverEarly /\ RepeatedBeforeTheWrap

(***************************************************************************)
(* UDP.c:411-413 and TCP.c:2583-2585: "this will continuously send out ARP *)
(* requests for an infinite time if the Gateway never responds".           *)
(***************************************************************************)
RepeatedForEver ==
  smState = "GET_ARP" ~> smState # "GET_ARP" \/ cached

=============================================================================
