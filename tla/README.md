# EtherGeiger in TLA+

EtherGeiger is the firmware of a Geiger counter with a network: a PIC32MX270
counts pulses, shows them on an LCD, serves a web page, and publishes its
readings to an MQTT broker and to a USB stick. It is one C program without an
operating system: a superloop (`src/code/main.c:135-161`) calls one task function
after another, each task is a state machine that never blocks for long, and a few
interrupt handlers run in between. These modules model the parts of it that are
hard to test on the desk: what happens when the link dies at the wrong moment,
when two tasks want the same resolver, when a queue is full, when an answer never
comes, when an interrupt falls between two reads.

Contents: [the system](#1-the-system) ·
[the modules](#2-the-modules-and-the-code) ·
[the runs](#3-what-is-model-checked) ·
[fairness](#4-fairness) ·
[the proofs](#5-what-is-proved) ·
[disagreements found](#6-where-the-code-and-its-comments-disagree) ·
[what is left out](#7-what-is-not-modelled) ·
[the plan](#8-the-plan)

## 1. The system

`main` initialises the hardware, the settings and the stack (`main.c:71-133`) and
then repeats, for ever: `StackTask` (link, received packets, DHCP, the timers of TCP and
UDP), `StackApplications` (`HTTPServer`, `SNTPClient`, `MQTTTask`), the UART's
lines, the USB host, disk timer and watchdog, the sensor, the user interface, the
LCD queue, the USB logger and the MQTT logger. Interrupts: TMR1 (tick), the RTCC's
one-second alarm, the UART's receiver. There are no threads and no locks.
So there are two kinds of concurrency, and the modules are cut accordingly:

* *between tasks* a step is a whole call of a task; what is hard is the
  order of calls, and state one task keeps over several calls while
  others change what they share with it;
* *between an interrupt and the main loop* a step is one access to a shared
  variable or to a hardware register.

Tasks interact by direct calls, by polling, and through shared state: **one** DNS
module with a flag but no owner, a **pool** of five UDP sockets, **one** TCP client
socket (`TCPIPConfig.h` gives `TCP_PURPOSE_DEFAULT` one TCB), **one** ARP cache
entry, **one** `curHTTP`, **one** page of program flash for all settings, **one**
token for all web pages.

| component | state it keeps | operations | what is hard | what makes it correct |
|---|---|---|---|---|
| MQTT client (`net/MQTT.c`, its use in `main.c`) | `MQTTState`, flags, the transmit ring and its cursors, the packet reader, `MQTTBuffer`, three timers, socket handle | `MQTTTask`; `MQTTBeginUsage`, `MQTTEndUsage`, `MQTTSendData`, `MQTTSubscribe`, ... | link lost in any state; flags that outlive a connection; reader and sender share one buffer; full ring | queue order within a session, nothing sent in a later session, socket and resolver given back on every path, a dead link is noticed |
| TCP client socket, as seen by MQTT (`net/TCP.c`) | state, self-clearing reset flag, FIFOs | `TCPOpen`, `TCPDisconnect`, `TCPIsConnected`, `TCPWasReset`, ... | resets and FINs between two calls | the above; `TcpConnection` implements it |
| TCP engine (`net/TCP.c`) | per socket: state, two FIFOs with their pointers, sequence numbers, one hole, timers and retry counts | `TCPTick`, `HandleTCPSeg`, `SendTCP`, `CloseSocket`, ... | lost, late, repeated, reordered segments; shut windows; a silent remote node | the stream arrives whole and in order, both ways; a dead remote node is noticed |
| UDP sockets (`net/UDP.c`) | pool of five, state per socket | `UDPOpenEx`, `UDPClose`, `UDPTask` | name and ARP resolution inside a socket others close | no leak, no double close |
| DNS (`net/DNS.c`) | in-use flag, state, time-out, server in use, answer | `DNSBeginUsage`, `DNSResolve`, `DNSIsResolved`, `DNSEndUsage` | users that time out; answers of an earlier question | one user at a time, always released, only found addresses used |
| SNTP (`net/SNTP.c`) | state, socket, timer | `SNTPClient` | each stage may time out | starts over for ever, always has its socket |
| DHCP, link (`net/DHCP.c`, `net/StackTsk.c`) | lease state, flags, timers; link flag | `DHCPTask`, `StackTask` | link flaps, lease expiry; lost, late and foreign answers under one transaction number | only granted addresses, none longer than its lease or its link; its socket given back; no wait for ever |
| ARP (`net/ARP.c`; users in `UDP.c`, `TCP.c`) | one cache entry; per socket interval, retries, time of the last request | `ARPResolve`, `ARPIsResolved`, `ARPProcess` | 16-bit clock, one entry for three users, no expiry | a request is repeated when due, never early; nobody takes another's answer |
| HTTP server, pages (`net/HTTP2.c`, `CustomHTTPApp.c`) | state per connection, `curHTTP`, page handlers' state, the token | `HTTPServer`, `HTTPExecutePost`, ... | resets in mid-request, sockets that change hands, requests in pieces; forms of two pages interleaved | each client gets its own answer, whole; no file left open; a form is applied whole, if its token is the last one printed (none since boot: an empty one matches) |
| Configuration (`nvram/`, `config/`, `CustomHTTPApp.c`) | a flash page, the running copies | load at boot, save, restore | power fails inside a save; a restore that takes over the running address | flash holds what was accepted last, but for what a power failure took |
| Tick timer (`net/Tick.c`) | TMR1, `T1IF`, 32-bit counter, scratch copy | `_T1Interrupt`, `GetTickCopy` | roll-over between two reads | no tick lost, copy is one moment |
| Geiger counter (`geiger/geiger.c`, `time/time.c`) | TMR2, sixty slots, `uptime` | RTCC interrupt, `geiger_init`, `cpm`, loggers' gate | interrupt inside the sum and inside its own read-and-clear | no pulse counted twice, loggers report full windows |
| UART console (`uart/uart.c`) | receive ring, `ascii_line` | receive interrupt, `uart_get_str` | interrupt between any two accesses; overflow | strings are the lines received, none twice |
| LCD queue (`lcd/hd44780.c`) | ring of commands and letters, 8-bit indices | `lcd_buf_put`, `lcd_handle` | overflow between the bytes of a command | the screen shows what was written last |
| Keys, backlight (`btn/buttons_i2c.c`, `lcd/display.c`) | debouncer, two times of a wrapping clock | `button_handle`, `handle_ui` | bouncing contacts, clock wrap, 0 as "off" | long presses are long; the light lasts and goes out |
| Calendar (`net/SNTP.c`, `time/time.c`) | the RTCC's registers | set by SNTP, read by loggers | months from 0 in a chip that counts from 1 | how far the timestamp may be off |

Components that are not modelled at all are listed, with reasons, in
[section 7](#7-what-is-not-modelled).

## 2. The modules and the code

Names of states, variables and functions are the source's where TLA+ allows.
An action is one whole handler, one `case` of a task's `switch`, or one way out of
such a case; a call in which the C code only waits is a stuttering step. Timers
are kept as *ages* (`TickGet() - Timer`) that saturate just above the limit they
are compared with, so their state space is finite without cutting behaviours.
`PROJECT.json`'s `map` names the lines behind every definition.

### MQTT: `RingQueue`, `TcpSocket`, `MqttSession`, `MqttClient`

* `RingQueue`: the transmit ring (`MQTTPutMessageInRingBuffer`,
  `MQTTGetMessageFromRingBuffer`) with its head, tail and the "full means throw
  everything away" of `MQTT.c:245`, and `Contents`, the queue it stands for.
* `TcpSocket`: the one client socket through the API's eyes. Segments are left
  out; every state the API distinguishes is there, and so is everything that can
  happen to it behind the client's back: handshake, FIN, reset, keep-alive
  failure, giving up. `wasReset` is `bSocketReset`, which is set by
  `CloseSocket` and cleared by being read.
* `MqttSession`: the promise. A bounded FIFO that exists only while a session
  does; overflow drops the backlog; a new session starts empty.
* `MqttClient`: all states of `MQTTTask`, the packet reader (`RPSMState`) one
  phase per call, `MQTTBuffer[0]` shared by reader and sender (`rx.first` is
  what the buffer says, `rx.sent` what the broker sent), the API, other users of
  the resolver, and the broker, which answers what it is sent and may, if a run
  says so, send packets of its own. A packet is its kind; a message is a kind and
  a body. The refinement is `Session!SSpec` with `online <- bConnected` and
  `queue <- Contents(ring)` while connected.

### Names and sockets: `UdpSockets`, `Dns`, `NameService`

* `UdpSockets`: the pool. Calls nest (`UDPTask` calls `DNSIsResolved`, which
  opens and closes sockets of its own), so operations are functions of the pool.
* `Dns`: the resolver as a function of (pool, module state, outside events);
  the outside (ARP answers or not, a reply comes or not, holds an address or not,
  the transmitter is ready or not) is chosen by the caller.
* `NameService`: `SNTPClient`, `UDPTask`'s two name states per socket,
  `MQTT_BEGIN`/`MQTT_NAME_RESOLVE`, and DHCP's socket, in any order of calls.

### TCP: `TcpConnection`, `TcpReceive`

* `TcpConnection`: one socket from opening to closing, client or server, as
  `HandleTCPSeg`, `SendTCP`, `TCPTick` and the API drive it. Our stream is counted
  in positions; what the remote node sends is reduced to whether a segment is the
  next, old or ahead of order, with any acknowledgement and any window it may have sent
  on this connection, at any time, again and in any order. What we send arrives or is
  lost. A timer that runs may expire at any moment. It refines `TcpSocket`:
  `ImplementsSocket` maps the TCP states to the six a client can tell apart.
* `TcpReceive`: the other half in full: the bytes of the receive ring, the one hole
  the engine can keep track of, what of a segment is new, the FIN behind the data.
  The stream's bytes are their numbers, so a byte out of place is seen at once.

### DHCP and link: `DhcpClient`

`StackTask` as a round of three stages (look at the link, `DHCPTask`, fetch
packets), the client with its renewals, and servers that grant, refuse and let leases
run out. Reading the link state clears the latch that remembers a pulled cable
(`ENC28J60.c:429`), and there are two readers. A datagram is its kind and its
server; all carry the same transaction number, so any may be taken for the answer.

### ARP: `GatewayArp`, `ArpCache`

* `GatewayArp`: the two ARP states `UDPTask` and `TCPTick` share line for line: the
  16-bit time, the C comparison of two `WORD`s promoted to `int`, the doubled interval.
* `ArpCache`: the one entry and its users, each going directly or by the gateway,
  while answers are lost and interfaces are replaced.

### Web server: `HttpServer`

`HTTPServer`'s visits to the connections, `HTTPLoadConn`'s saving and loading of the
one `curHTTP`, `HTTPProcess` state by state, `HTTPSendFile` with its dynamic
variables, authentication, and the form reader of `CustomHTTPApp.c:220-300`. Between
two visits the stack may do anything to a socket: bytes come, acknowledgements come,
the client half-closes, resets, and another takes its place; and the stack sends a FIN of its
own (`StackHangsUp`), 200 ms after the client's (`TCP.c:2413-2423`) or when it has repeated
something often enough (`TCP.c:2650-2666`). A request is a sequence of lines, of bytes and
of pieces of lines.

### Interrupts: `TickTimer`, `GeigerCounter`

* `TickTimer`: TMR1 of `Low` values, the software counter of `High` values, the
  pending flag, and `GetTickCopy` one access at a time (`Tick.c:192-230`).
  The correction for the corner case is compiled for other processors only; it
  is a mutant here.
* `GeigerCounter`: pulses, the one-second interrupt in two steps (read TMR2, then
  clear it), `geiger_init`, `cpm()` slot by slot, and the gate `uptime() > 60`.

### Settings: `ConfigStore`

The flash page as words, erased and programmed one at a time
(`nvram.c`), power failing between any two; boot with its defaults for a blank page;
the pages that set a token, the forms that are checked against it, the restore
that is accepted in one step and carried out in a later one
(`CustomHTTPApp.c:734`). Forms that are refused write nothing and are no action.
The address the device runs on is a part of the state: the lease and the lost link
(`DHCP.c:630`, `StackTsk.c:287`) change it, a form sets it and its fallback together, and
`loadDefaultSettings` takes it over as the fallback (`config.c:22`; the mask likewise, in line 24).
Two history variables say what the page should hold: `accepted`, changed by forms, restores
and the boot of a device whose page is blank, and `lost`, the words that a cut save did not
reach and nobody has set since. A restart changes only `lost`.

### Board: `Console`, `LcdQueue`, `Keys`, `Calendar`

* `Console`: the ring under its interrupt, the reader one access at a time;
  `ascii_line--` is a load and a store with the interrupt between them.
* `LcdQueue`: the queue with its mask and its 8-bit indices, and the controller's
  memory behind it. A page is two rows of letters.
* `Keys`: one key's debouncer and the backlight on a millisecond clock that wraps.
* `Calendar`: what SNTP writes into the RTCC, what the chip makes of it at midnight,
  and what `mktime` makes of what is read back.

Composition: `MqttClient` extends `TcpSocket` and `RingQueue`; `NameService`
extends `Dns`, which extends `UdpSockets`. `MqttClient` sees the resolver as a
variable with three owners; `NameService` has the resolver in full and sees the
MQTT client as the two states that use it. The two overlap on purpose: what
`MqttClient` assumes of the resolver (somebody else may hold it, for any time, even
for ever) is what `NameService` shows can happen. `TcpConnection` stands under
`TcpSocket` in the same way. Modules that share no state with each other are
checked side by side: `MCBoard` and `MCStack` extend several of them, and a variable
`part`, chosen at the start, says which one moves while the others rest in an initial
state. Nothing is lost by this, for no property speaks of two of them; every module
keeps its own specification, which the proofs are about.

## 3. What is model-checked

`MC*` modules only give values to constants a `.cfg` cannot write. Between them
the passing runs fire every action of every module; each property has been seen to fail on a
plausible bug of the code (the definitions marked *mutant* in the modules).

| run | bounds | shows |
|---|---|---|
| `mqtt_firmware` | ring of 3, two bodies, QoS 1, publishing only, every time-out 0 (ping interval 1), at most 2 packets under way | The client as this firmware uses it, with the link dying at any moment. `ResourcesMatchState`: socket and resolver are held exactly in the states that use them. `SessionMatchesState`: no state without exit is entered with the flags that make it one. `OneAckAtATime`: message ids are never compared, and need not be. `ReaderStartsAfresh`: a connection cut in mid-packet leaves nothing to the next. `ImplementsSession`: the queue. `DeadLinkNoticed`: however the link dies its socket is let go of, except in states that only wait for bytes or for room and, after a refusal, in `MQTT_IDLE` (section 6). `TriesAgain`: a closed connection is tried again although the resolver and the socket are shared, unless somebody keeps the resolver or the broker keeps the old connection closing for ever. |
| `mqtt_library` | ring of 3, subscribe and unsubscribe, broker publishes and pings, `MQTTEndUsage` and a second `MQTTBeginUsage`, time-outs 0 | `ImplementsSession` for the whole API of the library. |
| `names` | 3 sockets, a secondary server, time-outs of one tick, fairness | `SocketsAccountedFor`: no socket leaked or closed twice. `OnlyAddressesAreUsed`: nobody connects to an address that was never found. `SntpKeepsTrying`: SNTP starts over for ever. `OnlySntpAbandonsDns`: its own time-out is the *only* way out of a resolution that does not release the resolver. |
| `tcp_connection` | 2 bytes put, FIFOs and segments of 2, windows up to 2, a word of 8 values, one retry of each kind | `TcpInv`: FIFO pointers, sequence number and remote node agree; no byte is freed before it has arrived; the FIN comes last. `DeadPeerNoticed`: a remote node that goes silent is noticed in every state but three that no timer ends. `ImplementsSocket`: a client's socket is a `TcpSocket`. |
| `dhcp` | two servers with leases of 6 s and 1 s, one renewal, a time-out of 1 s, 2 datagrams under way for at most 1 s | `OneSocketForDhcp`; `BoundMeansLeased`: while `DHCPIsBound` the server has not given the address away, if the lease is long enough; `OnlyGrantedAddresses`; `LinkLossEndsLease`: a cable pulled and put back between two looks ends the lease; `NeverWaitsForEver`. |
| `stack`: `gateway` | a word of 24 values, interval 2, doubled twice, every starting time | `RepeatedInTime`: never early; repeated if the interval ends before the clock wraps. |
| `stack`: `arp` | two users, a gateway and a host, one replaced interface each | `NeverToAnotherNode`: no user takes another's answer. `ArpRecovers`: a stale entry is corrected, a user whose answer was overwritten gets its turn. |
| `stack`: `receive` | an 11-byte stream in pieces of up to 5, a ring of 7, sequence numbers of 16 values | `RxInv`: what is read is the stream, the hole is true, the FIN comes last. `StreamGetsThrough`: a remote node that repeats gets everything through. |
| `stack`: `watchdog` | one client that may stop anywhere | `WatchdogWorksAlone`: the watchdog ends a line that is not finished. |
| `board`: `tick` | 4 x 3 ticks | `CopyIsSynchronized`: `GetTickCopy` returns the time of one moment of the call. |
| `board`: `geiger` | 3 slots, a timer of 4, a sum of 4 and an uptime of 5 values, at most 2 pulses a second, at most 1 s between enabling the interrupt and `geiger_init` | `GeigerInv`: no pulse counts twice. `LoggedWindowIsMeasured`: the gate opens on a full window. `CpmIsTheWindow`: `cpm()` returns the window of its call or of its return. |
| `board`: `config` | 4 words, 2 values, a page, a token besides the empty one | `FlashIsAccepted`: after any history of forms, restores, leases and restarts flash holds each setting as last accepted; a power failure inside a save takes the words not reached, no others. `SettingsAreWhole`: the device starts on exactly that. |
| `board`: `console` | ring of 4, a counter of 4 values, 6 characters | `ConsoleInv`: strings are lines, no character comes twice, until an overflow or a lost count. |
| `board`: `lcd` | a buffer of 20 with indices of 10 values, rows of one letter | `LcdInv`: the screen shows the last page; no command is parted from its column. |
| `board`: `keys` | a clock of 12 values, long press 3, backlight 4, two ticks between polls | `LongPressIsHeld`; `BacklightTimed`: the light lasts, and goes out. |
| `board`: `calendar` | 2024 to 2029, at most 30 days without an answer | `CalendarInv`: the timestamp is right when the clock is set, and at most three days off later; with an answer a day only at the ends of some months. |
| `board`: `web` | two clients, three files, a form, FIFOs of 3 and 2 | `AnswerIsTheirs`: each client gets the page it asked for. `AnswerIsWhole`: no part of an answer is thrown away, unless more bytes come after it began or the stack hung up first. `HttpInv`: no file stays open, no form is read for ever if nothing follows it. |

Five more runs (`mqtt_pingback`, `mqtt_lost_link`, `names_leak`,
`gateway_for_ever`, `tcp_fin`) each show a behaviour that contradicts a comment of the source:
section 6.

**Why the bounds are enough.** A ring of three slots holds two messages, so that
head and tail wrap past each other and the ring overflows with two different
bodies in it; a longer ring adds no new relation between the cursors, and the
proofs below are for every length. A time-out of one tick separates "too early",
"due" and "too late"; with 0 it is over at the first tick after it was set, and the tick may come at once.
MQTT's are all 0 but the ping interval, which is longer than the time a ping has to be answered in.
Two packets under way are an answer and one more behind it; the code reads one at a
time. Three UDP sockets are exactly the most that DNS, SNTP and DHCP can hold
together (the firmware has five, so these three alone cannot exhaust it:
`SntpAlwaysHasItsSocket` proves it for three or more, and the mutant that leaks a
socket exhausts the pool). In `TcpConnection` two
bytes are one that is acknowledged and one that is not; its retry counters only count
to "one more" and "the last". In `TcpReceive` a ring of 7 that takes 11 bytes wraps, and has
room for a byte before a hole, the hole, bytes behind it and a second hole, the cases
of `TCP.c:4060-4173`; sequence numbers of 16 values are more than twice a window. In
`DhcpClient` one lease is long enough for `BoundMeansLeased` and one is not; `Divisor`
is 2 for 32. In `LcdQueue` the buffer is larger than its indices' range as
512 is larger than 256. `HttpServer` with two connections has one that is saved while
the other is at hand; more would only be saved too. `GatewayArp` needs a word larger than the largest interval and
starts at every time. For `TickTimer` and `GeigerCounter` the widths only have
to let both halves wrap; 5 is no multiple of the 3 slots, as 2^32 is none of sixty. `Words = 4` is one word for each group of settings the code treats
differently: the password (written by a form of its own), the address (copied to `AppConfig` at
boot), its fallback (which a restore takes from `AppConfig`), the rest. One page may be served, post and
restore in any order, as several tabs could; a second page or token would only add forms that
are refused, and these write nothing.

**Assumption on boot.** `GeigerCounter` takes `BootTicks < 2`: from enabling the RTCC
interrupt to `geiger_init` the firmware needs less than a second. With two
seconds the gate `uptime() > 60` would open one slot early. `LoggersMeasureFullWindows`
shows precisely that this is the assumption the gate rests on.

**Not asserted.** A save cut by a power failure is loaded as it is: only an
entirely blank page is replaced by the defaults. `FlashIsAccepted` and `SettingsAreWhole`
say so with the words `lost`; a save cut before its first word makes the device a new one.
A restore is not a return to the factory's fallback address: `config.c:22` makes it the
address the device has at that moment, which is 0.0.0.0 when a blank page is found at boot.
`BoundMeansLeased` (`~stalled`) leaves out the client whose renewal found no socket or a
busy transmitter (section 6); with `Renewals = 1` TLC does not see a renewal asked for
twice, its proof does.
Pulses between the interrupt's read of TMR2 and its clear are lost;
`CountedOnce` is an upper bound. `tcp_connection` and `tcp_fin` do not look for
deadlocks: a client's socket that is closed, and that nobody opens again, may rest.

## 4. Fairness

Safety runs assume none. The liveness runs assume what the superloop gives:

* `WF` of a task's own steps and of the API call made at boot: the loop calls every
  task for ever, and none of the modelled tasks blocks;
* `WF(Tick)`: the tick timer runs;
* `SF` of the steps that take the resolver (`Begin /\ dns = "free"`,
  `MqttBegins`, `UdpTakesDns`): whoever finds the resolver free gets it, and
  between any two calls of one task every other task is called. If the resolver is
  free again and again it is therefore seen free; `SF` says no more than that;

* `DhcpClient`: `WF(StackTask)` and `SF(Second)`: `StackTask` runs many times in the
  second in which time goes on;
* `TcpConnection`: `WF(TCPTick)`: it is called, and timers that are enabled expire;
* `GatewayArp`, `ArpCache`, `Keys`: `WF` of each task and of time. `ArpCache` adds what
  its liveness needs of others: of the requests of a user that keeps asking not all
  are lost (`SF(ARPProcess)`), and a socket whose packets go astray is closed and opened
  again by its owner, as SNTP's and MQTT's time-outs do;
* `TcpReceive`: the remote node repeats what is not acknowledged and the application
  reads;
* `HttpServer`: `WF(HTTPServer)` and `SF(Expires)`: the loop runs, and time goes on in it.

Nothing is assumed of the broker, the name servers, the DHCP servers, the link or the
other users of the resolver: `TriesAgain` excepts the case that somebody else keeps the
resolver for good (which finding `names_leak` shows possible), and the case that the last
connection goes on closing for ever.

In the latter the MQTT client leans on the remote node more than `TCP.c:918` says ("they
will close themselves after some delay"). `TcpConnection` shows how it comes about, in two
ways. When the remote window is shut and nothing is in
flight, a FIN that waits has no timer (`TCP.c:3058`). And a FIN that comes ahead of
order in `FIN_WAIT_2` stops that state's timer. In both only the remote node can end the
connection; `DeadPeerNoticed` names them (`ShutOut`, `TimerStopped`), with a third,
`SynForEver`, that no broker brings about.

## 5. What is proved

For every value of the constants, under the `ASSUME`s of the modules (types of the
constants and what the code fixes about them). Every safety property that a run checks
is stated by a theorem; three need a hypothesis, which is named below. The proofs are in
eight modules:

| module | proves about |
|---|---|
| `MqttClientProofs` | `RingQueue`, `MqttClient`, its refinement of `MqttSession` |
| `NameServiceProofs` | `UdpSockets`, `Dns`, `NameService` |
| `DhcpClientProofs` | `DhcpClient` |
| `TcpConnectionProofs` | `TcpConnection`, its refinement of `TcpSocket` |
| `StackProofs` | `ArpCache`, `GatewayArp`, `TcpReceive` |
| `HttpServerProofs` | `HttpServer` |
| `BoardProofs` | `TickTimer`, `GeigerCounter`, `ConfigStore`, `Keys`, `Calendar`, `Console`, `LcdQueue`, a section each |
| `Recursion` | induction over the naturals and recursive functions: that they exist, stay in a set, and are unique |

`Recursion` is what the sums and loops below rest on. The library's induction theorems
take an operator as a parameter; `Recursion` derives induction for *sets* from the theorem
that a well-founded relation has minimal elements, and from it that a function defined by
recursion is what its definition says.

**MQTT.** `Invariant` is `Spec => []IInv`, where `IInv` conjoins `TypeOK`,
`ResourcesIfBegunOnce`, `SessionMatchesState` and `NothingQueuedBeforeSession`. The first
three are not enough by themselves: the refinement needs the ring to be empty when a
session starts, which is true only because `MQTT_BEGIN` empties it,
`MQTTPutMessageInRingBuffer` refuses to queue without a session, and every path from
`MQTT_BEGIN` to CONNACK runs through states where `bConnected` is off. From it:
`TypeCorrect`, `ResourcesAlwaysMatch`, `SessionAlwaysMatches`, `ReaderAlwaysStartsAfresh`
(with `Fresh`, that the bytes in the socket before CONNACK are those of an answer to
CONNECT), and `Refinement`: every step is an `Offer`, `TakeUp`, `GoOnline`, `GoOffline` or
a stutter. `PutAppends`, `TakeRemovesHead`, `ClearEmpties` say what the ring's cursor
arithmetic does to the queue it stands for. `ResourcesAlwaysMatch` has the hypothesis
`BeginsAgain = FALSE`, as in the firmware (section 6); the others hold without it.
`OneAckAlways` has the hypothesis `Kinds = {"publish"}`: it is the firmware's use of the
library, and with other kinds the property is false, for acks of different kinds overtake.
Its invariant (`AckInv`) says where the ack that is owed is: the machine takes the next
message up only when `WaitingAck` is clear, and then no PUBACK is under way.

**Names and sockets.** `NameInvariant` says who holds which socket (`Accounts`), what the
resolver's state implies about its flag and socket (`Resolver`), and that a user in a
resolving state is the one the flag is set for (`UsersAsk`, `SntpSockets`). From it
`SocketsAlwaysAccountedFor`, `OneUserOfDnsAlways`, `OnlyAddressesEverUsed`,
`SntpAlwaysHasItsSocket` (which assumes `MaxSockets >= 3`) and the action property
`OnlySntpEverAbandonsDns`.

**DHCP.** `DhcpInvariant` ties the socket to the states of an exchange, the flags to the
state, and `bLastLinkState` to what the latch still has to tell: `OneSocketAlways`,
`LinkLossAlwaysEndsLease`. `LeaseInvariant` adds time. `GrantInv`: what each message under way
says is true of its server, the record holds what the chosen server offered, a bound
client has its server's address. `LeaseInv`: for a lease that `LeaseOutlastsRenewals`, what is
left at the server exceeds what the client still counts by what its renewals take and by the age a
late ACK may have; and in a renewal nothing is under way that could make the client
listen to another server. From them `BoundAlwaysMeansLeased` and
`OnlyGrantedAddressesTaken`. `Divisor > 1` is assumed, for with 1 a client would count no
lease at all (the code has 32).

**TCP.** `StreamIsWhole` is `Spec => []TcpInv`. A call changes the TCB in several steps
and may send several segments, which the remote node takes, or not, at the end. So the proof
has a predicate of a TCB *within* a call (`CallOK`: every segment on its way is well
formed for this FIFO), shows that each operation preserves it, and then that whatever part of
the segments arrives leaves TCB and remote node in agreement (`PeerOK`: what it has is
between tail and head, and its FIN comes after everything). `IInv` adds what holds before the SYN.
`SocketIsImplemented` is the refinement of `TcpSocket`: each call, from the states it can
start in, is a step of that specification or a stutter, the reset flag included.
`StreamIsTrue` (`RxInv` of `TcpReceive`) is inductive as it stands; the work is in the
arithmetic of the ring and of the one hole: which cells a segment, cut to what is
new and what has room, may change.

**ARP.** `NeverMisdirected`: what a user copies is the entry of the address it asked for,
because every look at the cache compares. `NeverEarlyAlways`, the safety half of
`RepeatedInTime`: the time a request shows on the 16-bit clock is never more than has passed,
for wrapping only takes away (`Measured`); so a repetition is never early. That it may never
come is finding `gateway_for_ever`.

**Web server.** `WebInv` says, per connection, what the state of the server implies of the
socket (`SocketOK`), of its client (`ClientOK`) and of the record that is `curHTTP` or
its saved copy (`RecordOK`), and what holds while `HTTPProcess` runs (`Running`):
`HttpTypes`, `AnswerAlwaysWhole`, `AnswerAlwaysTheirs`. Handles: `FilesInv` says which states have a file
and its offsets open, `SumInv` that the handles in use are the sum over the connections,
with a lemma for a sum of which one term changes: `HandlesAlwaysAccountedFor`. Forms: what
is still to come of a request, in the FIFO and from the client, ends within `byteCount`
(`FormInv`), for every client that is `Polite`, that is, sends no more after a header than its
Content-Length: `WebServerAlways`, which is `HttpInv`.

**Board.**
* Tick: the invariant ties scratch copy, pending flag and software counter to the true
  time at each step of `GetTickCopy`; a roll-over while the interrupt is disabled is seen in
  `T1IF`, one outside it in the counter. `TickTypeCorrect`, `NoTickEverLost`,
  `CopySynchronized`.
* Geiger counter: `NoPulseCountedTwice` and `GeigerAlways`;
  `LoggersMeasureFullWindows`, whose invariant (`Filling`) relates the index `i`,
  `uptime` and the slots measured since the timer started, and which needs `BootTicks < 2`;
  `CpmAlwaysTheWindow`: until a tick changes a slot, what is added up is both a part
  of the window as it is (`SoFar`) and of the window as it was (`AsAtCall`); a tick changes a slot
  that is already added up, or one that is not, and leaves one of the two true. The sums are modulo
  `CpmRange`, as the loop adds them.
* Settings: the invariant relates a save in progress (which words are written, which are still
  erased) to the image it came from, and that to what was accepted and not lost (`Kept`):
  `StoreTypeCorrect`, `FlashAlwaysAccepted`, `SettingsAlwaysWhole`.
* Keys: while a key waits for its release the timer has run no longer than the key
  was down, and the backlight's timer tells how long ago the push was (`KeysInv`):
  `LongPressAlwaysHeld`, `BacklightAlwaysLasts`.
* Calendar: `CalendarAlways` has the hypothesis `LastYear <= 159`, the year 2059: from
  2060 on `tm_year` does not fit the register's BCD byte, and the timestamp is wrong. The
  invariant (`CalInv`) keeps the day the clock was set: since then the chip has counted on in
  its own month, or gone over into its next one, and the true date is as many days further on
  as `stale` says. What is left is the arithmetic of month lengths.
* Console: rings of any size are treated once (`AnyRingStores`, `AnyRingAdvances`,
  `AnyRingEmpties`). What waits in the ring is numbered on and on (`InOrder`), until the tail passes
  the head (`overrun`). As long as nothing was thrown away (`upset`), it is the
  rest of the wire (`NothingMissing`), and `ascii_line` is the number of ends of lines in it,
  modulo its width; the reader between its load and its store of `ascii_line` holds that value.
  `ConsoleAlways`.
* Display: a picture that found room waits whole behind other bytes (`Whole`), or a
  part of it is on the screen and the rest of it is all that waits (`Behind`); after an overflow only the end
  of a picture waits, and as `lcd_locate`'s two bytes are put one after the other, either
  both are there, or neither, or the column alone, which is the byte 0 and means nothing (`Paired`): `LcdAlways`.

What a proof attempt has changed in the models: `ChipMayEnd` let no month of thirty days
end on a 31st that SNTP had written, so the calendar stood still; and `LastYear` needed the hypothesis
above. Some definitions were written in another form, so that one can reason about them, with
the same behaviours: `Window` as the loop of `cpm`, `LcdPutAll` as a loop over bytes,
`ended` of `Console` as one sequence of characters, `Interval` of `GatewayArp` as doublings.

Only model-checked: all liveness (`DeadLinkNoticed`, `TriesAgain`, `SntpKeepsTrying`,
`NeverWaitsForEver`, `DeadPeerNoticed`, `ArpRecovers`, `StreamGetsThrough`,
`WatchdogWorksAlone`, the latter halves of `RepeatedInTime` and `BacklightTimed`), which is
beyond the prover. There is no recursive operator in any module; what is recursive is a function.

## 6. Where the code and its comments disagree

Each is a run that ends in a counterexample; the quotes are in `PROJECT.json`.

| run | code | behaviour |
|---|---|---|
| `mqtt_lost_link` | `MQTT.c:580` | `MQTT_CONNECT_ACK` has no time-out and does not look at the socket: if the connection goes before CONNACK, the client waits for ever. |
| `mqtt_pingback` | `MQTT.c:628` | A ping due while a packet is half read overwrites the packet's type in `MQTTBuffer[0]`; the packet is then answered as a PINGREQ. |
| `names_leak` | `SNTP.c:209` | SNTP's time-out closes a socket `UDPTask` is resolving a name for; nobody calls `DNSEndUsage` any more. |
| `gateway_for_ever` | `UDP.c:414`, `TCP.c:2586` | An ARP request sent shortly before the 16-bit clock wraps is never repeated. |
| `tcp_fin` | `TCP.c:3978` | The sequence number does not count the FIN, so a FIN sent with data, or lost behind it, is taken for acknowledged when the data is; it is then not sent again. |

Each has a positive counterpart among the passing properties, which says exactly how
far the trouble goes: `DeadLinkNoticed` names the other states a lost connection
can hang in (those that wait for room in the FIFO, `MQTT.c:645`; `MQTT_IDLE` after a
refusal, because every CONNACK clears the reset flag, `MQTT.c:620`),
`OnlySntpAbandonsDns` says that no other way out forgets the resolver, and
`RepeatedInTime` that a request is repeated whenever its interval ends before
the clock wraps, and `TcpInv` that no data is taken for acknowledged, only the FIN.

More that a reader of the models should know, and that no run is spent on:

* *MQTT.* `MQTT_QUIT` (`MQTT.c:799`) clears `MQTTInUse` although the client goes on
  reconnecting. The firmware calls `MQTTBeginUsage` once, at boot (`BeginsAgain = FALSE`); an
  application that called it again then would restart the machine and leave its
  socket, or the resolver, to nobody. The session and its queue would stand
  (`mqtt_library`, `Refinement`). `WaitingAck` is not
  cleared by a reconnection (`MQTT.c:618`): an acknowledgement the last connection owed
  may be found overdue in the new one, which is then closed and tried again.
* *DHCP.* A refusal by another server during a renewal overwrites `tempIPAddress` with
  0.0.0.0, which the next renewal then names, against the comment near
  `DHCP.c:1105`. A lease is held only a thirty-second short of what was granted, so one of less
  than about 192 s can end at the server while `DHCPIsBound` is still true
  (`LeaseOutlastsRenewals` is the precondition of `BoundMeansLeased`). When no UDP
  socket is free for a renewal the client stays bound until there is one (`stalled`). After a
  refusal or an expiry the address stays in use until another is granted (`DHCP.c:696`).
  A link that `StackTask` never saw up keeps its lease when it flaps.
* *Web server.* The watchdog of `HTTP2.c:735-744` never expires in the body of a form,
  because each visit winds it up again (`HTTP2.c:774-781`). Bytes that follow the body of a
  form in the FIFO make the form's reader loop for ever, with the whole firmware
  (`CustomHTTPApp.c:226`); `HttpInv` says that nothing else does. Bytes that come after an
  answer began are taken for a new request, whose start throws away what of the answer is
  not yet acknowledged (`late` in `AnswerIsWhole`). If the stack has sent its own FIN, because
  the server was not done 200 ms after the client's or because nothing is acknowledged, the server's
  one `TCPDisconnect` (`HTTP2.c:991`) is taken for the second one, which resets the connection
  and throws away what is not yet acknowledged (`TCP.c:926-932`; `hungUp` in `AnswerIsWhole`).
* *Console.* If the interrupt empties a full ring between `uart_getc`'s test and its
  store, the tail passes the head and all stale characters come again (`overrun`). The firmware
  registers no callback, so today nobody reads the console's lines.
* *Backlight.* A push in the one millisecond in which the counter is 0 leaves the light
  on until the next push (`display.c:94`). `DEBOUNCE` is not left when the key is released.
* *Calendar.* SNTP writes months from 0 and years from 1900 into a chip that counts from
  1 and has two digits. Timestamps come out right nevertheless, except after midnight at
  the ends of some months until the next answer; the display shows the month before.
  From 2060 on the year does not fit its BCD byte.

`src/TODO` reports resets with an invalid MQTT password and times of "last
message" without a connection; the models do not claim to explain either.

## 7. What is not modelled

* *Assumptions on the outside.* DHCP: messages carry the server identifier, each server
  has one address of its own to give, no datagram outlives `MaxDelay`. Calendar: the clock
  chip keeps the month 0 and the year 0xC4 it is given, and counts on from them. TCP: remote nodes
  acknowledge only what they have. HTTP: no request is longer than
  what the states of `HTTPProcess` look at.
* *Partly modelled.* TCP: the choice of the socket for a segment, the SYN queue,
  options, checksums, the copying between kinds of RAM, and FIFO adjusting beyond what the
  web server sees of it. UDP: the FIFO and the matching of datagrams.
  The stack task: the dispatch to ARP and TCP. The web server: arguments, cookies,
  redirects, and the firmware's five connections over three sockets. The web
  application: the callbacks that only print. The display: texts and the I2C expander.
  The loggers: their gate only; their periods and the log file need the USB host. MQTT packets
  are their kinds: the truncation of packets of 256 bytes and more and the bodies of
  the callbacks are left out, and so is a `Server` that is NULL (`MQTT.c:422-425`), for the
  firmware's is an array.
* *Pure functions or straight-line I/O*: environment sensor (floating-point
  compensation), I2C, IP/ICMP header processing, helpers, random numbers, delays, the
  Ethernet driver but for its link latch (register level, silicon errata).
* *Read-only or generated*: MPFS2's image; of MPFS2 only the handles are modelled.
* *Vendored, or not built*: FatFs with its code pages, the USB host stack, the SPI flash
  driver, and the network modules that `TCPIPConfig.h` switches off (SSL, FTP, AutoIP,
  ZeroConf, ...). They are a large part of the lines under `src/code`, which is why the
  lines named in `map` are a small share of all: what is modelled is the firmware's own
  logic and the parts of the stack it runs.

## 8. The plan

Done, in this order: MQTT with its abstract session and proofs; names and sockets with
proofs; tick timer; Geiger counter; settings; ARP; TCP, both halves, with the refinement
of `TcpSocket`; DHCP and link; the web server; console, display queue, keys, calendar.

Then the proofs of section 5, component by component, until every safety property of the
passing runs had one.

Left, most useful first:

1. **Proofs**: what each run's liveness rests on, as far as it is safety: that
   `DhcpClient` is never in a state without an exit, and that each state of `TcpConnection` but the three
   exceptions has a timer that runs. A refinement of `GatewayArp` and `ArpCache` together.
2. **Several TCP sockets**: the choice of the socket for a segment, the SYN queue and
   the sharing of three server sockets by five connections.
3. **Loggers**: the periods of the USB and MQTT loggers over a wrapping `uptime`, and
   what happens when the stick is pulled between two calls.
