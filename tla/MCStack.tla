------------------------------- MODULE MCStack -------------------------------
(***************************************************************************)
(* Small instances of GatewayArp, ArpCache, TcpReceive and HttpServer for  *)
(* TLC, side by side: a behaviour is one of one of them, which `part'      *)
(* names, while the others rest in an initial state.  The web server is    *)
(* here with one client and its watchdog; MCBoard has it with two.         *)
(***************************************************************************)
EXTENDS GatewayArp, ArpCache, TcpReceive, HttpServer, TLC

CONSTANTS u1, u2, gw, host, far

MCRemote == u1 :> far @@ u2 :> host

(* One client, which may send a form or stay silent within a line *)

Get(page) == [kind |-> "request", method |-> "GET", page |-> page, overlong |-> "nothing"]
Header(kind) == [kind |-> kind]

MCScript == [c \in {1} |-> {
  <<Header("part"), Get("index"), [kind |-> "password", right |-> TRUE], Header("end")>>,
  <<[Get("index") EXCEPT !.method = "POST"], [kind |-> "length", n |-> 1], Header("end"), Header("byte")>>}]

MCContent == "index" :> <<"text", "var">>

VARIABLE part

stackvars == <<part, gatewayvars, arpvars, rxvars, httpvars>>

StackInit ==
  /\ part \in {"gateway", "arp", "receive", "watchdog"}
  /\ GatewayInit /\ (part # "gateway" => now = 0)
  /\ ArpInit /\ RxInit /\ HttpInit

OfGateway(A) == part = "gateway" /\ A /\ UNCHANGED <<part, arpvars, rxvars, httpvars>>
OfArp(A) == part = "arp" /\ A /\ UNCHANGED <<part, gatewayvars, rxvars, httpvars>>
OfReceive(A) == part = "receive" /\ A /\ UNCHANGED <<part, gatewayvars, arpvars, httpvars>>
OfHttp(A) == part = "watchdog" /\ A /\ UNCHANGED <<part, gatewayvars, arpvars, rxvars>>

\* Only the stream of TcpReceive comes to an end.
StreamIsOver == part = "receive" /\ finReceived /\ taken = StreamLength /\ UNCHANGED stackvars

StackNext == OfGateway(GatewayNext) \/ OfArp(ArpNext) \/ OfReceive(RxNext) \/ StreamIsOver
  \/ OfHttp(HttpNext)

\* GatewayFairness, ArpFairness, RxFairness and HttpFairness
StackFairness ==
  /\ WF_stackvars(OfGateway(Task)) /\ WF_stackvars(OfGateway(ClockTicks))
  /\ \A u \in User : WF_stackvars(OfArp(Connects(u))) /\ WF_stackvars(OfArp(Astray(u) /\ Close(u)))
  /\ \A u \in User : WF_stackvars(OfArp(Open(u)))
  /\ \A m \in Answered : SF_stackvars(OfArp(ARPProcess(m)))
  /\ WF_stackvars(OfReceive(Resends)) /\ WF_stackvars(OfReceive(Takes))
  /\ WF_stackvars(OfHttp(HTTPServer)) /\ SF_stackvars(OfHttp(Expires(1)))

StackSpec == StackInit /\ [][StackNext]_stackvars /\ StackFairness

(***************************************************************************)
(* WatchdogWorks: a connection on which nothing more arrives does not stay *)
(* in the middle of a line; of those behaviours that are of the web server.*)
(***************************************************************************)
WatchdogWorksAlone == part = "watchdog" => WatchdogWorks

=============================================================================
