----------------------------- MODULE MqttSession -----------------------------
(***************************************************************************)
(* What the MQTT client promises the application, without sockets, timers, *)
(* packets or cursors: while a session with the broker is on line it keeps *)
(* a bounded FIFO of the messages handed to it and takes them up one at a  *)
(* time, in order and once each.  A message offered with no session is     *)
(* dropped, an overflow drops the backlog, and a new session starts with   *)
(* nothing queued: no message is sent in a session it was not queued in.   *)
(***************************************************************************)
EXTENDS Naturals, Sequences

CONSTANTS Message,     \* what the application can queue
          RingSize     \* one more than the backlog's bound

VARIABLES online,      \* the broker has accepted us and we have not let go
          queue,       \* messages queued in this session and not taken up
          current      \* the message last taken up for sending

svars == <<online, queue, current>>

SInit == /\ online = FALSE
         /\ queue = << >>
         /\ current \in Message

Offer(m) ==
  /\ queue' = IF Len(queue) = RingSize - 1 THEN << >> ELSE Append(queue, m)
  /\ online
  /\ UNCHANGED <<online, current>>

TakeUp ==
  /\ online
  /\ queue # << >>
  /\ current' = Head(queue)
  /\ queue' = Tail(queue)
  /\ UNCHANGED online

GoOnline ==
  /\ ~online
  /\ online' = TRUE
  /\ queue' = << >>
  /\ UNCHANGED current

GoOffline ==
  /\ online
  /\ online' = FALSE
  /\ queue' = << >>
  /\ UNCHANGED current

SNext == (\E m \in Message : Offer(m)) \/ TakeUp \/ GoOnline \/ GoOffline

SSpec == SInit /\ [][SNext]_svars

=============================================================================
