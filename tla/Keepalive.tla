----------------------------- MODULE Keepalive -----------------------------
(***************************************************************************)
(* Pings and pongs on a server that keeps up with its timers.  Connection  *)
(* lets time pass at any moment; here it waits for what the server has to  *)
(* do by then, and "silence" counts how long the peer has answered no      *)
(* ping.                                                                   *)
(***************************************************************************)
EXTENDS ConnectionProperties

VARIABLE silence  \* time since the peer's last pong, while the connection runs (history)

keepaliveVars == <<vars, silence>>

KeepaliveInit == Init /\ silence = 0

PongUnread == \E i \in DOMAIN inbox : inbox[i].kind = "pong"

\* A deadline and a notification to stop are dealt with when they come, a ping is sent
\* and registered before the next tick of the interval, and what the peer sent before
\* a deadline was read by then.
TimelyTick ==
  /\ Tick
  /\ Running =>
       /\ ~FrontDue /\ ~ToldToStop
       /\ interval.left = 1 => OnTheirWay = 0
       /\ FrontDue' => ~PongUnread
  /\ silence' = IF Running THEN silence + 1 ELSE 0

\* A pong that arrives between a deadline and its handling is late.
TimelyPong == PeerPong /\ ~FrontDue /\ silence' = 0

OtherStep ==
  /\ \/ ServerStep \/ Finished
     \/ OwnerSend \/ OwnerDrop \/ PeerSend \/ WireBreaks \/ Cancel \/ ReceiverDrop
  /\ silence' = IF Running' THEN silence ELSE 0

TimelyNext == OtherStep \/ TimelyPong \/ TimelyTick

TimelySpec == KeepaliveInit /\ [][TimelyNext]_keepaliveVars

-----------------------------------------------------------------------------
PayloadsOf(s) == [i \in DOMAIN s |-> s[i].payload]

\* The pings sent whose pong the connection waits for, or will once it reads of them.
Awaited ==
  PayloadsOf(ping_queue)
    \o (IF Told THEN <<handleStatus.value.payload>> ELSE <<>>)
    \o (IF pc["ping"] = "sent" THEN <<payload>> ELSE <<>>)

\* The pongs read, arriving and still to come, among other items that carry nothing.
Coming ==
  pong_payload_queue \o PayloadsOf(inbox) \o unanswered

\* The pongs of a peer that answers in order are pongs of awaited pings, in the order
\* of those: taking the front of both queues compares a pong with the ping it answers.
\* Only the notification of a close makes the connection forget a ping.
PongsMatchPings ==
  Running /\ ~(ToldToStop /\ has_sent_close_frame) =>
    \A i, j \in DOMAIN Coming :
      i <= j /\ Coming[i] # NoPayload /\ Coming[j] # NoPayload =>
        \E m, n \in DOMAIN Awaited :
          /\ m <= n /\ (m = n <=> i = j)
          /\ Coming[i] = Awaited[m] /\ Coming[j] = Awaited[n]

PongArrived(p) ==
  \/ \E i \in DOMAIN pong_payload_queue : pong_payload_queue[i] = p
  \/ \E i \in DOMAIN inbox : inbox[i].payload = p

\* A pong that arrived in time saves the connection: it is terminated for a missed
\* pong only if the pong that the front ping waits for was neither read nor waiting
\* to be read.
OnlyUnresponsiveTerminated ==
  [][connectionStatus' # connectionStatus
       /\ connectionStatus'.value = "ConnectionTerminated"
     => ~PongArrived(Head(ping_queue).payload)]_vars

\* The notification of a ping is read before the next one replaces it: a ping that
\* was sent is a ping whose pong is awaited.
NoPingForgotten ==
  [][Told
     => \/ ~handleStatus'.unseen
        \/ handleStatus' = handleStatus
        \/ handleStatus'.value.type # "SendPing"]_vars

\* A peer that answers no ping is disconnected before two intervals and a timeout have
\* passed since its last pong, whatever else it sends: the ping after that pong is sent
\* within an interval, registered within another, and not answered by any pong that
\* is still to be read.
SilenceBounded == Running => silence < 2 * PingInterval + PongTimeout

\* Pongs do not pile up: those that were read are pongs of pings in the queue, one each,
\* but for that of a ping the connection has still to hear of.
PongQueueBounded == Running => Len(pong_payload_queue) <= Len(ping_queue) + 1
-----------------------------------------------------------------------------
(* What makes these inductive, on top of IInv and DeadlinesOrdered. *)

\* One ping at most is between its tick and its registration.
OneOnItsWay == Running => OnTheirWay <= 1

\* A closer past the flag has stored it.
FlagStored ==
  \A c \in Closers : pc[c] \in {"blocked", "flushing", "closed"} => has_sent_close_frame

EndedEmpty == ~Running => pong_payload_queue = <<>> /\ inbox = <<>>

KeepaliveInv == IInv /\ OneOnItsWay /\ FlagStored /\ EndedEmpty

DeadlineRead == Running /\ FrontDue => ~PongUnread

\* Pings are told apart; the pongs before that of a ping are those of pings before it;
\* every pong is that of a ping.
Distinct(pings) == \A m, n \in DOMAIN pings : pings[m] = pings[n] => m = n

InOrder(pongs, pings) ==
  \A i, j \in DOMAIN pongs, n \in DOMAIN pings :
    /\ i < j
    /\ pongs[i] # NoPayload
    /\ pongs[j] # NoPayload
    /\ pongs[j] = pings[n]
    => \E m \in DOMAIN pings : m < n /\ pongs[i] = pings[m]

Covered(pongs, pings) ==
  \A i \in DOMAIN pongs :
    pongs[i] # NoPayload => \E m \in DOMAIN pings : pongs[i] = pings[m]

Occurs(p, s) == \E i \in DOMAIN s : s[i] = p

\* The notification of a close replaced that of a ping, and no ping can follow it.
StopNotified == ToldToStop /\ has_sent_close_frame /\ Closed /\ pc["ping"] \notin {"sending", "sent"}

Matching ==
  Running =>
    /\ Distinct(Awaited)
    /\ InOrder(Coming, Awaited)
    /\ Covered(Coming, Awaited) \/ StopNotified

\* A ping on its way to the peer is none of those known to either side.
PingFresh ==
  Running /\ pc["ping"] \in {"locking", "sending"}
    => ~Occurs(payload, Awaited) /\ ~Occurs(payload, Coming)

\* A ping that no pong read or to be read answers is awaited, or on its way, or will be
\* from the next tick on: in time for the bound.
Unanswered ==
  \/ interval.due
  \/ InFlight /\ ~PongArrived(payload)
  \/ Told /\ ~PongArrived(handleStatus.value.payload)

Limit == 2 * PingInterval + PongTimeout - 1

SilencePaced ==
  Running /\ pc["ping"] # "done" =>
    \/ \E i \in DOMAIN ping_queue :
         ~PongArrived(ping_queue[i].payload) /\ silence + ping_queue[i].left <= Limit
    \/ Unanswered /\ silence + (interval.left - 1) + PongTimeout <= Limit
    \/ silence + (interval.left - 1) + PingInterval + PongTimeout <= Limit
    \/ StopNotified
=============================================================================
