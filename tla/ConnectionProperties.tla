------------------------ MODULE ConnectionProperties ------------------------
(***************************************************************************)
(* What is required of a connection.                                       *)
(***************************************************************************)
EXTENDS Connection

Closed == wire \in {"closed", "broken"}

ToldToStop ==
  /\ handleStatus.unseen
  /\ handleStatus.value.type \in Terminations

AtLock == {"locking", "sending", "blocked", "flushing"}

\* The mutex of the sink admits each actor once, in order of arrival, and only the
\* actor at its head is sending or closing.  Every path out of a send or of a close,
\* its failures included, releases it.
LockDiscipline ==
  /\ \A i, j \in DOMAIN lockQueue : lockQueue[i] = lockQueue[j] => i = j
  /\ \A a \in Actors : (\E i \in DOMAIN lockQueue : lockQueue[i] = a) <=> pc[a] \in AtLock
  /\ \A a \in Actors : pc[a] \in {"sending", "flushing"} => Holds(a)

\* A connection still running after its ping task ended has a notification to stop
\* waiting for it: the ping task's own, or one that replaced it and says the same.
\* Without it nobody would notice a dead peer any more.
TerminationSignalled ==
  Running /\ pc["ping"] = "done" => ToldToStop

\* While the connection runs, the task that would answer its report is listening
\* and the sink is kept: a report is never sent to nobody.
HandleListens == Running => pc["shared"] = "watching"

\* A reported end, and a handle dropped under a running connection, are answered:
\* the sink is closed (or broken), or a closer that has not given up is on its way
\* there.  The two closers check one flag without excluding each other.
CloseFrameOwed ==
  \/ connectionStatus.value # "Normal"
  \/ Running /\ pc["owner"] \in {"closed", "dropped"}
  =>
  \/ Closed
  \/ pc["shared"] = "watching" /\ connectionStatus.unseen
  \/ \E c \in Closers : pc[c] \in {"checked", "blocked", "flushing"}

\* What makes the two above inductive.  A report is the connection's last act.  The
\* shared task closes only to answer one.  The flag, once stored, has a closer
\* before the frame or the frame behind it, and a closer past the lock has closed.
ReportIsLast ==
  /\ connectionStatus.value # "Normal" => ~Running
  /\ connectionStatus.unseen => connectionStatus.value # "Normal"

ReasonToClose == pc["shared"] \in Closing => connectionStatus.value # "Normal"

FlagMeansClosing ==
  has_sent_close_frame => Closed \/ \E c \in Closers : pc[c] \in {"blocked", "flushing"}

PastTheLock == \A c \in Closers : pc[c] = "closed" => Closed

SignalInv ==
  /\ HandleListens /\ ReportIsLast /\ ReasonToClose
  /\ FlagMeansClosing /\ PastTheLock
  /\ TerminationSignalled /\ CloseFrameOwed

\* The inductive invariant of a connection.
IInv == TypeOK /\ LockDiscipline /\ SignalInv

\* The deadlines in the queue never decrease, so that waiting for the front's alone
\* (construct_pong_deadline) misses none.
DeadlinesOrdered ==
  \A i, j \in DOMAIN ping_queue : i < j => ping_queue[i].left <= ping_queue[j].left

\* The queue of pings holds what the timing allows, however late the tasks are
\* polled: the front ping, one that was on its way when the front was registered,
\* one whose tick was late, and those of the ticks before the front's deadline,
\* which stops any further ping from being registered.
PingQueueBounded ==
  PongTimeout > 0 =>
    Len(ping_queue) <= 3 + (PongTimeout + PingInterval - 2) \div PingInterval

\* What makes it inductive.  Between two ticks pass PingInterval units of time, so the
\* pings behind one in the queue, with those on their way there, are the two that may
\* have been on their way when it was registered and one for each tick since.
Told == handleStatus.unseen /\ handleStatus.value.type = "SendPing"
InFlight == pc["ping"] \in {"locking", "sending", "sent"}

OnTheirWay ==
  (IF interval.due THEN 1 ELSE 0) + (IF InFlight THEN 1 ELSE 0) + (IF Told THEN 1 ELSE 0)

Behind(i) == Len(ping_queue) - i

QueuePaced ==
  \A i \in DOMAIN ping_queue :
    IF ping_queue[i].left > 0
    THEN PingInterval * (Behind(i) + OnTheirWay - 2)
           <= PongTimeout - ping_queue[i].left + interval.left - 1
    ELSE PingInterval * (Behind(i) - 2) <= PongTimeout + PingInterval - 2

\* Once the connection ended and its handle was dropped, nothing keeps the socket:
\* every strong reference to the sink goes, and the tasks end.
SocketReleased ==
  (~Running /\ pc["owner"] = "dropped") ~> (~SinkAlive /\ pc["ping"] = "done")

\* A peer that from some moment on answers no ping is disconnected, whatever else it
\* sends: data that never stops does not keep the loop from the deadline, nor does a
\* ping that is sent before the last one expired.
SilentPeerTerminated == []<><<PeerPong>>_vars \/ <>~Running

\* Who dropped the handle has seen to the close of the sink, if there was one left.
DropCloses ==
  pc["owner"] = "dropped" =>
    Closed \/ ~SinkAlive \/ \E c \in Closers : pc[c] \in {"checked", "blocked", "flushing"}

S == INSTANCE Session WITH
       task <- pc["conn"],
       told <- connectionStatus.value,
       handle <- IF pc["owner"] \in {"idle", "locking", "sending"} THEN "held" ELSE "released",
       frame <- CASE wire = "closed" -> "sent"
                  [] wire = "broken" -> "lost"
                  [] wire \notin {"closed", "broken"} /\ ~SinkAlive -> "abandoned"
                  [] OTHER -> "unsent"

\* The connection implements the session it promises: it reports at most one end,
\* as its last act, its result agrees with the report, and its close frame goes
\* out at most once, after that report or the release of the handle.  The sink is
\* dropped without one only if the end was not reported and the handle still held.
ImplementsSession == S!Spec

\* Dropping the handle ends the connection's task (client_handle.rs:42), even if the
\* ping task overwrites the closer's notification with that of its last ping.
DropEndsConnection == S!ReleaseEnds

\* A reported end is followed by the close of the sink or its loss, and so is the drop
\* of a handle, unless the sink was dropped before it, with an end that was not reported.
ReportAnswered == S!FrameSettles
=============================================================================
