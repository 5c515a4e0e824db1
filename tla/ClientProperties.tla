-------------------------- MODULE ClientProperties --------------------------
(***************************************************************************)
(* What is required of a Client and its ClientHandle.                      *)
(***************************************************************************)
EXTENDS Client

\* What the application gets is what the connection received, in order and once, up
\* to the first item that is no model.  A Client that ended by itself kept nothing
\* back, even if the connection ended long before it.
Delivery ==
  /\ client \in {"new", "running"} => received = delivered \o incoming
  /\ client = "ok" /\ ~stopped => received = delivered
  /\ client = "error" =>
       /\ Len(delivered) < Len(received)
       /\ received[Len(delivered) + 1] = IllFormed
       /\ \A i \in 1 .. Len(delivered) : received[i] = delivered[i]

\* A model is sent to the peer with the connection's handle in place: neither close()
\* nor the reactor takes it from under a send, and whoever drops it keeps the others
\* out until the sink is closed.
InnerLock ==
  /\ app = "sending" => inner
  /\ app \in AppWithLock => holder = "app"
  /\ reactor = "dropping" => holder = "reactor"
  /\ holder = "app" => app \in AppWaiting \cup AppWithLock
  /\ holder = "reactor" => reactor \in {"locking", "dropping"}
  /\ app \in AppWaiting \/ reactor = "locking" => holder # "nobody"

\* The connection's handle is owned by the Client, then by the mutex, then by nobody,
\* and a mutex nobody can reach any more holds none: it is never leaked, whoever of
\* the application and the reactor lets go last.
HandleAccounted ==
  /\ handle = "held" <=> inner
  /\ inner => client = "new" \/ HandleOwned \/ reactor = "locking"

\* An ill-formed model is never forgotten: the connection's handle was dropped, or the
\* reactor is on its way to it, or the notification waits for the reactor.
ErrorHeard ==
  client = "error" =>
    \/ handle = "released"
    \/ reactor = "locking"
    \/ reactor = "watching" /\ clientStatus.unseen

\* What makes these inductive: the application holds a Client or a ClientHandle, and
\* the reactor watches, having seen everything, as long as the Client runs; nobody
\* drops what is still in the mutex.
Phases ==
  /\ client = "new" <=> app = "new"
  /\ client = "new" => reactor = "none" /\ ~clientStatus.unseen
  /\ reactor = "dropping" => ~inner
  /\ client = "running" => reactor = "watching" /\ ~clientStatus.unseen

\* The inductive invariant of a Client.
IInv == TypeOK /\ Phases /\ InnerLock /\ HandleAccounted /\ ErrorHeard /\ Delivery

\* After an ill-formed model the connection's handle is dropped, even if a send was
\* in progress or the application goes on sending.
ErrorReleases == (client = "error") ~> (handle = "released")

\* A Client whose connection is over ends.
EndHeard == (task # "running" /\ client # "new") ~> (client \in {"ok", "error"})

\* Once the Client is over and the ClientHandle dropped, the connection ends, its
\* close frame is settled and the reactor is gone.
AllReleased ==
  (~ReceiverOpen /\ ~HandleOwned)
    ~> (task # "running" /\ frame # "unsent" /\ reactor \in {"none", "done"})

\* "The server gracefully terminates the connection to the peer" (client/error.rs:8):
\* the peer gets a close frame, unless the wire breaks.
ErrorIsGraceful == (client = "error") ~> (frame \in {"sent", "lost"})
=============================================================================
