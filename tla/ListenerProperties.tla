------------------------- MODULE ListenerProperties -------------------------
(***************************************************************************)
(* What is required of a Listener.                                         *)
(***************************************************************************)
EXTENDS Listener

\* Every client has one owner until it is dropped: the task of its handshake, the
\* channel, where it is once, or the application.  A client nobody owns has let go of
\* its connection: none is lost with a refused hand-over, a refusing callback or the
\* end of the loop.
ClientsOwned ==
  /\ \A p \in Peers : peer[p] \in Connected =>
       (session[p].handle = "held" <=> peer[p] \in Owned)
  /\ \A p \in Peers : peer[p] = "queued" <=>
       \E i \in DOMAIN client_receiver : client_receiver[i] = p
  /\ \A i, j \in DOMAIN client_receiver : client_receiver[i] = client_receiver[j] => i = j

\* What the next property rests on: without a socket there is no backlog.
BacklogClosed == ~Bound => \A p \in Peers : peer[p] # "waiting"

\* The inductive invariant of a Listener.
IInv == TypeOK /\ ClientsOwned /\ BacklogClosed

\* A Listener that is over "stops listening on the configured socket and unbinds
\* itself" (listener/error.rs:28): no peer is left in its backlog, and none is taken,
\* queued or delivered any more, not even one whose handshake ends later.
OverForGood ==
  [][Over => \A p \in Peers :
       /\ peer[p] # "waiting"
       /\ peer'[p] # peer[p] => peer'[p] \in {"failed", "made", "dropped"}]_vars

-----------------------------------------------------------------------------
\* A peer in the backlog is accepted, or told that nobody listens, even if those
\* before it never finish their handshakes.
BacklogServed ==
  \A p \in Peers : (listener = "running" /\ peer[p] = "waiting") ~> (peer[p] # "waiting")

\* A client made is a client delivered, unless the Listener is over: neither the end
\* of its connection nor its cancellation takes it out of the channel before.
ClientsSettled ==
  \A p \in Peers :
    (peer[p] = "made") ~> (peer[p] = "delivered" \/ (Over /\ peer[p] = "dropped"))

\* A client the application does not take is dropped and its connection ends, also when
\* the handshake outlived the Listener.  The drop closes the sink it finds, so that the
\* peer gets its close frame, if the wire holds; a connection that ended before, untold,
\* as one that was cancelled, may have dropped its sink without a frame by then.
UndeliveredClosed ==
  \A p \in Peers :
    /\ (Over /\ peer[p] \in Connected \ {"delivered"})
         ~> (peer[p] = "dropped" /\ session[p].task # "running" /\ session[p].frame # "unsent")
    /\ (peer[p] = "dropped" /\ session[p].frame = "unsent")
         ~> (session[p].frame \in {"sent", "lost"})

\* The token given to bind() "sends a termination signal to all clients spawned from
\* this listener" (listener/mod.rs:45): those that wait to be delivered and those
\* whose handshake ends afterwards as well.
ClientsCancelled ==
  \A p \in Peers :
    ("clients" \in cancelled /\ peer[p] \in Connected) ~> (session[p].task # "running")

\* An application that refuses clients is noticed with the next one: the Listener ends.
RefusalEnds ==
  (refusing /\ client_receiver # <<>>) ~> Over

\* The token given to bind() "cancels the listener, unbinding it from the socket"
\* (listener/mod.rs:45).
BindTokenEndsListener ==
  (listener = "running" /\ "clients" \in cancelled) ~> Over
=============================================================================
