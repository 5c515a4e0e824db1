------------------------------ MODULE Listener ------------------------------
(***************************************************************************)
(* The listener: it binds to a socket and accepts peers, has the handshake *)
(* of each done in a task of its own, and hands the clients that come out  *)
(* of them to the callback of the application.  The connection of a peer   *)
(* is its Session.                                                         *)
(*                                                                         *)
(*   the loop     the cancellable task that runs Listener::run             *)
(*   handshakes   one task for each accepted peer, with neither a timeout  *)
(*                nor a token                                              *)
(*   application  binds, spawns, refuses or drops clients, and cancels the *)
(*                token of the clients (bind's), that of the loop          *)
(*                (spawn's), or both                                       *)
(*                                                                         *)
(* An operator X_Y is a wrong version of the X defined after it, used only *)
(* to test the properties.                                                 *)
(***************************************************************************)
EXTENDS Sequences

CONSTANTS
  Peers,    \* those that may connect
  Reports   \* what a connection may tell its handle when it ends by itself

ASSUME ReportsAssumption ==
  Reports \subseteq {"ClientSentIllegalData", "Unknown", "ClientClosedNormally",
                     "ClientClosedWithoutHandshake", "ConnectionTerminated"}

VARIABLES
  listener,         \* where the Listener is, or how it ended
  peer,             \* how far each peer has got
  session,          \* the connection of each peer, from the stage "made" on
  client_receiver,  \* clients handed over and not taken by the loop yet
  cancelled,        \* the tokens that were cancelled
  refusing          \* the callback of the application fails from now on

vars == <<listener, peer, session, client_receiver, cancelled, refusing>>
outsideVars == <<cancelled, refusing>>

Conn(p) == INSTANCE Session WITH
             task <- session[p].task,
             told <- session[p].told,
             handle <- session[p].handle,
             frame <- session[p].frame

-----------------------------------------------------------------------------
Tokens == {"clients", "listener"}

ListenerErrors == {"SocketConfiguration", "BindingError", "AcceptConnection"}
Bound == listener \in {"bound", "running"}
Over == listener \in {"ok", "dropped"} \cup ListenerErrors

\* "waiting" in the backlog of the socket; "shaking" in the handshake; "made" is a
\* client in the hands of its handshake's task.
Stages == {"away", "waiting", "refused", "shaking", "failed", "made", "queued",
           "delivered", "dropped"}

\* The stages at which somebody owns the client, and those with a connection.
Owned == {"made", "queued", "delivered"}
Connected == Owned \cup {"dropped"}

Sessions ==
  [task : {"running", "ok", "error"},
   told : {"Normal"} \cup Reports,
   handle : {"held", "released"},
   frame : {"unsent", "sent", "lost", "abandoned"}]

NewSession == [task |-> "running", told |-> "Normal", handle |-> "held", frame |-> "unsent"]

TypeOK ==
  /\ listener \in {"new", "bound", "running", "ok", "dropped"} \cup ListenerErrors
  /\ peer \in [Peers -> Stages]
  /\ session \in [Peers -> Sessions]
  /\ \A p \in Peers : peer[p] \notin Connected => session[p] = NewSession
  /\ client_receiver \in Seq(Peers)
  /\ cancelled \in SUBSET Tokens
  /\ refusing \in BOOLEAN

Init ==
  /\ listener = "new"
  /\ peer = [p \in Peers |-> "away"]
  /\ session = [p \in Peers |-> NewSession]
  /\ client_receiver = <<>>
  /\ cancelled = {}
  /\ refusing = FALSE

-----------------------------------------------------------------------------
Move(p, stage) == peer' = [peer EXCEPT ![p] = stage]

\* A Client is dropped, and its connection's handle with it.
Drop_Forgotten(p) == Move(p, "dropped") /\ session' = session
Drop(p) == Move(p, "dropped") /\ session' = [session EXCEPT ![p].handle = "released"]

\* The Listener goes: the socket is closed under the peers of its backlog, and the
\* channel to the clients that are still to come.
Unbind_Never(peers) == peers
Unbind(peers) == [p \in Peers |-> IF peers[p] = "waiting" THEN "refused" ELSE peers[p]]

EndListener(result) == listener' = result /\ peer' = Unbind(peer)

-----------------------------------------------------------------------------
(* Before the loop. *)

Bind ==
  /\ listener = "new"
  /\ listener' \in {"bound", "SocketConfiguration", "BindingError"}
  /\ UNCHANGED <<peer, session, client_receiver, outsideVars>>

Spawn ==
  /\ listener = "bound"
  /\ listener' = "running"
  /\ UNCHANGED <<peer, session, client_receiver, outsideVars>>

Discard ==
  /\ listener = "bound"
  /\ EndListener("dropped")
  /\ UNCHANGED <<session, client_receiver, outsideVars>>

-----------------------------------------------------------------------------
(* The loop: the turns of run(), whose select! takes either arm that is ready. *)

Waiting(p) == listener = "running" /\ peer[p] = "waiting"

\* Nothing is awaited between accept() and the start of the handshake's task: a peer
\* is not lost to a cancellation of the loop.
Accept_OneByOne(p) ==
  /\ Waiting(p)
  /\ \A q \in Peers : peer[q] # "shaking"
  /\ Move(p, "shaking")
  /\ UNCHANGED <<listener, session, client_receiver, outsideVars>>

Accept(p) ==
  /\ Waiting(p)
  /\ Move(p, "shaking")
  /\ UNCHANGED <<listener, session, client_receiver, outsideVars>>

AcceptFails ==
  /\ listener = "running"
  /\ EndListener("AcceptConnection")
  /\ UNCHANGED <<session, client_receiver, outsideVars>>

\* The callback takes the client.
Deliver ==
  /\ listener = "running"
  /\ client_receiver # <<>>
  /\ ~refusing
  /\ client_receiver' = Tail(client_receiver)
  /\ Move(Head(client_receiver), "delivered")
  /\ UNCHANGED <<listener, session, outsideVars>>

\* It does not: the client comes back and is dropped, and the loop ends.
RefusedEnd_Continues == listener' = listener /\ Drop(Head(client_receiver))
RefusedEnd ==
  /\ listener' = "ok"
  /\ peer' = Unbind([peer EXCEPT ![Head(client_receiver)] = "dropped"])
  /\ session' = [session EXCEPT ![Head(client_receiver)].handle = "released"]

Refused ==
  /\ listener = "running"
  /\ client_receiver # <<>>
  /\ refusing
  /\ client_receiver' = Tail(client_receiver)
  /\ RefusedEnd
  /\ UNCHANGED outsideVars

\* The cancellable task drops the run() it is waiting for.
ListenerCancelled ==
  /\ listener = "running"
  /\ "listener" \in cancelled
  /\ EndListener("ok")
  /\ UNCHANGED <<session, client_receiver, outsideVars>>

\* With the receiver go the clients in it, one after the other.
DropQueued ==
  /\ Over
  /\ client_receiver # <<>>
  /\ client_receiver' = Tail(client_receiver)
  /\ Drop(Head(client_receiver))
  /\ UNCHANGED <<listener, outsideVars>>

LoopStep == (\E p \in Peers : Accept(p)) \/ Deliver \/ Refused \/ ListenerCancelled

-----------------------------------------------------------------------------
(* The task of a handshake. *)

\* The stream failed, or the peer did not keep to the protocol.
HandshakeFails(p) ==
  /\ peer[p] = "shaking"
  /\ Move(p, "failed")
  /\ UNCHANGED <<listener, session, client_receiver, outsideVars>>

\* Connection::new and Client::new: the connection runs from here on.
HandshakeDone(p) ==
  /\ peer[p] = "shaking"
  /\ Move(p, "made")
  /\ UNCHANGED <<listener, session, client_receiver, outsideVars>>

\* send() gives the client back once the receiver is gone, and it is dropped.
HandOver_Blocks(p) ==
  /\ peer[p] = "made" /\ ~Over
  /\ client_receiver' = Append(client_receiver, p)
  /\ Move(p, "queued")
  /\ UNCHANGED <<listener, session, outsideVars>>

HandOver(p) ==
  /\ peer[p] = "made"
  /\ \/ /\ ~Over
        /\ client_receiver' = Append(client_receiver, p)
        /\ Move(p, "queued")
        /\ session' = session
     \/ Over /\ Drop(p) /\ client_receiver' = client_receiver
  /\ UNCHANGED <<listener, outsideVars>>

-----------------------------------------------------------------------------
(* The connections do what their sessions allow, whatever happens here. *)

\* The states the session of a peer may move to with its task, or with its frame.
AfterEnd(p) ==
  [task : {"ok", "error"}, told : {"Normal"} \cup Reports,
   handle : {session[p].handle}, frame : {session[p].frame, "lost"}]

AfterFrame(p) == {[session[p] EXCEPT !.frame = f] : f \in {"sent", "lost", "abandoned"}}

Moves(p, sessions) == \E s \in sessions : session' = [session EXCEPT ![p] = s]

Leaves(p) ==
  /\ session' = [session EXCEPT ![p].task = "ok"]
  /\ Conn(p)!Leave

ConnUnchanged == UNCHANGED <<listener, peer, client_receiver, outsideVars>>

RunningConn_Early(p) == session[p].task = "running"
RunningConn(p) == peer[p] \in Connected /\ session[p].task = "running"

\* The peer left, failed to answer a ping or broke the protocol, which is reported, or
\* its stream was exhausted or a ping could not be sent, which is not.
ConnEnds(p) ==
  /\ RunningConn(p)
  /\ Moves(p, AfterEnd(p))
  /\ Conn(p)!Fail \/ Conn(p)!Depart \/ Conn(p)!Leave
  /\ ConnUnchanged

Reached_Undelivered(p) == peer[p] \in {"made", "queued"}
Reached(p) == peer[p] \in Connected

\* The token of bind() was handed to every connection.
ConnCancelled(p) ==
  /\ RunningConn(p)
  /\ Reached(p)
  /\ "clients" \in cancelled
  /\ Leaves(p)
  /\ ConnUnchanged

ConnClosed(p) ==
  /\ RunningConn(p)
  /\ session[p].handle = "released"
  /\ Leaves(p)
  /\ ConnUnchanged

\* The close frame goes out, the wire breaks, or the sink goes without either.
CloseSink(p) ==
  /\ peer[p] \in Connected
  /\ Moves(p, AfterFrame(p))
  /\ Conn(p)!FrameStep
  /\ ConnUnchanged

-----------------------------------------------------------------------------
(* Peers and the application. *)

Connect(p) ==
  /\ Bound
  /\ peer[p] = "away"
  /\ Move(p, "waiting")
  /\ UNCHANGED <<listener, session, client_receiver, outsideVars>>

DropClient(p) ==
  /\ peer[p] = "delivered"
  /\ Drop(p)
  /\ UNCHANGED <<listener, client_receiver, outsideVars>>

\* One token given to both, as in the example, cancels both.
Cancel ==
  /\ \E tokens \in SUBSET Tokens :
       /\ tokens \cap cancelled = {}
       /\ tokens # {}
       /\ cancelled' = cancelled \cup tokens
  /\ UNCHANGED <<listener, peer, session, client_receiver, refusing>>

Refuse ==
  /\ listener = "running"
  /\ ~refusing
  /\ refusing' = TRUE
  /\ UNCHANGED <<listener, peer, session, client_receiver, cancelled>>

Settled(p) ==
  \/ peer[p] \in {"away", "refused", "failed"}
  \/ peer[p] = "dropped" /\ session[p].task # "running" /\ session[p].frame # "unsent"

Finished ==
  /\ Over
  /\ \A p \in Peers : Settled(p)
  /\ cancelled = Tokens
  /\ UNCHANGED vars

-----------------------------------------------------------------------------
PeerStep(p) ==
  \/ Connect(p) \/ HandshakeFails(p) \/ HandshakeDone(p) \/ HandOver(p)
  \/ ConnEnds(p) \/ ConnCancelled(p) \/ ConnClosed(p) \/ CloseSink(p)
  \/ DropClient(p)

Next ==
  \/ Bind \/ Spawn \/ Discard
  \/ LoopStep \/ AcceptFails \/ DropQueued
  \/ \E p \in Peers : PeerStep(p)
  \/ Cancel \/ Refuse
  \/ Finished

Spec == Init /\ [][Next]_vars

\* The runtime polls what is ready, and a connection keeps what its session lets one
\* wait for.  Nothing makes a peer connect or go on with its handshake, nor the
\* application spawn, cancel or drop anything, nor accept() fail.
Fairness ==
  /\ WF_vars(LoopStep)
  /\ WF_vars(DropQueued)
  /\ \A p \in Peers :
       /\ WF_vars(HandOver(p))
       /\ WF_vars(ConnCancelled(p) \/ ConnClosed(p))
       /\ WF_vars(CloseSink(p) /\ (session[p].told # "Normal" \/ session[p].handle = "released"))

FairSpec == Spec /\ Fairness
=============================================================================
