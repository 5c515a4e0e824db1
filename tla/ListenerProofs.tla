--------------------------- MODULE ListenerProofs ---------------------------
(***************************************************************************)
(* Proofs about a Listener, for any number of peers.                       *)
(***************************************************************************)
EXTENDS ListenerProperties, Integers, TLAPS

\* The initial state satisfies the invariant.
LEMMA InitIInv == Init => IInv
<1> SUFFICES ASSUME Init PROVE IInv
  OBVIOUS
<1>1. TypeOK
  <2>1. NewSession \in Sessions
    BY DEF NewSession, Sessions
  <2>2. session \in [Peers -> Sessions] /\ \A p \in Peers : session[p] = NewSession
    BY <2>1 DEF Init
  <2>3. peer \in [Peers -> Stages]
    BY DEF Init, Stages
  <2>4. client_receiver \in Seq(Peers)
    BY DEF Init
  <2> QED
    BY <2>2, <2>3, <2>4 DEF Init, TypeOK, Tokens
<1>2. \A p \in Peers : peer[p] = "away"
  BY DEF Init
<1>3. client_receiver = <<>> /\ listener = "new"
  BY DEF Init
<1> QED
  BY <1>1, <1>2, <1>3
  DEF IInv, ClientsOwned, BacklogClosed, Connected, Owned

-----------------------------------------------------------------------------
(* Types *)

\* The oldest client of the channel, and those behind it.
LEMMA Oldest ==
  ASSUME client_receiver \in Seq(Peers), client_receiver # <<>>
  PROVE  /\ Head(client_receiver) \in Peers
         /\ Tail(client_receiver) \in Seq(Peers)
OBVIOUS

PeersOK ==
  /\ peer \in [Peers -> Stages]
  /\ session \in [Peers -> Sessions]
  /\ \A p \in Peers : peer[p] \notin Connected => session[p] = NewSession

\* A peer that moves keeps its connection, if it has one.
LEMMA TypeMove ==
  ASSUME PeersOK, NEW p \in Peers, NEW stage \in Stages, Move(p, stage),
         peer[p] \notin Connected \/ stage \in Connected,
         session' = session
  PROVE  PeersOK'
BY DEF PeersOK, Move

\* A client that is dropped keeps its connection, without a handle.
LEMMA TypeDrop ==
  ASSUME PeersOK, NEW p \in Peers, Drop(p)
  PROVE  PeersOK'
<1>1. peer' \in [Peers -> Stages]
  BY DEF PeersOK, Drop, Move, Stages
<1>2. session' \in [Peers -> Sessions]
  BY DEF PeersOK, Drop, Sessions
<1>3. peer'[p] \in Connected
  BY DEF PeersOK, Drop, Move, Connected
<1>4. \A q \in Peers \ {p} : peer'[q] = peer[q] /\ session'[q] = session[q]
  BY DEF PeersOK, Drop, Move
<1> QED
  BY <1>1, <1>2, <1>3, <1>4 DEF PeersOK

\* The end of the Listener moves those of the backlog, which have no connection.
LEMMA TypeUnbind ==
  ASSUME PeersOK, peer' = Unbind(peer), session' = session
  PROVE  PeersOK'
<1>1. peer' \in [Peers -> Stages]
  BY DEF PeersOK, Unbind, Stages
<1>2. \A q \in Peers : peer'[q] \notin Connected => peer[q] \notin Connected
  BY DEF PeersOK, Unbind, Connected, Owned
<1> QED
  BY <1>1, <1>2 DEF PeersOK

\* A step of a connection that runs.
LEMMA TypeConn ==
  ASSUME PeersOK, NEW p \in Peers, peer[p] \in Connected, peer' = peer,
         NEW s \in Sessions, session' = [session EXCEPT ![p] = s]
  PROVE  PeersOK'
BY DEF PeersOK

\* What the steps of a connection make of it: its session moves, and keeps its handle.
LEMMA ConnStep ==
  ASSUME PeersOK, NEW p \in Peers,
         ConnEnds(p) \/ ConnCancelled(p) \/ ConnClosed(p) \/ CloseSink(p)
  PROVE  /\ peer[p] \in Connected
         /\ \E s \in Sessions : session' = [session EXCEPT ![p] = s]
         /\ session' = [session EXCEPT ![p] = session'[p]]
         /\ session'[p].handle = session[p].handle
<1>1. session \in [Peers -> Sessions] /\ session[p] \in Sessions
  BY DEF PeersOK
<1>2. AfterEnd(p) \subseteq Sessions /\ AfterFrame(p) \subseteq Sessions
  BY <1>1 DEF AfterEnd, AfterFrame, Sessions
<1>3. \A s \in AfterEnd(p) \cup AfterFrame(p) : s.handle = session[p].handle
  BY <1>1 DEF AfterEnd, AfterFrame, Sessions
<1>4. CASE ConnEnds(p) \/ CloseSink(p)
  <2>1. PICK s \in AfterEnd(p) \cup AfterFrame(p) : session' = [session EXCEPT ![p] = s]
    BY <1>4 DEF ConnEnds, CloseSink, Moves
  <2>2. session'[p] = s
    BY <1>1, <2>1
  <2> QED
    BY <1>2, <1>3, <1>4, <2>1, <2>2 DEF ConnEnds, CloseSink, RunningConn
<1>5. CASE ConnCancelled(p) \/ ConnClosed(p)
  <2>1. session' = [session EXCEPT ![p].task = "ok"] /\ RunningConn(p)
    BY <1>5 DEF ConnCancelled, ConnClosed, Leaves
  <2>2. session'[p] \in Sessions
    BY <1>1, <2>1 DEF Sessions
  <2> QED
    BY <1>1, <2>1, <2>2 DEF RunningConn, Sessions
<1> QED
  BY <1>4, <1>5

\* A refusing callback gives the client back, and the Listener ends.
LEMMA TypeRefused ==
  ASSUME PeersOK, NEW p \in Peers, peer[p] = "queued",
         peer' = Unbind([peer EXCEPT ![p] = "dropped"]),
         session' = [session EXCEPT ![p].handle = "released"]
  PROVE  PeersOK'
<1>1. peer' \in [Peers -> Stages]
  BY DEF PeersOK, Unbind, Stages
<1>2. session' \in [Peers -> Sessions]
  BY DEF PeersOK, Sessions
<1>3. peer'[p] \in Connected
  BY DEF PeersOK, Unbind, Connected
<1>4. \A q \in Peers \ {p} : session'[q] = session[q]
  BY DEF PeersOK
<1>5. \A q \in Peers \ {p} : peer'[q] \notin Connected => peer[q] \notin Connected
  BY DEF PeersOK, Unbind, Connected, Owned
<1> QED
  BY <1>1, <1>2, <1>3, <1>4, <1>5 DEF PeersOK

\* Every step keeps the types.
LEMMA TypeNext == TypeOK /\ ClientsOwned /\ [Next]_vars => TypeOK'
<1> SUFFICES ASSUME TypeOK, ClientsOwned, [Next]_vars PROVE TypeOK'
  OBVIOUS
<1> USE DEF outsideVars
<1>0. PeersOK
  BY DEF TypeOK, PeersOK
<1>1. PeersOK'
  <2>1. CASE \E p \in Peers : Accept(p) \/ Connect(p) \/ HandshakeFails(p) \/ HandshakeDone(p)
    <3>1. PICK p \in Peers :
            /\ session' = session
            /\ peer[p] \notin Connected
            /\ \E stage \in {"shaking", "waiting", "failed", "made"} : Move(p, stage)
      BY <2>1 DEF Accept, Waiting, Connect, HandshakeFails, HandshakeDone, Connected, Owned
    <3> QED
      BY <1>0, <3>1, TypeMove DEF Stages
  <2>2. CASE Deliver
    <3>1. Head(client_receiver) \in Peers
      BY <2>2 DEF Deliver, TypeOK
    <3> QED
      BY <1>0, <2>2, <3>1, TypeMove DEF Deliver, Stages, Connected, Owned
  <2>3. CASE \E p \in Peers : HandOver(p) /\ ~Over
    BY <1>0, <2>3, TypeMove DEF HandOver, Stages, Connected, Owned
  <2>4. CASE \E p \in Peers : (HandOver(p) /\ Over) \/ DropClient(p)
    BY <1>0, <2>4, TypeDrop DEF HandOver, DropClient
  <2>5. CASE DropQueued
    <3>1. Head(client_receiver) \in Peers
      BY <2>5 DEF DropQueued, TypeOK
    <3> QED
      BY <1>0, <2>5, <3>1, TypeDrop DEF DropQueued
  <2>6. CASE Discard \/ AcceptFails \/ ListenerCancelled
    BY <1>0, <2>6, TypeUnbind DEF Discard, AcceptFails, ListenerCancelled, EndListener
  <2>7. CASE Refused
    <3>1. Head(client_receiver) \in Peers /\ peer[Head(client_receiver)] = "queued"
      BY <2>7 DEF Refused, TypeOK, ClientsOwned
    <3> QED
      BY <1>0, <2>7, <3>1, TypeRefused DEF Refused, RefusedEnd
  <2>8. CASE \E p \in Peers :
               ConnEnds(p) \/ ConnCancelled(p) \/ ConnClosed(p) \/ CloseSink(p)
    <3>1. peer' = peer
      BY <2>8 DEF ConnEnds, ConnCancelled, ConnClosed, CloseSink, ConnUnchanged
    <3> QED
      BY <1>0, <2>8, <3>1, ConnStep, TypeConn
  <2>9. CASE UNCHANGED <<peer, session>>
    BY <1>0, <2>9 DEF PeersOK
  <2> QED
    BY <2>1, <2>2, <2>3, <2>4, <2>5, <2>6, <2>7, <2>8, <2>9
    DEF Next, Bind, Spawn, LoopStep, PeerStep, Cancel, Refuse, Finished, vars
<1>2. listener' \in {"new", "bound", "running", "ok", "dropped"} \cup ListenerErrors
  BY DEF TypeOK, Next, vars, Bind, Spawn, Discard, EndListener, LoopStep, Accept, AcceptFails,
         Deliver, Refused, RefusedEnd, ListenerCancelled, DropQueued, PeerStep, Connect,
         HandshakeFails, HandshakeDone, HandOver, ConnEnds, ConnCancelled, ConnClosed, CloseSink,
         ConnUnchanged, DropClient, Cancel, Refuse, Finished, ListenerErrors
<1>3. client_receiver' \in Seq(Peers)
  <2>1. CASE Deliver \/ Refused \/ DropQueued
    BY <2>1, Oldest DEF Deliver, Refused, DropQueued, TypeOK
  <2>2. CASE \E p \in Peers : HandOver(p)
    BY <2>2 DEF HandOver, TypeOK
  <2>3. CASE UNCHANGED client_receiver
    BY <2>3 DEF TypeOK
  <2> QED
    BY <2>1, <2>2, <2>3
    DEF Next, vars, Bind, Spawn, Discard, LoopStep, Accept, AcceptFails, ListenerCancelled,
        PeerStep, Connect, HandshakeFails, HandshakeDone, ConnEnds, ConnCancelled, ConnClosed,
        CloseSink, ConnUnchanged, DropClient, Cancel, Refuse, Finished
<1>4. cancelled' \in SUBSET Tokens /\ refusing' \in BOOLEAN
  BY DEF TypeOK, Next, vars, Bind, Spawn, Discard, LoopStep, Accept, AcceptFails, Deliver,
         Refused, ListenerCancelled, DropQueued, PeerStep, Connect, HandshakeFails, HandshakeDone,
         HandOver, ConnEnds, ConnCancelled, ConnClosed, CloseSink, ConnUnchanged, DropClient,
         Cancel, Refuse, Finished
<1> QED
  BY <1>1, <1>2, <1>3, <1>4 DEF TypeOK, PeersOK

-----------------------------------------------------------------------------
(* Owners *)

HandlesOK ==
  \A p \in Peers : peer[p] \in Connected =>
    (session[p].handle = "held" <=> peer[p] \in Owned)

QueueOK ==
  /\ \A p \in Peers : peer[p] = "queued" <=>
       \E i \in DOMAIN client_receiver : client_receiver[i] = p
  /\ \A i, j \in DOMAIN client_receiver : client_receiver[i] = client_receiver[j] => i = j

\* The two halves of ClientsOwned: the handles, and the channel.
LEMMA OwnedParts == ClientsOwned <=> HandlesOK /\ QueueOK
BY DEF ClientsOwned, HandlesOK, QueueOK

\* The oldest client leaves the channel, and no other does.
LEMMA QueueLeft ==
  ASSUME QueueOK, client_receiver \in Seq(Peers), client_receiver # <<>>,
         client_receiver' = Tail(client_receiver),
         \A q \in Peers : peer'[q] = "queued" <=>
                            (peer[q] = "queued" /\ q # Head(client_receiver))
  PROVE  QueueOK'
<1> DEFINE n == Len(client_receiver)
<1>1. /\ n \in Nat \ {0}
      /\ DOMAIN client_receiver = 1 .. n
      /\ DOMAIN client_receiver' = 1 .. n - 1
      /\ \A i \in 1 .. n - 1 : client_receiver'[i] = client_receiver[i + 1]
      /\ Head(client_receiver) = client_receiver[1]
  OBVIOUS
<1>2. ASSUME NEW q \in Peers
      PROVE  peer'[q] = "queued" <=> \E i \in DOMAIN client_receiver' : client_receiver'[i] = q
  <2>1. ASSUME peer'[q] = "queued"
        PROVE  \E i \in 1 .. n - 1 : client_receiver'[i] = q
    <3>1. PICK i \in 1 .. n : client_receiver[i] = q
      BY <1>1, <2>1 DEF QueueOK
    <3>2. i # 1
      BY <1>1, <2>1, <3>1
    <3>3. i - 1 \in 1 .. n - 1 /\ client_receiver'[i - 1] = client_receiver[i]
      BY <1>1, <3>2
    <3> QED
      BY <3>1, <3>3
  <2>2. ASSUME NEW i \in 1 .. n - 1, client_receiver'[i] = q
        PROVE  peer'[q] = "queued"
    <3>1. i + 1 \in 1 .. n /\ client_receiver[i + 1] = q /\ 1 \in 1 .. n
      BY <1>1, <2>2
    <3>2. client_receiver[1] # q
      BY <1>1, <3>1 DEF QueueOK
    <3> QED
      BY <1>1, <3>1, <3>2 DEF QueueOK
  <2> QED
    BY <1>1, <2>1, <2>2
<1>3. ASSUME NEW i \in 1 .. n - 1, NEW j \in 1 .. n - 1, client_receiver'[i] = client_receiver'[j]
      PROVE  i = j
  <2>1. i + 1 \in 1 .. n /\ j + 1 \in 1 .. n /\ client_receiver[i + 1] = client_receiver[j + 1]
    BY <1>1, <1>3
  <2>2. i + 1 = j + 1
    BY <1>1, <2>1 DEF QueueOK
  <2> QED
    BY <2>2
<1> QED
  BY <1>1, <1>2, <1>3 DEF QueueOK

\* A client that was not in the channel is appended to it.
LEMMA QueueJoined ==
  ASSUME QueueOK, client_receiver \in Seq(Peers), NEW p \in Peers, peer[p] # "queued",
         client_receiver' = Append(client_receiver, p),
         \A q \in Peers : peer'[q] = "queued" <=> (peer[q] = "queued" \/ q = p)
  PROVE  QueueOK'
<1> DEFINE n == Len(client_receiver)
<1>1. /\ n \in Nat
      /\ DOMAIN client_receiver = 1 .. n
      /\ DOMAIN client_receiver' = 1 .. n + 1
      /\ \A i \in 1 .. n : client_receiver'[i] = client_receiver[i]
      /\ client_receiver'[n + 1] = p
  OBVIOUS
<1>2. \A i \in 1 .. n : client_receiver[i] # p
  BY <1>1 DEF QueueOK
<1>3. ASSUME NEW q \in Peers
      PROVE  peer'[q] = "queued" <=> \E i \in 1 .. n + 1 : client_receiver'[i] = q
  <2>1. (\E i \in 1 .. n + 1 : client_receiver'[i] = q)
          <=> (\E i \in 1 .. n : client_receiver[i] = q) \/ q = p
    BY <1>1
  <2> QED
    BY <1>1, <2>1 DEF QueueOK
<1>4. ASSUME NEW i \in 1 .. n + 1, NEW j \in 1 .. n + 1, client_receiver'[i] = client_receiver'[j]
      PROVE  i = j
  BY <1>1, <1>2, <1>4 DEF QueueOK
<1> QED
  BY <1>1, <1>3, <1>4 DEF QueueOK

\* Whoever drops a client releases its handle, and nobody else does.
LEMMA HandlesNext == TypeOK /\ ClientsOwned /\ [Next]_vars => HandlesOK'
<1> SUFFICES ASSUME TypeOK, HandlesOK, QueueOK, [Next]_vars PROVE HandlesOK'
  BY OwnedParts
<1> USE DEF outsideVars
<1>0. PeersOK
  BY DEF TypeOK, PeersOK
<1>1. CASE \E p \in Peers : Accept(p) \/ Connect(p) \/ HandshakeFails(p)
  <2>1. PICK p \in Peers :
          /\ session' = session
          /\ \E stage \in {"shaking", "waiting", "failed"} : Move(p, stage)
    BY <1>1 DEF Accept, Connect, HandshakeFails
  <2> QED
    BY <1>0, <2>1 DEF HandlesOK, Move, PeersOK, Connected, Owned
<1>2. CASE \E p \in Peers : HandshakeDone(p)
  <2>1. PICK p \in Peers : HandshakeDone(p)
    BY <1>2
  <2>2. session[p].handle = "held"
    BY <1>0, <2>1 DEF HandshakeDone, PeersOK, Connected, Owned, NewSession
  <2> QED
    BY <1>0, <2>1, <2>2 DEF HandshakeDone, HandlesOK, Move, PeersOK, Connected, Owned
<1>3. CASE Deliver
  <2>1. Head(client_receiver) \in Peers /\ peer[Head(client_receiver)] = "queued"
    BY <1>3 DEF Deliver, TypeOK, QueueOK
  <2> QED
    BY <1>0, <1>3, <2>1 DEF Deliver, HandlesOK, Move, PeersOK, Connected, Owned
<1>4. CASE \E p \in Peers : HandOver(p) /\ ~Over
  BY <1>0, <1>4 DEF HandOver, HandlesOK, Move, PeersOK, Connected, Owned
<1>5. ASSUME NEW p \in Peers, Drop(p)
      PROVE  HandlesOK'
  <2>1. session'[p].handle = "released" /\ peer'[p] = "dropped"
    BY <1>0, <1>5 DEF Drop, Move, PeersOK, Sessions
  <2>2. \A q \in Peers \ {p} : session'[q] = session[q] /\ peer'[q] = peer[q]
    BY <1>0, <1>5 DEF Drop, Move, PeersOK
  <2> QED
    BY <2>1, <2>2 DEF HandlesOK, Connected, Owned
<1>6. CASE \E p \in Peers : (HandOver(p) /\ Over) \/ DropClient(p)
  BY <1>5, <1>6 DEF HandOver, DropClient
<1>7. CASE DropQueued
  <2>1. Head(client_receiver) \in Peers
    BY <1>7 DEF DropQueued, TypeOK
  <2> QED
    BY <1>5, <1>7, <2>1 DEF DropQueued
<1>8. CASE Discard \/ AcceptFails \/ ListenerCancelled
  <2>1. peer' = Unbind(peer) /\ session' = session
    BY <1>8 DEF Discard, AcceptFails, ListenerCancelled, EndListener
  <2> QED
    BY <1>0, <2>1 DEF HandlesOK, Unbind, PeersOK, Connected, Owned
<1>9. CASE Refused
  <2>0. Head(client_receiver) \in Peers
    BY <1>9 DEF Refused, TypeOK
  <2>1. PICK p \in Peers :
          /\ peer' = Unbind([peer EXCEPT ![p] = "dropped"])
          /\ session' = [session EXCEPT ![p].handle = "released"]
    BY <1>9, <2>0 DEF Refused, RefusedEnd
  <2>2. session'[p].handle = "released" /\ peer'[p] = "dropped"
    BY <1>0, <2>1 DEF PeersOK, Sessions, Unbind
  <2>3. \A q \in Peers \ {p} :
          /\ session'[q] = session[q]
          /\ peer'[q] = IF peer[q] = "waiting" THEN "refused" ELSE peer[q]
    BY <1>0, <2>1 DEF PeersOK, Unbind
  <2> QED
    BY <2>2, <2>3 DEF HandlesOK, Connected, Owned
<1>10. CASE \E p \in Peers :
              ConnEnds(p) \/ ConnCancelled(p) \/ ConnClosed(p) \/ CloseSink(p)
  <2>1. PICK p \in Peers : ConnEnds(p) \/ ConnCancelled(p) \/ ConnClosed(p) \/ CloseSink(p)
    BY <1>10
  <2>2. peer' = peer
    BY <2>1 DEF ConnEnds, ConnCancelled, ConnClosed, CloseSink, ConnUnchanged
  <2>3. session' = [session EXCEPT ![p] = session'[p]] /\ session'[p].handle = session[p].handle
    BY <1>0, <2>1, ConnStep
  <2>4. \A q \in Peers : session'[q].handle = session[q].handle
    BY <1>0, <2>3 DEF PeersOK
  <2> QED
    BY <2>2, <2>4 DEF HandlesOK
<1>11. CASE UNCHANGED <<peer, session>>
  BY <1>11 DEF HandlesOK
<1> QED
  BY <1>1, <1>2, <1>3, <1>4, <1>6, <1>7, <1>8, <1>9, <1>10, <1>11
  DEF Next, Bind, Spawn, LoopStep, PeerStep, Cancel, Refuse, Finished, vars

\* The channel holds the clients that are "queued", each once.
LEMMA QueueNext == TypeOK /\ ClientsOwned /\ [Next]_vars => QueueOK'
<1> SUFFICES ASSUME TypeOK, QueueOK, [Next]_vars PROVE QueueOK'
  BY OwnedParts
<1> USE DEF outsideVars
<1>0. peer \in [Peers -> Stages] /\ client_receiver \in Seq(Peers)
  BY DEF TypeOK
<1>1. CASE Deliver \/ DropQueued
  <2>1. PICK p \in Peers, stage \in {"delivered", "dropped"} :
          p = Head(client_receiver) /\ Move(p, stage)
    BY <1>0, <1>1 DEF Deliver, DropQueued, Drop
  <2>2. \A q \in Peers : peer'[q] = "queued" <=> peer[q] = "queued" /\ q # p
    BY <1>0, <2>1 DEF Move
  <2>3. client_receiver # <<>> /\ client_receiver' = Tail(client_receiver)
    BY <1>1 DEF Deliver, DropQueued
  <2> QED
    BY <1>0, <2>1, <2>2, <2>3, QueueLeft
<1>2. CASE Refused
  <2>1. \A q \in Peers : peer'[q] = "queued" <=>
          peer[q] = "queued" /\ q # Head(client_receiver)
    BY <1>0, <1>2 DEF Refused, RefusedEnd, Unbind
  <2>2. client_receiver # <<>> /\ client_receiver' = Tail(client_receiver)
    BY <1>2 DEF Refused
  <2> QED
    BY <1>0, <2>1, <2>2, QueueLeft
<1>3. CASE \E p \in Peers : HandOver(p) /\ ~Over
  <2>1. PICK p \in Peers : HandOver(p) /\ ~Over
    BY <1>3
  <2>2. \A q \in Peers : peer'[q] = "queued" <=> peer[q] = "queued" \/ q = p
    BY <1>0, <2>1 DEF HandOver, Move
  <2>3. peer[p] # "queued" /\ client_receiver' = Append(client_receiver, p)
    BY <2>1 DEF HandOver
  <2> QED
    BY <1>0, <2>2, <2>3, QueueJoined
<1>4. ASSUME client_receiver' = client_receiver,
             \A q \in Peers : peer'[q] = "queued" <=> peer[q] = "queued"
      PROVE  QueueOK'
  BY <1>4 DEF QueueOK
<1>5. CASE \E p \in Peers : Accept(p) \/ Connect(p) \/ HandshakeFails(p) \/ HandshakeDone(p)
                              \/ (HandOver(p) /\ Over) \/ DropClient(p)
  <2>1. PICK p \in Peers : Accept(p) \/ Connect(p) \/ HandshakeFails(p) \/ HandshakeDone(p)
                              \/ (HandOver(p) /\ Over) \/ DropClient(p)
    BY <1>5
  <2>2. client_receiver' = client_receiver
    BY <2>1 DEF Accept, Connect, HandshakeFails, HandshakeDone, HandOver, DropClient
  <2>3. peer[p] # "queued" /\ \E stage \in Stages \ {"queued"} : Move(p, stage)
    BY <2>1
    DEF Accept, Waiting, Connect, HandshakeFails, HandshakeDone, HandOver, DropClient, Drop, Stages
  <2> QED
    BY <1>0, <1>4, <2>2, <2>3 DEF Move
<1>6. CASE Discard \/ AcceptFails \/ ListenerCancelled
  <2>1. peer' = Unbind(peer) /\ client_receiver' = client_receiver
    BY <1>6 DEF Discard, AcceptFails, ListenerCancelled, EndListener
  <2> QED
    BY <1>0, <1>4, <2>1 DEF Unbind
<1>7. CASE UNCHANGED <<peer, client_receiver>>
  BY <1>4, <1>7
<1> QED
  BY <1>1, <1>2, <1>3, <1>5, <1>6, <1>7
  DEF Next, Bind, Spawn, LoopStep, PeerStep, ConnEnds, ConnCancelled, ConnClosed, CloseSink,
      ConnUnchanged, Cancel, Refuse, Finished, vars

\* A peer joins the backlog of an open socket only, and the close of it leaves none.
LEMMA BacklogNext == TypeOK /\ BacklogClosed /\ [Next]_vars => BacklogClosed'
<1> SUFFICES ASSUME TypeOK, BacklogClosed, [Next]_vars PROVE BacklogClosed'
  OBVIOUS
<1> USE DEF outsideVars
<1>0. peer \in [Peers -> Stages]
  BY DEF TypeOK
<1>1. CASE \E p \in Peers : Connect(p)
  BY <1>1 DEF Connect, BacklogClosed, Bound
<1>2. CASE Spawn
  BY <1>2 DEF Spawn, BacklogClosed, Bound
<1>3. CASE Discard \/ AcceptFails \/ ListenerCancelled \/ Refused
  <2>1. PICK peers \in [Peers -> Stages] : peer' = Unbind(peers)
    <3>1. [peer EXCEPT ![Head(client_receiver)] = "dropped"] \in [Peers -> Stages]
      BY <1>0 DEF Stages
    <3> QED
      BY <1>0, <1>3, <3>1
      DEF Discard, AcceptFails, ListenerCancelled, EndListener, Refused, RefusedEnd
  <2> QED
    BY <2>1 DEF Unbind, BacklogClosed
<1>4. CASE \E p \in Peers, stage \in Stages \ {"waiting"} : Move(p, stage) /\ listener' = listener
  BY <1>0, <1>4 DEF Move, BacklogClosed, Bound
<1>5. CASE \E p \in Peers : Accept(p) \/ HandshakeFails(p) \/ HandshakeDone(p) \/ HandOver(p)
                            \/ DropClient(p)
  BY <1>4, <1>5
  DEF Accept, HandshakeFails, HandshakeDone, HandOver, DropClient, Drop, Stages
<1>6. CASE Deliver \/ DropQueued
  <2>1. Head(client_receiver) \in Peers
    BY <1>6 DEF Deliver, DropQueued, TypeOK
  <2> QED
    BY <1>4, <1>6, <2>1 DEF Deliver, DropQueued, Drop, Stages
<1>7. CASE Bind
  BY <1>7 DEF Bind, BacklogClosed, Bound
<1>8. CASE UNCHANGED <<listener, peer>>
  BY <1>8 DEF BacklogClosed, Bound
<1> QED
  BY <1>1, <1>2, <1>3, <1>5, <1>6, <1>7, <1>8
  DEF Next, LoopStep, PeerStep, ConnEnds, ConnCancelled, ConnClosed, CloseSink, ConnUnchanged,
      Cancel, Refuse, Finished, vars

\* Every step keeps the invariant.
LEMMA IInvNext == IInv /\ [Next]_vars => IInv'
BY TypeNext, HandlesNext, QueueNext, BacklogNext, OwnedParts DEF IInv, ClientsOwned, HandlesOK, QueueOK

-----------------------------------------------------------------------------
(* The theorems *)

\* The invariant holds in every reachable state.
THEOREM Invariant == Spec => []IInv
<1>1. Init => IInv
  BY InitIInv
<1>2. IInv /\ [Next]_vars => IInv'
  BY IInvNext
<1> QED
  BY <1>1, <1>2, PTL DEF Spec

\* The variables of a Listener keep their types.
THEOREM TypeCorrect == Spec => []TypeOK
<1>1. IInv => TypeOK
  BY DEF IInv
<1> QED
  BY <1>1, Invariant, PTL

\* Every client is owned until it is dropped, by one owner, and lets go of its
\* connection when it is (the hand-over of handle_new_connection, listener/mod.rs:108,
\* and the clients that run() takes).
THEOREM NoClientLost == Spec => []ClientsOwned
<1>1. IInv => ClientsOwned
  BY DEF IInv
<1> QED
  BY <1>1, Invariant, PTL

\* A step of a Listener that is over serves nobody any more.
LEMMA OverStep ==
  ASSUME IInv, [Next]_vars, Over, NEW p \in Peers
  PROVE  /\ peer[p] # "waiting"
         /\ peer'[p] # peer[p] => peer'[p] \in {"failed", "made", "dropped"}
<1> USE DEF outsideVars
<1>0. peer \in [Peers -> Stages] /\ ~Bound
  BY DEF IInv, TypeOK, Over, Bound, ListenerErrors
<1>1. peer[p] # "waiting"
  BY <1>0 DEF IInv, BacklogClosed
<1>2. listener \notin {"new", "bound", "running"}
  BY DEF Over, ListenerErrors
<1>3. CASE \E q \in Peers, stage \in {"failed", "made", "dropped"} : Move(q, stage)
  BY <1>0, <1>1, <1>3 DEF Move
<1>4. CASE DropQueued
  <2>1. Head(client_receiver) \in Peers
    BY <1>4 DEF DropQueued, IInv, TypeOK
  <2> QED
    BY <1>3, <1>4, <2>1 DEF DropQueued, Drop
<1>5. CASE \E q \in Peers : HandshakeFails(q) \/ HandshakeDone(q) \/ HandOver(q) \/ DropClient(q)
  BY <1>3, <1>5 DEF HandshakeFails, HandshakeDone, HandOver, DropClient, Drop
<1>6. CASE UNCHANGED peer
  BY <1>1, <1>6
<1> QED
  BY <1>0, <1>2, <1>4, <1>5, <1>6
  DEF Next, Bind, Spawn, Discard, LoopStep, Accept, Waiting, AcceptFails, Deliver, Refused,
      ListenerCancelled, PeerStep, Connect, ConnEnds, ConnCancelled, ConnClosed, CloseSink,
      ConnUnchanged, Cancel, Refuse, Finished, vars

\* A Listener that is over, by cancellation, refusal or error, is over for good: its
\* backlog is refused, and no client is queued or delivered.
THEOREM NeverServesAgain == Spec => OverForGood
<1>1. IInv /\ [Next]_vars =>
        (Over => \A p \in Peers :
           /\ peer[p] # "waiting"
           /\ peer'[p] # peer[p] => peer'[p] \in {"failed", "made", "dropped"})
  BY OverStep
<1> QED
  BY <1>1, Invariant, PTL DEF Spec, OverForGood
=============================================================================
