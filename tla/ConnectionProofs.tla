-------------------------- MODULE ConnectionProofs --------------------------
(***************************************************************************)
(* Proofs about a connection, for every value of its constants.            *)
(***************************************************************************)
EXTENDS ConnectionProperties, WatchChannelProofs, TLAPS

-----------------------------------------------------------------------------
(* Types *)

PcOK ==
  /\ pc \in [Actors -> States]
  /\ pc["conn"] \in {"running", "ok", "error"}
  /\ pc["shared"] \in {"watching", "done"} \cup Closing
  /\ pc["ping"] \in {"idle", "locking", "sending", "sent", "done"}
  /\ pc["owner"] \in {"idle", "locking", "sending", "dropped"} \cup Closing
PayloadOK ==
  payload \in IF pc["ping"] \in {"locking", "sending", "sent"} THEN Payloads ELSE {NoPayload}

\* The initial state has the declared types.
LEMMA TypeInit == Init => TypeOK
<1> SUFFICES ASSUME Init PROVE TypeOK
  OBVIOUS
<1>1. PcOK
  <2>1. /\ pc["conn"] = "running"
        /\ pc["shared"] = "watching"
        /\ pc["ping"] = "idle"
        /\ pc["owner"] = "idle"
    BY DEF Init, Actors
  <2>2. \A a \in Actors : pc[a] \in States
    BY <2>1 DEF Actors, States
  <2>3. pc = [a \in Actors |-> pc[a]]
    BY DEF Init
  <2> QED
    BY <2>1, <2>2, <2>3 DEF PcOK, Closing
<1>2. handleStatus \in Channels(HandleStatusSet)
  BY ChannelFacts DEF Init, InitSharedState, HandleStatus, HandleStatusSet
<1>3. connectionStatus \in Channels(ConnectionStatuses)
  BY ChannelFacts DEF Init, InitSharedState, ConnectionStatuses
<1>4. interval \in Intervals
  BY TimesAssumption DEF Init, InitHandle, Intervals
<1>5. /\ lockQueue \in Seq(Actors)
      /\ ping_queue \in Seq(PingContexts)
      /\ pong_payload_queue \in Seq(Payloads \cup {Bogus})
      /\ inbox \in Seq(Items)
      /\ unanswered \in Seq(Payloads)
  BY DEF Init, InitConnection, InitHandle
<1>6. PayloadOK
  BY DEF Init, InitHandle, PayloadOK, Actors
<1> QED
  BY <1>1, <1>2, <1>3, <1>4, <1>5, <1>6 DEF Init, InitHandle, TypeOK, PcOK, PayloadOK

\* The loop of the connection preserves the types.
LEMMA TypeConn == TypeOK /\ (ConnStep \/ ConnCancelled) => TypeOK'
<1> SUFFICES ASSUME TypeOK, ConnStep \/ ConnCancelled PROVE TypeOK'
  OBVIOUS
<1>a. ASSUME NEW result \in {"ok", "error"}, End(result) PROVE PcOK' /\ pc'["ping"] = pc["ping"]
  BY <1>a DEF TypeOK, PcOK, End, Goto, Actors, States
<1>b. ASSUME NEW status \in ConnectionStatuses, NotifyHandle(status)
      PROVE  connectionStatus' \in Channels(ConnectionStatuses)
  BY <1>b, SendFacts DEF NotifyHandle, TypeOK
<1>c. handleStatus' = BorrowAndUpdate(handleStatus)
        => handleStatus' \in Channels(HandleStatusSet)
  BY ReadFacts DEF TypeOK
<1>1. CASE PongAccepted
  <2>1. /\ ping_queue' \in Seq(PingContexts)
        /\ pong_payload_queue' \in Seq(Payloads \cup {Bogus})
    BY <1>1 DEF PongAccepted, PopPong, FrontDue, FrontAnswered, TypeOK
  <2> QED
    BY <1>1, <2>1 DEF PongAccepted, TypeOK, sinkVars, pingTaskVars, outsideVars
<1>2. CASE PongMissed
  <2>1. connectionStatus' \in Channels(ConnectionStatuses)
    BY <1>2, <1>b DEF PongMissed, ConnectionStatuses
  <2> QED
    BY <1>2, <1>a, <2>1 DEF PongMissed, End, TypeOK, PcOK, sinkVars, pingTaskVars, outsideVars
<1>3. CASE RegisterPing
  <2>1. NewPing \in PingContexts
    BY <1>3, TimesAssumption
    DEF RegisterPing, NewPing, PingContexts, TypeOK, Channels, HandleStatusSet, Terminations
  <2> QED
    BY <1>3, <1>c, <2>1
    DEF RegisterPing, PushPing, TypeOK, sinkVars, pingTaskVars, outsideVars
<1>4. CASE ClosedByHandle
  BY <1>4, <1>a, <1>c DEF ClosedByHandle, End, TypeOK, PcOK, sinkVars, pingTaskVars, outsideVars
<1>5. CASE Ignore
  <2>1. inbox' \in Seq(Items)
    BY <1>5 DEF Ignore, Received, TypeOK
  <2> QED
    BY <1>5, <2>1 DEF Ignore, TypeOK, sinkVars, pingTaskVars, outsideVars
<1>6. CASE ReadPong
  <2>1. inbox' \in Seq(Items)
    BY <1>6 DEF ReadPong, Received, TypeOK
  <2>2. pong_payload_queue' \in Seq(Payloads \cup {Bogus})
    BY <1>6 DEF ReadPong, Received, PushPong, Items, TypeOK
  <2> QED
    BY <1>6, <2>1, <2>2 DEF ReadPong, TypeOK, sinkVars, pingTaskVars, outsideVars
<1>7. CASE ReadEnding
  <2>1. PICK kind \in Endings :
          /\ NotifyHandle(ReportOf[kind])
          /\ End(ResultOf[kind])
          /\ wire' \in {wire, "peerClosed", "broken"}
          /\ UNCHANGED <<lockQueue, has_sent_close_frame, handleStatus, pingTaskVars, outsideVars>>
    BY <1>7 DEF ReadEnding
  <2>2. ReportOf[kind] \in ConnectionStatuses /\ ResultOf[kind] \in {"ok", "error"}
    BY DEF Endings, ReportOf, ResultOf, ConnectionStatuses
  <2>3. connectionStatus' \in Channels(ConnectionStatuses) /\ PcOK' /\ pc'["ping"] = pc["ping"]
    BY <1>a, <1>b, <2>1, <2>2
  <2> QED
    BY <2>1, <2>3 DEF End, TypeOK, PcOK, pingTaskVars, outsideVars
<1>8. CASE ReadNothing
  BY <1>8, <1>a DEF ReadNothing, End, TypeOK, PcOK, sinkVars, pingTaskVars, outsideVars
<1>9. CASE ConnCancelled
  BY <1>9, <1>a DEF ConnCancelled, End, TypeOK, PcOK, sinkVars, pingTaskVars, outsideVars
<1> QED
  BY <1>1, <1>2, <1>3, <1>4, <1>5, <1>6, <1>7, <1>8, <1>9 DEF ConnStep

\* A step of one actor changes the place of that actor only.
LEMMA GotoFacts ==
  ASSUME pc \in [Actors -> States], NEW a \in Actors, NEW state \in States, Goto(a, state)
  PROVE  /\ pc' \in [Actors -> States]
         /\ pc'[a] = state
         /\ \A b \in Actors \ {a} : pc'[b] = pc[b]
BY DEF Goto

\* What the handle's side tells the connection is a status.
LEMMA NotifyConnectionType ==
  ASSUME TypeOK,
         NEW type, NEW p,
         \/ type \in Terminations /\ p = NoPayload
         \/ type = "SendPing" /\ p \in Payloads,
         NotifyConnection(type, p)
  PROVE  handleStatus' \in Channels(HandleStatusSet)
<1>1. HandleStatus(type, p) \in HandleStatusSet
  BY DEF HandleStatus, HandleStatusSet
<1> QED
  BY <1>1, SendFacts DEF NotifyConnection, TypeOK

\* Who sends or closes is in the lock's queue.
LEMMA QueueNotEmpty ==
  ASSUME LockDiscipline, NEW a \in Actors, pc[a] \in AtLock
  PROVE  lockQueue # <<>>
BY DEF LockDiscipline

\* The shared-state task and the closers preserve the types.
LEMMA TypeClosers ==
  TypeOK /\ LockDiscipline /\ (SharedStep \/ CloserStep("owner")) => TypeOK'
<1> SUFFICES ASSUME TypeOK, LockDiscipline, SharedStep \/ CloserStep("owner") PROVE TypeOK'
  OBVIOUS
<1>t. pc \in [Actors -> States]
  BY DEF TypeOK
<1>a. ASSUME NEW c \in Closers, NEW state \in Closing, Goto(c, state)
      PROVE  PcOK' /\ pc'["ping"] = pc["ping"]
  <2>1. c \in Actors /\ state \in States /\ c # "ping" /\ c # "conn"
    BY <1>a DEF Closers, Actors, States
  <2> QED
    BY <1>a, <1>t, <2>1, GotoFacts DEF PcOK, TypeOK, Actors, Closers
<1>b. ASSUME Goto("shared", "done") PROVE PcOK' /\ pc'["ping"] = pc["ping"]
  BY <1>b, <1>t, GotoFacts DEF PcOK, TypeOK, Actors, States
<1>c. ASSUME Goto("owner", "dropped") PROVE PcOK' /\ pc'["ping"] = pc["ping"]
  BY <1>c, <1>t, GotoFacts DEF PcOK, TypeOK, Actors, States
<1>1. CASE SharedStatus
  <2>1. connectionStatus' \in Channels(ConnectionStatuses)
    BY <1>1, ReadFacts DEF SharedStatus, TypeOK
  <2>2. PcOK' /\ pc'["ping"] = pc["ping"]
    BY <1>1, <1>a, <1>b DEF SharedStatus, Answer, Closers, Closing
  <2> QED
    BY <1>1, <2>1, <2>2 DEF SharedStatus, TypeOK, PcOK, sinkVars, pingTaskVars, outsideVars
<1>2. CASE SharedGone
  BY <1>2, <1>b DEF SharedGone, Leave, TypeOK, PcOK, sinkVars, pingTaskVars, outsideVars
<1>3. ASSUME NEW c \in Closers, CloserStore(c) PROVE TypeOK'
  <2>1. lockQueue' \in Seq(Actors)
    BY <1>3 DEF CloserStore, TypeOK, Closers, Actors
  <2>2. PcOK' /\ pc'["ping"] = pc["ping"]
    BY <1>3, <1>a DEF CloserStore, Closing
  <2> QED
    BY <1>3, <2>1, <2>2 DEF CloserStore, TypeOK, PcOK, pingTaskVars, outsideVars
<1>4. ASSUME NEW c \in Closers, CloseSink(c), lockQueue # <<>>
      PROVE  /\ PcOK' /\ pc'["ping"] = pc["ping"]
             /\ lockQueue' \in Seq(Actors)
             /\ wire' \in {"open", "peerClosed", "closed", "broken"}
  <2>1. lockQueue' \in Seq(Actors)
    BY <1>4 DEF CloseSink, Unlock, TypeOK
  <2> QED
    BY <1>4, <1>a, <2>1 DEF CloseSink, Closing
<1>5. ASSUME NEW c \in Closers, CloserClose(c) PROVE TypeOK'
  <2>1. CASE CloseSink(c)
    BY <1>4, <1>5, <2>1 DEF CloserClose, Holds, TypeOK, PcOK, pingTaskVars, outsideVars
  <2>2. CASE Goto(c, "flushing") /\ UNCHANGED <<wire, lockQueue>>
    BY <1>5, <1>a, <2>2 DEF CloserClose, Closing, TypeOK, PcOK, pingTaskVars, outsideVars
  <2> QED
    BY <1>5, <2>1, <2>2 DEF CloserClose
<1>6. ASSUME NEW c \in Closers, CloserFlushed(c) PROVE TypeOK'
  <2>1. lockQueue # <<>>
    BY <1>6, QueueNotEmpty DEF AtLock, CloserFlushed, Closers, Actors
  <2> QED
    BY <1>4, <1>6, <2>1 DEF CloserFlushed, TypeOK, PcOK, pingTaskVars, outsideVars
<1>7. ASSUME NEW c \in Closers, CloserNotify(c) PROVE TypeOK'
  <2>1. handleStatus' \in Channels(HandleStatusSet)
    BY <1>7, NotifyConnectionType DEF CloserNotify, Terminations
  <2>2. PcOK' /\ pc'["ping"] = pc["ping"]
    BY <1>7, <1>b, <1>c DEF CloserNotify, Finish, Closers
  <2> QED
    BY <1>7, <2>1, <2>2 DEF CloserNotify, TypeOK, PcOK, sinkVars, pingTaskVars, outsideVars
<1> QED
  BY <1>1, <1>2, <1>3, <1>5, <1>6, <1>7 DEF SharedStep, CloserStep, Closers

\* The ping task preserves the types.
LEMMA TypePing == TypeOK /\ LockDiscipline /\ PingStep => TypeOK'
<1> SUFFICES ASSUME TypeOK, LockDiscipline, PingStep PROVE TypeOK'
  OBVIOUS
<1>t. pc \in [Actors -> States]
  BY DEF TypeOK
<1>a. ASSUME NEW state \in {"idle", "locking", "sending", "sent", "done"}, Goto("ping", state)
      PROVE  PcOK' /\ pc'["ping"] = state
  BY <1>a, <1>t, GotoFacts DEF PcOK, TypeOK, Actors, States
<1>b. ASSUME PingFails
      PROVE  /\ PcOK' /\ PayloadOK'
             /\ handleStatus' \in Channels(HandleStatusSet)
             /\ unanswered' \in Seq(Payloads)
  <2>1. handleStatus' \in Channels(HandleStatusSet)
    BY <1>b, NotifyConnectionType DEF PingFails, Terminations
  <2> QED
    BY <1>a, <1>b, <2>1 DEF PingFails, PayloadOK, TypeOK
<1>c. ASSUME NEW p \in Payloads, PingSucceeds(p)
      PROVE  /\ PcOK' /\ PayloadOK'
             /\ handleStatus' \in Channels(HandleStatusSet)
             /\ unanswered' \in Seq(Payloads)
  <2>1. unanswered' \in Seq(Payloads)
    <3>1. unanswered' = unanswered \/ unanswered' = Append(unanswered, p)
      BY <1>c DEF PingSucceeds
    <3>2. unanswered \in Seq(Payloads)
      BY DEF TypeOK
    <3>3. Append(unanswered, p) \in Seq(Payloads)
      BY <3>2
    <3> QED
      BY <3>1, <3>2, <3>3
  <2> QED
    BY <1>a, <1>c, <2>1 DEF PingSucceeds, PayloadOK, TypeOK
<1>d. ASSUME NEW p \in Payloads, NEW queue \in Seq(Actors), queue # <<>>, SendPing(p, queue)
      PROVE  /\ PcOK' /\ PayloadOK'
             /\ handleStatus' \in Channels(HandleStatusSet)
             /\ unanswered' \in Seq(Payloads)
             /\ lockQueue' \in Seq(Actors)
  <2>1. Tail(queue) \in Seq(Actors)
    BY <1>d
  <2>2. CASE wire = "open" /\ Goto("ping", "sending") /\ payload' = p /\ lockQueue' = queue
               /\ UNCHANGED <<unanswered, handleStatus>>
    BY <1>a, <2>2 DEF PayloadOK, TypeOK
  <2> QED
    BY <1>b, <1>c, <1>d, <2>1, <2>2 DEF SendPing
<1>1. CASE PingTick
  <2>1. interval' \in Intervals
    BY <1>1 DEF PingTick, TakeTick, Intervals, TypeOK
  <2>2. CASE ~SinkAlive /\ PingFails /\ lockQueue' = lockQueue
    BY <1>1, <1>b, <2>1, <2>2 DEF PingTick, TypeOK, PcOK, PayloadOK, outsideVars
  <2>3. CASE \E p \in Payloads : lockQueue = <<>> /\ SendPing(p, <<"ping">>)
    <3>1. <<"ping">> \in Seq(Actors) /\ <<"ping">> # <<>>
      BY DEF Actors
    <3> QED
      BY <1>1, <1>d, <2>1, <2>3, <3>1 DEF PingTick, TypeOK, PcOK, PayloadOK, outsideVars
  <2>4. CASE \E p \in Payloads :
               /\ lockQueue' = Append(lockQueue, "ping")
               /\ Goto("ping", "locking")
               /\ payload' = p
               /\ UNCHANGED <<unanswered, handleStatus>>
    <3>1. lockQueue' \in Seq(Actors)
      BY <2>4 DEF TypeOK, Actors
    <3>2. PcOK' /\ PayloadOK'
      BY <1>a, <2>4 DEF PayloadOK
    <3> QED
      BY <1>1, <2>1, <2>4, <3>1, <3>2 DEF PingTick, TypeOK, PcOK, PayloadOK, outsideVars
  <2> QED
    BY <1>1, <2>2, <2>3, <2>4 DEF PingTick
<1>2. CASE PingLocked
  <2>1. payload \in Payloads /\ lockQueue \in Seq(Actors) /\ lockQueue # <<>>
    BY <1>2 DEF PingLocked, Holds, TypeOK
  <2> QED
    BY <1>2, <1>d, <2>1 DEF PingLocked, TypeOK, PcOK, PayloadOK, outsideVars
<1>3. CASE PingFlushed
  <2>1. payload \in Payloads /\ lockQueue # <<>>
    BY <1>3, QueueNotEmpty DEF AtLock, PingFlushed, TypeOK, Actors
  <2>2. lockQueue' \in Seq(Actors)
    BY <1>3, <2>1 DEF PingFlushed, TypeOK
  <2> QED
    BY <1>3, <1>b, <1>c, <2>1, <2>2 DEF PingFlushed, TypeOK, PcOK, PayloadOK, outsideVars
<1>4. CASE PingNotify
  <2>1. handleStatus' \in Channels(HandleStatusSet)
    BY <1>4, NotifyConnectionType DEF PingNotify, TypeOK
  <2> QED
    BY <1>4, <1>a, <2>1 DEF PingNotify, TypeOK, PcOK, PayloadOK, sinkVars, outsideVars
<1> QED
  BY <1>1, <1>2, <1>3, <1>4 DEF PingStep

\* The owner, the peer, the network and the application preserve the types.
LEMMA TypeOutside == TypeOK /\ LockDiscipline /\ (OwnerWait \/ Outside) => TypeOK'
<1> SUFFICES ASSUME TypeOK, LockDiscipline, OwnerWait \/ Outside PROVE TypeOK'
  OBVIOUS
<1>t. pc \in [Actors -> States] /\ lockQueue \in Seq(Actors)
  BY DEF TypeOK
<1>a. ASSUME NEW state \in {"idle", "locking", "sending", "checked", "dropped"},
             Goto("owner", state)
      PROVE  PcOK' /\ pc'["ping"] = pc["ping"]
  BY <1>a, <1>t, GotoFacts DEF PcOK, TypeOK, Actors, States, Closing
<1>b. ASSUME OwnerUnchanged, PcOK', pc'["ping"] = pc["ping"], lockQueue' \in Seq(Actors)
      PROVE  TypeOK'
  BY <1>b DEF OwnerUnchanged, TypeOK, PcOK, pingTaskVars, outsideVars
<1>1. CASE OwnerSend
  <2>1. lockQueue' \in Seq(Actors)
    BY <1>1, <1>t DEF OwnerSend, Actors
  <2> QED
    BY <1>1, <1>a, <1>b, <2>1 DEF OwnerSend
<1>2. CASE OwnerLocked
  <2>1. lockQueue' \in Seq(Actors)
    BY <1>2, <1>t DEF OwnerLocked, Holds
  <2> QED
    BY <1>2, <1>a, <1>b, <2>1 DEF OwnerLocked
<1>3. CASE OwnerFlushed
  <2>1. lockQueue # <<>>
    BY <1>3, QueueNotEmpty DEF AtLock, OwnerFlushed, Actors
  <2>2. lockQueue' \in Seq(Actors)
    BY <1>3, <1>t, <2>1 DEF OwnerFlushed
  <2> QED
    BY <1>3, <1>a, <1>b, <2>2 DEF OwnerFlushed
<1>4. CASE OwnerDrop
  BY <1>4, <1>a, <1>b, <1>t DEF OwnerDrop
<1>5. ASSUME NEW item \in Items, Arrives(item) PROVE inbox' \in Seq(Items)
  BY <1>5 DEF Arrives, TypeOK
<1>6. CASE PeerPong
  <2>1. Head(unanswered) \in Payloads /\ unanswered' \in Seq(Payloads)
    BY <1>6 DEF PeerPong, TypeOK
  <2>2. [kind |-> "pong", payload |-> Head(unanswered)] \in Items
    BY <2>1 DEF Items
  <2>3. inbox' \in Seq(Items)
    BY <1>5, <1>6, <2>2 DEF PeerPong
  <2> QED
    BY <1>6, <2>1, <2>3 DEF PeerPong, TypeOK, sinkVars, pingTaskVars, outsideVars
<1>7. CASE PeerSend
  <2>1. \A kind \in PeerSends \cap Kinds : [kind |-> kind, payload |-> NoPayload] \in Items
    BY PeerAssumption DEF Items, Deeds
  <2>2. [kind |-> "pong", payload |-> Bogus] \in Items
    BY DEF Items
  <2>3. inbox' \in Seq(Items)
    BY <1>5, <1>7, <2>1, <2>2 DEF PeerSend
  <2> QED
    BY <1>7, <2>3 DEF PeerSend, TypeOK, sinkVars, pingTaskVars, outsideVars
<1>8. CASE WireBreaks \/ Cancel \/ ReceiverDrop
  BY <1>8 DEF WireBreaks, Cancel, ReceiverDrop, TypeOK, sinkVars, pingTaskVars, outsideVars
<1> QED
  BY <1>1, <1>2, <1>3, <1>4, <1>6, <1>7, <1>8 DEF OwnerWait, Outside

\* The clock preserves the types.
LEMMA TypeTick == TypeOK /\ Tick => TypeOK'
<1> SUFFICES ASSUME TypeOK, Tick PROVE TypeOK'
  OBVIOUS
<1>1. \A c \in PingContexts : [c EXCEPT !.left = Countdown(@)] \in PingContexts
  BY TimesAssumption DEF PingContexts, Countdown
<1>2. ping_queue' \in Seq(PingContexts)
  <2> DEFINE q == [i \in DOMAIN ping_queue |-> [ping_queue[i] EXCEPT !.left = Countdown(@)]]
  <2>1. /\ ping_queue \in Seq(PingContexts)
        /\ DOMAIN ping_queue = 1 .. Len(ping_queue) /\ Len(ping_queue) \in Nat
    BY DEF TypeOK
  <2>2. \A i \in DOMAIN ping_queue : q[i] \in PingContexts
    BY <1>1, <2>1
  <2>3. q \in [1 .. Len(ping_queue) -> PingContexts]
    BY <2>1, <2>2
  <2>4. ping_queue' = q
    BY DEF Tick
  <2> HIDE DEF q
  <2> QED
    BY <2>1, <2>3, <2>4
<1>3. interval' \in Intervals
  BY TimesAssumption DEF Tick, TypeOK, Intervals
<1> QED
  BY <1>2, <1>3 DEF Tick, TypeOK, sinkVars, outsideVars

\* Every step preserves the types.
LEMMA TypeNext == TypeOK /\ LockDiscipline /\ [Next]_vars => TypeOK'
<1> SUFFICES ASSUME TypeOK, LockDiscipline, [Next]_vars PROVE TypeOK'
  OBVIOUS
<1>1. CASE UNCHANGED vars
  BY <1>1 DEF vars, TypeOK
<1> QED
  BY <1>1, TypeConn, TypeClosers, TypePing, TypeOutside, TypeTick
  DEF Next, ServerStep, Finished

-----------------------------------------------------------------------------
(* The lock *)

\* An actor that is not at the lock joins its queue.
LEMMA JoinLock ==
  ASSUME TypeOK, LockDiscipline, NEW a \in Actors, pc[a] \notin AtLock,
         lockQueue' = Append(lockQueue, a),
         pc'[a] \in {"locking", "blocked"} \/ (pc'[a] = "sending" /\ lockQueue = <<>>),
         \A b \in Actors \ {a} : pc'[b] = pc[b]
  PROVE  LockDiscipline'
<1>1. /\ lockQueue \in Seq(Actors)
      /\ \A i \in DOMAIN lockQueue : lockQueue[i] # a
      /\ DOMAIN lockQueue = 1 .. Len(lockQueue) /\ Len(lockQueue) \in Nat
      /\ DOMAIN lockQueue' = 1 .. Len(lockQueue) + 1
      /\ \A i \in DOMAIN lockQueue : lockQueue'[i] = lockQueue[i]
      /\ lockQueue'[Len(lockQueue) + 1] = a
  BY DEF TypeOK, LockDiscipline
<1>2. \A i, j \in DOMAIN lockQueue' : lockQueue'[i] = lockQueue'[j] => i = j
  BY <1>1 DEF LockDiscipline
<1>3. ASSUME NEW b \in Actors
      PROVE  (\E i \in DOMAIN lockQueue' : lockQueue'[i] = b) <=> pc'[b] \in AtLock
  <2>1. CASE b = a
    BY <1>1, <2>1 DEF AtLock
  <2>2. CASE b # a
    BY <1>1, <2>2 DEF LockDiscipline
  <2> QED
    BY <2>1, <2>2
<1>4. ASSUME NEW b \in Actors, pc'[b] \in {"sending", "flushing"} PROVE Holds(b)'
  <2>1. CASE b = a
    BY <1>1, <1>4, <2>1 DEF Holds
  <2>2. CASE b # a
    BY <1>1, <1>4, <2>2 DEF Holds, LockDiscipline
  <2> QED
    BY <2>1, <2>2
<1> QED
  BY <1>2, <1>3, <1>4 DEF LockDiscipline

\* The actor that holds the lock releases it.
LEMMA LeaveLock ==
  ASSUME TypeOK, LockDiscipline, NEW a \in Actors, Holds(a),
         lockQueue' = Tail(lockQueue),
         pc'[a] \notin AtLock,
         \A b \in Actors \ {a} : pc'[b] = pc[b]
  PROVE  LockDiscipline'
<1>1. /\ lockQueue \in Seq(Actors) /\ lockQueue # <<>> /\ lockQueue[1] = a
      /\ DOMAIN lockQueue = 1 .. Len(lockQueue) /\ Len(lockQueue) \in Nat \ {0}
      /\ DOMAIN lockQueue' = 1 .. Len(lockQueue) - 1
      /\ \A i \in DOMAIN lockQueue' : lockQueue'[i] = lockQueue[i + 1]
  BY DEF TypeOK, Holds
<1>2. \A i, j \in DOMAIN lockQueue' : lockQueue'[i] = lockQueue'[j] => i = j
  BY <1>1 DEF LockDiscipline
<1>3. ASSUME NEW b \in Actors
      PROVE  (\E i \in DOMAIN lockQueue' : lockQueue'[i] = b) <=> pc'[b] \in AtLock
  <2>1. CASE b = a
    BY <1>1, <2>1 DEF LockDiscipline
  <2>2. CASE b # a
    <3>1. ASSUME NEW i \in DOMAIN lockQueue, lockQueue[i] = b
          PROVE  i - 1 \in DOMAIN lockQueue' /\ lockQueue'[i - 1] = b
      BY <1>1, <2>2, <3>1
    <3>2. ASSUME NEW i \in DOMAIN lockQueue', lockQueue'[i] = b
          PROVE  i + 1 \in DOMAIN lockQueue /\ lockQueue[i + 1] = b
      BY <1>1, <3>2
    <3> QED
      BY <2>2, <3>1, <3>2 DEF LockDiscipline
  <2> QED
    BY <2>1, <2>2
<1>4. ASSUME NEW b \in Actors, pc'[b] \in {"sending", "flushing"} PROVE Holds(b)'
  <2>1. b # a /\ pc[b] \in {"sending", "flushing"}
    BY <1>4 DEF AtLock
  <2>2. lockQueue[1] = b
    BY <2>1 DEF LockDiscipline, Holds
  <2> QED
    BY <1>1, <2>1, <2>2
<1> QED
  BY <1>2, <1>3, <1>4 DEF LockDiscipline

\* A step that keeps the queue and does not bring anybody to the lock or away from
\* it, and lets at most the holder begin to send.
LEMMA StayAtLock ==
  ASSUME LockDiscipline, lockQueue' = lockQueue,
         \A a \in Actors : /\ pc'[a] \in AtLock <=> pc[a] \in AtLock
                           /\ pc'[a] \in {"sending", "flushing"}
                                => pc[a] \in {"sending", "flushing"} \/ Holds(a)
  PROVE  LockDiscipline'
BY DEF LockDiscipline, Holds

\* A step of one actor that neither comes from the lock nor goes to it.
LEMMA Elsewhere ==
  ASSUME TypeOK, LockDiscipline, lockQueue' = lockQueue,
         NEW a \in Actors, NEW state \in States \ AtLock, pc[a] \notin AtLock, Goto(a, state)
  PROVE  LockDiscipline'
<1>1. pc'[a] = state /\ \A b \in Actors \ {a} : pc'[b] = pc[b]
  BY GotoFacts DEF TypeOK
<1> QED
  BY <1>1, StayAtLock DEF AtLock

\* The closers keep the discipline.
LEMMA LockCloser ==
  ASSUME TypeOK, LockDiscipline, NEW c \in Closers, CloserStep(c)
  PROVE  LockDiscipline'
<1>t. c \in Actors /\ pc \in [Actors -> States]
  BY DEF TypeOK, Closers, Actors
<1>a. ASSUME Holds(c), CloseSink(c) PROVE LockDiscipline'
  <2>1. pc'[c] = "closed" /\ \A b \in Actors \ {c} : pc'[b] = pc[b]
    BY <1>a, <1>t, GotoFacts DEF CloseSink, States, Closing
  <2> QED
    BY <1>a, <1>t, <2>1, LeaveLock DEF CloseSink, Unlock, AtLock
<1>1. CASE CloserStore(c)
  <2>1. pc'[c] = "blocked" /\ \A b \in Actors \ {c} : pc'[b] = pc[b]
    BY <1>1, <1>t, GotoFacts DEF CloserStore, States, Closing
  <2> QED
    BY <1>1, <1>t, <2>1, JoinLock DEF CloserStore, AtLock
<1>2. CASE CloserClose(c)
  <2>1. CASE CloseSink(c)
    BY <1>2, <1>a, <2>1 DEF CloserClose
  <2>2. CASE Goto(c, "flushing") /\ UNCHANGED <<wire, lockQueue>>
    <3>1. pc'[c] = "flushing" /\ \A b \in Actors \ {c} : pc'[b] = pc[b]
      BY <2>2, <1>t, GotoFacts DEF States, Closing
    <3> QED
      BY <1>2, <1>t, <2>2, <3>1, StayAtLock DEF CloserClose, AtLock
  <2> QED
    BY <1>2, <2>1, <2>2 DEF CloserClose
<1>3. CASE CloserFlushed(c)
  <2>1. Holds(c)
    BY <1>3, <1>t DEF CloserFlushed, LockDiscipline
  <2> QED
    BY <1>3, <1>a, <2>1 DEF CloserFlushed
<1>4. CASE CloserNotify(c)
  <2>1. PICK state \in {"done", "dropped"} : Goto(c, state)
    BY <1>4 DEF CloserNotify, Finish
  <2> QED
    BY <1>4, <1>t, <2>1, Elsewhere DEF CloserNotify, sinkVars, States, AtLock
<1> QED
  BY <1>1, <1>2, <1>3, <1>4 DEF CloserStep

\* The ping task keeps the discipline.
LEMMA LockPing ==
  ASSUME TypeOK, LockDiscipline, PingStep
  PROVE  LockDiscipline'
<1>t. "ping" \in Actors /\ pc \in [Actors -> States] /\ lockQueue \in Seq(Actors)
  BY DEF TypeOK, Actors
<1>a. ASSUME NEW state \in {"idle", "locking", "sending", "sent", "done"}, Goto("ping", state)
      PROVE  pc'["ping"] = state /\ \A b \in Actors \ {"ping"} : pc'[b] = pc[b]
  BY <1>a, <1>t, GotoFacts DEF States
<1>b. ASSUME NEW state \in {"sent", "done"}, Goto("ping", state),
             Holds("ping"), lockQueue' = Tail(lockQueue)
      PROVE  LockDiscipline'
  BY <1>a, <1>b, <1>t, LeaveLock DEF AtLock
<1>1. CASE PingTick
  <2>1. pc["ping"] \notin AtLock
    BY <1>1 DEF PingTick, AtLock
  <2>2. CASE PingFails /\ lockQueue' = lockQueue
    BY <1>t, <2>1, <2>2, Elsewhere DEF PingFails, States, AtLock
  <2>3. CASE lockQueue = <<>> /\ \E p \in Payloads : SendPing(p, <<"ping">>)
    <3>1. Tail(<<"ping">>) = <<>> /\ <<"ping">> = Append(lockQueue, "ping")
      BY <2>3
    <3>2. CASE lockQueue' = lockQueue /\ (Goto("ping", "sent") \/ Goto("ping", "done"))
      BY <1>t, <2>1, <3>2, Elsewhere DEF States, AtLock
    <3>3. CASE lockQueue' = <<"ping">> /\ Goto("ping", "sending")
      BY <1>a, <1>t, <2>1, <2>3, <3>1, <3>3, JoinLock
    <3> QED
      BY <2>3, <3>1, <3>2, <3>3 DEF SendPing, PingFails, PingSucceeds
  <2>4. CASE lockQueue' = Append(lockQueue, "ping") /\ Goto("ping", "locking")
    BY <1>a, <1>t, <2>1, <2>4, JoinLock
  <2> QED
    BY <1>1, <2>2, <2>3, <2>4 DEF PingTick
<1>2. CASE PingLocked
  <2>1. CASE Goto("ping", "sending") /\ lockQueue' = lockQueue
    BY <1>2, <1>a, <1>t, <2>1, StayAtLock DEF PingLocked, AtLock
  <2> QED
    BY <1>2, <1>b, <2>1 DEF PingLocked, SendPing, PingFails, PingSucceeds
<1>3. CASE PingFlushed
  <2>1. Holds("ping")
    BY <1>3, <1>t DEF PingFlushed, LockDiscipline
  <2> QED
    BY <1>3, <1>b, <2>1 DEF PingFlushed, PingFails, PingSucceeds
<1>4. CASE PingNotify
  BY <1>4, <1>t, Elsewhere DEF PingNotify, sinkVars, States, AtLock
<1> QED
  BY <1>1, <1>2, <1>3, <1>4 DEF PingStep

\* The owner of the handle keeps the discipline.
LEMMA LockOwner ==
  ASSUME TypeOK, LockDiscipline, OwnerWait \/ OwnerSend \/ OwnerDrop
  PROVE  LockDiscipline'
<1>t. "owner" \in Actors /\ pc \in [Actors -> States]
  BY DEF TypeOK, Actors
<1>a. ASSUME NEW state \in {"idle", "locking", "sending", "checked", "dropped"},
             Goto("owner", state)
      PROVE  pc'["owner"] = state /\ \A b \in Actors \ {"owner"} : pc'[b] = pc[b]
  BY <1>a, <1>t, GotoFacts DEF States, Closing
<1>1. CASE OwnerSend
  BY <1>1, <1>a, <1>t, JoinLock DEF OwnerSend, AtLock
<1>2. CASE OwnerLocked
  <2>1. CASE Goto("owner", "idle") /\ lockQueue' = Tail(lockQueue)
    BY <1>2, <1>a, <1>t, <2>1, LeaveLock DEF OwnerLocked, AtLock
  <2>2. CASE Goto("owner", "sending") /\ UNCHANGED lockQueue
    BY <1>2, <1>a, <1>t, <2>2, StayAtLock DEF OwnerLocked, AtLock
  <2> QED
    BY <1>2, <2>1, <2>2 DEF OwnerLocked
<1>3. CASE OwnerFlushed
  <2>1. Holds("owner")
    BY <1>3, <1>t DEF OwnerFlushed, LockDiscipline
  <2> QED
    BY <1>3, <1>a, <1>t, <2>1, LeaveLock DEF OwnerFlushed, AtLock
<1>4. CASE OwnerDrop
  <2>1. PICK state \in {"checked", "dropped"} : Goto("owner", state)
    BY <1>4 DEF OwnerDrop
  <2> QED
    BY <1>4, <1>t, <2>1, Elsewhere DEF OwnerDrop, States, Closing, AtLock
<1> QED
  BY <1>1, <1>2, <1>3, <1>4 DEF OwnerWait

\* Every step keeps the discipline of the lock.
LEMMA LockNext == TypeOK /\ LockDiscipline /\ [Next]_vars => LockDiscipline'
<1> SUFFICES ASSUME TypeOK, LockDiscipline, [Next]_vars PROVE LockDiscipline'
  OBVIOUS
<1>a. UNCHANGED <<pc, lockQueue>> => LockDiscipline'
  BY DEF LockDiscipline, Holds
<1>b. ASSUME NEW state \in {"ok", "error"}, Goto("conn", state), lockQueue' = lockQueue
      PROVE  LockDiscipline'
  BY <1>b, Elsewhere DEF TypeOK, States, AtLock, Actors
<1>1. CASE ConnStep \/ ConnCancelled
  <2>1. CASE PongAccepted \/ RegisterPing \/ Ignore \/ ReadPong
    BY <1>a, <2>1 DEF PongAccepted, RegisterPing, Ignore, ReadPong, sinkVars
  <2>2. CASE PongMissed \/ ClosedByHandle \/ ReadNothing \/ ConnCancelled
    BY <1>b, <2>2 DEF PongMissed, ClosedByHandle, ReadNothing, ConnCancelled, End, sinkVars
  <2>3. CASE ReadEnding
    <3>1. PICK kind \in Endings : End(ResultOf[kind]) /\ lockQueue' = lockQueue
      BY <2>3 DEF ReadEnding
    <3>2. ResultOf[kind] \in {"ok", "error"}
      BY DEF Endings, ResultOf
    <3> QED
      BY <1>b, <3>1, <3>2 DEF End
  <2> QED
    BY <1>1, <2>1, <2>2, <2>3 DEF ConnStep
<1>2. CASE SharedStatus \/ SharedGone
  <2>1. PICK state \in {"checked", "done"} : Goto("shared", state)
    BY <1>2 DEF SharedStatus, SharedGone, Answer, Leave
  <2>2. lockQueue' = lockQueue /\ pc["shared"] = "watching" /\ "shared" \in Actors
    BY <1>2 DEF SharedStatus, SharedGone, sinkVars, Actors
  <2> QED
    BY <2>1, <2>2, Elsewhere DEF States, Closing, AtLock
<1>3. CASE \E c \in Closers : CloserStep(c)
  BY <1>3, LockCloser
<1>4. CASE PeerPong \/ PeerSend \/ WireBreaks \/ Cancel \/ ReceiverDrop \/ Tick
           \/ Finished \/ UNCHANGED vars
  BY <1>4, <1>a DEF PeerPong, PeerSend, WireBreaks, Cancel, ReceiverDrop, Tick, Finished,
                    vars, sinkVars
<1> QED
  BY <1>1, <1>2, <1>3, <1>4, LockPing, LockOwner
  DEF Next, ServerStep, SharedStep, Outside, Closers

-----------------------------------------------------------------------------
(* Signals between the two halves *)

\* The initial state satisfies the invariant.
LEMMA IInvInit == Init => IInv
<1> SUFFICES ASSUME Init PROVE IInv
  OBVIOUS
<1>1. TypeOK
  BY TypeInit
<1>2. \A a \in Actors : pc[a] \in {"running", "watching", "idle"}
  BY DEF Init, Actors
<1>3. LockDiscipline
  BY <1>2 DEF Init, InitHandle, LockDiscipline, AtLock
<1>4. pc["shared"] = "watching" /\ pc["owner"] = "idle" /\ pc["ping"] = "idle"
  BY DEF Init, Actors
<1>5. connectionStatus.value = "Normal" /\ ~connectionStatus.unseen
  BY DEF Init, InitSharedState, Channel
<1> QED
  BY <1>1, <1>3, <1>4, <1>5
  DEF Init, InitHandle, IInv, SignalInv, HandleListens, ReportIsLast, ReasonToClose,
      FlagMeansClosing, PastTheLock, TerminationSignalled, CloseFrameOwed, Running, Closed,
      Closers, Closing

\* A step that touches none of the signals.
LEMMA SignalFrame ==
  ASSUME SignalInv,
         UNCHANGED <<pc, wire, has_sent_close_frame, handleStatus, connectionStatus>>
  PROVE  SignalInv'
BY DEF SignalInv, HandleListens, ReportIsLast, ReasonToClose, FlagMeansClosing,
       PastTheLock, TerminationSignalled, CloseFrameOwed, Running, Closed, ToldToStop

\* A sink that is closed, or broken, stays so.
LEMMA ClosedStays == TypeOK /\ Closed /\ [Next]_vars => Closed'
<1> SUFFICES ASSUME TypeOK, Closed, [Next]_vars PROVE Closed'
  OBVIOUS
<1> USE DEF Closed, sinkVars
<1>1. CASE ConnStep \/ ConnCancelled
  BY <1>1 DEF ConnStep, PongAccepted, PongMissed, RegisterPing, ClosedByHandle, Ignore,
              ReadPong, ReadEnding, ReadNothing, ConnCancelled
<1>2. CASE SharedStatus \/ SharedGone \/ \E c \in Closers : CloserStep(c)
  BY <1>2 DEF SharedStatus, SharedGone, CloserStep, CloserStore, CloserClose, CloserFlushed,
              CloserNotify, CloseSink
<1>3. CASE PingStep
  BY <1>3 DEF PingStep, PingTick, PingLocked, PingFlushed, PingNotify
<1>4. CASE OwnerWait \/ Outside
  BY <1>4 DEF OwnerWait, Outside, OwnerSend, OwnerLocked, OwnerFlushed, OwnerDrop,
              OwnerUnchanged, PeerPong, PeerSend, WireBreaks, Cancel, ReceiverDrop
<1>5. CASE Tick \/ Finished \/ UNCHANGED vars
  BY <1>5 DEF Tick, Finished, vars
<1> QED
  BY <1>1, <1>2, <1>3, <1>4, <1>5 DEF Next, ServerStep, SharedStep, Closers

\* The end of the connection, reported or not.
LEMMA SignalEnd ==
  ASSUME TypeOK, SignalInv, Running,
         NEW result \in {"ok", "error"}, Goto("conn", result),
         Closed => Closed', UNCHANGED has_sent_close_frame,
         \/ UNCHANGED connectionStatus
         \/ \E status \in ConnectionStatuses \ {"Normal"} : NotifyHandle(status)
  PROVE  SignalInv'
<1>1. /\ ~Running'
      /\ \A a \in Actors \ {"conn"} : pc'[a] = pc[a]
  BY GotoFacts DEF TypeOK, Running, Actors, States
<1>2. pc["shared"] = "watching"
  BY DEF SignalInv, HandleListens
<1>3. CASE UNCHANGED connectionStatus
  BY <1>1, <1>2, <1>3
  DEF SignalInv, HandleListens, ReportIsLast, ReasonToClose, FlagMeansClosing,
      PastTheLock, TerminationSignalled, CloseFrameOwed, Closers, Actors, Closing
<1>4. CASE \E status \in ConnectionStatuses \ {"Normal"} : NotifyHandle(status)
  <2>1. connectionStatus'.value # "Normal" /\ connectionStatus'.unseen
    BY <1>4, SendFacts DEF NotifyHandle, TypeOK
  <2> QED
    BY <1>1, <1>2, <2>1
    DEF SignalInv, HandleListens, ReportIsLast, ReasonToClose, FlagMeansClosing,
        PastTheLock, TerminationSignalled, CloseFrameOwed, Closers, Actors, Closing
<1> QED
  BY <1>3, <1>4

\* The loop of the connection keeps the signals.
LEMMA SignalConn ==
  ASSUME TypeOK, SignalInv, ConnStep \/ ConnCancelled
  PROVE  SignalInv'
<1>1. CASE PongAccepted \/ Ignore \/ ReadPong
  BY <1>1, SignalFrame DEF PongAccepted, Ignore, ReadPong, sinkVars
<1>2. CASE RegisterPing
  <2>1. ~ToldToStop
    BY <1>2 DEF RegisterPing, ToldToStop, Terminations
  <2> QED
    BY <1>2, <2>1
    DEF RegisterPing, sinkVars, SignalInv, HandleListens, ReportIsLast, ReasonToClose,
        FlagMeansClosing, PastTheLock, TerminationSignalled, CloseFrameOwed, Running, Closed
<1>3. CASE ClosedByHandle \/ ReadNothing \/ ConnCancelled
  BY <1>3, SignalEnd
  DEF ClosedByHandle, ReadNothing, ConnCancelled, HandleChanged, Received, LoopTurn, End,
      sinkVars, Closed
<1>4. CASE PongMissed
  BY <1>4, SignalEnd
  DEF PongMissed, LoopTurn, End, sinkVars, Closed, ConnectionStatuses
<1>5. CASE ReadEnding
  <2>1. PICK kind \in Endings :
          /\ Received(kind)
          /\ NotifyHandle(ReportOf[kind])
          /\ End(ResultOf[kind])
          /\ Closed => Closed'
          /\ UNCHANGED has_sent_close_frame
    BY <1>5 DEF ReadEnding, Closed
  <2>2. ReportOf[kind] \in ConnectionStatuses \ {"Normal"} /\ ResultOf[kind] \in {"ok", "error"}
    BY DEF Endings, ReportOf, ResultOf, ConnectionStatuses
  <2> QED
    BY <2>1, <2>2, SignalEnd DEF Received, LoopTurn, End
<1> QED
  BY <1>1, <1>2, <1>3, <1>4, <1>5 DEF ConnStep

\* The shared-state task keeps the signals while it waits.
LEMMA SignalShared ==
  ASSUME TypeOK, SignalInv, SharedStatus \/ SharedGone
  PROVE  SignalInv'
<1>1. /\ pc["shared"] = "watching"
      /\ ~Running
      /\ UNCHANGED <<wire, has_sent_close_frame, handleStatus>>
      /\ connectionStatus'.value = connectionStatus.value
      /\ ~connectionStatus'.unseen
  BY ReadFacts
  DEF SharedStatus, SharedGone, sinkVars, SignalInv, ReportIsLast, TypeOK
<1>2. PICK state \in {"checked", "done"} :
        /\ Goto("shared", state)
        /\ state = "checked" => connectionStatus.unseen
        /\ state = "done" => has_sent_close_frame \/ ~connectionStatus.unseen
  BY DEF SharedStatus, SharedGone, Answer, Leave
<1>3. /\ pc'["shared"] = state
      /\ \A a \in Actors \ {"shared"} : pc'[a] = pc[a]
  BY <1>2, GotoFacts DEF TypeOK, Actors, States, Closing
<1>4. pc'["owner"] = pc["owner"] /\ pc'["conn"] = pc["conn"]
  BY <1>3 DEF Actors
<1>5. FlagMeansClosing /\ ReasonToClose /\ PastTheLock /\ ReportIsLast /\ CloseFrameOwed
  BY DEF SignalInv
<1>6. ~Running' /\ (Closed' <=> Closed)
  BY <1>1, <1>4 DEF Running, Closed
<1>7. HandleListens' /\ TerminationSignalled' /\ ReportIsLast'
  BY <1>1, <1>6 DEF HandleListens, TerminationSignalled, ReportIsLast
<1>8. ReasonToClose'
  BY <1>1, <1>2, <1>3, <1>5 DEF ReasonToClose, ReportIsLast, Closing
<1>9. FlagMeansClosing'
  BY <1>1, <1>3, <1>4, <1>5, <1>6 DEF FlagMeansClosing, Closers
<1>10. PastTheLock'
  BY <1>2, <1>3, <1>4, <1>5, <1>6 DEF PastTheLock, Closers
<1>11. CloseFrameOwed'
  BY <1>1, <1>2, <1>3, <1>4, <1>5, <1>6, <1>9
  DEF CloseFrameOwed, FlagMeansClosing, Closers
<1> QED
  BY <1>7, <1>8, <1>9, <1>10, <1>11 DEF SignalInv

\* A closer, at any of its stages, keeps the signals.
LEMMA SignalCloser ==
  ASSUME TypeOK, LockDiscipline, SignalInv, NEW c \in Closers, CloserStep(c)
  PROVE  SignalInv'
<1>t. /\ c \in Actors /\ c # "conn" /\ c # "ping" /\ pc \in [Actors -> States]
      /\ pc[c] \in Closing
  BY DEF TypeOK, Closers, Actors, Closing, CloserStep, CloserStore, CloserClose,
         CloserFlushed, CloserNotify
<1>i. /\ HandleListens /\ ReportIsLast /\ ReasonToClose /\ FlagMeansClosing /\ PastTheLock
      /\ TerminationSignalled /\ CloseFrameOwed
  BY DEF SignalInv
\* The closer moves one stage on: nothing but the sink and the flag changes.
<1>a. ASSUME NEW state \in {"blocked", "flushing", "closed"}, Goto(c, state),
             UNCHANGED <<handleStatus, connectionStatus>>,
             Closed => Closed',
             state = "closed" => Closed',
             has_sent_close_frame' => has_sent_close_frame \/ state # "closed"
      PROVE  SignalInv'
  <2>1. pc'[c] = state /\ \A b \in Actors \ {c} : pc'[b] = pc[b]
    BY <1>a, <1>t, GotoFacts DEF States, Closing
  <2>2. pc'["conn"] = pc["conn"] /\ pc'["ping"] = pc["ping"] /\ (Running' <=> Running)
    BY <1>t, <2>1 DEF Actors, Running
  <2>3. \A d \in Closers : pc'[d] = IF d = c THEN state ELSE pc[d]
    BY <2>1 DEF Closers, Actors
  <2>4. HandleListens'
    BY <1>i, <1>t, <2>2, <2>3 DEF HandleListens, Closers, Closing
  <2>5. ReportIsLast' /\ TerminationSignalled'
    BY <1>a, <1>i, <2>2 DEF ReportIsLast, TerminationSignalled, ToldToStop
  <2>6. ReasonToClose'
    BY <1>a, <1>i, <1>t, <2>3 DEF ReasonToClose, Closers, Closing
  <2>7. FlagMeansClosing'
    BY <1>a, <1>i, <2>3 DEF FlagMeansClosing
  <2>8. PastTheLock'
    BY <1>a, <1>i, <2>3 DEF PastTheLock
  <2>9. CloseFrameOwed'
    BY <1>a, <1>i, <1>t, <2>2, <2>3 DEF CloseFrameOwed, Closers, Closing
  <2> QED
    BY <2>4, <2>5, <2>6, <2>7, <2>8, <2>9 DEF SignalInv
<1>1. CASE CloserStore(c)
  BY <1>1, <1>a DEF CloserStore, Closed
<1>2. CASE CloserClose(c)
  BY <1>2, <1>a DEF CloserClose, CloseSink, Closed
<1>3. CASE CloserFlushed(c)
  BY <1>3, <1>a DEF CloserFlushed, CloseSink, Closed
<1>4. CASE CloserNotify(c)
  <2>1. PICK state \in {"done", "dropped"} :
          Goto(c, state) /\ (state = "dropped" <=> c = "owner")
    BY <1>4 DEF CloserNotify, Finish, Closers
  <2>2. pc'[c] = state /\ \A b \in Actors \ {c} : pc'[b] = pc[b]
    BY <1>t, <2>1, GotoFacts DEF States
  <2>3. pc'["conn"] = pc["conn"] /\ pc'["ping"] = pc["ping"] /\ (Running' <=> Running)
    BY <1>t, <2>2 DEF Actors, Running
  <2>4. \A d \in Closers : pc'[d] = IF d = c THEN state ELSE pc[d]
    BY <2>2 DEF Closers, Actors
  <2>5. Closed /\ UNCHANGED <<wire, has_sent_close_frame, connectionStatus>>
    BY <1>4, <1>i DEF CloserNotify, PastTheLock, sinkVars
  <2>6. Running => ToldToStop'
    <3>1. HandleStatus("ServerClosedNormally", NoPayload) \in HandleStatusSet
      BY DEF HandleStatus, HandleStatusSet, Terminations
    <3> QED
      BY <1>4, <3>1, SendFacts
      DEF CloserNotify, NotifyConnection, ToldToStop, TypeOK, HandleStatus, Terminations
  <2>7. HandleListens' /\ ReportIsLast' /\ ReasonToClose' /\ TerminationSignalled'
    BY <1>i, <1>t, <2>1, <2>3, <2>4, <2>5, <2>6
    DEF HandleListens, ReportIsLast, ReasonToClose, TerminationSignalled, Closers, Closing
  <2>8. FlagMeansClosing' /\ PastTheLock' /\ CloseFrameOwed'
    BY <2>5 DEF FlagMeansClosing, PastTheLock, CloseFrameOwed, Closed
  <2> QED
    BY <2>7, <2>8 DEF SignalInv
<1> QED
  BY <1>1, <1>2, <1>3, <1>4 DEF CloserStep

\* The ping task keeps the signals: it does not end without saying so.
LEMMA SignalPing ==
  ASSUME TypeOK, SignalInv, PingStep
  PROVE  SignalInv'
<1>i. /\ HandleListens /\ ReportIsLast /\ ReasonToClose /\ FlagMeansClosing /\ PastTheLock
      /\ TerminationSignalled /\ CloseFrameOwed
  BY DEF SignalInv
<1>1. /\ pc["ping"] # "done"
      /\ UNCHANGED <<wire, has_sent_close_frame, connectionStatus>>
  BY DEF PingStep, PingTick, PingLocked, PingFlushed, PingNotify, sinkVars
<1>2. PICK state \in {"idle", "locking", "sending", "sent", "done"} :
        /\ Goto("ping", state)
        /\ state = "done" => NotifyConnection("PingTaskTerminated", NoPayload)
  BY DEF PingStep, PingTick, PingLocked, PingFlushed, PingNotify, SendPing, PingFails,
         PingSucceeds
<1>3. pc'["ping"] = state /\ \A a \in Actors \ {"ping"} : pc'[a] = pc[a]
  BY <1>2, GotoFacts DEF TypeOK, Actors, States
<1>4. /\ pc'["conn"] = pc["conn"] /\ pc'["shared"] = pc["shared"] /\ pc'["owner"] = pc["owner"]
      /\ (Running' <=> Running) /\ (Closed' <=> Closed)
  BY <1>1, <1>3 DEF Actors, Running, Closed
<1>5. TerminationSignalled'
  <2>1. HandleStatus("PingTaskTerminated", NoPayload) \in HandleStatusSet
    BY DEF HandleStatus, HandleStatusSet, Terminations
  <2> QED
    BY <1>2, <1>3, <1>4, <2>1, SendFacts
    DEF TerminationSignalled, NotifyConnection, ToldToStop, TypeOK, HandleStatus, Terminations
<1> QED
  BY <1>i, <1>1, <1>4, <1>5
  DEF SignalInv, HandleListens, ReportIsLast, ReasonToClose, FlagMeansClosing, PastTheLock,
      CloseFrameOwed, Closers

\* The owner keeps the signals: its drop gives up only if somebody else closes.
LEMMA SignalOwner ==
  ASSUME TypeOK, SignalInv, OwnerWait \/ OwnerSend \/ OwnerDrop
  PROVE  SignalInv'
<1>i. /\ HandleListens /\ ReportIsLast /\ ReasonToClose /\ FlagMeansClosing /\ PastTheLock
      /\ TerminationSignalled /\ CloseFrameOwed
  BY DEF SignalInv
<1>1. /\ pc["owner"] \in {"idle", "locking", "sending"}
      /\ UNCHANGED <<wire, has_sent_close_frame, connectionStatus, handleStatus>>
  BY DEF OwnerWait, OwnerSend, OwnerLocked, OwnerFlushed, OwnerDrop, OwnerUnchanged
<1>2. PICK state \in {"idle", "locking", "sending", "checked", "dropped"} :
        /\ Goto("owner", state)
        /\ state = "dropped" => ~SinkAlive \/ has_sent_close_frame
  BY DEF OwnerWait, OwnerSend, OwnerLocked, OwnerFlushed, OwnerDrop
<1>3. pc'["owner"] = state /\ \A a \in Actors \ {"owner"} : pc'[a] = pc[a]
  BY <1>2, GotoFacts DEF TypeOK, Actors, States, Closing
<1>4. /\ pc'["conn"] = pc["conn"] /\ pc'["shared"] = pc["shared"] /\ pc'["ping"] = pc["ping"]
      /\ (Running' <=> Running) /\ (Closed' <=> Closed)
  BY <1>1, <1>3 DEF Actors, Running, Closed
<1>5. HandleListens' /\ ReportIsLast' /\ ReasonToClose' /\ TerminationSignalled'
  BY <1>i, <1>1, <1>4
  DEF HandleListens, ReportIsLast, ReasonToClose, TerminationSignalled, ToldToStop
<1>6. FlagMeansClosing' /\ PastTheLock'
  BY <1>i, <1>1, <1>2, <1>3, <1>4 DEF FlagMeansClosing, PastTheLock, Closers
<1>7. CloseFrameOwed'
  <2>1. Running /\ pc'["owner"] = "dropped" => has_sent_close_frame
    BY <1>i, <1>2, <1>3 DEF HandleListens, SinkAlive
  <2> QED
    BY <1>i, <1>1, <1>2, <1>3, <1>4, <2>1 DEF CloseFrameOwed, FlagMeansClosing, Closers
<1> QED
  BY <1>5, <1>6, <1>7 DEF SignalInv

\* Every step keeps the invariant.
LEMMA IInvNext == IInv /\ [Next]_vars => IInv'
<1> SUFFICES ASSUME IInv, [Next]_vars PROVE IInv'
  OBVIOUS
<1>i. TypeOK /\ LockDiscipline /\ SignalInv
  BY DEF IInv
<1>1. TypeOK'
  BY <1>i, TypeNext
<1>2. LockDiscipline'
  BY <1>i, LockNext
<1>3. SignalInv'
  <2>1. CASE \E c \in Closers : CloserStep(c)
    BY <1>i, <2>1, SignalCloser
  <2>2. CASE PeerPong \/ PeerSend \/ Cancel \/ ReceiverDrop \/ Tick \/ Finished \/ UNCHANGED vars
    BY <1>i, <2>2, SignalFrame
    DEF PeerPong, PeerSend, Cancel, ReceiverDrop, Tick, Finished, vars, sinkVars
  <2>3. CASE WireBreaks
    <3>1. Closed' /\ UNCHANGED <<pc, has_sent_close_frame, handleStatus, connectionStatus>>
      BY <2>3 DEF WireBreaks, Closed
    <3> QED
      BY <1>i, <3>1
      DEF SignalInv, HandleListens, ReportIsLast, ReasonToClose, FlagMeansClosing,
          PastTheLock, TerminationSignalled, CloseFrameOwed, Running, ToldToStop
  <2> QED
    BY <1>i, <2>1, <2>2, <2>3, SignalConn, SignalShared, SignalPing, SignalOwner
    DEF Next, ServerStep, SharedStep, Outside, Closers
<1> QED
  BY <1>1, <1>2, <1>3 DEF IInv

\* The invariant holds of every state a connection can be in.
THEOREM Invariance == Spec => []IInv
<1> QED
  BY IInvInit, IInvNext, PTL DEF Spec

\* Every variable keeps its type, in every instance.
THEOREM TypeCorrect == Spec => []TypeOK
<1>1. IInv => TypeOK
  BY DEF IInv
<1> QED
  BY <1>1, Invariance, PTL

\* The lock of the sink is fair and exclusive, and no path forgets to release it.
THEOREM LockSafe == Spec => []LockDiscipline
<1>1. IInv => LockDiscipline
  BY DEF IInv
<1> QED
  BY <1>1, Invariance, PTL

\* The ping task does not end under a running connection without its notice.
THEOREM TerminationIsSignalled == Spec => []TerminationSignalled
<1>1. IInv => TerminationSignalled
  BY DEF IInv, SignalInv
<1> QED
  BY <1>1, Invariance, PTL

\* Whoever is owed a close frame has a closer on its way, or the frame.
THEOREM CloseFrameIsOwed == Spec => []CloseFrameOwed
<1>1. IInv => CloseFrameOwed
  BY DEF IInv, SignalInv
<1> QED
  BY <1>1, Invariance, PTL

-----------------------------------------------------------------------------
(* Deadlines *)

\* A step leaves the queue of pings as it is, empties it, takes its front, adds a
\* ping with the whole timeout left, or lets the time pass.
LEMMA QueueSteps ==
  ASSUME TypeOK, LockDiscipline, [Next]_vars
  PROVE  \/ ping_queue' = ping_queue
         \/ ping_queue' = <<>>
         \/ ping_queue # <<>> /\ ping_queue' = Tail(ping_queue)
         \/ ping_queue' = Append(ping_queue, NewPing)
         \/ ping_queue' = [i \in DOMAIN ping_queue |->
                             [ping_queue[i] EXCEPT !.left = Countdown(@)]]
<1>1. CASE ConnStep \/ ConnCancelled
  BY <1>1 DEF ConnStep, PongAccepted, FrontDue, PongMissed, RegisterPing, PushPing,
              ClosedByHandle, Ignore, ReadPong, ReadEnding, ReadNothing, ConnCancelled, End
<1>2. CASE SharedStatus \/ SharedGone \/ \E c \in Closers : CloserStep(c)
  BY <1>2 DEF SharedStatus, SharedGone, CloserStep, CloserStore, CloserClose, CloserFlushed,
              CloserNotify
<1>3. CASE PingStep
  BY <1>3 DEF PingStep, PingTick, PingLocked, PingFlushed, PingNotify
<1>4. CASE OwnerWait \/ Outside
  BY <1>4 DEF OwnerWait, Outside, OwnerSend, OwnerLocked, OwnerFlushed, OwnerDrop,
              OwnerUnchanged, PeerPong, PeerSend, WireBreaks, Cancel, ReceiverDrop
<1>5. CASE Tick \/ Finished \/ UNCHANGED vars
  BY <1>5 DEF Tick, Finished, vars
<1> QED
  BY <1>1, <1>2, <1>3, <1>4, <1>5 DEF Next, ServerStep, SharedStep, Closers

\* Waiting for the front's deadline misses no other, whatever the timing.
THEOREM DeadlinesAreOrdered == Spec => []DeadlinesOrdered
<1>1. Init => DeadlinesOrdered
  BY DEF Init, InitConnection, DeadlinesOrdered
<1>2. IInv /\ DeadlinesOrdered /\ [Next]_vars => DeadlinesOrdered'
  <2> SUFFICES ASSUME IInv, DeadlinesOrdered, [Next]_vars PROVE DeadlinesOrdered'
    OBVIOUS
  <2>a. /\ ping_queue \in Seq(PingContexts)
        /\ DOMAIN ping_queue = 1 .. Len(ping_queue) /\ Len(ping_queue) \in Nat
    BY DEF IInv, TypeOK
  <2>b. \A c \in PingContexts : c.left \in 0 .. PongTimeout
    BY DEF PingContexts
  <2>1. \A i \in DOMAIN ping_queue : ping_queue[i].left \in 0 .. PongTimeout
    BY <2>a, <2>b
  <2>2. CASE ping_queue' = ping_queue \/ ping_queue' = <<>>
    BY <2>2 DEF DeadlinesOrdered
  <2>3. CASE ping_queue # <<>> /\ ping_queue' = Tail(ping_queue)
    <3>1. /\ DOMAIN ping_queue' = 1 .. Len(ping_queue) - 1
          /\ \A i \in DOMAIN ping_queue' : ping_queue'[i] = ping_queue[i + 1]
      BY <2>a, <2>3
    <3>2. ASSUME NEW i \in DOMAIN ping_queue', NEW j \in DOMAIN ping_queue', i < j
          PROVE  ping_queue'[i].left <= ping_queue'[j].left
      <4>1. i + 1 \in DOMAIN ping_queue /\ j + 1 \in DOMAIN ping_queue /\ i + 1 < j + 1
        BY <2>a, <3>1, <3>2
      <4> QED
        BY <3>1, <4>1 DEF DeadlinesOrdered
    <3> QED
      BY <3>2 DEF DeadlinesOrdered
  <2>4. CASE ping_queue' = Append(ping_queue, NewPing)
    <3>1. /\ DOMAIN ping_queue' = 1 .. Len(ping_queue) + 1
          /\ \A i \in DOMAIN ping_queue : ping_queue'[i] = ping_queue[i]
          /\ ping_queue'[Len(ping_queue) + 1].left = PongTimeout
      BY <2>a, <2>4 DEF NewPing
    <3> QED
      BY <2>a, <2>1, <3>1, TimesAssumption DEF DeadlinesOrdered
  <2>5. CASE ping_queue' = [i \in DOMAIN ping_queue |->
                              [ping_queue[i] EXCEPT !.left = Countdown(@)]]
    <3>1. /\ DOMAIN ping_queue' = DOMAIN ping_queue
          /\ \A i \in DOMAIN ping_queue : ping_queue'[i].left = Countdown(ping_queue[i].left)
      <4>1. \A c \in PingContexts : [c EXCEPT !.left = Countdown(@)].left = Countdown(c.left)
        BY DEF PingContexts
      <4>2. \A i \in DOMAIN ping_queue : ping_queue[i] \in PingContexts
        BY <2>a
      <4> QED
        BY <2>5, <4>1, <4>2
    <3>2. \A m, n \in 0 .. PongTimeout : m <= n => Countdown(m) <= Countdown(n)
      BY TimesAssumption DEF Countdown
    <3> QED
      BY <2>a, <2>1, <3>1, <3>2 DEF DeadlinesOrdered
  <2> QED
    BY <2>2, <2>3, <2>4, <2>5, QueueSteps DEF IInv
<1> QED
  BY <1>1, <1>2, Invariance, PTL DEF Spec

-----------------------------------------------------------------------------
(* The number of pings awaited *)

\* A ping is sent on a tick and registered after its notification: a step that brings
\* no tick, sends no ping and tells of none brings none on its way.
LEMMA NoneSetsOut ==
  ASSUME interval'.due => interval.due, InFlight' => InFlight, Told' => Told
  PROVE  OnTheirWay' <= OnTheirWay
BY DEF OnTheirWay, Told, InFlight

\* A termination is not the notification of a ping.
LEMMA TerminationTells ==
  ASSUME TypeOK, NEW type \in Terminations, NotifyConnection(type, NoPayload)
  PROVE  Told' => Told
<1>1. HandleStatus(type, NoPayload) \in HandleStatusSet /\ type # "SendPing"
  BY DEF HandleStatus, HandleStatusSet, Terminations
<1>2. CASE Running
  <2>1. handleStatus'.value = HandleStatus(type, NoPayload)
    BY <1>1, <1>2, SendFacts DEF NotifyConnection, TypeOK
  <2> QED
    BY <1>1, <2>1 DEF Told, HandleStatus
<1> QED
  BY <1>2 DEF NotifyConnection, Told

\* The ping task sends one ping for a tick, and tells of the one it sent.
LEMMA PingStepPaced ==
  ASSUME TypeOK, PingStep
  PROVE  interval'.left = interval.left /\ OnTheirWay' <= OnTheirWay
<1>t. pc \in [Actors -> States] /\ interval \in Intervals
  BY DEF TypeOK
<1>a. ASSUME NEW state \in States, Goto("ping", state) PROVE pc'["ping"] = state
  BY <1>a, <1>t, GotoFacts DEF Actors
<1>b. ASSUME PingFails PROVE ~InFlight' /\ (Told' => Told)
  BY <1>a, <1>b, TerminationTells DEF PingFails, InFlight, States, Terminations
<1>c. ASSUME NEW p, PingSucceeds(p) PROVE Told' => Told
  BY <1>c DEF PingSucceeds, Told
<1>d. ASSUME NEW p, NEW queue, SendPing(p, queue) PROVE Told' => Told
  BY <1>b, <1>c, <1>d DEF SendPing, Told
<1>1. CASE PingTick
  <2>1. interval'.left = interval.left /\ ~interval'.due /\ interval.due /\ ~InFlight
    BY <1>1, <1>t DEF PingTick, TakeTick, Intervals, InFlight
  <2>2. Told' => Told
    BY <1>1, <1>b, <1>d DEF PingTick, Told
  <2> QED
    BY <2>1, <2>2 DEF OnTheirWay, Told, InFlight
<1>2. CASE PingLocked \/ PingFlushed
  <2>1. interval' = interval /\ InFlight
    BY <1>2 DEF PingLocked, PingFlushed, InFlight
  <2>2. Told' => Told
    BY <1>2, <1>b, <1>c, <1>d DEF PingLocked, PingFlushed
  <2> QED
    BY <2>1, <2>2, NoneSetsOut
<1>3. CASE PingNotify
  <2>1. interval' = interval /\ InFlight /\ ~InFlight'
    BY <1>3, <1>a DEF PingNotify, InFlight, States
  <2> QED
    BY <2>1 DEF OnTheirWay, Told, InFlight
<1> QED
  BY <1>1, <1>2, <1>3 DEF PingStep

\* Registering a ping takes it from its way to the queue, before any deadline is due.
LEMMA RegisterPaced ==
  ASSUME TypeOK, RegisterPing
  PROVE  /\ ping_queue' = Append(ping_queue, NewPing)
         /\ ~FrontDue
         /\ interval' = interval
         /\ OnTheirWay' = OnTheirWay - 1
         /\ OnTheirWay' <= 2
<1>1. Told /\ ~Told'
  BY ReadFacts DEF RegisterPing, HandleChanged, Told, TypeOK
<1>2. InFlight' = InFlight /\ interval' = interval
  BY DEF RegisterPing, pingTaskVars, InFlight
<1>3. OnTheirWay' = OnTheirWay - 1 /\ OnTheirWay' <= 2
  BY <1>1, <1>2 DEF OnTheirWay
<1> QED
  BY <1>2, <1>3 DEF RegisterPing, HandleChanged, PushPing

\* A step of anybody else but the clock brings no ping on its way.
LEMMA OthersPaced ==
  ASSUME TypeOK, LockDiscipline,
         \/ (ConnStep \/ ConnCancelled) /\ ~RegisterPing
         \/ SharedStep \/ CloserStep("owner") \/ OwnerWait \/ Outside
         \/ Finished \/ UNCHANGED vars
  PROVE  interval' = interval /\ OnTheirWay' <= OnTheirWay
<1>t. pc \in [Actors -> States]
  BY DEF TypeOK
<1>a. ASSUME interval' = interval, pc'["ping"] = pc["ping"], Told' => Told
      PROVE  interval' = interval /\ OnTheirWay' <= OnTheirWay
  BY <1>a, NoneSetsOut DEF InFlight
<1>b. ASSUME NEW a \in Actors \ {"ping"}, NEW state \in States, Goto(a, state)
      PROVE  pc'["ping"] = pc["ping"]
  BY <1>b, <1>t, GotoFacts DEF Actors
<1>c. handleStatus' = handleStatus \/ handleStatus' = BorrowAndUpdate(handleStatus)
        => (Told' => Told)
  BY ReadFacts DEF TypeOK, Told
<1>1. CASE (ConnStep \/ ConnCancelled) /\ ~RegisterPing
  <2>1. pc'["ping"] = pc["ping"]
    <3>1. ASSUME NEW result \in {"ok", "error"}, End(result) PROVE pc'["ping"] = pc["ping"]
      BY <1>b, <3>1 DEF End, Actors, States
    <3>2. \A kind \in Endings : ResultOf[kind] \in {"ok", "error"}
      BY DEF Endings, ResultOf
    <3> QED
      BY <1>1, <3>1, <3>2
      DEF ConnStep, PongAccepted, PongMissed, ClosedByHandle, Ignore, ReadPong, ReadEnding,
          ReadNothing, ConnCancelled
  <2>2. /\ interval' = interval
        /\ handleStatus' = handleStatus \/ handleStatus' = BorrowAndUpdate(handleStatus)
    BY <1>1 DEF ConnStep, PongAccepted, PongMissed, ClosedByHandle, Ignore, ReadPong,
                ReadEnding, ReadNothing, ConnCancelled, pingTaskVars
  <2> QED
    BY <1>a, <1>c, <2>1, <2>2
<1>2. CASE SharedStatus \/ SharedGone
  BY <1>2, <1>a, <1>b, <1>c
  DEF SharedStatus, SharedGone, Answer, Leave, pingTaskVars, Actors, States, Closing
<1>3. ASSUME NEW c \in Closers, CloserStep(c)
      PROVE  interval' = interval /\ OnTheirWay' <= OnTheirWay
  <2>1. interval' = interval
    BY <1>3 DEF CloserStep, CloserStore, CloserClose, CloserFlushed, CloserNotify, pingTaskVars
  <2>2. pc'["ping"] = pc["ping"]
    BY <1>3, <1>b DEF CloserStep, CloserStore, CloserClose, CloserFlushed, CloserNotify,
                      CloseSink, Finish, Closers, Actors, States, Closing
  <2>3. Told' => Told
    BY <1>3, <1>c, TerminationTells DEF CloserStep, CloserStore, CloserClose, CloserFlushed,
                                        CloserNotify, Terminations
  <2> QED
    BY <1>a, <2>1, <2>2, <2>3
<1>4. CASE OwnerWait \/ Outside
  <2>1. /\ interval' = interval /\ handleStatus' = handleStatus
        /\ \/ pc' = pc
           \/ \E state \in States : Goto("owner", state)
    BY <1>4 DEF OwnerWait, Outside, OwnerSend, OwnerLocked, OwnerFlushed, OwnerDrop,
                OwnerUnchanged, PeerPong, PeerSend, WireBreaks, Cancel, ReceiverDrop,
                pingTaskVars, States, Closing
  <2> QED
    BY <1>a, <1>b, <1>c, <2>1 DEF Actors
<1>5. CASE Finished \/ UNCHANGED vars
  BY <1>5, <1>a, <1>c DEF Finished, vars
<1> QED
  BY <1>1, <1>2, <1>3, <1>4, <1>5 DEF SharedStep, Closers

\* QueuePaced of one ping: "left" until its deadline, "behind" pings behind it and
\* "way" on their way, "next" until the next tick.
PacedAt(left, behind, way, next) ==
  IF left > 0
  THEN PingInterval * (behind + way - 2) <= PongTimeout - left + next - 1
  ELSE PingInterval * (behind - 2) <= PongTimeout + PingInterval - 2

\* Arithmetic: multiples of the interval.
LEMMA Multiples ==
  /\ \A x, y \in Int : x <= y => PingInterval * x <= PingInterval * y
  /\ \A x \in Int : PingInterval * (x + 1) = PingInterval * x + PingInterval
  /\ \A x \in Int : PingInterval * x \in Int
<1>1. PingInterval \in Int /\ PingInterval > 0
  BY TimesAssumption
<1> QED
  BY <1>1

\* A ping is paced whatever falls off its way.
LEMMA PacedLess ==
  ASSUME NEW left \in Nat, NEW behind \in Nat, NEW way \in Nat, NEW less \in Nat,
         NEW next \in 1 .. PingInterval,
         less <= way,
         PacedAt(left, behind, way, next)
  PROVE  PacedAt(left, behind, less, next)
<1>1. PingInterval * (behind + less - 2) <= PingInterval * (behind + way - 2)
  <2>1. behind + less - 2 \in Int /\ behind + way - 2 \in Int
        /\ behind + less - 2 <= behind + way - 2
    OBVIOUS
  <2> QED
    BY <2>1, Multiples
<1>2. PingInterval * (behind + less - 2) \in Int /\ PingInterval * (behind + way - 2) \in Int
  <2>1. behind + less - 2 \in Int /\ behind + way - 2 \in Int
    OBVIOUS
  <2> QED
    BY <2>1, Multiples
<1> QED
  BY <1>1, <1>2, TimesAssumption DEF PacedAt

\* Time paces a ping: a unit off its deadline is one off the next tick, or the tick.
LEMMA PacedTick ==
  ASSUME NEW left \in Nat, NEW behind \in Nat, NEW way \in Nat, NEW later \in Nat,
         NEW next \in 1 .. PingInterval, NEW following \in 1 .. PingInterval,
         \/ later = way /\ (following = next \/ following = next - 1)
         \/ later <= way + 1 /\ next = 1 /\ following = PingInterval,
         PacedAt(left, behind, way, next)
  PROVE  PacedAt(Countdown(left), behind, later, following)
<1>t. PingInterval \in Nat /\ PingInterval > 0 /\ PongTimeout \in Nat
  BY TimesAssumption
<1>1. CASE left = 0
  BY <1>1 DEF PacedAt, Countdown
<1>2. CASE left = 1
  <2>1. PacedAt(1, behind, 0, next)
    BY <1>2, PacedLess
  <2>2. PingInterval * (behind - 2) \in Int
    <3>1. behind - 2 \in Int
      OBVIOUS
    <3> QED
      BY <3>1, Multiples
  <2>3. behind + 0 - 2 = behind - 2
    OBVIOUS
  <2>4. PingInterval * (behind - 2) <= PongTimeout - 1 + next - 1
    BY <2>1, <2>3 DEF PacedAt
  <2>5. Countdown(left) = 0
    BY <1>2 DEF Countdown
  <2> QED
    BY <1>t, <2>2, <2>4, <2>5 DEF PacedAt
<1>3. CASE left > 1
  <2>1. Countdown(left) = left - 1 /\ left - 1 > 0
    BY <1>3 DEF Countdown
  <2>2. PingInterval * (behind + way - 2) <= PongTimeout - left + next - 1
    BY <1>3 DEF PacedAt
  <2>3. PingInterval * (behind + way - 2) \in Int
    <3>1. behind + way - 2 \in Int
      OBVIOUS
    <3> QED
      BY <3>1, Multiples
  <2>4. CASE later = way /\ (following = next \/ following = next - 1)
    BY <1>t, <2>1, <2>2, <2>3, <2>4 DEF PacedAt
  <2>5. CASE later <= way + 1 /\ next = 1 /\ following = PingInterval
    <3>1. PingInterval * (behind + (way + 1) - 2)
            = PingInterval * (behind + way - 2) + PingInterval
      <4>1. behind + way - 2 \in Int /\ behind + (way + 1) - 2 = (behind + way - 2) + 1
        OBVIOUS
      <4> QED
        BY <4>1, Multiples
    <3>2. PacedAt(left - 1, behind, way + 1, PingInterval)
      BY <1>t, <2>1, <2>2, <2>3, <2>5, <3>1 DEF PacedAt
    <3> QED
      BY <1>t, <2>1, <2>5, <3>2, PacedLess
  <2> QED
    BY <2>4, <2>5
<1> QED
  BY <1>1, <1>2, <1>3

\* QueuePaced, ping by ping.
LEMMA PacedPings ==
  QueuePaced <=> \A i \in DOMAIN ping_queue :
                   PacedAt(ping_queue[i].left, Behind(i), OnTheirWay, interval.left)
BY DEF QueuePaced, PacedAt

\* The numbers a ping is paced by.
LEMMA PacedTypes ==
  ASSUME TypeOK
  PROVE  /\ OnTheirWay \in 0 .. 3
         /\ interval.left \in 1 .. PingInterval
         /\ ping_queue \in Seq(PingContexts)
         /\ DOMAIN ping_queue = 1 .. Len(ping_queue) /\ Len(ping_queue) \in Nat
         /\ \A i \in DOMAIN ping_queue :
              /\ ping_queue[i] \in PingContexts
              /\ ping_queue[i].left \in 0 .. PongTimeout
              /\ Behind(i) \in Nat
<1>1. /\ ping_queue \in Seq(PingContexts)
      /\ DOMAIN ping_queue = 1 .. Len(ping_queue) /\ Len(ping_queue) \in Nat
  BY DEF TypeOK
<1>2. OnTheirWay \in 0 .. 3
  BY DEF OnTheirWay
<1>3. interval.left \in 1 .. PingInterval
  BY DEF TypeOK, Intervals
<1>4. \A c \in PingContexts : c.left \in 0 .. PongTimeout
  BY DEF PingContexts
<1> QED
  BY <1>1, <1>2, <1>3, <1>4 DEF Behind

\* The interval of the ping task comes nearer to its tick, or the tick is due.
LEMMA TickInterval ==
  ASSUME TypeOK, Tick
  PROVE  IF pc["ping"] = "done" THEN interval' = interval
         ELSE \/ /\ interval.left > 1
                 /\ interval'.left = interval.left - 1 /\ interval'.due = interval.due
              \/ interval.left = 1 /\ interval' = [left |-> PingInterval, due |-> TRUE]
<1>1. interval \in [left : 1 .. PingInterval, due : BOOLEAN]
  BY DEF TypeOK, Intervals
<1>2. CASE pc["ping"] = "done"
  BY <1>2 DEF Tick
<1>3. CASE pc["ping"] # "done" /\ interval.left > 1
  <2>1. interval' = [interval EXCEPT !.left = interval.left - 1]
    BY <1>3 DEF Tick
  <2> QED
    BY <1>1, <1>3, <2>1
<1>4. CASE pc["ping"] # "done" /\ ~(interval.left > 1)
  <2>1. interval' = [left |-> PingInterval, due |-> TRUE]
    BY <1>4 DEF Tick
  <2>2. interval.left = 1
    BY <1>1, <1>4, TimesAssumption
  <2> QED
    BY <1>4, <2>1, <2>2
<1> QED
  BY <1>2, <1>3, <1>4

\* Every step keeps the pings paced.
LEMMA PacedNext ==
  IInv /\ DeadlinesOrdered /\ QueuePaced /\ [Next]_vars => QueuePaced'
<1> SUFFICES ASSUME IInv, DeadlinesOrdered, QueuePaced, [Next]_vars PROVE QueuePaced'
  OBVIOUS
<1>t. TypeOK /\ TypeOK' /\ LockDiscipline
  BY TypeNext DEF IInv
<1>q. /\ \A i \in DOMAIN ping_queue :
           PacedAt(ping_queue[i].left, Behind(i), OnTheirWay, interval.left)
      /\ OnTheirWay \in 0 .. 3 /\ interval.left \in 1 .. PingInterval
      /\ OnTheirWay' \in 0 .. 3 /\ interval'.left \in 1 .. PingInterval
      /\ DOMAIN ping_queue = 1 .. Len(ping_queue) /\ Len(ping_queue) \in Nat
      /\ \A i \in DOMAIN ping_queue :
           ping_queue[i].left \in 0 .. PongTimeout /\ Behind(i) \in Nat
  <2>1. OnTheirWay' \in 0 .. 3
    BY DEF OnTheirWay
  <2>2. interval'.left \in 1 .. PingInterval
    BY <1>t DEF TypeOK, Intervals
  <2> QED
    BY <1>t, <2>1, <2>2, PacedPings, PacedTypes
<1>s. SUFFICES \A i \in DOMAIN ping_queue' :
                 PacedAt(ping_queue'[i].left, Behind(i)', OnTheirWay', interval'.left)
  BY DEF QueuePaced, PacedAt
<1>1. CASE /\ interval'.left = interval.left /\ OnTheirWay' <= OnTheirWay
           /\ \/ ping_queue' = ping_queue
              \/ ping_queue' = <<>>
              \/ ping_queue # <<>> /\ ping_queue' = Tail(ping_queue)
  <2>1. CASE ping_queue' = ping_queue
    <3>1. \A i \in DOMAIN ping_queue : Behind(i)' = Behind(i)
      BY <2>1 DEF Behind
    <3> QED
      BY <1>1, <1>q, <2>1, <3>1, PacedLess
  <2>2. CASE ping_queue' = <<>>
    BY <2>2
  <2>3. CASE ping_queue # <<>> /\ ping_queue' = Tail(ping_queue)
    <3>1. ping_queue \in Seq(PingContexts)
      BY <1>t, PacedTypes
    <3>2. /\ DOMAIN ping_queue' = 1 .. Len(ping_queue) - 1
          /\ Len(ping_queue') = Len(ping_queue) - 1
          /\ \A i \in DOMAIN ping_queue' : ping_queue'[i] = ping_queue[i + 1]
      BY <1>q, <2>3, <3>1
    <3>3. ASSUME NEW i \in DOMAIN ping_queue'
          PROVE  /\ i + 1 \in DOMAIN ping_queue
                 /\ Behind(i)' = Behind(i + 1)
                 /\ ping_queue'[i] = ping_queue[i + 1]
      BY <1>q, <3>2, <3>3 DEF Behind
    <3>4. ASSUME NEW i \in DOMAIN ping_queue'
          PROVE  PacedAt(ping_queue'[i].left, Behind(i)', OnTheirWay', interval'.left)
      <4>1. PacedAt(ping_queue[i + 1].left, Behind(i + 1), OnTheirWay, interval.left)
        BY <1>q, <3>3
      <4>2. /\ ping_queue[i + 1].left \in Nat /\ Behind(i + 1) \in Nat
            /\ OnTheirWay \in Nat /\ OnTheirWay' \in Nat
        BY <1>q, <3>3
      <4>3. PacedAt(ping_queue[i + 1].left, Behind(i + 1), OnTheirWay', interval.left)
        BY <1>1, <1>q, <4>1, <4>2, PacedLess
      <4> QED
        BY <1>1, <3>3, <4>3
    <3> QED
      BY <3>4
  <2> QED
    BY <1>1, <2>1, <2>2, <2>3
<1>2. CASE RegisterPing
  <2>1. /\ ping_queue' = Append(ping_queue, NewPing)
        /\ ~FrontDue
        /\ interval' = interval
        /\ OnTheirWay' = OnTheirWay - 1
        /\ OnTheirWay' <= 2
    BY <1>2, <1>t, RegisterPaced
  <2>2. ping_queue \in Seq(PingContexts)
    BY <1>t, PacedTypes
  <2>3. /\ DOMAIN ping_queue' = 1 .. Len(ping_queue) + 1
        /\ Len(ping_queue') = Len(ping_queue) + 1
        /\ \A i \in DOMAIN ping_queue : ping_queue'[i] = ping_queue[i]
        /\ ping_queue'[Len(ping_queue) + 1].left = PongTimeout
    BY <1>q, <2>1, <2>2 DEF NewPing
  <2>4. ASSUME NEW i \in DOMAIN ping_queue
        PROVE  PacedAt(ping_queue'[i].left, Behind(i)', OnTheirWay', interval'.left)
    <3>1. ping_queue[i].left > 0
      <4>1. Head(ping_queue) = ping_queue[1] /\ 1 \in DOMAIN ping_queue
        BY <1>q, <2>2
      <4>2. ping_queue[1].left > 0
        BY <1>q, <2>1, <4>1 DEF FrontDue
      <4>3. ping_queue[1].left <= ping_queue[i].left
        BY <1>q, <4>1 DEF DeadlinesOrdered
      <4> QED
        BY <1>q, <4>1, <4>2, <4>3
    <3>2. Behind(i)' = Behind(i) + 1
      BY <1>q, <2>3 DEF Behind
    <3>3. Behind(i) + 1 + (OnTheirWay - 1) - 2 = Behind(i) + OnTheirWay - 2
      BY <1>q
    <3>4. PacedAt(ping_queue[i].left, Behind(i), OnTheirWay, interval.left)
      BY <1>q
    <3> QED
      BY <2>1, <2>3, <3>1, <3>2, <3>3, <3>4 DEF PacedAt
  <2>5. PacedAt(PongTimeout, 0, OnTheirWay', interval'.left)
    <3>1. PacedAt(PongTimeout, 0, 2, interval'.left)
      <4>1. PingInterval * (0 + 2 - 2) = 0 /\ PingInterval * (0 - 2) <= 0
        BY TimesAssumption
      <4> QED
        BY <1>q, <4>1, TimesAssumption DEF PacedAt
    <3> QED
      BY <1>q, <2>1, <3>1, PacedLess, TimesAssumption
  <2>6. ASSUME NEW i \in DOMAIN ping_queue', i \notin DOMAIN ping_queue
        PROVE  PacedAt(ping_queue'[i].left, Behind(i)', OnTheirWay', interval'.left)
    <3>1. i = Len(ping_queue) + 1
      BY <1>q, <2>3, <2>6
    <3>2. Behind(i)' = 0
      BY <1>q, <2>3, <3>1 DEF Behind
    <3>3. ping_queue'[i].left = PongTimeout
      BY <2>3, <3>1
    <3> QED
      BY <2>5, <3>2, <3>3
  <2> QED
    BY <2>4, <2>6
<1>3. CASE Tick
  <2>1. /\ DOMAIN ping_queue' = DOMAIN ping_queue
        /\ Len(ping_queue') = Len(ping_queue)
        /\ \A i \in DOMAIN ping_queue : ping_queue'[i].left = Countdown(ping_queue[i].left)
    <3>1. \A c \in PingContexts : [c EXCEPT !.left = Countdown(@)].left = Countdown(c.left)
      BY DEF PingContexts
    <3>2. \A i \in DOMAIN ping_queue : ping_queue[i] \in PingContexts
      BY <1>t, PacedTypes
    <3>3. ping_queue' = [i \in DOMAIN ping_queue |->
                           [ping_queue[i] EXCEPT !.left = Countdown(@)]]
      BY <1>3 DEF Tick
    <3>4. Len(ping_queue') = Len(ping_queue)
      BY <1>q, <3>3
    <3> QED
      BY <3>1, <3>2, <3>3, <3>4
  <2>2. \/ /\ OnTheirWay' = OnTheirWay
           /\ interval'.left = interval.left \/ interval'.left = interval.left - 1
        \/ /\ OnTheirWay' <= OnTheirWay + 1
           /\ interval.left = 1 /\ interval'.left = PingInterval
    <3>1. pc' = pc /\ handleStatus' = handleStatus
      BY <1>3 DEF Tick
    <3>2. \/ interval' = interval
          \/ interval'.left = interval.left - 1 /\ interval'.due = interval.due
          \/ interval.left = 1 /\ interval' = [left |-> PingInterval, due |-> TRUE]
      BY <1>3, <1>t, TickInterval
    <3>3. InFlight' = InFlight /\ Told' = Told
      BY <1>3 DEF Tick, InFlight, Told
    <3> QED
      BY <3>1, <3>2, <3>3 DEF OnTheirWay
  <2>3. ASSUME NEW i \in DOMAIN ping_queue
        PROVE  PacedAt(ping_queue'[i].left, Behind(i)', OnTheirWay', interval'.left)
    <3>1. Behind(i)' = Behind(i)
      BY <2>1 DEF Behind
    <3>2. /\ PacedAt(ping_queue[i].left, Behind(i), OnTheirWay, interval.left)
          /\ ping_queue[i].left \in Nat /\ Behind(i) \in Nat
          /\ OnTheirWay \in Nat /\ OnTheirWay' \in Nat
      BY <1>q
    <3>3. PacedAt(Countdown(ping_queue[i].left), Behind(i), OnTheirWay', interval'.left)
      BY <1>q, <2>2, <3>2, PacedTick
    <3> QED
      BY <2>1, <3>1, <3>3
  <2> QED
    BY <2>1, <2>3
<1>4. CASE PingStep
  BY <1>1, <1>4, <1>t, PingStepPaced DEF PingStep, PingTick, PingLocked, PingFlushed, PingNotify
<1>5. CASE \/ (ConnStep \/ ConnCancelled) /\ ~RegisterPing
           \/ SharedStep \/ CloserStep("owner") \/ OwnerWait \/ Outside
           \/ Finished \/ UNCHANGED vars
  <2>1. interval' = interval /\ OnTheirWay' <= OnTheirWay
    BY <1>5, <1>t, OthersPaced
  <2>2. \/ ping_queue' = ping_queue
        \/ ping_queue' = <<>>
        \/ ping_queue # <<>> /\ ping_queue' = Tail(ping_queue)
    <3>1. CASE (ConnStep \/ ConnCancelled) /\ ~RegisterPing
      BY <3>1 DEF ConnStep, PongAccepted, FrontDue, PongMissed, ClosedByHandle, Ignore,
                  ReadPong, ReadEnding, ReadNothing, ConnCancelled, End
    <3>2. CASE SharedStep \/ CloserStep("owner")
      BY <3>2 DEF SharedStep, SharedStatus, SharedGone, CloserStep, CloserStore, CloserClose,
                  CloserFlushed, CloserNotify
    <3>3. CASE OwnerWait \/ Outside
      BY <3>3 DEF OwnerWait, Outside, OwnerSend, OwnerLocked, OwnerFlushed, OwnerDrop,
                  OwnerUnchanged, PeerPong, PeerSend, WireBreaks, Cancel, ReceiverDrop
    <3>4. CASE Finished \/ UNCHANGED vars
      BY <3>4 DEF Finished, vars
    <3> QED
      BY <1>5, <3>1, <3>2, <3>3, <3>4
  <2> QED
    BY <1>1, <2>1, <2>2
<1> QED
  BY <1>2, <1>3, <1>4, <1>5 DEF Next, ServerStep

\* A paced queue is bounded: it is no longer than what is behind its front.
LEMMA PacedBounded == TypeOK /\ QueuePaced => PingQueueBounded
<1> SUFFICES ASSUME TypeOK, QueuePaced, PongTimeout > 0
             PROVE  Len(ping_queue)
                      <= 3 + (PongTimeout + PingInterval - 2) \div PingInterval
  BY DEF PingQueueBounded
<1> DEFINE room == PongTimeout + PingInterval - 2
<1>t. /\ PingInterval \in Nat /\ PingInterval > 0 /\ PongTimeout \in Nat
      /\ room \in Nat
  BY TimesAssumption
<1>q. /\ Len(ping_queue) \in Nat /\ DOMAIN ping_queue = 1 .. Len(ping_queue)
      /\ OnTheirWay \in 0 .. 3 /\ interval.left \in 1 .. PingInterval
  BY PacedTypes
<1>d. room \div PingInterval \in Nat
  BY <1>t
<1>1. CASE Len(ping_queue) = 0
  BY <1>1, <1>d
<1>2. CASE Len(ping_queue) > 0
  <2> DEFINE behind == Len(ping_queue) - 1
  <2>1. /\ 1 \in DOMAIN ping_queue /\ behind \in Nat /\ Behind(1) = behind
        /\ ping_queue[1].left \in 0 .. PongTimeout
    BY <1>2, <1>q, PacedTypes DEF Behind
  <2>2. PacedAt(ping_queue[1].left, behind, OnTheirWay, interval.left)
    BY <2>1, PacedPings
  <2>3. PacedAt(ping_queue[1].left, behind, 0, interval.left)
    BY <1>q, <2>1, <2>2, PacedLess
  <2>4. PingInterval * (behind - 2) <= room
    <3>1. behind + 0 - 2 = behind - 2 /\ behind - 2 \in Int
      BY <2>1
    <3>2. PingInterval * (behind - 2) \in Int
      BY <3>1, Multiples
    <3> QED
      BY <1>t, <1>q, <2>1, <2>3, <3>1, <3>2 DEF PacedAt
  <2>5. behind - 2 <= room \div PingInterval
    <3> HIDE DEF room, behind
    <3>1. \A n \in Nat, k \in Int :
            PingInterval * k <= n => k <= n \div PingInterval
      BY <1>t
    <3>2. behind - 2 \in Int
      BY <2>1
    <3> QED
      BY <1>t, <2>4, <3>1, <3>2
  <2> QED
    BY <1>d, <2>1, <2>5
<1> QED
  BY <1>1, <1>2, <1>q

\* The queue of pings is bounded by the timing, whatever the interval and the timeout.
THEOREM PingQueueIsBounded == Spec => []PingQueueBounded
<1>1. Init => QueuePaced
  BY DEF Init, InitConnection, QueuePaced
<1>2. IInv /\ QueuePaced => PingQueueBounded
  BY PacedBounded DEF IInv
<1> QED
  BY <1>1, <1>2, PacedNext, Invariance, DeadlinesAreOrdered, PTL DEF Spec

-----------------------------------------------------------------------------
(* The connection implements the session *)


\* The abstract values of a state.
Frame ==
  CASE wire = "closed" -> "sent"
    [] wire = "broken" -> "lost"
    [] wire \notin {"closed", "broken"} /\ ~SinkAlive -> "abandoned"
    [] OTHER -> "unsent"
Handle == IF pc["owner"] \in {"idle", "locking", "sending"} THEN "held" ELSE "released"

\* A sink that was dropped does not come back.
LEMMA SinkStaysDropped ==
  ASSUME IInv, [Next]_vars, ~SinkAlive
  PROVE  ~SinkAlive'
<1>t. TypeOK /\ pc \in [Actors -> States]
  BY DEF IInv, TypeOK
<1>d. /\ pc["shared"] = "done"
      /\ pc["owner"] \notin {"locking", "sending", "checked", "blocked", "flushing"}
      /\ pc["ping"] \notin {"locking", "sending"}
  BY DEF SinkAlive
<1>r. ~Running
  BY <1>d DEF IInv, SignalInv, HandleListens
<1>1. CASE ConnStep \/ ConnCancelled
  BY <1>1, <1>r DEF ConnStep, ConnCancelled, PongAccepted, PongMissed, RegisterPing,
                    ClosedByHandle, Ignore, ReadPong, ReadEnding, ReadNothing,
                    HandleChanged, Received, LoopTurn
<1>2. CASE SharedStatus \/ SharedGone
  BY <1>2, <1>d DEF SharedStatus, SharedGone
<1>3. CASE \E c \in Closers : CloserStep(c)
  <2>1. PICK c \in Closers : CloserStep(c)
    BY <1>3
  <2>2. c = "owner" /\ CloserNotify(c)
    BY <1>d, <2>1 DEF Closers, CloserStep, CloserStore, CloserClose, CloserFlushed, CloserNotify
  <2>3. Goto("owner", "dropped")
    BY <2>2 DEF CloserNotify, Finish
  <2>4. pc'["owner"] = "dropped" /\ pc'["shared"] = pc["shared"] /\ pc'["ping"] = pc["ping"]
    BY <1>t, <2>3, GotoFacts DEF Actors, States
  <2> QED
    BY <1>d, <2>4 DEF SinkAlive
<1>4. CASE PingStep
  <2>1. PICK state \in {"idle", "done"} : Goto("ping", state)
    BY <1>4, <1>d DEF PingStep, PingTick, PingLocked, PingFlushed, PingNotify, PingFails
  <2>2. pc'["ping"] = state /\ pc'["shared"] = pc["shared"] /\ pc'["owner"] = pc["owner"]
    BY <1>t, <2>1, GotoFacts DEF Actors, States
  <2> QED
    BY <1>d, <2>2 DEF SinkAlive
<1>5. CASE OwnerWait \/ OwnerSend \/ OwnerDrop
  <2>1. Goto("owner", "dropped")
    BY <1>5, <1>d DEF OwnerWait, OwnerSend, OwnerLocked, OwnerFlushed, OwnerDrop, SinkAlive
  <2>2. pc'["owner"] = "dropped" /\ pc'["shared"] = pc["shared"] /\ pc'["ping"] = pc["ping"]
    BY <1>t, <2>1, GotoFacts DEF Actors, States
  <2> QED
    BY <1>d, <2>2 DEF SinkAlive
<1>6. CASE pc' = pc
  BY <1>d, <1>6 DEF SinkAlive
<1> QED
  BY <1>1, <1>2, <1>3, <1>4, <1>5, <1>6
  DEF Next, ServerStep, SharedStep, Closers, Outside, PeerPong, PeerSend, WireBreaks, Cancel,
      ReceiverDrop, Tick, Finished, vars

\* What moves a closer.
LEMMA CloserMoves ==
  ASSUME IInv, [Next]_vars, NEW c \in Closers
  PROVE  \/ pc'[c] = pc[c]
         \/ CloserStep(c)
         \/ c = "shared" /\ (SharedStatus \/ SharedGone)
         \/ c = "owner" /\ (OwnerSend \/ OwnerWait \/ OwnerDrop)
<1>t. pc \in [Actors -> States] /\ c \in Actors /\ c \in {"shared", "owner"}
  BY DEF IInv, TypeOK, Closers, Actors
<1>m. ASSUME NEW a \in Actors, a # c, \E state \in States : Goto(a, state)
      PROVE  pc'[c] = pc[c]
  BY <1>t, <1>m, GotoFacts
<1>1. CASE ConnStep \/ ConnCancelled
  <2>1. UNCHANGED pc \/ \E state \in {"ok", "error"} : Goto("conn", state)
    BY <1>1 DEF ConnStep, ConnCancelled, PongAccepted, PongMissed, RegisterPing, ClosedByHandle,
                Ignore, ReadPong, ReadEnding, ReadNothing, End, ResultOf, Endings
  <2> QED
    BY <1>t, <1>m, <2>1 DEF Actors, States
<1>2. CASE PingStep
  <2>1. \E state \in {"idle", "locking", "sending", "sent", "done"} : Goto("ping", state)
    BY <1>2 DEF PingStep, PingTick, PingLocked, PingFlushed, PingNotify, SendPing, PingFails,
                PingSucceeds
  <2> QED
    BY <1>t, <1>m, <2>1 DEF Actors, States
<1>3. CASE SharedStatus \/ SharedGone
  <2>1. \E state \in {"checked", "done"} : Goto("shared", state)
    BY <1>3 DEF SharedStatus, SharedGone, Answer, Leave
  <2> QED
    BY <1>t, <1>3, <1>m, <2>1 DEF Actors, States, Closing
<1>4. CASE \E d \in Closers : CloserStep(d)
  <2>1. PICK d \in Closers : CloserStep(d)
    BY <1>4
  <2>2. \E state \in Closing \cup {"done", "dropped"} : Goto(d, state)
    BY <2>1 DEF CloserStep, CloserStore, CloserClose, CloserFlushed, CloserNotify, CloseSink,
                Finish, Closing
  <2> QED
    BY <1>m, <2>1, <2>2 DEF Actors, Closers, States
<1>5. CASE OwnerSend \/ OwnerWait \/ OwnerDrop
  <2>1. \E state \in {"idle", "locking", "sending", "checked", "dropped"} : Goto("owner", state)
    BY <1>5 DEF OwnerSend, OwnerWait, OwnerLocked, OwnerFlushed, OwnerDrop
  <2> QED
    BY <1>t, <1>5, <1>m, <2>1 DEF Actors, States, Closing
<1>6. CASE UNCHANGED pc
  BY <1>6
<1> QED
  BY <1>1, <1>2, <1>3, <1>4, <1>5, <1>6
  DEF Next, ServerStep, SharedStep, Closers, Outside, PeerPong, PeerSend, WireBreaks, Cancel,
      ReceiverDrop, Tick, Finished, vars

\* A closer on its way to the sink stays there until it has closed it.
LEMMA CloserArrives ==
  ASSUME IInv, [Next]_vars, NEW c \in Closers, pc[c] \in {"checked", "blocked", "flushing"}
  PROVE  pc'[c] \in {"checked", "blocked", "flushing"} \/ Closed'
<1>t. pc \in [Actors -> States] /\ c \in Actors
  BY DEF IInv, TypeOK, Closers, Actors
<1>1. CASE CloserStep(c)
  <2>1. \E state \in {"blocked", "flushing", "closed"} : Goto(c, state)
    BY <1>1 DEF CloserStep, CloserStore, CloserClose, CloserFlushed, CloserNotify, CloseSink
  <2>2. pc'[c] \in {"blocked", "flushing", "closed"}
    BY <1>t, <2>1, GotoFacts DEF States, Closing
  <2> QED
    BY <2>2, IInvNext DEF IInv, SignalInv, PastTheLock
<1>2. ~(c = "shared" /\ (SharedStatus \/ SharedGone))
  BY DEF SharedStatus, SharedGone
<1>3. ~(c = "owner" /\ (OwnerSend \/ OwnerWait \/ OwnerDrop))
  BY DEF OwnerSend, OwnerWait, OwnerLocked, OwnerFlushed, OwnerDrop
<1> QED
  BY <1>1, <1>2, <1>3, CloserMoves

\* The handle is dropped by its owner, who found nothing to close, or has closed it.
LEMMA DropFound ==
  ASSUME IInv, DropCloses, [Next]_vars, pc'["owner"] = "dropped"
  PROVE  Closed \/ ~SinkAlive \/ \E c \in Closers : pc[c] \in {"checked", "blocked", "flushing"}
<1>t. TypeOK /\ pc \in [Actors -> States] /\ "owner" \in Closers /\ "owner" \in Actors
  BY DEF IInv, TypeOK, Closers, Actors
<1>1. CASE pc["owner"] = "dropped"
  BY <1>1 DEF DropCloses
<1>2. CASE CloserStep("owner")
  <2>1. pc["owner"] \in Closing
    BY <1>2 DEF CloserStep, CloserStore, CloserClose, CloserFlushed, CloserNotify, Closing
  <2> QED
    BY <1>t, <2>1 DEF IInv, SignalInv, PastTheLock, Closing
<1>3. CASE OwnerSend \/ OwnerWait
  <2>1. \E state \in {"idle", "locking", "sending"} : Goto("owner", state)
    BY <1>3 DEF OwnerSend, OwnerWait, OwnerLocked, OwnerFlushed
  <2> QED
    BY <1>t, <2>1, GotoFacts DEF States
<1>4. CASE OwnerDrop
  <2>1. CASE SinkAlive /\ ~has_sent_close_frame
    <3>1. Goto("owner", "checked")
      BY <1>4, <2>1 DEF OwnerDrop
    <3> QED
      BY <1>t, <3>1, GotoFacts DEF States, Closing
  <2> QED
    BY <2>1 DEF IInv, SignalInv, FlagMeansClosing
<1> QED
  BY <1>t, <1>1, <1>2, <1>3, <1>4, CloserMoves

LEMMA DropClosesNext ==
  IInv /\ DropCloses /\ [Next]_vars => DropCloses'
<1> SUFFICES ASSUME IInv, DropCloses, [Next]_vars, pc'["owner"] = "dropped"
             PROVE  \/ Closed' \/ ~SinkAlive'
                    \/ \E c \in Closers : pc'[c] \in {"checked", "blocked", "flushing"}
  BY DEF DropCloses
<1>1. TypeOK
  BY DEF IInv
<1> QED
  BY <1>1, DropFound, ClosedStays, SinkStaysDropped, CloserArrives

\* A step that leaves the wire alone keeps the frame, or abandons it; a sink is
\* dropped unclosed only after an end that was not reported, under a handle still held.
LEMMA FrameKept ==
  ASSUME IInv, DropCloses, [Next]_vars, wire' = wire
  PROVE  \/ Frame' = Frame
         \/ /\ Frame = "unsent" /\ Frame' = "abandoned"
            /\ ~Running' /\ connectionStatus'.value = "Normal" /\ Handle' = "held"
<1>1. IInv'
  BY IInvNext
<1>2. CASE Closed
  BY <1>2 DEF Closed, Frame
<1>3. CASE ~Closed /\ SinkAlive' = SinkAlive
  BY <1>3 DEF Closed, Frame
<1>4. CASE ~Closed /\ SinkAlive /\ ~SinkAlive'
  <2>1. ~Closed'
    BY <1>4 DEF Closed
  <2>2. /\ pc'["shared"] \notin {"watching", "checked", "blocked", "flushing"}
        /\ pc'["owner"] \notin {"locking", "sending", "checked", "blocked", "flushing"}
    BY <1>4 DEF SinkAlive
  <2>3. ~Running' /\ connectionStatus'.value = "Normal"
    BY <1>1, <2>1, <2>2 DEF IInv, SignalInv, HandleListens, CloseFrameOwed, Closers
  <2>4. Handle' = "held"
    <3>1. pc'["owner"] # "closed"
      BY <1>1, <2>1 DEF IInv, SignalInv, PastTheLock, Closers
    <3>2. pc'["owner"] # "dropped"
      <4> SUFFICES ASSUME pc'["owner"] = "dropped" PROVE FALSE
        OBVIOUS
      <4>1. PICK c \in Closers : pc[c] \in {"checked", "blocked", "flushing"}
        BY <1>4, DropFound
      <4> QED
        BY <2>1, <2>2, <4>1, CloserArrives DEF Closers
    <3> QED
      BY <1>1, <2>2, <3>1, <3>2 DEF IInv, TypeOK, Closing, Handle
  <2> QED
    BY <1>4, <2>1, <2>3, <2>4 DEF Closed, Frame
<1> QED
  BY <1>2, <1>3, <1>4, SinkStaysDropped DEF SinkAlive

\* A step that changes nothing else stutters, or is the sink's drop.
LEMMA SessionStutter ==
  ASSUME IInv, DropCloses, [Next]_vars, wire' = wire,
         pc'["conn"] = pc["conn"], Handle' = Handle,
         connectionStatus'.value = connectionStatus.value
  PROVE  S!Next \/ UNCHANGED S!session
<1>1. CASE Frame' = Frame
  BY <1>1 DEF S!session, Frame, Handle
<1>2. CASE /\ Frame = "unsent" /\ Frame' = "abandoned"
           /\ ~Running' /\ connectionStatus'.value = "Normal" /\ Handle' = "held"
  BY <1>2 DEF S!Next, S!FrameStep, S!Abandon, Frame, Handle, Running
<1> QED
  BY <1>1, <1>2, FrameKept

\* The end of the task moves nobody else.
LEMMA EndFacts ==
  ASSUME TypeOK, NEW result \in {"ok", "error"}, End(result)
  PROVE  pc'["conn"] = result /\ Handle' = Handle /\ SinkAlive' = SinkAlive
<1>1. pc'["conn"] = result /\ \A a \in Actors \ {"conn"} : pc'[a] = pc[a]
  BY GotoFacts DEF End, TypeOK, Actors, States
<1> QED
  BY <1>1 DEF Handle, SinkAlive, Actors

\* An end of the task that tells the handle nothing.
LEMMA SessionLeave ==
  ASSUME TypeOK, Running, End("ok"), UNCHANGED <<connectionStatus, wire>>
  PROVE  S!Leave
<1>1. pc'["conn"] = "ok" /\ Handle' = Handle /\ SinkAlive' = SinkAlive
  BY EndFacts
<1> QED
  BY <1>1 DEF S!Leave, Running, Handle

\* The close of the sink is the frame of the session, and it has a reason.
LEMMA SessionCloseSink ==
  ASSUME IInv, NEW c \in Closers, pc[c] \in {"blocked", "flushing"}, CloseSink(c),
         UNCHANGED connectionStatus
  PROVE  S!SendFrame \/ UNCHANGED S!session
<1>1. pc \in [Actors -> States] /\ c \in Actors /\ c # "conn"
  BY DEF IInv, TypeOK, Closers, Actors
<1>2. pc'[c] = "closed" /\ \A b \in Actors \ {c} : pc'[b] = pc[b]
  BY <1>1, GotoFacts DEF CloseSink, States, Closing
<1>3. pc'["conn"] = pc["conn"] /\ Handle' = Handle
  BY <1>1, <1>2 DEF Handle, Closers, Actors
<1>4. connectionStatus.value # "Normal" \/ Handle = "released"
  BY DEF IInv, SignalInv, ReasonToClose, Handle, Closers, Closing
<1>a. SinkAlive
  BY DEF SinkAlive, Closers
<1>5. CASE wire \in {"open", "peerClosed"}
  BY <1>3, <1>4, <1>5, <1>a DEF CloseSink, S!SendFrame, Handle
<1>6. CASE wire \in {"closed", "broken"}
  BY <1>3, <1>6 DEF CloseSink, S!session, Handle
<1> QED
  BY <1>5, <1>6 DEF IInv, TypeOK

\* Every step of the loop is a step of the session, or a stutter.
LEMMA SessionConn ==
  ASSUME IInv, DropCloses, ConnStep \/ ConnCancelled
  PROVE  S!Next \/ UNCHANGED S!session
<1>t. TypeOK /\ pc \in [Actors -> States] /\ [Next]_vars
  BY DEF IInv, TypeOK, Next, ServerStep
<1>1. CASE PongAccepted \/ RegisterPing \/ Ignore \/ ReadPong
  <2>1. UNCHANGED <<pc, wire, connectionStatus>>
    BY <1>1 DEF PongAccepted, RegisterPing, Ignore, ReadPong, sinkVars
  <2> QED
    BY <1>t, <2>1, SessionStutter DEF Handle
<1>2. CASE ClosedByHandle \/ ReadNothing \/ ConnCancelled
  BY <1>2, <1>t, SessionLeave
  DEF ClosedByHandle, ReadNothing, ConnCancelled, HandleChanged, Received, LoopTurn, sinkVars,
      S!Next
<1>3. CASE PongMissed
  <2>1. pc'["conn"] = "ok" /\ Handle' = Handle /\ SinkAlive' = SinkAlive
    BY <1>3, <1>t, EndFacts DEF PongMissed
  <2>2. connectionStatus'.value = "ConnectionTerminated"
    BY <1>3, <1>t, SendFacts DEF PongMissed, NotifyHandle, TypeOK, ConnectionStatuses
  <2>3. wire' = wire /\ pc["conn"] = "running"
    BY <1>3 DEF PongMissed, LoopTurn, Running, sinkVars
  <2> QED
    BY <2>1, <2>2, <2>3 DEF S!Next, S!Depart, S!Goodbyes, Handle
<1>4. CASE ReadEnding
  <2>1. PICK kind \in Endings :
          /\ Received(kind)
          /\ NotifyHandle(ReportOf[kind])
          /\ End(ResultOf[kind])
          /\ wire' = wire \/ (wire = "open" /\ wire' \in {"peerClosed", "broken"})
    BY <1>4 DEF ReadEnding
  <2>2. /\ ReportOf[kind] \in ConnectionStatuses
        /\ ResultOf[kind] \in {"ok", "error"}
        /\ ResultOf[kind] = "error" => ReportOf[kind] \in S!Faults
        /\ ResultOf[kind] = "ok" => ReportOf[kind] \in S!Goodbyes
    BY DEF Endings, ReportOf, ResultOf, ConnectionStatuses, S!Faults, S!Goodbyes
  <2>3. /\ pc'["conn"] = ResultOf[kind] /\ pc["conn"] = "running"
        /\ Handle' = Handle /\ SinkAlive' = SinkAlive
    BY <1>t, <2>1, <2>2, EndFacts DEF Received, LoopTurn, Running
  <2>4. connectionStatus'.value = ReportOf[kind]
    BY <1>t, <2>1, <2>2, SendFacts DEF NotifyHandle, TypeOK
  <2>5. pc["shared"] = "watching"
    BY <2>3 DEF IInv, SignalInv, HandleListens, Running
  <2>6. SinkAlive
    BY <2>5 DEF SinkAlive
  <2>7. Frame' = Frame \/ (Frame = "unsent" /\ Frame' = "lost")
    BY <2>1, <2>3, <2>6 DEF Frame
  <2>8. CASE ResultOf[kind] = "error"
    BY <2>2, <2>3, <2>4, <2>7, <2>8 DEF S!Next, S!Fail, Frame, Handle
  <2>9. CASE ResultOf[kind] = "ok"
    BY <2>2, <2>3, <2>4, <2>7, <2>9 DEF S!Next, S!Depart, Frame, Handle
  <2> QED
    BY <2>2, <2>8, <2>9
<1> QED
  BY <1>1, <1>2, <1>3, <1>4 DEF ConnStep

\* So is every step of a closer.
LEMMA SessionCloser ==
  ASSUME IInv, DropCloses, NEW c \in Closers, CloserStep(c)
  PROVE  S!Next \/ UNCHANGED S!session
<1>t. pc \in [Actors -> States] /\ c \in Actors /\ c # "conn" /\ [Next]_vars
  BY DEF IInv, TypeOK, Closers, Actors, Next, ServerStep, SharedStep
<1>a. ASSUME NEW state \in Closing \cup {"done", "dropped"}, Goto(c, state), pc[c] \in Closing,
             UNCHANGED <<wire, connectionStatus>>
      PROVE  S!Next \/ UNCHANGED S!session
  <2>1. pc'[c] = state /\ \A b \in Actors \ {c} : pc'[b] = pc[b]
    BY <1>a, <1>t, GotoFacts DEF States, Closing
  <2>2. pc'["conn"] = pc["conn"] /\ Handle' = Handle
    BY <1>a, <1>t, <2>1 DEF Handle, Closers, Actors, Closing
  <2> QED
    BY <1>a, <1>t, <2>2, SessionStutter
<1>1. CASE CloserStore(c)
  BY <1>1, <1>a DEF CloserStore, Closing
<1>2. CASE CloserClose(c)
  BY <1>2, <1>a, SessionCloseSink DEF CloserClose, Closing, S!Next, S!FrameStep
<1>3. CASE CloserFlushed(c)
  BY <1>3, SessionCloseSink DEF CloserFlushed, S!Next, S!FrameStep
<1>4. CASE CloserNotify(c)
  BY <1>4, <1>a DEF CloserNotify, Finish, Closing, sinkVars
<1> QED
  BY <1>1, <1>2, <1>3, <1>4 DEF CloserStep

\* And those of the other actors: only the drop of the handle, a failure of the wire
\* and the drop of the sink show.
LEMMA SessionOthers ==
  ASSUME IInv, DropCloses, SharedStatus \/ SharedGone \/ PingStep \/ OwnerWait \/ Outside \/ Tick
  PROVE  S!Next \/ UNCHANGED S!session
<1>t. TypeOK /\ pc \in [Actors -> States] /\ [Next]_vars
  BY DEF IInv, TypeOK, Next, ServerStep, SharedStep
<1>1. CASE SharedStatus \/ SharedGone
  <2>1. PICK state \in {"checked", "done"} : Goto("shared", state)
    BY <1>1 DEF SharedStatus, SharedGone, Answer, Leave
  <2>2. pc'["conn"] = pc["conn"] /\ pc'["owner"] = pc["owner"]
    BY <1>t, <2>1, GotoFacts DEF Actors, States, Closing
  <2>3. wire' = wire /\ connectionStatus'.value = connectionStatus.value
    BY <1>1, <1>t, ReadFacts DEF SharedStatus, SharedGone, sinkVars, TypeOK
  <2> QED
    BY <1>t, <2>2, <2>3, SessionStutter DEF Handle
<1>2. CASE PingStep
  <2>1. PICK state \in {"idle", "locking", "sending", "sent", "done"} : Goto("ping", state)
    BY <1>2 DEF PingStep, PingTick, PingLocked, PingFlushed, PingNotify, SendPing, PingFails,
                PingSucceeds
  <2>2. pc'["conn"] = pc["conn"] /\ pc'["owner"] = pc["owner"]
    BY <1>t, <2>1, GotoFacts DEF Actors, States
  <2>3. UNCHANGED <<wire, connectionStatus>>
    BY <1>2 DEF PingStep, PingTick, PingLocked, PingFlushed, PingNotify, sinkVars
  <2> QED
    BY <1>t, <2>2, <2>3, SessionStutter DEF Handle
<1>3. CASE OwnerWait \/ OwnerSend
  <2>1. /\ pc["owner"] \in {"idle", "locking", "sending"}
        /\ UNCHANGED <<wire, connectionStatus>>
    BY <1>3 DEF OwnerWait, OwnerSend, OwnerLocked, OwnerFlushed, OwnerUnchanged
  <2>2. PICK state \in {"idle", "locking", "sending"} : Goto("owner", state)
    BY <1>3 DEF OwnerWait, OwnerSend, OwnerLocked, OwnerFlushed
  <2>3. pc'["conn"] = pc["conn"] /\ pc'["owner"] = state
    BY <1>t, <2>2, GotoFacts DEF Actors, States
  <2> QED
    BY <1>t, <2>1, <2>3, SessionStutter DEF Handle
<1>4. CASE OwnerDrop
  <2>1. pc["owner"] = "idle" /\ UNCHANGED <<wire, connectionStatus>>
    BY <1>4 DEF OwnerDrop, OwnerUnchanged
  <2>2. PICK state \in {"checked", "dropped"} :
          Goto("owner", state) /\ (state = "checked" => SinkAlive)
    BY <1>4 DEF OwnerDrop
  <2>3. pc'["owner"] = state /\ \A a \in Actors \ {"owner"} : pc'[a] = pc[a]
    BY <1>t, <2>2, GotoFacts DEF Actors, States, Closing
  <2>4. pc'["conn"] = pc["conn"] /\ SinkAlive' = SinkAlive
    BY <2>1, <2>2, <2>3 DEF SinkAlive, Actors
  <2> QED
    BY <2>1, <2>3, <2>4 DEF S!Next, S!Release
<1>5. CASE WireBreaks
  BY <1>5 DEF WireBreaks, S!Next, S!FrameStep, S!Lose
<1>6. CASE PeerPong \/ PeerSend \/ Cancel \/ ReceiverDrop \/ Tick
  <2>1. UNCHANGED <<pc, wire, connectionStatus>>
    BY <1>6 DEF PeerPong, PeerSend, Cancel, ReceiverDrop, Tick, sinkVars
  <2> QED
    BY <1>t, <2>1, SessionStutter DEF Handle
<1> QED
  BY <1>1, <1>2, <1>3, <1>4, <1>5, <1>6 DEF Outside

\* The connection does what its session promises, and nothing else, in every
\* instance: the tasks, the lock and the channels do not show.
THEOREM SessionImplemented == Spec => ImplementsSession
<1>1. Init => S!Init
  <2> SUFFICES ASSUME Init PROVE S!Init
    OBVIOUS
  <2>1. pc["conn"] = "running" /\ pc["owner"] = "idle" /\ SinkAlive
    BY DEF Init, Actors, SinkAlive
  <2> QED
    BY <2>1 DEF Init, InitSharedState, InitHandle, Channel, S!Init
<1>2. IInv /\ DropCloses /\ [Next]_vars => [S!Next]_(S!session)
  <2> SUFFICES ASSUME IInv, DropCloses, [Next]_vars PROVE S!Next \/ UNCHANGED S!session
    OBVIOUS
  <2>1. CASE Finished \/ UNCHANGED vars
    <3>1. UNCHANGED <<pc, wire, connectionStatus>>
      BY <2>1 DEF Finished, vars
    <3> QED
      BY <3>1, SessionStutter DEF Handle
  <2> QED
    BY <2>1, SessionConn, SessionCloser, SessionOthers
    DEF Next, ServerStep, SharedStep, Closers
<1>3. Init => DropCloses
  BY DEF Init, DropCloses, Actors
<1> QED
  BY <1>1, <1>2, <1>3, DropClosesNext, Invariance, PTL DEF Spec, ImplementsSession, S!Spec
=============================================================================
