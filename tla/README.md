# A verification of `reception`

`reception` (Rust, `src/src/`) binds a TCP listener, accepts WebSocket peers and
hands each to the application as a pair: a `Client` that delivers models and a
`ClientHandle` that sends them. Below each pair sits a `Connection`, which keeps
the peer alive with pings, and a `ConnectionHandle`, which shares the sink of the
socket with two background tasks. This directory holds TLA+ models of that code,
the TLC runs that check them and the proofs that TLAPS checks.

Paths below are relative to the repository; line numbers refer to `src/src/`.

## Inventory

| component | state | operations | talks to |
|---|---|---|---|
| `Connection` (`connection/mod.rs`) | `stream`, `ping_queue`, `pong_payload_queue`, its half of the shared state | `new`, `new_handle`, one turn of `run` (deadline, handle status, peer message) | the peer; `ConnectionHandle` through two watch channels; the `Client` through a callback |
| `ConnectionHandle` (`connection/connection_handle.rs`) | `weak_sink`, `has_sent_close_frame`; the sink itself behind a mutex, owned by the shared-state task | shared-state task, ping task, `send`, `drop`, `send_close_frame_if` | the peer; `Connection` |
| shared state (`connection/shared_state/`) | two watch channels: `HandleStatus` to the loop, `ConnectionStatus` to the handle | `notify` of each half | |
| `PingContext`, `ConnectionConfig` | payload and deadline; `ping_interval`, `pong_timeout` | `new` | |
| `Client` (`client/mod.rs`) | receiver of raw items, its connection's handle until `new_handle`, a watch sender | `new` (spawns the connection), `run` (deserialise one item) | `Connection`; `ClientHandle` |
| `ClientHandle` (`client/client_handle.rs`) | `Arc<Mutex<Option<connection handle>>>` | `send`, `close`, the task that drops the inner handle after an ill-formed model | `ConnectionHandle` |
| `Listener` (`listener/mod.rs`) | TCP listener, bind's token, both ends of the channel of clients | `bind`, `run` (accept or deliver), a handshake task per peer | peers; `Connection`, `Client`; the application through a callback |
| echo example (`examples/echo.rs`) | a channel of models, a task per client | the callback, `handle_client`, `main` | `Listener`, `Client`, `ClientHandle` |
| configuration, `SenderHandle`, `lib.rs` | plain data, a trait, re-exports | | |

Outside the repository: tokio (watch and mpsc channels, FIFO mutex, timers, worker
threads), `cancellable` (runs `run()` in a loop in a task, until it breaks, fails,
its callback fails or its token is cancelled), tungstenite (the protocol), the peer.

What is hard here:

* four actors - the loop, the shared-state task, the ping task and the owner of the
  handle - and one mutex, one atomic flag and two channels that keep only the
  latest value;
* detached tasks that nobody joins: each has to notice the end by itself;
* `futures::executor::block_on` on a worker thread of the runtime;
* deadlines, ticks and pongs that race each other, in a biased `select!`;
* failures of the sink at any of its uses;
* handshakes that outlive the listener, clients that nobody takes, and two tokens of
  which each reaches only a part of the tasks.

`PROJECT.json` lists these as hazards, each at its line. What makes the parts right:

* *keepalive*: a peer that answers its pings in order and in time is never dropped,
  one that answers none is; the queue of pings stays sorted and short;
* *closing*: whatever ends the connection, the close frame goes out at most once,
  after a reason to close, and is owed until it went out or the sink broke; every
  path gives the mutex back;
* *release*: after the connection ended and its handle was dropped, no task and no
  reference keeps the socket;
* *promise to the layers above*: one end, one report at most, the two agree;
* *models*: the application gets what the connection received, in order, once, up to the
  first ill-formed item, even if the connection is long over;
* *the connection's handle*: dropped exactly once, never from under a send, and never
  left behind in its mutex; an ill-formed model always gets it dropped;
* *peers*: each is accepted or refused, and each client has one owner until it is dropped,
  when its connection is closed, however the listener ends;
* *the example*: everything received is answered in order, and the end of the connection
  takes every task with it.

## Modules

| module | what it is |
|---|---|
| `WatchChannel` | a `tokio::sync::watch` channel as its one receiver sees it: the latest value, and whether it was seen |
| `Connection` | the detailed model: loop, shared-state task, ping task, owner of the handle, mutex, channels, peer, clock, worker threads |
| `Session` | the abstract specification: what the layers above may rely on |
| `ConnectionProperties` | the properties of `Connection`, its inductive invariant, and the refinement mapping to `Session` |
| `MCConnection` | instances for TLC, and a specification in which a flush may wait for ever |
| `Keepalive` | `Connection` on a server that keeps up with its timers: `TimelySpec`, what may be said of pings and pongs then, and the inductive invariants |
| `MCKeepalive` | instances for TLC |
| `Client` | the detailed model of a `Client` and its `ClientHandle`, with `Session` as the connection below |
| `ClientProperties` | their properties and inductive invariant |
| `MCClient` | instances for TLC |
| `Listener` | the listener, its handshakes and its channel, with one `Session` for each peer |
| `ListenerProperties` | its properties and inductive invariant |
| `Echo` | the example: `Client` with the application filled in |
| `EchoProperties` | its properties and inductive invariant |
| `MCListener`, `MCEcho` | instances for TLC |
| `WatchChannelProofs`, `ConnectionProofs`, `KeepaliveProofs`, `ClientProofs`, `ListenerProofs`, `EchoProofs` | the theorems, their lemmas and proofs |

The layers are composed through `Session`: `Connection` is shown to implement it, `Client` uses
one as its connection, and `Listener` one for each peer. That these two do to a connection only
what its session allows holds by construction, since they change it through `Session`'s own
actions (the drop in `Listener`, written out, is its `Release`), and so is not among the
properties. `Echo` extends `Client` with the application's code in the same way: each of its
steps is one of `Client`'s, or leaves `Client`'s variables alone.

### How `Connection` corresponds to the code

One action is what runs between two points where a task can be suspended or another
thread can see its effects.

* **Loop** (`connection/mod.rs:188-248`). One action per arm: `PongAccepted`,
  `PongMissed`, `RegisterPing`, `ClosedByHandle`, `Ignore`, `ReadPong`,
  `ReadEnding`, `ReadNothing`. The guards state the bias of the `select!`: a passed
  deadline of the front ping goes before a status of the handle, and both before the
  stream. `ConnCancelled` is the surrounding cancellable task dropping `run()`. A
  turn that reports and breaks is one action: nothing is awaited in between, and the
  only actor that could see the report earlier, the shared-state task, reacts to it
  in the same way before and after the end. The `Normal` arm and the `Err` arm of
  `changed()` are unreachable: nobody sends `Normal`, and the loop ends only with
  the sender's last holders still alive or with a termination notified before they went.
* **Shared-state task** (`connection_handle.rs:57-102`): `SharedStatus` reads a report
  and loads the flag; `SharedGone` is `changed()` failing because the loop is gone
  and said nothing new.
* **`send_close_frame_if`** (`:139-166`), run by that task and by `drop`: the flag is
  loaded (in the caller's action), stored (`CloserStore`), the mutex is queued for,
  granted and the sink flushed and closed (`CloserClose`, `CloserFlushed`), and
  the loop notified (`CloserNotify`). From the first stage to the last the caller keeps
  a worker thread (`Busy`), because `block_on` does not yield it.
* **Ping task** (`:104-137`): `PingTick` (take the tick, upgrade the weak reference,
  take or queue for the mutex), `PingLocked`, `PingFlushed`, and `PingNotify` as an
  action of its own, since the guard of the mutex is released before it: other
  actors can act between the two.
* **Owner** (`:180-213`): `OwnerSend`, `OwnerLocked`, `OwnerFlushed` and `OwnerDrop`.
  A send that completes at once leaves no trace in the state and has no action. A
  send and a drop do not overlap: `send` takes `&mut self`.
* **Peer, network, application, clock**: `PeerPong` (in the order of the pings),
  `PeerSend`, `WireBreaks`, `Cancel`, `ReceiverDrop`, `Tick`.

The sink exists as long as somebody holds a strong reference (`SinkAlive`), which is
computed from where the actors are. `wire` is our sending direction: `open`;
`peerClosed` after the peer's close was read, when tungstenite refuses further
messages; `closed`; `broken`. Its value after a reading error is a choice, because
the error leaves it open whether the other direction still works.

Abstractions: payloads of binary messages and texts of logs are left out. Ten random
bytes are a payload not in use (`Outstanding`). The deadline of a ping is the time
left to it. A flush either completes at once or waits for the peer (`Backpressure`).
The owner is assumed to run on a worker of the same runtime, as in the example and in
the tests. What `cancellable` does with a callback that fails (the task ends without
an error) is taken from the test `should_complete_task_when_fails_to_send_new_message`
(`connection/mod.rs:532`).

Operators named `X_Y` are wrong versions of the `X` defined after them. No action uses
them; a property is tested by putting one in the place of `X` and seeing it fail.

### `Session`

Four variables: the task with its result, the last status told to the handle, whether the
handle was released, and what became of the close frame. `Session` is used three times: it is
what `Connection` is shown to implement, the connection in `Client`, and the connection of each
peer in `Listener`. A fault ends the task with an error, a goodbye without one; each is told in
the step that ends the task and nothing is told afterwards; the close frame is sent at most
once, and only after something was told or the handle was released. If the task ends without a
word while the handle is held, the sink may go unclosed (`Abandon`: the frame is `abandoned`).
An end that was told is never abandoned, nor is a sink that the drop of the handle found:
whoever drops the handle closes it (`connection_handle.rs:181-189`). `ConnectionProperties`
maps `Connection` to it and the mapping is both model-checked and proved. `Session` also names
what the layers above may wait for: `ReleaseEnds` and `FrameSettles`, which
`connection_liveness` checks of `Connection` (as `DropEndsConnection` and `ReportAnswered`) and
which `Client` assumes as fairness.

### How `Client` corresponds to the code

* **Connection below**: `Forward` and `Unforwarded` are the callback given to
  `spawn_with_callback` (`client/mod.rs:43-46`): the unbounded channel takes an item as
  long as the receiver exists, and without it the callback fails and ends the task.
  `ConnEnds` and `Close` are steps of the session; `SelfEnds` says in which
  ways the connection of a run may end by itself.
* **Client**: `Spawn` (`new_handle` and the start of the task), `Discard` (a `Client`
  dropped instead), and the outcomes of `run` (`:94-113`): `Deliver`, with the
  application's own callback that may refuse the model, `Reject`, `Exhausted`,
  `ClientCancelled`. `Reject` notifies and ends the task in one step: nothing is
  awaited in between, and what the notified task does is the same before and after.
  With the task go the receiver and the items in it.
* **Mutex of the handle** (`client_handle.rs:22`): `inner` is whether it holds
  `Some(handle)`, `holder` who has it. It is fair and has two users, so a waiting user
  gets it when the other releases it. The guards are temporaries that live to the end of
  their statement: in `drop(self.inner.lock().await.take())` (`:46`, `:63`) the handle is
  dropped, and the sink closed, before the mutex is released, and in `send` (`:95`) the
  mutex is kept over the inner send.
* **Reactor** (`:49-81`): `ReactorSees` reads the notification and upgrades its `Weak`,
  `ReactorLeaves` is `changed()` failing after the sender is gone and everything was
  seen, `ReactorTakes` and `ReactorDone` drop the handle under the lock.
* **Application**: `CallSend`, `SendGranted`, `SendDone`; `CallClose`, `CloseGranted`,
  `CloseDone`; `GiveUp` (a future dropped where it waits); `DropHandle`. Whoever drops
  the last reference to the mutex drops what is in it (`LastReference`): if the
  reactor has upgraded, it is the reactor. The application calls one thing at a time,
  although `close()` takes `&self`.

`received` and `delivered` are history. Models are values; whether
one can be built from an item (`CM::try_from`) is a property of the item.

### How `Listener` corresponds to the code

* **Listener** (`listener`): `Bind` (`listener/mod.rs:52-78`, with its two errors), `Spawn`,
  and `Discard` of one that was never spawned. `Over` is every way it can end; with it go the
  socket (`Unbind`: the peers of the backlog are refused) and the receiver of the channel.
* **Loop** (`:135-165`): `Accept`, `AcceptFails` and `Deliver` are the arms of the `select!`,
  `Refused` a callback that gives the client back (the task ends without an error),
  `ListenerCancelled` the token of `spawn`. `Accept` includes the start of the handshake's
  task: `handle_new_connection` awaits nothing. `None` from the channel cannot happen, as the
  listener keeps a sender (`:28`).
* **Handshake** (`:85-114`): `HandshakeFails` (not readable, not writable, or refused by
  tungstenite), `HandshakeDone` (`Connection::new` and `Client::new`: the connection's task
  starts here, and the client is `made`), `HandOver` (`:108`, whose `let _ =` drops the client
  that comes back when the receiver is gone). Without a timeout, nothing makes a
  handshake end.
* **Channel**: `client_receiver`. When the listener is over, `DropQueued` drops its
  clients one after the other, since each drop closes a sink.
* **Connections**: the fields of `session[p]` are those of `Session`, and they take its steps.
  `ConnEnds` is an end of its own accord, reported or silent (`connection/mod.rs:137-140`,
  `:227-230`), `ConnCancelled` the token of `bind` that `Client::new` hands on
  (`client/mod.rs:42`), `ConnClosed` the answer to a released handle, `CloseSink` what becomes of
  the close frame, or the wire breaking at any time.
* **Application**: `DropClient` stands for all it does with a delivered client, which is
  `Client`'s subject; `Cancel` cancels either token or both; `Refuse` makes the callback fail
  from then on, as one whose channel is gone does (`:244-247`).

### How `Echo` corresponds to the code

Each action but `Freeze` conjoins a step of `Client` with what the example does around it:
`EchoDeliver` is the callback (`examples/echo.rs:33-36`), `EchoSpawn`, `EchoReceive`,
`EchoLock`, `EchoSent` the task of `handle_client`, `EchoLeave`, `EchoDropDone` and `EchoGone`
its locals dropped in reverse order, the handle before the receiver. A send that fails panics
the task (`panicked`); a delivery without the receiver panics the task of the `Client`, which
ends like one whose callback refused. `Below` is the rest of `Client`; the calls the example
never makes (`close`, giving a send up, dropping a `Client`) are left out, and no item is
ill-formed.

The example runs on one worker (`examples/echo.rs:46`), and a close of the sink blocks it
(`connection_handle.rs:149`): while the lock is with a ping or a send that waits, or the socket
is full, nobody is left to go on, as `single_worker` shows of a connection. `Freeze` is that
end of everything. It may come when the shared-state task answers an end that was reported, or
in the drop of the handle, as long as the sink was not closed; `frozen` bars every step after
it (`Polled`), and so takes the fairness of those that wait. Session does not show who has the
lock, so `Freeze` may come whenever a close is due. The example is alone on its worker here:
the close of another peer's connection would block this one too.

## Runs

| run | question | instance |
|---|---|---|
| `connection_safety` | types, lock, signals, the owed close frame, refinement of `Session`, with every deed of the peer and the network | 2 payloads, interval 2, timeout 1, 3 workers, inbox 1, backlog 1 |
| `keepalive_bounds` | order and length of the ping queue, however late the tasks are polled | 5 payloads, interval 1, timeout 2, flushes never wait |
| `keepalive_prompt` | is a responsive peer safe, a silent one dropped in time, are pings and pongs matched rightly, do pongs pile up | 3 payloads, interval 2, timeout 3: two pings in flight; inbox 2, backlog 3; a peer that also sends data; timely server |
| `connection_liveness` | drop ends the task, reports are answered, the socket is released, a chatty peer that answers no ping is dropped | 2 payloads, interval 1, timeout 1, peer sends data and may close; fairness |
| `client` | delivery, the handle's mutex, no leaked handle, no forgotten error; an error releases the connection, its end is heard, everything is released | 2 models and an ill-formed one, 2 items, every end of the connection; fairness |
| `listener` | one owner for each client, nobody served after the end; backlog served, clients delivered, closed and cancelled, refusal noticed | 2 peers, connections that leave or fail; fairness |
| `echo` | echoes in order and once; every model answered, everything released, unless the only worker is blocked | 2 models, 3 items, every end of the connection; fairness |
| `unsolicited_pong`, `single_worker`, `stalled_peer`, `abrupt_error`, `bind_token` | expected violations, see below | |

Bounds. `Payloads` bounds the pings in use at a time, `MaxInbox` what is on its way from the
peer, `MaxBacklog` the pings the peer has yet to answer and the stray pongs. All are small
because the hazards need few: two notifications to overwrite one another, two closers to race,
three users of the mutex to queue, two pings in flight to confuse their pongs. With `Payloads`
exhausted the ping task waits in `PingTick`. In `connection_liveness`, which has two, this only
delays a third ping behind two that were sent and not yet forgotten, and the liveness there
rests on the deadline of the first. `MaxItems` = 2 lets a model be delivered or wait while an
ill-formed one comes behind or before it, and 3, in `echo`, one be answered, one be on its way
and one wait. Two peers are enough for one to outlive the listener while another is queued, and
for one to hold its handshake up. `keepalive_bounds` has five payloads: its queue reaches the
bound, 4, and could pass it. Payloads are symmetric in `connection_safety` and
`keepalive_bounds`; no symmetry is used where liveness is checked. Deadlock is checked in every
run; `Finished` is the intended end.

Fairness (`Connection!Fairness`). Weak fairness of each task: the runtime polls what is ready
as long as one worker is free, and the mutex is FIFO. This is slightly more than tokio gives: a
worker keeps the task it woke last in a slot that no other steals from, so a task that sends
and then drops the handle in one poll, with a ping just granted the lock in that slot, can
block its worker for ever although others are free. Of the flushes: a peer that makes one wait
reads in the end or the socket fails. Of the clock. Nothing makes the owner drop the handle,
the application cancel, or the peer answer, send or leave. The liveness runs have three
workers, so that two blocked closers leave one to drive the I/O. `Client!Fairness` has the same
for the Client's task, the reactor and the calls in progress, and takes from the session that a
released handle ends the task and that a reported or released connection settles its close
frame. Nothing makes the application call, cancel or drop anything, so `AllReleased` starts
where it has dropped both halves. `Listener!Fairness` is that of the loop, of a hand-over, and
of the drop of the queued clients, and what sessions allow to wait for; nothing makes a
handshake go on, a peer connect, `accept` fail or the application spawn, cancel or drop
anything. The arms of its `select!` are chosen at random: weak fairness of the whole loop is
what the runtime gives, and with finitely many peers neither arm can starve.
`Echo!EchoFairness` adds the application, which is code there, and like the rest of it only
holds of a worker that is not blocked.

What the liveness properties of `listener` say of the close frame: a client nobody takes is
dropped, its connection ends, and a sink found by that drop is closed, or its wire is lost. A
connection that ended untold before the drop, as one that bind's token cancelled, may have
lost its sink without a frame by then (`connection_handle.rs:90-98`), so `UndeliveredClosed`
promises a frame only where the drop finds it `unsent`.

`TimelySpec` (`Keepalive`) states the premises of *a peer that answers in time, on a server
that is not overloaded*, as conditions on the clock and on the peer. Time passes only when
the loop has dealt with a passed deadline and with a notification to stop; the interval
ticks only when the previous ping was sent and registered; a deadline passes only when
the pongs that came before it were read; and a pong that comes after a deadline
comes after its handling. Within that every order of events is left, flushes may wait and
tasks may be slow: it asks nothing of what happens between one timer and the next. It
is a restriction of `Spec` (`TimelyImplements`), states no fairness, and
keeps a history variable, `silence`: the time since the peer's last pong. A stalled flush
stops the clock here, so `SilenceBounded` says nothing of a peer that does not read:
`stalled_peer` is what happens to that one. `keepalive_prompt` and `unsolicited_pong` have
these premises, no other run has.

### What the violations show

* **`unsolicited_pong`** - the fronts of the two queues are compared
  (`connection/mod.rs:195-206`). One pong nobody asked for stays at the front, and the
  next deadline terminates a peer that answered every ping.
* **`single_worker`** - `block_on` in `send_close_frame_if` (`connection_handle.rs:149`)
  keeps the only worker of a `current_thread` runtime, the one the README and the echo
  example use, while the lock is held by a ping that waits for the socket: nothing
  polls the socket any more. With two workers the same happens when both closers
  are inside `block_on`, one flushing and the other waiting for the lock.
* **`stalled_peer`** - a ping is registered after its flush (`connection_handle.rs:120, 134`).
  A peer that stops reading holds the flush for ever: there is no ping in the queue,
  no deadline, and the peer is never disconnected, against `connection/config.rs:14-17`.
  The run has the fairness of the liveness runs without that of flushes
  (`StalledSpec`).
* **`abrupt_error`** - when the failed `Client` has dropped its receiver, the next item makes
  the callback fail and ends the connection's task silently. The shared-state task then drops
  the sink, possibly before the reactor drops the handle, and no close frame is sent: not
  *gracefully* (`client/error.rs:8`), and not what
  `should_terminate_when_client_sends_invalid_message` expects
  (`tests/integration_tests.rs:602`).

* **`bind_token`** - the argument of `bind` *cancels the listener, unbinding it from the
  socket* (`listener/mod.rs:45`), but `bind` only keeps it for the clients (`:72`, `:103`);
  the loop looks at the token given to `spawn`. Cancelling the first alone leaves a listener
  that accepts peers and delivers clients whose connections end at once. With one token for
  both, as in the example, or the second alone, it ends.

Three more behaviours follow from the model and have no run of their own. A loop that is polled
only after a deadline terminates the connection although the pong is waiting in the stream,
because the deadline's branch goes first (`connection/mod.rs:193-195`): `TimelySpec` has a
server that polls in time among its premises. A ping's notification, sent after the lock was
released (`connection_handle.rs:134`), may replace `ServerClosedNormally`: the connection then
goes on receiving after its handle was dropped until the next ping fails, up to a
`ping_interval` later (`DropEndsConnection` holds: it does end). And after an ill-formed model
the `Client` fails at once, while a third task drops the connection's handle later
(`client_handle.rs:62`): a `send` called after the failure that gets the mutex first still goes
out, although *any sends to the client will fail* (`client/error.rs:9`).

## Proofs

`ConnectionProofs`, for every value of the constants that satisfies the assumptions of
`Connection` (payloads distinct from the two special ones, `PingInterval` at least one
tick, at least one worker):

| theorem | statement |
|---|---|
| `TypeCorrect` | `Spec => []TypeOK` |
| `LockSafe` | `Spec => []LockDiscipline` |
| `TerminationIsSignalled` | `Spec => []TerminationSignalled` |
| `CloseFrameIsOwed` | `Spec => []CloseFrameOwed` |
| `DeadlinesAreOrdered` | `Spec => []DeadlinesOrdered` |
| `PingQueueIsBounded` | `Spec => []PingQueueBounded` |
| `SessionImplemented` | `Spec => ImplementsSession` |

The inductive invariant is `IInv == TypeOK /\ LockDiscipline /\ SignalInv`.
`TypeOK` alone is not inductive: releasing the mutex is `Tail(lockQueue)`, which needs a
non-empty queue, that is `LockDiscipline`. `CloseFrameOwed` alone is not either: the
owner's drop may give up because the flag is set, so the flag has to imply a closer that
has not given up (`FlagMeansClosing`); the notification that ends a running
connection may be replaced by a ping's, so a drop that is over is owed a closed sink
instead (`PastTheLock`); a report must find the shared-state task still listening
(`HandleListens`), and must be the connection's last act (`ReportIsLast`).
`TerminationSignalled` needs that a status that replaces the ping task's is again a
termination: only the ping task itself sends any other. The proof goes by
action: each lemma takes one actor (`TypePing`, `LockOwner`, `SignalCloser`, ...), and
`TypeNext`, `LockNext` and `IInvNext` collect them. `DeadlinesAreOrdered` is an
invariant of its own on top of `TypeOK`: a new ping gets the whole timeout, which no
ping in the queue can exceed, and the clock takes as much from each.
`PingQueueIsBounded` rests on `QueuePaced`, which holds of every ping in the queue: the
pings behind it, with those on their way there (a tick due, a ping in the ping task's hands,
one notified and not registered), exceed two by no more than the ticks since it was
registered. Registering moves a ping from its way to the queue and is barred from the
first deadline on (`DeadlinesOrdered`, the biased `select!`); only the clock adds one, once
per interval. The multiplications by `PingInterval` are in lemmas of their own
(`Multiples`, `PacedLess`, `PacedTick`). The
refinement is proved step by step from `IInv` and `DropCloses`: every close needs a reason, and
when the last reference to an unclosed sink goes (`FrameKept`), the end was not told and the
handle is still held. The latter is what `DropCloses` is for: who dropped the handle found no
sink, or left a closed one, or a closer on its way to it, which arrives (`CloserArrives`).

`KeepaliveProofs`, for every interval, timeout, number of workers and bound, on a server
that keeps up with its timers (`TimelySpec`):

| theorem | assumed of the constants | statement |
|---|---|---|
| `NoPingIsForgotten` | | `TimelySpec => NoPingForgotten` |
| `PongsMatch` | no unsolicited pong | `TimelySpec => []PongsMatchPings` |
| `PongQueueIsBounded` | no unsolicited pong | `TimelySpec => []PongQueueBounded` |
| `OnlyUnresponsive` | no unsolicited pong, `PongTimeout > 0` | `TimelySpec => OnlyUnresponsiveTerminated` |
| `SilenceIsBounded` | | `TimelySpec => []SilenceBounded` |

*No unsolicited pong* is `"bogus" \notin PeerSends`: the run `unsolicited_pong` shows
`OnlyUnresponsiveTerminated` false without it, and on its instance TLC refutes
`PongsMatchPings` and `PongQueueBounded` too. With a timeout of zero a ping's deadline has
passed when it is registered, and nothing can be read in time. Each rests on
`KeepaliveInv`, which is `IInv` with `OneOnItsWay` (one ping at most between its tick
and its registration, else the notification of one could replace that of another),
`FlagStored` (a closer past the flag has stored it) and `EndedEmpty`.

* *Matching.* `Awaited` lists the pings sent, from the oldest in the queue to the one
  being notified, and `Coming` the pongs, from the oldest read to those the peer still owes.
  `PongsMatchPings` is not inductive: it does not say that a new ping differs from those known
  to either side (`PingFresh`), nor what is left once the notification of a close
  has replaced that of a ping, whose pong then answers nothing. `Matching` says that the
  pings are `Distinct`, the pongs `InOrder` and, unless a close was notified
  (`StopNotified`, which lasts: `StopStays`), `Covered`. The sequences change in few
  ways, and each has a lemma: an item that carries no pong comes or goes (`ThinKept`), a new
  ping joins both at their ends (`NewPingKept`), a ping is replaced by a close
  (`LastPingForgotten`), both fronts leave (`FrontAnsweredKept`); `PlacesChange` shows that
  every step but those of the ping task makes one of these changes, `PingSent` those.
* *Pongs kept.* The pongs read are pongs of awaited pings, in order and without
  repetition, so there are no more of them (`NoMorePongs`) than pings queued and one on its
  way (`PongsFit`). A notification to stop may forget that one, but no pong is read any more
  (`PongsFitNext`): a status of the handle goes before the stream.
* *Terminations.* At a deadline every pong that arrived was read (`DeadlineRead`), and if
  that of the front ping was, it is at the front of its queue (`MissedMeansAbsent`): the
  comparison of the fronts (`connection/mod.rs:195-197`) finds it.
* *Silence.* `SilencePaced` follows the first ping after the last pong: expected at the next
  tick, on its way, or in the queue with what is left of its timeout; in each place
  `silence` and the time that remains stay within the bound. A ping that is on its
  way or queued and `~PongArrived` stays so, as no step but the peer's answer, which resets
  the count, brings its pong (`NoPongArrives`); so the theorem also holds with unsolicited
  pongs.

`ClientProofs`, for every set of models, every number of items and every way in
which connections end:

| theorem | statement |
|---|---|
| `ClientTypes` | `Spec => []TypeOK` |
| `ModelsDelivered` | `Spec => []Delivery` |
| `InnerLockSafe` | `Spec => []InnerLock` |
| `HandleNeverLeaked` | `Spec => []HandleAccounted` |
| `ErrorNeverForgotten` | `Spec => []ErrorHeard` |

Here the inductive invariant is the conjunction of these properties and `Phases`. They lean on
one another: `ErrorHeard` needs `Phases` (when the Client fails, the reactor is still
watching and has seen everything, so the notification is news to it) and
`HandleAccounted` (a reactor that cannot upgrade finds the handle dropped);
`HandleAccounted` needs `InnerLock` and that a reactor that is dropping has emptied the mutex.
`Delivery` rests on two facts about sequences: passing the oldest item on (`PassOn`) and
adding one at the end change nothing before. Every step of a `Client` is a step of its
connection's session or none (`SessionStep`), from which the types of the connection follow.

`ListenerProofs`, for any number of peers and any reports of their connections:

| theorem | statement |
|---|---|
| `TypeCorrect` | `Spec => []TypeOK` |
| `NoClientLost` | `Spec => []ClientsOwned` |
| `NeverServesAgain` | `Spec => OverForGood` |

The inductive invariant is `TypeOK`, `ClientsOwned` and `BacklogClosed`. The types need
`ClientsOwned`: a refused client keeps its connection only because the one at the head of the
channel was `queued`. `ClientsOwned` splits into the handles (`HandlesNext`: only a drop
releases one) and the channel (`QueueNext`, from two facts about sequences without
duplicates: `QueueLeft`, `QueueJoined`). `OverForGood` follows from `BacklogClosed` and the
guards of each step.

`EchoProofs`, for every set of models and number of items:

| theorem | statement |
|---|---|
| `EchoTypes` | `EchoSpec => []EchoTypeOK` |
| `EchoesInOrder` | `EchoSpec => []Echoes` |

`ClientBelow` carries `ClientProofs` over to the example, whose steps are those of a `Client`.
Both theorems have `EchoInv` as their invariant, inductive on top of `Client`'s `IInv`: that
the task stops only with everything echoed needs `Delivery`, since a `Client` that ended by
itself kept nothing back, and `MsgSending`, by which the model taken out of the channel is the
one in the send.

Only model-checked: the liveness properties (temporal formulas under fairness are out of
the prover's reach): `DropEndsConnection`, `ReportAnswered`, `SocketReleased`,
`SilentPeerTerminated` of a connection, `ErrorReleases`, `EndHeard`, `AllReleased` of a
client, `BacklogServed` to `RefusalEnds` of a listener, `Answered` and `EchoReleased` of the
example. Every safety invariant and action property of a passing run is stated by a
theorem. What is inductive (`IInv`, `QueuePaced`, `KeepaliveInv`, `Matching`, `PingFresh`,
`DeadlineRead`, `SilencePaced`) was checked by TLC on the instances of the runs before it was
proved. `SilenceBounded` is the safety half of `SilentPeerTerminated`: it says by when, on a
timely server, and the run says that it happens at all, however late the tasks are polled.

## Not modelled

* The worker that `block_on` occupies: in `Connection` and `Echo` only; `Client` and `Listener`
  take the drop of a connection's handle as something that ends, as it does with enough workers
  (`connection_liveness`, with three).
* A panic in the application's callback of `Listener`, and the moment at which the fields of an
  ended listener are dropped one after the other: a hand-over caught in it is dropped too.
* Concurrent calls of `close()` on one `ClientHandle`, and memory used by the unbounded
  channels and by unsolicited pongs.
* What an application does to a delivered client inside `Listener` (`DropClient` stands for it),
  and pings, pongs and items there: `Connection` and `Client` have them.
* The return of the example's `main` (`examples/echo.rs:60-62`): when the listener ends, the
  runtime is dropped with every task on it, whatever it was doing.
* Configuration types, errors' texts and the trait: no state.
* A `ping_interval` of zero (tokio panics) and an overflowing deadline: excluded.
* TLS, fragmentation, tungstenite's own limits: outside the repository.

## Plan

1. *(done)* `WatchChannel`, `Connection`, `Session`, their runs and first theorems.
2. *(done)* `Client` on top of `Session`, its runs and theorems.
3. *(done)* `Listener` over one `Session` for each peer: runs, theorems, and the two tokens.
4. *(done)* The example on top of `Client`, on its one worker: run and theorems.
5. *(done)* The length of the ping queue, for every interval and timeout.
6. *(done)* Pings, pongs and silence on a timely server, for every interval and timeout.
