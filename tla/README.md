# hkClient in TLA+

hkClient is a C++ client library that keeps one TCP connection to a
"hypercube" server, sends messages over it and hands incoming ones to an
application. The repository has no tests and nearly no documentation; what it
does have is threads: three of its own and any number of the application's,
which share a socket, four events, some flags and two queues. This directory
holds TLA+ modules of that code, the TLC runs that check them and the proofs
that TLAPS checks.

    tlc -config <run>.cfg <Module>.tla      one run (table below)
    tlapm <Module>Proofs.tla                the proofs of one module

Line numbers below are of `src/hkClient.cpp` unless another file is named.
`PROJECT.json` maps every definition to the lines it stands for.

## The system

| Component | State | Operations | Talks to |
|---|---|---|---|
| `SignallingObject`, its thread | `connected`, `justDisconnected`, `eventDisconnectedFromServer`, `localPingAckTimer` | `threadFunction` calls `connectIfNotConnected` every 8 s or when the disconnect event is set: connect, `onConnect`, set-up messages, `connected = true`; `processSignallingMsg` | socket; `onConnect` / `onDisconnect` of the others; `sendOut` |
| `SignallingObject::Servers` | `servers[3]`, `index`, the reference `activeServer` | `init`, `getActiveServer`, `getNextActiveServer` | the DNS |
| `RecvActivity`, its thread | `eventReadyToRead`, `pinputPacket`, `inPacketQ` | `threadFunction`: wait for the event, `readPackets`, on a failed read `HKClientCore::onDisconnect` | socket; `processSignallingMsg`; `onReceivedData` |
| `SendActivity`, its thread | `outPacketQ`, `writePacketBuilder`, `eventPacketsAvailableToSend` | `sendOut` (any thread); `threadFunction`: wait, reset, `writePackets`; `onConnect` / `onDisconnect` clear | socket |
| `HKClientCore` | the four above and `Ctcp::Client client` | `init`, `deinit`, `onConnect`, `onDisconnect` | all |
| `HKDevice` (`hkDevice.*`) | `stream` (created, open, closed), `SessionInfo` | `onOpenForDataEvent`, `onClosedForDataEvent`, `onReceivedData`, `getPacket`, `sendMsg` | `inPacketQ`, `sendOut` |
| `HKDeviceMgr` (`hkDeviceMgr.*`) | `msgsReceived`, `PublishActivity::activityMap` | `processReceivedMsgs` (polled), `publish`, `subscribe`, ... | `HKDevice`, `MsgDecoder` |
| `MsgDecoder`, `Cmd` (`msgDecoder.*`) | none that lasts | JSON to commands | `HKDeviceMgr` |
| Linux shell, Windows stubs | keyboard | calls of the library | `HKDeviceMgr` |
| `genCppTools`, `CommonCppDartCode` | git submodules, empty in the repository | `Ctcp`, `CstdThread`, `CstdConditional`, `GenTimer`, packet builders, message types | external |

What is hard here:

* **`onDisconnect` closes the socket first** (823) and only then clears
  `connected`, raises the disconnect event, resets the read event and clears
  the queue. From the moment the socket is closed the signalling thread may
  connect again, and the rest of the teardown hits the new connection. Nothing
  but time (a `Sleep(2000)`, the time it takes to connect) keeps them apart.
* **A flag that follows the socket late**: `connected` is set at the end of the
  set-up and cleared in the middle of the teardown, each in its own thread, and
  a peer may leave in between or fall silent without any read returning.
* **Events that are reset** somewhere between being set and being waited for:
  `eventReadyToRead` by three places, `eventDisconnectedFromServer` after the
  set-up of a connection, `eventPacketsAvailableToSend` before writing.
* **`deinit`** stops one thread after another while the others still run, frees
  the packet being read, and joins threads that may be waiting.
* **Partial and failing `send`s**: a message half sent when its connection ends.
* **Polling**: `msgsReceived` is set and reset by different threads around a
  queue that a third may empty; a packet may come while the stream is closed.
* **A table of servers** copied through a C++ reference, with names and
  addresses that are looked up separately.
* **The numbers of messages**: a counter and a key without a lock, changed by
  the receive thread while the application stamps messages with them, and the
  key behind a reference to a variable that no longer exists.
* **`init` after `deinit`**, which starts from the flags, the stream and the
  server index that the last run left.

What makes each component correct, in a line each (the exact statements are
below): no connection is left unread or unreported, the end of one is noticed,
and is reported unless the peer left during the set-up; no message is left in
the queue of a sleeping sender, and a connection's bytes are whole messages in
order; the client gets to a server that works, and never tells it the address
of another; no packet of an open stream stays unannounced; within a session no
two messages carry the same number; `deinit` comes to an end and leaves nothing
behind.

## The modules

| Module | Models | Lines |
|---|---|---|
| `Connection` | the signalling thread, the receive thread, `init`, `deinit` and `init` again, the peer | every access to a shared variable, event or socket is an action |
| `SendActivity` | the way out; the client around it is the set `due` of callbacks it still has to make | |
| `SendChannel` | what `SendActivity` promises: the abstract channel | 43 lines, no counterpart in the code |
| `Servers` | the choice of a server; addresses that change between lookups, servers that come and go | each lookup is an action |
| `HKClientCore` | `Connection` and `SendActivity` composed, with the Linux shell as the application | joins the steps in which one calls the other |
| `Delivery` | `inPacketQ`, the stream, the poll, the acks | |
| `Session` | the session key and the numbers of messages | every access to one of them is an action |
| `ConnectionProofs`, `SendActivityProofs`, `ServersProofs`, `DeliveryProofs`, `SessionProofs` | the theorems about each | |
| `CoreProofs`, `CoreQueueProofs`, `ClientProofs` | the theorems about `HKClientCore`: that it uses `SendActivity` as that module assumes; what its threads send; what it has from its parts | each extends the one before |

Names ending in `_Something` after the name of an action (`Push_Front`) and
commented `Mutant:` are that action with a plausible bug in it. No
specification uses them; putting one in the place of its original must break
the property that `PROJECT.json` pairs it with.

### How state and actions correspond to the code

**Connection.** `pc[t]` is the place in the thread's C++ function. Labels from
`close` to `closedForData` are `HKClientCore::onDisconnect` (818-829), which
the receive thread runs after a failed read and, with
`ENABLE_PING_CONNECT_CHECK`, the signalling thread runs when the ping timer has
elapsed: hence `Teardown(t)`. `socket` is `closed` when `!socketValid()`; a valid
one is `open`, or has lost its peer: `dead` if the next read returns that, which
is how the default build finds out, `silent` if no read ever returns, which only
the ping check can tell (`PeerFallsSilent` is in its builds only: without it a
silent peer is an open connection on which nothing arrives). A read that returns
data puts the receive thread at `handling`, where it stays busy with the packet
whatever becomes of the socket.
`AppStopSig` is one turn of the loop in `SignallingObject::deinit` that calls
`setShouldExit` and notifies until the thread has exited. `AppInitRecv`,
`AppInitSend` and `AppInitSig` are `init` after a `deinit` that is done; they
reset what the code resets and nothing else.

**SendActivity.** `writePacketBuilder` is the number of the message being
written and its bytes still to go; `wire` is what the present connection has
been given, byte by byte; a message is its number repeated `MessageLength`
times. `Push` and `Notify` are the two steps of `sendOut`. `Write` is one
`writePacket`, an atomic action because it holds `writePacketBuilderLock`
throughout, as `onConnect` and `onDisconnect` do when they clear.
`due` holds the calls of `onConnect` and `onDisconnect` that are on their way:
the socket has changed and `SendActivity` has not heard of it yet. `early` is a
history variable: how much of `wire` was written before `onConnect`. A message
pushed between `SendActivity::deinit` and the next `init` is left out: the event
that announces it is reset by that `init` (199), and it waits for the next one.

**Servers.** `activeServer` is the definition `servers[WORKING]`: the C++
member is a reference, and an assignment to it overwrites that element. A name
has one of `Addresses`, and may have another at every lookup (`Answers`); a name
that is an IP address has itself. `connect` goes by the name, which `tcpConnect`
looks up again (802), while `CONNECTIONINFO` passes on the address that the
active server was found to have earlier (683): `connectedTo` is the name and the
address connected to, `serverIpAddress` the one told, and the history variable
`addressesOf` what each name was ever found to have. `worldChanges` chooses
between a world in which every lookup and every attempt may go either way, and
one in which `dns` and `reachable` stay as they are. `Reinit` starts the client
again with another name; the table and `index` stay, so that with `index` at
`PRIMARY` a failed lookup goes straight to the primary server.

**HKClientCore.** One action for every pair of steps that are one step in the
code (`tcpConnect` opens the socket for both; `Connection`'s step "clear the
send queue" is `SendActivity`'s `Clear`); what `SendActivity` assumes about its
surroundings is *not* conjoined to these actions but checked and proved
(`IsSendActivity`). That every step of the composition is one of `Connection`'s,
or none, is how its actions are written; it is a lemma of the proofs
(`ClientIsConnection`) and no result. `due` is computed from where the threads
are. Who sends:
the signalling thread (set-up), the receive thread (answers to `REMOTEPING` and
`ECHODATA`: `Answer` pushes while that thread is at `handling`, with the socket
in any state, since nothing looks at it again after the read), and the
application, which is the shell of `hkClientLinux/hkClientAppLinux.cpp`: its commands
that send are `AppSend`, `x` is `AppExit` and then `AppDeinit` after the sleep, `q` is `AppDeinit` alone.
`setup` and `exitMsg` are history variables; `setup` is the numbers of the
set-up messages of a connection that is alive.

**Delivery.** The receive thread's reports (`ReportPacket`, `ReportRead`) are
two steps each, test of the stream and event, and separate from what they
report. `processReceivedMsgs` is six steps, since the receive thread and another
reader run between them. That other reader (`taker`) tests the stream and takes
packets in separate steps too: one in `getPacket`, all there are in
`recvFromDevice`. What a packet decodes to is its *kind*: a publication
that it acknowledges; `plain`; `refused`, for which the call returns false (no
message, an unknown command, whose `default` comes after `processCmdMsgJson` has
returned false for it, or a body that does not decode); `corrupt`, for which the
call throws (a wrong CRC, text that is not JSON or not a command). `activityMap`
keeps the latest ack of each publication, by the order in which packets came.

**Session.** `OpenKey`, `OpenRenumber` and `OpenStream` are the three assignments
of `onOpenForDataEvent`; `StreamTest`, `Load`, `Store` and `Stamp` are the
statements of `sendMsg`, with `++numSendMessages` as the two accesses it is, and
`Stamp` together with `sendMsgOut`. `rreferenceInfo` was bound by the
constructor of `HKDeviceMgr` to a local (`hkDeviceMgr.cpp:9-11`): the key starts
with any value, and `Overwrite` may write to it at any time. Nothing in the code
makes anything true of the key, and no property mentions it. A session is known
by its number of openings instead: `raced` records which kind of overlap there
has been in which opening, `exposed` the openings that met senders that the
stream does not keep off. Both, and the `opening` of a message, are history.

### What the external code is taken to do

The submodules are absent; these readings follow from how `src/` uses them.

* `CstdConditional` is a flag: `notify` sets it, `reset` clears it, `wait`
  returns while it is set and does not clear it (the receive thread waits again
  after each packet without a new `notify`).
* `CstdThread::deinit(true)` sets the thread's exit flag and joins it.
* `GenTimer` that is stopped never elapses; one that runs may elapse at any
  time.
* `dnsLookup` gives an address of the name, any of those it may have, or none.
* `close` on a socket makes a `recv` in progress on it fail. `send` on a
  connected blocking socket takes everything or, in the runs with
  `PartialSends`, any part but nothing; on a dead one everything or nothing; on
  a closed one nothing (a negative result, which the code counts as 0).
* `CstdThread::init` starts a thread again that `deinit(true)` has joined, with
  its exit flag clear.
* Reading a packet that was deleted (undefined behaviour) continues or crashes.

## Assumptions about time

Two constants of `Connection` say what the code relies on without checking:

* `SleepOutlastsTeardown`: the `Sleep(2000)` before a reconnect (405) ends
  after the receive thread has left `onDisconnect`.
* `ConnectOutlastsTeardown`: so does a successful attempt to connect, which
  includes a DNS lookup and a round trip. The sleep is not enough, because the
  signalling thread may look at the socket before `justDisconnected` is set and
  then does not sleep at all; with this one no theorem needs the other.

`ConnectOutlastsTeardown` is the first conjunct of `SigConnect`, and it is not in
the code: `connect` (587-608) asks nothing of the receive thread. It is not even
very safe to make: `SendActivity::onDisconnect` has to take
`writePacketBuilderLock` (286), which the send thread takes again and again, with
nothing in between, while messages are queued on a closed socket (258-260), so
that a teardown can take long. `conn_race` is the code without it. The
properties that depend on it (in the proofs table, those that name it) say what
the code gets right *apart from* this race, and a property that this assumption
alone makes true is not claimed: that no live queue is cleared and no live
connection closed by a late `onDisconnect` would be two. `FlagGoesStaleInSetup`,
`SocketStaysClosed`, `NoLostWakeup`, `ChannelImplemented` and `IsSendActivity`
need no such assumption; the theorems prove them without.

`HKClientCore` has one more: `ExitOutlastsSend`, that the send thread is done with
the queue of a live connection when the `usleep(100000)` after `EXIT` ends.

All are FALSE or TRUE per run, and the theorems name them as hypotheses.
Nothing is assumed of peers, which may leave or fall silent at any time, during
the set-up of a connection as well, nor of how often `init` and `deinit` are
called.

## The runs

| Run | What it asks | Bounds |
|---|---|---|
| `conn_up` | Default build, `deinit` and `init` again at any time: `NoDeafConnection`, `ConnectionReported`, `NoBusyLoop`, `SocketStaysClosed`, and the liveness properties `DeadSocketNoticed`, `Reconnects` | none: `Connection` is finite; any number of connections, drops, failed attempts and restarts |
| `conn_ping` | Ping check compiled in, `deinit` and `init` again at any time, peers that fall silent: `FlagGoesStaleInSetup`, `SilentPeerNoticed` | none |
| `conn_race` | *violated*: `DeadSocketNoticed` without `ConnectOutlastsTeardown`, ping check compiled in | none |
| `conn_freed` | *violated*: `InputPacketAlive` | none |
| `conn_join` | *violated*: `RecvThreadReleased` | none |
| `send` | Partial sends, messages at any time, `deinit` and `init` again: `NoLostWakeup`, `RemainderIsOurs`, `WireIsFramed`, `AllSent`, `IdleDeinitReturns`, and `SendActivity` implements `SendChannel` | 2 callers, 3 messages of 3 bytes, any number of connections and restarts |
| `send_hang` | *violated*: `DeinitReturns` | 2 callers, 2 messages of 2 bytes |
| `servers` | `FallsBackToPrimary`, `NoWrongAddress`, for a world that changes at any step, restarts included, and `FallsBackOnLookup` for one that does not | `init` with no name, the primary's name, an IP address; 2 other addresses; every assignment of them to names, every subset accepts |
| `servers_refused` | *violated*: `TriesSecondary` | the same |
| `core` | The composition under the shell, with `deinit` and `init` again: `SetupSurvives`, `ExitSent`, and that it uses `SendActivity` as that module assumes | 4 messages of length 1, whole sends, senders sig, recv and app (3.4 million states, some 100 s) |
| `delivery` | `NoStrandedPacket`, `AcksAdvance`, `Drained`, `PollReturns`, with a second reader, `deinit`, and a signalling thread that closes the stream too | 4 packets of 5 kinds (2 publications), any number of stream changes |
| `session` | `NumbersAreUnique`, `NumbersHaveNoGaps`, `OpeningIsGuarded`, for a key that anything overwrites | 2 senders, one of them forcing, 3 messages, 2 openings (2.8 million states) |

Every passing run of a component also checks its `TypeOK` (`conn_up` does for
`conn_ping`); the composition has none of its own, since its steps are its parts'.

Why the bounds are enough. `SendActivity` has one message in the builder, so two
in the queue beside it give every shape it distinguishes (empty, one, more than
one), two callers give a push between another's push and notify, and three bytes
give "none, part, all" of a message and a part of the rest of one. In `core`,
four messages are one whole
set-up and one message of another sender before, within or after it, or a
set-up that is cut off and the beginning of the next; the queue of a *previous*
connection still counts because numbers are handed out across connections. What
four messages do not reach is a complete set-up of two successive connections:
that the second is like the first is what the unbounded `Connection` runs are
for, whose theorems the composition inherits. In `delivery` four packets put a
refused one before and after good ones with the second reader in between, and
two acks of one publication around one of another. In `session` two openings
give two sessions whose numbers start at 0, and three messages give one in each
and one across the boundary; two kinds of overlap in the first of two openings
show that the second is sound again. `Servers` has as many servers as the code;
the two constant names plus one address cover `isIPAddress` both ways, and two
addresses are enough for the one told and the one connected to to differ. No
property depends on a run of a longer length that its theorem does not cover;
the ones without a theorem are named below.

What needs saying about some properties:

* `FlagGoesStaleInSetup` says where `isConnected` can come to be true of a client
  without a connection: the peer leaves during `setupConnection`, `onDisconnect`
  finds `connected` still false, and `connected = true` (412) comes after it; or
  a client that `deinit` has left with the flag set is started again (752). The
  code does both, and until the next connection nothing corrects the flag. What
  the property adds is that there is no third way: any connection that was set
  up is unreported by whichever `onDisconnect` closes it, of two threads that may
  run it at once. The first steps of `onDisconnect`, in which the flag lags
  behind the socket, are not stale.
* `ConnectionReported` and `NoDeafConnection` hold under
  `ConnectOutlastsTeardown`; `conn_race` has the trace that breaks both.
* `DeadSocketNoticed` is about a peer whose end the next read returns,
  `SilentPeerNoticed` about one that just goes away; the default build has no
  answer to the second.
* `NoWrongAddress` does not say that the address told is the one connected to:
  the DNS may have answered otherwise in between, and then it is not. It says
  that the address is one which that server was found to have, or none, so that
  name and address never come from two servers of the table.
* `NoBusyLoop`: `waitUntil` returns at once while the event is set, and only a
  reconnect resets it. So a set event on a live connection would spin.
* `AllSent` leaves room for a rest shorter than one message: `writePackets`
  (258-260) ends when the queue is empty, also with the rest of the last message
  in the builder, which then waits for the next `sendOut`.
* `RemainderIsOurs` and `WireIsFramed` cover what goes out before `onConnect`.
  Between a successful `connect` and `onConnect` (409-410) the send thread may
  write older messages to the new socket, before `CONNECTIONINFO`, and
  `onConnect` may clear the builder in the middle of one. What is written from
  then on begins with a whole message; what came before may end torn. They need
  `ConnectOutlastsTeardown`.
* `NoStrandedPacket` and `Drained` except packets behind one that ended the
  call: `processReceivedMsgs` has reset `msgsReceived` and returns early or
  throws (`hkDeviceMgr.cpp:126-148`), so those behind wait for the next message.
* `PollReturns` excepts a stream that closes on queued packets:
  `hasReceivedAPacket` does not look at the stream, `getPacket` does, and the
  `while` of `hkDeviceMgr.cpp:121` spins until the server opens the stream.
  Packets that arrive as fast as they are taken would also keep the call from
  returning; `MaxPackets` bounds them.
* `AcksAdvance` is about one polling thread: `activityMap` has no lock, and two
  threads in `getPublishAck` would be undefined behaviour.
* The properties of `Session` are about a session in which no two threads met at
  the numbers (`Clean`), because the code does not keep them apart: two senders
  can be at the counter at once, and an opening can meet a message between its
  number and its key. In such a session numbers are doubled and left out. What
  holds is that the damage ends there: a session that is clean has its numbers
  from 0 without doubles and gaps, whatever happened in those before, because an
  opening starts the counter anew. `OpeningIsGuarded` says when the second kind
  can happen at all: with a forced message, a message that tested the stream
  before it was closed, or a `SUBSCRIBER` for a stream that is open already.
* No property says that messages of two sessions carry different keys: the key
  is a variable that no longer exists.
* `ExitSent` asks for a live connection and an `EXIT` sent after
  `CONNECTIONINFO`; one that was queued before is wiped by `onConnect`.

### Fairness

Weak fairness of each thread (`Sig`, `Recv`, `App`, the sender, the poll; not
the application's decisions to send, to stop and to start again):
the operating system runs them, and an application that polls keeps polling.
The receive thread's fairness does not include the arrival of data, `App`'s not
the decision to stop. `SigPingElapsed` has strong
fairness on a socket whose peer is gone (`dead` or `silent`): nobody acknowledges
the ping, its timer runs out after 0.8 s (`hkClient.h:16`) and is tested every 8 s; on a live
connection it may elapse or not. `SigConnect` has strong
fairness: the server does not refuse for ever; with it `Reconnects` says that
no internal state keeps the client from getting there. `onConnect` and
`onDisconnect` in `SendActivity` have weak fairness because the threads that
are about to call them do. No fairness is assumed of callers pushing messages,
of peers dropping connections or of the DNS.

### What the violations show

1. `conn_race` (823, against the comment at 35-36, with the ping check it
   describes compiled in): the signalling thread
   looks at the socket between the `close` of `onDisconnect` and
   `justDisconnected = true`, does not sleep, reconnects; the rest of the
   teardown clears `connected` and `eventReadyToRead` of the new connection.
   The receive thread sleeps, `localPing` is skipped while not connected, the
   timer is stopped: nothing ever notices that the new connection ends.
2. `conn_freed` (108, against the comment at 104): `RecvActivity::deinit`
   deletes the packet the receive thread may be reading into.
3. `conn_join` (102): `deinit` notifies the receive thread, whose own teardown
   then resets the event; its loop test comes before it is told to exit, and
   `deinit` joins a thread that waits for an event nobody will set.
4. `send_hang` (260, against `hkClientLinux/hkClientAppLinux.cpp:65`): with
   messages queued at the end, `writePackets` retries on the closed socket for
   ever, never looks at `shouldExit`, and `deinit` does not return.
5. `servers_refused` (359, against 36-37): `getNextActiveServer` returns
   `getActiveServer`, which stays with a server whose name resolves; one that
   resolves and refuses is retried for ever.

## The proofs

For every value of the constants, with the hypotheses given.

| Theorem | Says | Hypotheses |
|---|---|---|
| `ConnectionProofs!TypeCorrect` | `TypeOK`; in particular no thread is at a label of another | |
| `NeverDeaf`, `AlwaysReported`, `NeverBusy` | `NoDeafConnection`, `ConnectionReported`, `NoBusyLoop` | `ConnectOutlastsTeardown` |
| `DownForGood` | `SocketStaysClosed` | none |
| `StaleOnlyFromSetup` | `FlagGoesStaleInSetup` | none |
| `SendActivityProofs!TypeCorrect`, `NeverForgotten` | `TypeOK`, `NoLostWakeup` | none |
| `RemaindersAreOurs`, `FramedWire` | `RemainderIsOurs`, `WireIsFramed` | `ConnectOutlastsTeardown` |
| `ImplementsChannel` | `ChannelImplemented` | none |
| `CoreProofs!ImplementsSendActivity` | `IsSendActivity` | none |
| `CoreQueueProofs!SetupComplete` | `SetupSurvives` | `ConnectOutlastsTeardown` |
| `ExitGoesOut` | `ExitSent` | `ConnectOutlastsTeardown`, `ExitOutlastsSend` |
| `ClientProofs!ConnectionsAreServed` | `NoDeafConnection`, `ConnectionReported`, `NoBusyLoop` of the composed client | `ConnectOutlastsTeardown` |
| `MessagesStayInOrder` | `WireIsFramed` of it | `ConnectOutlastsTeardown` |
| `DeinitClosesForGood`, `FlagGoesStaleOnlyInSetup`, `NoMessageIsForgotten` | `SocketStaysClosed`, `FlagGoesStaleInSetup`, `NoLostWakeup` of it | none |
| `ServersProofs!TypeCorrect`, `RightAddress`, `PrimaryIsTheFallback` | `TypeOK`, `NoWrongAddress`, `FallsBackToPrimary` | none |
| `DeliveryProofs!TypeCorrect`, `NothingStranded`, `AcksNeverGoBack` | `TypeOK`, `NoStrandedPacket`, `AcksAdvance` | none |
| `SessionProofs!TypeCorrect`, `GuardedOpening`, `UniqueNumbers`, `GaplessNumbers` | `TypeOK`, `OpeningIsGuarded`, `NumbersAreUnique`, `NumbersHaveNoGaps` | none |

Besides, the modules' assumptions about their constants (that bounds are numbers,
flags Booleans). `HKClientCore` repeats those of its parts. Proofs are by
inductive invariants or step simulations under one.

* **`ConnectionInv`.** That the read event stays set on a live connection is not
  inductive: a receive thread in the middle of `onDisconnect` may reset it. What
  is needed is where the threads can be: once a thread has closed the socket the
  socket stays closed until that thread has left the teardown
  (`SocketDownInTeardown`, which is where `ConnectOutlastsTeardown` enters).
  Then every reset of the read event happens on a closed socket, and
  `ReadyWhileValid`, `ConnectionReported` and `EventQuiet` are kept. The three
  theorems follow from this one invariant.
* **`ShutdownInv`.** The signalling thread has exited before the socket is
  closed by `deinit` and stays `exited` until `init`; only it opens sockets.
* **`StaleOnlyFromSetup`** needs `TypeOK` only, and no assumption. A thread that is
  about to close the socket or has closed it, and has not come to
  `connected = false`, holds the flag (`Clearing`); it lets go of it only when it
  is clear (`TeardownClears`), and no other step but the two named closes a
  socket or sets the flag without such a thread (`OthersLeaveFlag`): `deinit`
  closes it too, but the client is not up from then on, until `init`.
* **`TypeInv`** of `SendActivity` is `TypeOK` and `BuilderLoaded`: the bytes put
  on the wire are messages only because a builder with bytes to go holds one.
* **`WakeupInv`** extends `NoLostWakeup` to `loopTest`, the step after the last
  look at the queue. It is the order in `threadFunction` (reset, then write
  until empty) that keeps it; and `init`, which resets the event, finds the
  queue empty (`DoneClean`).
* **`RemainderInv`**: while the socket is not closed, the bytes of the connection
  end with what the builder has sent of its message (`EndsInRemainder`); a
  connection is made only with nothing, or a whole message, in the builder
  (`BuilderWhole`); and where a connection outlasts its teardown the next one
  waits for `onDisconnect()` (`DownUntilCleared`). The proof follows one
  `writePacket` through the bytes that `send` takes.
* **`FrameInv`**, on top of `RemainderInv`, for `WireIsFramed`: the bytes after
  the first `early` are a whole number of messages and what the builder has sent
  of its own (`Aligned`), and what is still to go is later than what has gone
  (`InOrder`). Framing is a statement about positions modulo `MessageLength`;
  `Divide` and the lemmas after it supply the arithmetic that the provers do not
  find.
* **`ImplementsChannel`.** The channel's backlog is `Unwritten`: what is left of
  the message in the builder, followed by the messages of the queue. The queue is
  expanded to bytes (`QueueBytes`), and two lemmas are the whole argument: a push
  appends one message's bytes to the backlog (`PushAppends`), and what a `send`
  takes is the head of it, also when `writePacket` first moves a message from the
  queue to the builder (`WriteMoves`). It needs `TypeInv` and no timing: what
  a clearing callback drops is the channel's `Discard`.
* **`CoreInv`.**
  `ImplementsSendActivity` needs to know what `Connection` guarantees at the
  moments that matter: a socket is connected only when closed
  (`ConnectsClosed`), `deinit` goes on only when the thread it has stopped is
  gone (`StoppedInOrder`), and `deiniter` follows the application's thread
  (`DeiniterFollows`). The timing assumption appears on both sides and carries
  over, so none is needed here.
* **`QueueInv`** is made of invariants of `SendActivityProofs`, which
  `CoreQueueProofs` instantiates with messages of one byte: a step of the client
  is one of `SendActivity` (`SameStep`), so its step lemmas apply as they are.
  `BytesKept` says when a step of `SendActivity` loses no byte: the socket is not
  closed and no `onConnect` is due; `SentKept` is that for the client.
* **`SetupInv`** relates the history variable `setup` to the signalling thread: it
  holds as many messages as that thread has handed over on this connection
  (`Counted`), counting one that is pushed and not announced; and each is on the
  wire or in the queue (`SetupThere`), which every step keeps that `SentKept` is
  about, and before that `setup` is empty. *Once and in order* is
  not proved message by message: everything sent on a connection is in the order
  of its numbers (`SentInOrder`), and so is `setup`.
* **`ExitInv`** follows `EXIT` from the queue to the wire: with `sendShouldExit`
  not set while the application runs, a queued `EXIT` is one the send thread will
  look at or the application is about to announce (`ExitAnnounced`, kept by
  `SP!LookStep`). `ExitOutlastsSend` says that at `deinit` the send thread
  sleeps with nothing announced: then `EXIT` is not in the queue, not in the
  builder either (`BuilderEmpty`), and so on the wire (`ExitOut`), where it stays
  (`SP!WireGrows`). The assumption alone does not say that `EXIT` is out: a lost
  wake-up or a late `onDisconnect` would leave it behind.
* **`ClientProofs`** carries theorems of the parts over: its lemmas `Same...` say
  that the modules of the theorems speak of the steps that `CoreProofs` is about.
* **`ServersInv`**: every address in the table is one that the name beside it was
  found to have (`AddressesMatch`), which copying an entry keeps because it copies
  both, and a lookup because it writes both, whatever it answers; the last
  server of the table keeps the primary's name and is the active one at the last
  lookup (`PrimaryIsLast`).
* `NoStrandedPacket` is inductive as it stands.
* **`AckInv`**: the queue is in the order of arrival, and everything in it came
  after everything acknowledged.
* **`GuardInv`**: while an opening that nothing has exposed is under way the
  stream is not open and nobody is past the test of it (`OpeningAlone`).
* **`NumberInv`** says what an opening that is still clean looks like
  (`Present`): until its numbers have started anew nothing of it is numbered
  (`NotYet`); from then on a number being stored is the next one (`StoredNow`),
  those that are taken go up to the counter (`UsedUp`), and all up to the counter
  are taken (`Filled`). It is about the present opening only, so that the damage
  of an earlier one needs no hypothesis; `RacesNoted` makes `raced` good for what
  `Clean` says, and `OpeningsPast` that nothing numbered is of an opening to come.
* **`UniqueInv`** adds to it and to `NumbersAreUnique` that a number a message
  carries to its stamp is neither out nor another's (`CarriedOnce`), for every
  clean opening, since a message may be stamped in a later one than it was
  numbered in. **`GapInv`** is `NumberInv` and `NumbersHaveNoGaps`.

Every safety invariant, action property and refinement that a passing run checks
is a theorem. Only model-checked is what is under fairness (`DeadSocketNoticed`,
`Reconnects`, `AllSent`, `IdleDeinitReturns`, `FallsBackOnLookup`, `Drained`,
`PollReturns`, `SilentPeerNoticed`), which the prover cannot treat, and the five
violations.

## Not modelled

* `init` on a client that runs, and sending between `deinit` and `init`: misuses
  no caller in `src/` commits. Two threads in `processReceivedMsgs` at once:
  `PublishActivity` is not made for it.
* `recvPacketBuilderLock`, taken only where no other thread competes;
  `writePacketBuilderLock` and the queues' `qLock` are what makes the actions
  that hold them atomic.
* How packets are put together from the bytes received (`readPacket` is external).
  `recvPacketBuilder` is reset by `RecvActivity::init` (91-99) and not by its
  `onConnect` (162), so that a packet that was half read when its connection
  ended runs on into the bytes of the next one.
* A silent peer in the default build: nothing in that build tells it from an open
  connection.
* Counters and log lines; no branch depends on them.
* The data of messages. The JSON is CommonCppDartCode and nlohmann code, absent
  from the repository: in `Delivery` a kind stands for what the decoding came to.
  `connectionInfo` and `defaultGroupInfo` are strings copied from the application
  without a lock, and branch nothing; the acks of `CONNECTIONINFO`,
  `CREATEGROUP` and `SUBSCRIBE` are only logged. `sendMsg` sets `deviceAppKey` to
  123 whatever `SessionInfo` holds (`hkDevice.cpp:86`).
* `Cmd`, `MsgDecoder::onNewPacket` and its `processCmdMsgJson`, which nothing in
  `src/` calls.
* The message decoded inside `assert` (441): with `NDEBUG` it is not decoded at
  all. The models are of the build with assertions, and of a server whose
  signalling messages are JSON (451).
* `HKDeviceMgr`'s delegations that send one message each and keep no state; they
  are `AppSend` of the composition.
* The shell's `l`, which sends for ever and never returns to the keyboard, and
  `doEchoTest`, whose body is a comment; the Windows stubs, which are empty.
* The ping check in the composition: `due` is a set, in which two calls of
  `onDisconnect` by two threads would be one. `Connection` and `Delivery` have
  the ping check, alone.

## Plan

Done, in the order of importance: `Connection` (the life cycle everything else
depends on), `SendActivity` with `SendChannel`, `Servers`, their composition
`HKClientCore` with the shell, `Delivery`, `Session`, and theorems of each.

Proved: all safety properties of the passing runs, that the composition uses
`SendActivity` as that module assumes, and the abstract channel.

Next:

1. The steps on which the liveness properties rest, as action properties: what
   decreases while `processReceivedMsgs` loops on an open stream, and while
   `writePackets` empties the queue.
2. An abstract specification of the way in, which `Delivery` implements.
