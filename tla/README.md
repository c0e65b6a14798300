# A verification project for zmq-playground

TLA+ models of the services of this repository, the TLC runs that check them on
small instances, and machine-checked proofs, for instances of every size, of
what matters most. Everything is modelled from the source; a definition's lines
are in `PROJECT.json` under `map`.

    tlc -workers 2 -config MCNetStack.cfg MCNetStack     model-check one run
    tlapm NetStackProofs.tla                             check one module's proofs

## 1. The system

zmq-playground is a set of C++ services that talk through a ZeroMQ XPUB/XSUB
proxy. Every service but the proxy is a `ZmqStack` or a class derived from it.

| Component | State it keeps | Operations | Interacts with |
|---|---|---|---|
| `TcpServer` (`common/TcpServer.h`, `SocketCore.h`) | accept socket, `m_fds`, table `m_clients` under `m_mutex`, `m_stop`, the server thread | `start`, `finish`, `sendBcast`, `getClientInfo`, `deleteClient`, `sendClientMessage`; the thread's `serverTask` (select, accept, recv) | callbacks into its owner; the kernel's sockets |
| `NetStack` (`net-stack/`) | a `ZmqStack`, a `TcpServer`, its own `m_clients` under its own `m_mutex` | constructor, destructor, `onReceivedMessage` (broadcast), `onReceiveClientData` (publish), `onClientConnect`, `onClientDisconnect` | called by the subscriber thread and by the server thread |
| `ZmqStack` (`common/ZmqStack.*`) | `m_subscriptions`, a `Publisher`, a `Subscriber`, optionally a `Receiver` and a `Sender` | `Subscribe`, `Unsubscribe`, `Subscriptions`, `Publish`, `Send`, `Stop`, `Health` | owns the threads below |
| `Subscriber`, `Receiver` (`common/`) | a SUB or PULL socket, `m_shutdown`, `m_count`, a thread | `Run`, `Stop`, `Subscribe`, `Unsubscribe`, `Count` | call `onReceivedMessage`, `onCtrlMessage` of the stack |
| `Publisher`, `Sender` (`common/`) | a PUB or PUSH socket; `Sender` counts messages | `publishMsg`, `sendMsg` (reconnects every 10), `Stop` | called by main, by the subscriber, receiver and server threads |
| `ConvStack` (`conv-stack/`) | `m_conversionMap` under its own `m_mutex` | `onReceivedMessage` (convert and publish), `AddConversion`, `RemoveConversion` | both threads of the base class, commands of `main` |
| `HealthStatus` (`common/HealthStatus.h`) | an HTTP server with a pool of two threads | `/healthz` calls `Health()` | liveness probes of Kubernetes |
| `Proxy` (`zmq-proxy/`) | REQ socket `m_ctrlPub`, a thread in `zmq::proxy_steerable`, `m_mutex` | `Stats`, `Status`, `Stop`, destructor | main's statistics loop, its gauges, a signal |
| `TcpClient` (`common/TcpClient.h`) | a socket, `m_stop`, a receive thread | `connectTo`, `sendMsg`, `finish`, `ReceiveTask` | the `NetStack` it connects to |
| `net-driver` | a `ClientApp`, which owns the client and is its observer | `main`'s loop, `onReceiveData`, `onDisconnect` | `TcpClient` |
| the mains of the five services | options, the configuration, the topics, `running`; a stack, or seven in one process | start, a prompt with commands or a loop, the signal, quit | the stacks; a zmq-stack sends to conv-stack pods through a Kubernetes service |
| `Util.h`, `AddrLookup.h` | none | `split`, `getContainerInstance`, name resolution | the mains |
| `Kubernetes/`, `Helm/`, `Containers/` | configuration | | the services |

**How they interact.** A service has a main thread, a subscriber thread, and,
if configured, a receiver thread, a TCP server thread and the threads of an HTTP
server. They call each other directly: `Subscriber::Run` and `Receiver::Run`
call the virtual `onReceivedMessage` of the stack, which publishes (conv-stack)
or broadcasts to TCP clients (net-stack); `TcpServer::serverTask` calls the
`NetStack` back for every connection, disconnection and piece of data, and what
it receives is published. The base
class `ZmqStack` starts its threads before the derived class is constructed and
joins them after it is destroyed.

**What is hard**, and what each part must therefore guarantee:

| Part | Hard behaviour | What makes it correct |
|---|---|---|
| `TcpServer` | a table shared by two threads, descriptors reused by the kernel, a stale `read_set`, sends that fail or block under the mutex, resets that look like ends of file | table, watched set and kernel agree; no leak; the thread never blocks where `finish()` cannot reach it; ended clients are removed; nothing received is discarded |
| `NetStack` | two client tables under two mutexes; a destructor that runs while two threads call into the object | no data lost or credited to the wrong client; callbacks make a session; safe order of destruction |
| `ConvStack` | commands change a subscription and a table in two steps, two threads use both and one PUB socket | each message is routed as if commands were atomic; one user of the socket at a time; no deadlock |
| `ZmqStack`, `Subscriber` | counted against uncounted subscriptions | what is listed is delivered, and the reverse |
| `Health` | a static variable without a lock, probes that overlap, a counter that wraps | a wedged thread is reported, soon and for ever; a sound one is not |
| `Proxy` | the send/receive alternation of REQ sockets, interrupted calls | requests alternate; a signal ends the process |
| `Sender` | a socket disconnected with messages queued, batches that overtake each other, pods that stop | each message is handled once or lost with a pod; a connection carries one batch; main never waits for room |
| the mains | options and a file that may be half read; lines split three ways | the settings can be told from what was given; a documented command does what it says; a signal ends the process |
| `TcpClient` | a receive thread that ends itself or is ended; a send that learns of a reset first | nothing lost; the loss is reported once, last; quitting ends |

The hazards, each at its line with the properties that watch it, are in
`PROJECT.json` under `hazards`.

## 2. The modules

| Module | What it models | Extends / instantiates |
|---|---|---|
| `TcpServer` | `TcpServer`, the kernel's sockets, the peers | |
| `ClientSession` | abstract: what a `NetStack` promises about one connection | |
| `NetStack` | the callbacks, the subscriber thread, the life of the object | EXTENDS `TcpServer`; INSTANCE `ClientSession` |
| `ConvStack` | a conv-stack: main, subscriber and receiver thread; the parts of `ZmqStack`, `Subscriber`, `Receiver`, `Publisher` they run through | |
| `Health` | `HealthStatus`, `ZmqStack::Health`, the subscriber's counter | |
| `Proxy` | `Proxy` and `ProxyMain` | |
| `TcpClient` | `TcpClient` in net-driver, and the server it is connected to | |
| `Startup` | the mains from options and configuration to settings, all five services | |
| `Commands` | `split`, and what each prompt makes of a line | |
| `Sender` | `Sender`, ZeroMQ's connections, the conv-stack pods and their `Receiver` | |
| `ZmqService` | the life of a service from start to prompt, and of a zmq-stack to its end | EXTENDS the three above |
| `TcpServerProofs`, `NetStackProofs`, `ConvStackProofs`, `HealthProofs`, `ProxyProofs`, `TcpClientProofs` | proofs | EXTEND the module of their name, and `TLAPS`; the second extends the first |
| `ZmqServiceProofs`, `MainProofs` | proofs about `Sender`; about `Commands` and `Startup` | EXTEND `ZmqService` and `TLAPS` |
| `MC...` | constants for TLC | EXTEND the module of their name |

Definitions named `X_Something`, with "Mutant:" in their comment, are variants
of `X` with a plausible bug. No specification uses them; they show that each
property can be violated by a change of the code (`mutants` in `PROJECT.json`).

### TcpServer

Members of the class are variables of the same name: `m_sockfd`, `m_fds`,
`m_stop`, `m_clients` (descriptor -> the connection its `Client` was made for),
`m_isConnected`. `server`, `bcaster` and `owner` are the program counters of the
server thread, of the thread in `sendBcast`, and of the thread that starts and
finishes the server; `read_set`, `cur`, `received`, `todo`, `success` are local
variables of the code. The kernel is `open` (the connection behind a
descriptor), `backlog`, and for each connection its state `tcp` as the server's
socket sees it, the receive queue `rcvq` and what the peer has not read
(`unread`). `sent` and `handed` record what peers wrote and what broadcasts the
kernel took.

`serverTask` is a loop of actions: `SrvLoop` (test of `m_stop`), `SrvSelect`,
`SrvLookup` for each ready descriptor, then `SrvRecvData`, `SrvRecvError` or
`SrvRecvEof`, the callback, `SrvDelete`; or `SrvAccept`, `SrvRegister` and the
callback. There is an action for every stretch between two points where another
thread can be noticed: `SrvSelect` and the accept are separate, so the
`read_set` gets stale. Every critical section on `m_mutex` but that of
`sendBcast` makes no blocking call, so it is one action with the guard
`MutexFree`; `sendBcast` is one action per client, and may stall with the mutex
held when a peer does not read (`Stalled`).

What the sockets do is modelled from how Linux does it: `recv()` returns queued
data before it reports a reset; the error of a reset is reported once, by
whichever of `send()` and `recv()` comes first (`tcp` goes from "rst" to
"dead"), and the other then sees an end of file; `accept()` may fail for lack of
descriptors or memory, with the connection left in the queue, so that
`select()` reports it again; a closed descriptor may be handed out again at
once. In the services SIGPIPE is ignored (the HTTP and metrics servers they
embed set that), so a `send()` on a dead socket returns -1.

### NetStack and ClientSession

`NetStack` adds the callbacks, each an action of `TcpServer` with its effect
conjoined (`OnClientConnect`, `OnReceiveClientData`, `OnClientDisconnect`), and
makes the subscriber thread (`sub`) the broadcasting thread. The variable
`phase` is the life of the object: the base class starts the subscriber thread
in "ctor", before `m_server` exists; `~NetStack` finishes the server and clears
the table; the members are destroyed ("dying") while the subscriber thread still
runs; `~ZmqStack` joins it and closes the publisher. A message that arrives in
"ctor" or "dying" makes the thread enter `sendBcast` of a server that does not
exist (`SubDeadMember`, `sub` = "dead"). That call is undefined, and may last into
a later phase: nothing happens, the thread waits for ever for what it takes for a
locked mutex ("hung"), or the process crashes (`SubDeadCall`). `SubBreaks` is the
exception, of a signal this thread takes, that breaks out of `Subscriber::Run`. `Quitting`
is the other end of the inproc-stack process, which calls `Stop()` and returns.

`ClientSession` is the promise: each connection's session opens once, delivers
a prefix of what its peer wrote, and closes, if at all, once and after all of
it. The refinement is `written <- sent, delivered <- published`.

### ConvStack

Two threads (`"sub"`, `"rcv"`) take messages from their queues, wait for
`m_mutex`, look the topic up and publish one topic per step (`PublishOne`) with
the mutex held. `m_subscriptions` is ZmqStack's set; `sockSubs` counts, because
libzmq counts. `AddConversion` subscribes and then changes the table;
`RemoveConversion` the same way round: `AddSubscribe` / `RemoveUnsubscribe`, then
`ChangeTable`. `phase` is again the life of the object; the actions
`ReceiveUnconstructed`, `LookupDestroyed` and `LookupCrashes` are the undefined
behaviours before the constructor and after the destructor of the derived part,
`ReceiveBase` the base class's handler that runs in those phases. `Breaks` is the
exception out of `zmq::poll` or the receiving that ends a thread while the object
lives ("broken"): its socket is closed, what was in it is never handled
(`LeftBehind`), and a command that sets an option of the closed SUB socket throws
through main (`CommandThrows`). Topic lists are
sets, a message is its number, and topics are exact (a SUB socket's prefix
matching is not modelled).

### Health

`Health()` reads the counter, compares it with the static `lastCount` and stores
it: three steps (`ProbeCount`, `ProbeCompare`, `ProbeStore`) that two threads of
the HTTP server interleave. `m_count` wraps at `CountMod`, which stands for 2^32.
A round that ends in `continue` (a welcome or control message) skips the increment
and so changes nothing of this. `server` and `main` are the life of the
`HealthStatus`: `Listen`, or a port it cannot have; `StopServer`, which has no
effect before `listen()`; `ListenReturns`, when the pool is idle; and `JoinServer`,
after which main destroys the stack.

### Proxy

`main` is the loop of ProxyMain, `thread` the proxy's thread, `ctrl` whether the
REQ/REP pair could be set up, `request` and `reply` what is on its way. A signal
clears `running` and may interrupt a blocking call, which throws an exception
nobody catches. At the end main destroys its `HealthStatus` (`StopHealth`,
`JoinHealth`, with `health` for the thread in `listen()`), the `Proxy` (`Stop`,
`Join`) and the context (`CloseContext`), which waits for the messages the proxy's
sockets still hold (`queued`). One counter stands for the eight gauges.

### TcpClient

`main` connects (or fails to, with the socket left open or not), sends a line at
a time, and quits, which destroys `m_logger` before the client; `receiver` is the
receive thread. net-driver does not ignore SIGPIPE, so a `send()` on an
unconnected or dead socket kills it (`SendKills`). A callback after the
destruction of `m_logger` is undefined: as usual, or a crash.

### Startup, Commands, Sender and ZmqService

The five mains are copies of one another that differ in the options they take
and the keys they read. `Startup` has these as data (`ZmqStackOptions` ...,
`ProxyKeys` ...) and the common control as actions: `Begin` (the instance
number, from an environment variable that may not be there), `TakeOption` for
each turn of the `getopt` loop, `OpenConfig`, `ReadKey` for each key of the file in
the order of the code, and `NameTopics`. `Common` holds the defaults most mains
share, `DefaultOf` where one differs. Texts are sequences of parts, ports are
cast to 16 bits, and a text that is no number throws where nobody catches, or,
in the file, ends the reading.

`Commands` is pure: `Split` is the function of `Util.h`, and `ZmqStackCommand`,
`ConvStackCommand`, `InprocStackCommand` give the call a line comes to;
`ZmqStackDoc` ... are the commands each prompt prints. A line is a sequence of
words, bars, blanks and colons.

`Sender` numbers the connections its socket makes, one more for each reconnect.
For each there is what ZeroMQ holds (`pipe`), the pod it is established with
(`peer`), what the pod has not taken (`wire`) and what its `Receiver` took
(`handled`). The external part states what the code relies on: a socket that is
disconnected keeps its connection until the messages it holds are gone, because
`Sender` leaves `ZMQ_LINGER` at its default (for ever); an unestablished
connection is tried until some pod accepts it; a pod that stops loses what it has
not taken, and nothing else is lost. A reconnect that throws (`Sender.cpp:46`) is
not modelled: the endpoint is the text that the constructor connected to, so that
neither call has a reason to fail; a socket whose constructor failed never gets to
a tenth message.

`ZmqService` is the main thread (`phase`): `Startup`, `Construct`, then the prompt
(`ReadLine`, `Perform`) or zmq-stack's loop (`LoopTest`, `LoopSend`, `Wake`), and
zmq-stack's end, in the order in which main's objects are destroyed: `StopHealth`
and `JoinHealth`, `JoinSubscriber`, `JoinReceiver` if there is one, and `CloseContext`,
which waits like `zmq_ctx_term` until no connection holds a message. `thread` is
the thread main is about to join. The loops of the other services only wait for a
signal, and their ends are in `NetStack`, `ConvStack` and `Proxy`. A signal clears
`running`, which a prompt never looks at; in inproc-stack, which has no handler, it
kills; taken by a main that waits in `send()` it makes that throw. After `Construct`
main does not read its settings any more, and the model forgets them.

## 3. The runs

Passing runs; none takes much more than three minutes with two workers:

| Run | Properties | Bounds | Distinct states |
|---|---|---|---|
| `net_stack` | `NetTypeOK`, `ClientSetsAgree`, `PublisherOutlivesServer`, `Conservation`, refinement `SessionSpec`, and those of the TcpServer in it: `TableMatchesKernel`, `NoDescriptorLeak`, `WatchedDescriptorsOpen`, `NeverBlocksInServerTask`, `IteratorValid`, `SuccessMeansAll` | two connections, descriptors 3 and 5 around the accept socket 4, two units each, two per `recv()`, one broadcast, connections symmetric | 4.0 M |
| `net_stack_live` | `DestructorReturns`, `EndedClientRemoved` under fairness | two connections that share one descriptor, one unit each, two broadcasts | 1.0 M |
| `conv_stack` | `RoutedAtomically`, `PublisherOneAtATime`, `AtMostOneCutShort`, `ListedIsSubscribed`, `EveryMessageHandled`, `DestructorReturns` | two topics, two messages, two commands | 245 k |
| `health` | `DetectionDelay`, `NoProbeOnDeadStack`, `WedgedIsReported` | two probers (the pool's size), counter modulo 3 | 50 k |
| `proxy` | `RequestsAlternate`, `SignalEndsProcess` | three messages, three rounds | 7907 |
| `zmq_service` | `SettingsExplained`, `DocumentedUnderstood`, `EachMessageOnce`, `BatchPerConnection`, `SignalEndsProcess`, `EverySentHandled` | all five services, two options, three settings given in all, all lines of three marks and the documented ones, two pods that stop twice, three messages in batches of two | 313 k |
| `tcp_client` | `TypeOK`, `DisconnectIsLast`, `LossReported`, `QuitEndsProcess` | three units, two per `recv()`, three lines | 5357 |

Why the bounds are enough to meet the interesting cases. Two connections are the
least for one's failure to affect the other and, with one descriptor, for a
descriptor to be reused and for `accept()` to run out of them; the accept socket
lies between the two descriptors so that `findMaxFd` and the scan see both
sides. Two units with two per `recv()` give a full buffer and a partial one, and
data that come while others are handled; what is left over by a `recv()` of a
longer queue is covered by the theorems, for all sizes. A broadcast may begin at
any moment and stay between two sends while peers come and go, and its failed
send may consume the error of a reset, or be interrupted. With two of them and
`SendCap` = 1 the second `send()` waits for a peer that did not read the first
message, which is the case liveness depends on. Two messages and two
threads suffice for every overlap in ConvStack, two commands for an add and a
remove of the same topic at any moment. Three relayed messages and rounds let
statistics change between requests. In
`zmq_service` two options can repeat one and contradict the file, which can have a
wrong value before a good one; three messages in batches of two make a reconnect
and a message after it, so that an old connection is drained while the next is
used; two stops let both pods be gone at once or one be gone twice. `BATCH` stands for ten,
and `HWM` = `BATCH` is the least capacity with which main never waits. Symmetry is
used in `net_stack` only, which has no liveness property (the specification it
refines has no fairness) and whose formulas do not distinguish connections.

What the properties say is in the comments above them. Some are subtler than
they look. `NeverBlocksInServerTask`: the server thread calls `recv()` and
`accept()` only when they return at once, although the set it goes by is stale
and a broadcast may have consumed what made a socket ready; otherwise
`finish()`, which joins the thread, would wait for ever. `EndedClientRemoved`:
`serverTask` does nothing on a `recv()` of -1, and a client that was reset is
still removed because the error is reported once, and the next `recv()` returns 0.
`RoutedAtomically`: a message is published on the list that was in force at one
moment of its handling, because the subscription is added before the table entry
under the same mutex the handlers take. `DetectionDelay`: an old count stored
over a newer one delays the report of a wedged thread, by at most five answers
with two probers (the bound is tight; it is two for one prober).
`EachMessageOnce` and `EverySentHandled` rest on the linger: with one of 0 each
reconnect would drop what is queued (`Reconnect_NoLinger`). The price is in
`SignalEndsProcess`: while no pod runs, the process does not end (Kubernetes kills
it after its grace period, which is not modelled). Both properties of that name say
under what conditions alone a signal does not end the service: for the proxy, the
control sockets could not be set up, or a peer never takes its messages; for
zmq-stack, no pod runs, or main waits in a send on a socket that never had a
connection; and for both, the signal came so early that the health server was told
to stop before it listened. `NoProbeOnDeadStack` rests on the join that then waits
for ever: without it (`JoinServer_Detached`) a probe would read a destroyed stack.
`DestructorReturns` of `NetStack` has as exceptions only a stalled broadcast and a
thread lost in a server that does not exist (`LostInDeadServer`): any other crash,
such as a callback publishing on a closed publisher, violates it.
`ListedIsSubscribed` exempts the configured topics until they are subscribed to,
which is never if an endpoint could not be connected to (`Subscriber.h:54`).
`SettingsExplained` says what a
service comes up with without following main: a value of the file counts only if
all the file has before it in main's order is good. The values of the options are found by their places in
the command line (`Given`, `Nth`) and the conversions put together by `Over`, not
by `SelectSeq` and `@@`, about which nothing can be proved. The topics
of zmq-stack and net-stack are the subject of `TopicsConfigurable`, below.

Runs that find a violation, each of one statement a comment or document makes:

| Run | Statement | What the code does |
|---|---|---|
| `bcast_reaches_all` | "Send a broadcast message to all connected TCP clients" (`TcpServer.h:214`) | the loop ends at the first client whose send fails (`:229`); sound clients after it miss the message |
| `conv_unsub` | "unsub\|<topic> - unsubscribe from topic" (`ConvStackMain.cpp:178`) | the socket counts, `m_subscriptions` does not: subscribed twice and unsubscribed once is not listed, and delivered |
| `proxy_gauge` | the gauge is the "Number of messages" (`ProxyMain.cpp:137`) | `lastStats` is declared in the loop, so every round adds the whole count |
| `conv_commands` | "sub\|<topic>:<topic> <topic>... - sub" (`ConvStackMain.cpp:177`) | the topics are looked for before the bar, in a second word that is not there: a read past the end of a vector (`:198`) |
| `configured_topics` | "a configurable set of ZMQ topics" (`src/README.md:8`, `:10`), "[-P <pub topic>][-S <sub topic>]" (`ZmqStackMain.cpp:28`) | zmq-stack and net-stack read the topics, then replace whatever was given by two made of the pod's name and number (`ZmqStackMain.cpp:144`, `NetStackMain.cpp:151`) |

Seen while modelling, without a run: the comment at `ZmqStack.cpp:105` says that
the count is incremented for each received message or timeout, but the `continue`
after a welcome or control message (`Subscriber.h:78-85`) skips the increment, so a
thread that only handled those between two probes is reported unhealthy; inproc-stack's "quit" says that the stacks
"go out of scope" (`InprocStackMain.cpp:128`), but they were allocated with `new`
and are never deleted, so main returns with server threads running; its seven
stacks get an empty list of endpoints to subscribe to unless `-p` is given (`:27`);
its second NetStack listens on port 6001, the default of the metrics port (`:34`,
`:106`). Messages typed with a bar in them are ignored by all prompts, and at the
end of its input a prompt spins.

## 4. Fairness

- **net_stack_live**: the server thread (with its callbacks), the subscriber
  thread's own steps and, once called, the destructor are scheduled: the operating
  system runs runnable threads. Nothing is assumed of peers, messages, signals,
  or that the object is ever destroyed. `DestructorReturns` excepts a thread lost in
  a server that does not exist (`LostInDeadServer`), and both properties a broadcast
  for ever stalled (`[]Stalled`) by a peer that never reads. That last exception
  is a real weakness of the code, which sends with a blocking `send()` under the
  mutex; the properties say that there is nothing else. Weak fairness suffices for
  steps that wait for the mutex because broadcasts are bounded; with unbounded
  ones a waiting thread could in principle be overtaken for ever.
- **conv_stack**: both threads are scheduled, a command that has begun and a
  destructor that has begun go on. Messages, commands and the end are not promised.
- **health**: the HTTP server's threads are scheduled, and Kubernetes probes
  periodically (`Kubernetes/conv-stack.yaml:76`). Nothing is assumed of the
  subscriber thread, which is the one watched, nor of the destructor.
- **proxy**: main, the proxy's and the health server's thread are scheduled;
  `proxy_steerable` looks at its control socket whatever it relays. No signal and no
  peer that takes its messages is promised.
- **zmq_service**: main, the threads it joins, ZeroMQ's I/O thread and the `Receiver`
  of a pod that runs are scheduled. That pods start, lines are typed or a signal
  comes is not promised; the properties name as exceptions what may then wait for
  ever, above all `[](up = {})`.
- **tcp_client**: the receive thread is scheduled, and main once it deletes the
  `ClientApp`. Nothing is assumed of the user or the server.

Deadlock is checked in every run; a `Done` action marks the states in which the
process has ended.

## 5. The proofs

Every safety property that a run checks as passing is also proved, for
instances of every size, under the assumptions the modules name:

- `TcpServer`, `NetStack`: any set of connections and of descriptors, any packet
  size, send capacity and bound. Descriptors are natural numbers and the accept
  socket is not one that `accept()` returns (`FdAssumption`), `NoConn` is not a
  connection (`ConnAssumption`), sizes are positive and bounds natural
  (`SizeAssumption`).
- `ConvStack`: any topics and configured conversions; the ingress topic and those
  subscribed to are topics (`TopicAssumption`), bounds are natural.
- `Health`: any finite pool of threads, any counter that has two values or more
  (`HealthAssumption`; a counter with one value shows no progress).
- `Proxy`, `TcpClient`: any bounds.
- `Sender`: any pods and batches, and a capacity of a pipe of at least one batch
  (`SenderAssumption`; the code has 10 and ZeroMQ's default 1000).
- `Startup`, `Commands`: any number of options and any lines. What a service's
  options and keys are is data of the modules, from the code.

**TcpServerProofs.** None of the properties is inductive: whether a table entry
stands for the right connection depends on where the server thread is between
closing, accepting and registering. The invariant `IInv` is the conjunction of

- `TypeInv`: types, and `cur` is a client's descriptor while one is handled;
- `LifeInv`: the thread runs only between `start()` and the join of `finish()`,
  and has its accept socket as long;
- `TableInv`: table, watched set and descriptors agree, except for the
  connection accepted but not yet registered;
- `KernelInv`: a connection is behind at most one descriptor, and not also queued;
- `ScanInv`: what is left of `read_set` was readable and still is, because only
  the server thread reads and closes; what it visited is not in it any more;
- `BcastInv`: while a broadcast runs, the clients still to visit are in the table,
  and unless a send failed the others have the message;
- `DiscardInv`: a connection is closed after its end of file, with its queue empty.

`ScanInv` is where `select()`'s stale set is shown to be harmless, and the proof
shows why: the mutex keeps others from removing clients, and a failed send may
turn an error into an end of file but not make a socket unreadable. Each part has
a lemma for `Init` and one for the step, with a case for every action. From them:
`TypeCorrect`, `TableCorrect`, `NoLeak`, `SelectCorrect`, `ServerNeverBlocks`,
`IterationSafe`, `BroadcastCorrect`, `ReadsAll`.

**NetStackProofs.** `ServerImplemented`: every step of a NetStack is a step of
the TcpServer in it or leaves that alone, so `IInv` carries over. `NetIInv` adds
`PhaseInv` (which phases go with which state of server, subscriber thread and
publisher), `ClientInv` (the two tables, and whose callback is due),
`Conservation`, which is inductive with the others, and `SessionInv` (a
connection's session state against its TCP state). From them `NetTypeCorrect`,
`ClientTablesAgree`, `NothingLost`, `PublisherSafe`, and
`SessionImplemented`: `NetSpec => SessionSpec`, by one lemma for the steps that
open, deliver, close and write, and one for those that stutter.

**TcpClientProofs.** `DisconnectIsLast` needs that recv() reports the end only
with an empty queue, that nothing follows it, and that the thread which calls
`onDisconnect` does nothing more: `IInv`, then `TypeCorrect` and
`DisconnectCorrect`.

**ConvStackProofs.** `RoutedAtomically` speaks of a message only when it is done
with; the invariant has to say where it stands before. `IInv` is `TypeOK` with

- `LockInv`: who holds the mutex is inside its critical section, and only that
  one, which is `PublisherOneAtATime`;
- `SubscribedInv`: a listed topic is subscribed to, or is a configured one whose
  set-up is not done or failed;
- `HandInv`, `QueueInv`, `ApartInv`: a message is in one place, a thread's hand or
  one of its queues, in the order of arrival; without them two threads could
  publish for the same message;
- `RouteInv`: what a thread has published of its message and what it still has to
  publish are together one of the lists in force since the message came; of a
  message nobody handles nothing is published; and the list now in force is
  always among those a waiting message may get;
- `RoutedAtomically` itself, and `CutInv`: only the receiver thread finds the
  publisher closed, and then ends, so that one message at most is cut short.

`versions`, the lists in force since a message came, grow when a command changes
the table. A message's list is chosen when the thread copies it under the mutex,
and `LockInv` keeps commands out until the last topic is published. From these:
`AtomicRouting`, `OnePublisher`, `ListedAreSubscribed`, `OneCutShort`.

**HealthProofs.** How many healthy answers may follow the last counted round is
a sum over the threads: `BudgetInv` adds to those given what each prober may still
cause: it will answer "healthy" whatever happens (`Due`), or only if the stored
count differs from the counter (`Open`), and it may hold an old count to store
(`Behind`). A stored old count makes the comparison of every open prober succeed
once more, which is why the bound is quadratic:
`DelayIsBounded`, N(N+3)/2 answers for a pool of N. With the two threads of
`HealthStatus.h:7` these are five, `DetectedInTime`. `EndInv`: while main is past the
join, the server has ended and no probe runs; `ProbesEndFirst`.

**ProxyProofs.** `RequestsAlternate` is inductive with `WaitInv`: while main waits
for statistics, the request is on its way or the reply is, and the thread ends
only for the last request. `RequestsDoAlternate`.

**ZmqServiceProofs.** `EachMessageOnce` and `BatchPerConnection` speak of what
connections carry; `cur`, `m_count` and `count` decide what they will. `IInv` has
`CountInv` (the count of messages from the connection's number and place in the
batch), `CarryInv` (a connection carries messages of its batch, in order),
`OnceInv` (a message is on the connection of its batch unless it is lost),
`RoomInv` (the current connection carries `m_count` at most, later ones nothing)
and `NoSenderInv` (all this starts with `Construct`). From them `SentOnce`,
`OneBatchPerConnection`, and `SendNeverWaits`: a pipe that holds a batch is
never full, so main waits only on a socket that has no connection.

**MainProofs.** `CommandsUnderstood` rests on what `Split` returns: its pieces are
defined by the places of the delimiter, and the lemmas find them by least elements
and by counting, without induction: a text without the delimiter is one piece
(`SplitFree`), one before and one after it are two (`SplitOnce`), and so on. A
documented line is put together of such parts, so the command it comes to can be
computed for every line of each form. `TypedInv` carries this to the state in
which the command is performed.

`SettingsAreExplained` follows main from the first option to the last key with
`StartupInv`: during the options each setting is what the options so far make of
it (`OptionsInv`; `OptionStep` shows for a list, a conversion and any other setting
what one option more does to `FromOptions`); during the file, nothing read was
wrong, and exactly the settings whose good key was read are the file's
(`ReadInv`); then each is `Explained` (`ParsedInv`), because the reading stops
where `FromFile` stops looking (`ReadIsFromFile`). That a list's places can be
counted off (`Ordered`) is part of the invariant: it would need induction over the
command line to be a lemma.

**Only model-checked.** All liveness properties, which the prover cannot treat
(fairness and ENABLED), and the runs that find a violation.

## 6. What is not modelled

- `sendClientMessage` (it uses a client pointer after releasing the mutex) and
  `Proxy::Status`: nothing calls them. A second `connectTo`: nobody makes one.
- The inside of ZeroMQ, httplib, spdlog and the kernel: modelled from how the code
  uses them. In particular a ZeroMQ socket call is atomic here. Main sets options
  of the SUB socket while the subscriber thread polls it, which ZeroMQ does not
  allow; what then happens is not determined by this code.
- Messages that circulate: conversions that form a cycle, through the proxy
  (conv-stack.yaml converts topic1 to topic2 and back), and three proxy replicas,
  each delivering its copy.
- A control message of one part, of which `onCtrlMessage` logs a second
  (`ZmqStack.cpp:50`); what the publisher of an interactive zmq-stack still holds
  when its context closes.
- Descriptors of `FD_SETSIZE` and more: the code has no guard against them.
- `AddrLookup.h`, logging, the wording of usage texts, the deployment files.
- inproc-stack after its start, but for its prompt and for what quit does to a
  NetStack; the loops of conv-stack and net-stack, which only wait for a signal.
- The effect of the topics a service ends up with on the stack it constructs:
  `Startup` and the models of the stacks are not joined.

## 7. Plan

Done, in this order: `TcpServer`, its proofs, `NetStack` with `ClientSession`,
`ConvStack`, `Health`, `Proxy`, `TcpClient`, proofs about `NetStack` and
`TcpClient`; `Startup`, `Commands`, `Sender` and `ZmqService`; proofs about
`ConvStack`, `Health`, `Proxy`, the `Sender`, the commands and the settings. What
comes next, most important first:

1. **Lemmas towards liveness**: for `DestructorReturns` and `EndedClientRemoved`,
   the safety half as theorems: in which states a thread waits, and for whom.
2. **ConvStack and the proxy composed**: conversion cycles; a message of a
   configured cycle never leaves the system, one of an acyclic configuration does.
3. **inproc-stack**: the order in which seven stacks and a proxy in one process
   are stopped.
