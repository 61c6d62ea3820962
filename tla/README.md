# A verification of the HTWDD-RN/FHEM sensor network in TLA+

This directory holds TLA+ models of the programs that connect FHEM, a home
automation server, with wireless sensor nodes over CoAP: what they are, what TLC
checks of them on small instances, and what TLAPS proves of them for all.

Paths below are relative to the repository (`src/` is its root).

## 1. The system

    FHEM (Perl)                     bridge (Java)                 sensor node (C)
    10_WSN  --IOWrite-->  00_WSNPHD  --TCP lines-->  coap_client  --UDP/CoAP-->  er-coap-13
       ^---Dispatch--------'    ^----answers, notifications---'  ^---responses,---'   |
                                                                     notifications    resources, I2C sensors

| Part | Source | State it keeps | Operations | Talks to |
|---|---|---|---|---|
| Logical device | `fhem_moduls/10_WSN.pm` | readings, attributes `optionObserve`, `optionMaxAge`, map URI -> device | Define, Get, Set, Parse, DefineResources | 00_WSNPHD (IOWrite, Dispatch) |
| Physical device | `fhem_moduls/00_WSNPHD.pm` | one TCP connection, partial input line | Define, Ready (reconnect), Read, Write, Get/Set (discover) | bridge, over TCP |
| Bridge, connection | `coap_client/.../tcpserver` | one thread per port; a bound server socket, one client socket | run: bind, accept, read a line, execute it, repeat | FHEM; `FhemCoapWrapper` |
| Bridge, requests | `coap_client/.../coapclient` | static `observeTokens`: resource -> token of its subscription | process (subscribe, unsubscribe, ask, wait for the answer), handleResponse (second thread), sendResponse | Californium (external jar) |
| CoAP engine of the node | `contiki/apps/er-coap-13` | pool of 4 transactions, pool of 3 observers, the last message id, a static transaction pointer | coap_receive, coap_notify_observers, coap_check_transactions | kernel timers, REST layer, network |
| Pools and lists | `contiki/core/lib/memb.c`, `list.c` | blocks in use; intrusive lists | alloc, free, add, remove | engine |
| Kernel: processes | `contiki/core/sys/process.c` | linked list of processes with their states, ring buffer of events, poll flags, the running process | start, exit, post, post_synch, poll, do_poll, do_event | every process, interrupts |
| Kernel: event timers | `contiki/core/sys/etimer.c`, `timer.c`, `cpu/avr/dev/clock.c` | list of armed timers, each with its owner, start and interval; the clock | set, reset, restart, adjust, stop, the etimer process, the clock interrupt | kernel, every process |
| REST layer | `contiki/apps/erbium` | list of resources, periodic resources' timers | rest_invoke_restful_service, manager process | engine, application |
| Node application | `contiki/project/coap-sensornode` | event counters, LEDs | resource handlers, periodic and event handlers | REST layer, I2C sensors |
| I2C driver | `contiki/cpu/avr/dev/i2c/i2c-dev.c` | current frame, interrupt flags and counters | send_cmd, write_data, receive_data, read_data, the interrupt routine | the bus, sensor drivers |
| I2C sensors | `contiki/core/dev/i2c/*.c` | calibration data, status | configure, value | I2C driver |
| Control node | `contiki/project/sn-sensoransteuerung` | none that lasts | print sensor values | I2C sensors, serial line |
| Web front end | `htwdd/*.php`, `*.js` | a users table, PHP session | login, register, change, delete, query FHEM | FHEM's web port |
| Rule editor | `rules/myRules.php` | PHP session: conditions so far | generate a FHEM notify from a form | FHEM's web port |

The rest of `contiki/` and `rules/01_FHEMWEB.pm` are third-party code that the
project uses unchanged.

### What is hard here

* **Kernel.** A thread calls others from where it stands (`process_post_synch`,
  `process_start`, `process_exit`), and so do the threads it calls; processes leave
  and join the list while loops walk it; an interrupt asks for polls at any point;
  the event queue is a ring buffer with a narrow counter, and it may be full.
* **Timers.** A timer is on the list or not, and its owner field says which; its
  owner may exit at any moment; two that expire together are served by one event.
* **Engine.** Handlers run one after the other, but an answer, a timer
  event, a new request and a notification come in any order; an expired timer and its event
  are two steps; the event queue is bounded; pools are small; the removal loops
  advance by a pointer they have just cleared; one static pointer survives its handler.
* **Bridge.** Two threads (server thread, Californium's receiver) share the
  connection and the token tables; every request may be answered late, twice or
  never; two layers time out independently; the connection may end at any step
  while subscriptions and relations at the node live on.
* **Node and bridge.** Both keep a view of every observe relation and neither is told
  when the other drops it.
* **FHEM.** A notification rewrites the attribute that decides what the next `get` does.
* **I2C.** An interrupt routine and a busy-waiting caller share one frame.

The full list, each at its line, is `hazards` in `PROJECT.json`.

### What makes each part correct

* Kernel: the list of processes is a list of those that run; no thread is entered twice;
  `PROCESS_CURRENT()` is the thread that runs; events are taken in order, all of them; a
  poll that was asked for comes; what has exited does not run.
* Timers: none is linked twice or outlives its owner; each that expires posts its event.
* REST manager: every periodic resource runs again and again, never early, and its periods follow each other.
* Engine: pools and lists agree (nothing leaks, nothing is used once it is free); every
  expired transaction is served; every transaction ends; an answer touches
  nothing but what it answers; a client has at most one relation per resource; a
  confirmable notification is stored until it is answered or given up; a client that
  does not answer is forgotten.
* Bridge: a handler belongs to the present subscription of its resource; a token
  never comes to mean another resource; each request ends; each line is executed;
  a lost connection is restored; subscribing and unsubscribing do what they say.
* FHEM: what is observed is what was asked for; its view of a subscription is the bridge's;
  a `get` does not end or begin an observation; what was unsubscribed is silent.
* I2C: a success is the success of the caller's own bytes; every wait ends, with a
  result; the interrupt routine stays in the buffer.

## 2. Modules

| Module | What it is |
|---|---|
| `ContikiProcess` | the kernel: processes whose threads make any kernel calls in any nesting, polls, events, the main loop |
| `EventQueue` | what the kernel promises who posts an event: a bounded queue |
| `Etimer` | event timers over `ContikiProcess`: functions, the thread of the etimer process, the clock interrupt |
| `RestManager` | composes kernel, timers, the REST manager and other processes |
| `MCRestManager` | its resources and periods for TLC |
| `Pools` | memory pools and intrusive lists as operators |
| `ErCoap` | the engine: state, one action per handler (or loop iteration), fairness, properties |
| `ObserveServer` | what a node promises its observers, without pools, lists or timers |
| `CoapBridge` | server thread, requests, receiver thread, connection, network and the node's relations |
| `WsnSystem` | composes `CoapBridge` with FHEM's devices: what a `get` sends, and what a notification does to it |
| `I2cDev` | the interrupt routine of the I2C driver against its busy-waiting caller |
| `ContikiProcess_proofs`, `ErCoap_proofs`, `CoapBridge_proofs`, `WsnSystem_proofs`, `I2cDev_proofs` | theorems |
| `ErCoapPromise_proofs` | that `ErCoap` implements `ObserveServer`, over `ErCoap_proofs` |
| `ContikiList_proofs` | that the list of processes is sound, no thread is entered twice and no poll is lost, over `ContikiProcess_proofs` |
| `RestManager_proofs` | types, the list of timers and periodic resources, and the kernel's theorems under timers and REST manager, over `ContikiList_proofs` |

### ContikiProcess

`process_list` and `next` are the intrusive list as pointers, for the code
follows them; a process that has left the list keeps its pointer. `state` and `needspoll`
belong to each process; `events`, `fevent` and `nevents` are the ring buffer.

The C stack is explicit: `stack` is a sequence of frames, the innermost first. A frame is a
thread that was called (`thread`, or `told` for the direct call by which
`exit_process` delivers PROCESS_EVENT_EXIT), or a loop of the kernel that is under way
(`exit`, and `unlink` for the rest of `exit_process` once the thread was told;
`poll`, `broadcast`, `event`, `main`). `back` in a frame is what the caller
will put into `process_current` when the frame returns. What a thread does is
arbitrary (`Thread`): any of the kernel's operations, any number of times, until it
yields or ends. An interrupt may call `process_poll` between any two steps.

| Action | Code |
|---|---|
| `process_start`, `process_post_synch`, `process_exit`, `Post`, `process_poll` | the functions of those names, up to the thread they call |
| `Yield`, `End` | the thread returns to `call_process()`; if it has ended, `exit_process()` begins |
| `InformExited`, `FinishExit` | an iteration of the loop of `exit_process`; its end |
| `RunPolls`, `Poll` | `process_run` and an iteration of `do_poll` |
| `do_event`, `Broadcast`, `Deliver`, `Idle` | `do_event`, its loop for a broadcast with the polls in between, and no event |
| `MainStarts`, `MainLoop` | `main()` starts processes and enters its loop |

`process_exit()` does not look whether its process is being called, and `process.h:384-386`
allows the one that is: with `MayExitBusy` threads exit any process, their own or their
caller's among them, also one that is already exiting (finding 3). Without it `Thread` has a
guard that the code has not: nobody exits a process that is busy. So the direct call of
`process.c:156` then never meets a process that is being called; that a thread does not exit its
own process or one of its callers is an assumption about the programs, under which the
properties of the run `ContikiProcess_kernel` hold and the theorems are proved.
Left out: `process_alloc_event`, the payload of events but for the process that
exited.

### Etimer and RestManager

`timerlist` is the list of armed timers, `start`, `interval` and `owner` the fields of
each timer; `scan` is where the etimer process stands in its list. The clock and all sums
of times wrap at `ClockWrap`. `add_timer` looks for the timer on the list only if
it has an owner, as the code does.

| Action | Code |
|---|---|
| `ClockTicks` | the clock interrupt: count, and poll the etimer process if a timer is armed |
| `EtimerStarts`, `DropTimers`, `ExpireTimer`, `ScanDone` | the etimer process on INIT, on EXITED (`DropTimers`, which ignores every other event but POLL) and on POLL, one step per timer it looks at |
| `Pause`, `SetPeriodic`, `Paused`, `ServePeriodic`, `Served`, `OtherEvent` | `rest_manager_process`; one step per resource |
| `AppKernel`, `AppPauses`, `AppTimer` | any other process: kernel operations, PROCESS_PAUSE, operations on its own timers |
| `Boot`, `Booted` | `main()`, which starts the etimer process first |

The clock ticks at any time, also in the middle of a thread, but no awaited timer is overdue
by a whole lap of the clock: that threads run for less than that is an assumption, and the
16-bit clock of the node, which laps in minutes, gives it. Left out: `etimer_adjust` and the
time of the next expiration, which nothing on the node uses. An app does not set a
timer from the handler of its own PROCESS_EVENT_EXIT. What the handler of a periodic resource does
(`erbium.c:225-227`) is left out: it notifies observers, which is `NotifyObservers` of `ErCoap`, and touches neither timers
nor processes.

### ErCoap

`trans` and `obs` are the two pools: functions from the blocks in use to their
contents. `transactions_list` and `observers_list` are sequences of blocks; `armed` are the
blocks whose `retrans_timer` is on the kernel's list; `timer_events` counts the
queued PROCESS_EVENT_TIMERs for `coap_receiver`; `transaction` is the static pointer
of `coap_receive()`; `sent` are all notifications the node ever handed to the
network, from which answers are drawn: so an answer may be lost, late or repeated.

A handler that runs to its end is one action. The two loops over lists,
`coap_check_transactions` and `coap_notify_observers`, are one action per iteration,
with a cursor; `Idle` in every other guard says that no such loop is running, which is the kernel's
run-to-completion. A response to a request, and a NON notification, take a block
and give it back in one handler (`TransientTransaction`).

| Action | Code |
|---|---|
| `EtimerExpires(s)` | `etimer_process`: post the event, take the timer off the list; nothing when the queue is full |
| `CheckTransactions`, `CheckTransaction` | `coap_receiver` on a timer event; the loop of `coap_check_transactions` with `coap_send_transaction` (retransmit, or time out: remove an observer, clear, and end the loop) |
| `NotifyObservers(u)`, `NotifyObserver(u, refresh)` | an event or periodic handler; the loop of `coap_notify_observers` |
| `ReceiveRequest` | `coap_receive` for a request, with `coap_observe_handler` and the response |
| `ReceiveReply` | `coap_receive` for an empty ACK or RST |
| `ReceiveRejected` | `coap_receive` when the parser refuses the datagram |

The kernel is here what `ContikiProcess` and `Etimer` show it to be: handlers run to their
end, events are taken in order, an expired timer posts its event as soon as the queue has room.

The loops of `coap_remove_observer_by_*` are `FirstMatch`: `list_remove()` clears
the `next` of the element it removes and the loop advances by it, so they
remove the first match and end.

Left out: the wrap of the 16-bit message id; the callback of a transaction (nothing
on this node sets one); separate responses, the blocking client and blockwise
transfer; `coap_remove_observer_by_token` (never called); the comparison of URLs by
prefix (no resource's URL is a prefix of another's); empty messages with an id
the node never drew. `stimer_expired` is a free choice (`refresh`): a clock would only
restrict it.

### CoapBridge

`server` is where `TcpServerThread.run()` stands; `port_bound`, `link` and `socket`
are the listening socket, FHEM's end and the bridge's end of the connection;
`requests` and `replies` the lines under way in both directions. `observeTokens` is the static map of
`CoapClient`; `last_token` Californium's token manager; `exchanges` its token layer
(the request of each token, whether it has a response handler, and whether that
handler's wrapper still writes on the present connection); `waiting_for` and
`response` the blocking wait of `process()`; `passing_on` the receiver thread between
taking a datagram and writing the notification. `to_node` and `to_bridge` only
grow and datagrams are taken from them at any time, any number of times, or
never. `relations` is all that is known of the node: the token of the
relation each resource has with the bridge.

| Action | Code |
|---|---|
| `Bind`, `Accept`, `ReadFails` | `TcpServerThread.run`; `ReadFails` ends the thread (null line) or goes back to binding (IOException) |
| `PortCollected` | external: the server socket `run()` dropped is closed when it is collected |
| `FhemConnects`, `FhemWrites`, `FhemReads`, `ConnectionLost` | `WSNPHD_Ready`/`Define`, `WSNPHD_Write`, `WSNPHD_Read`; the network |
| `ReadRequest` | one round of the inner loop of `run`: take what has arrived, execute the first line with `process` (`Subscribe`, `Unsubscribe`, `Ignore` or `Ask`) |
| `Respond` | the rest of `process`: answer or error to FHEM; after a discovery whose answer has no links an error as well, a step later |
| `ReceiveResponse`, `handleResponse`, `TimeOut`, `TransferTimedOut` | Californium's threads (external, version 0.13.3), and `CoapClient.handleResponse` |
| `NodeAnswers`, `NodeNotifies`, `NodeForgets` | `coap_observe_handler`, `coap_notify_observers`, the removals: the node as the bridge sees it |

A line is a `get`, a `set` or a `discover`; the last is a GET as well (`CoapClient.java:294-295`), and the node
takes it for one. A reply begins with the code of a get or with another.

FHEM is one thread. While `requests` holds more lines than fit (`FhemBlocked`) it is in the
`syswrite()` of its last line: it neither writes nor reads, and the bridge does not see the line yet
(`Arrived`). The bridge's threads wait in `println()` while `replies` is full. So both may wait for each other for ever
(`WaitForEachOther`); the code does nothing against it, and the run reaches it.

Left out: malformed lines (they throw in `request()` and end the thread as
`ReadFails` does), unknown hosts and errors of sending (`CoapClient.java:267-276`: a line of error instead of an
answer), the text of answers, what FHEM writes on a connection nobody
will accept. Californium drops some duplicates; the model lets them all through. `TcpServer.main`
starts one thread per port; the model has one.

Californium is a jar. What is modelled of it is what `CoapClient` relies on: tokens
are not reused, a response is offered to the response queue of its request and then to
its handlers, a response with an Observe option leaves its exchange open, the
transaction layer's timeout leaves it open too, the token layer's closes it.

### WsnSystem

A device of `10_WSN` is a resource of a node. `optionObserve` is its attribute; `wish` is
history, the last observe command of FHEM's user. The point of the module is the cycle
that no part sees as a whole: a `get` is sent with the attribute as its observe option, the
bridge subscribes, unsubscribes or asks by that option, the node renews or ends its
relation by it, and every answer with an observe counter overwrites the attribute.

| Action | Code |
|---|---|
| `WSN_Get(u)` | `get <device>`: the line carries the attribute as it is (`GetCoAPOptions`) |
| `WSN_Observe(u)`, `WSN_Unobserve(u)` | `get <device> observe=1` and `observe=0`: set the attribute, then send |
| `WSN_Set(u)`, `WSNPHD_Get(u)` | `set <device>`, and `get discover` of the physical device, which may name any resource: no options |
| `WSNPHD_Read` | take a line and dispatch it to `WSN_Parse`, which stores the observe counter |
| everything else | `CoapBridge!BridgeNext` |

`EventUris` are the resources whose node counts its notifications (`event_event_handler` of
`coap-sensornode.c`). The periodic ones send 0 for ever (`coap-sensornode.c:259`), and only
that keeps a plain `get` from ending a subscription: `GetsSpareRelations` and
`SubscriptionIsKnown` are about the resources that do not count, and fail for the others.
`GetsSpareRelations` speaks of the gets of devices: a discovery that names a device's own resource is a
GET without the option too, and ends its relation at the node.
`SubscriptionIsKnown` also needs that no line is lost: a command on a connection that is down
sets the attribute and loses its line, and so does one that is read together with another
(finding 4). So its run has a connection that lasts and one line at a time, and its theorem
assumes them (FHEM may be writing a second line while the first waits to be read); `GetsSpareRelations` needs neither. Left out: readings, `optionMaxAge`, attributes set by hand,
the definition of devices by discovery, lines that come in pieces.

### I2cDev

`frame` is `i2c_current`, which caller and interrupt routine share; `caller`,
`transfers` and `to_set` say where the caller stands: the transfers its call still needs
(`read_data` needs two) and the assignments to the frame it has yet to make. `isr` holds
the static variables of the routine, `twie` the bit that enables it (which is also what
`i2c_dev_bus_is_busy()` reads), `op` what the interface is doing, so which status codes
can come next. `wire` (the last address and the bytes after it) and `collided` (the present
transfer met one that was given up) are history.

| Action | Code |
|---|---|
| `CallDriver`, `SetField`, `SignalStart` | `send_cmd`, `write_data`, `read_data`; one step per field; the atomic block of `i2c_signal_start` |
| `Return`, `GiveUp` | the two ends of `i2c_dev_wait_until_bus_is_free`, and what the call does next |
| `Started`, `AddressedForWriting`, `AddressedForReading`, `AddressRefused`, `ByteSent`, `ByteRefused`, `ByteReceived`, `LastByteReceived`, `BusError`, `NotSupported` | the cases of `ISR(TWI_vect)` with the end of the routine |

The interrupt routine runs with interrupts off, so a case is one action; it may run
between any two assignments of the caller, but not inside an atomic block. `GiveUp`
needs no count: the loop gives up only before the first interrupt, and how long that takes
is the bus's choice. `assert` of Contiki prints and goes on (`core/lib/assert.c`), so it is
never a guard. After a transfer was given up they do fail: the interrupts that come late run
the old transfer on the new frame (`i2c-dev.c:457,477`). `SuccessIsReal` therefore excepts
transfers that meet an earlier one: such a transfer may report a success that is not its own.

Left out: `i2c_signal_restart` (every caller passes FALSE for `is_repeated_start`, and
`receive_data` ignores it), STOP against no STOP, the waits in milliseconds, initialisation.
The bytes of a frame are set in one step. The default case and TW_NO_INFO cannot occur in an
interrupt. The codes of a slave and a lost arbitration are one outcome, for the
routine treats them alike.

## 3. What TLC checks

| Run | Properties | Instance | What it shows |
|---|---|---|---|
| `ContikiProcess_kernel` | `TypeOK`, `ListIsSound`, `CurrentRuns`, `NotReentered`, `NoPollLost`, `PollsServed`, `QueueIsFifo` | 2 processes, 2 events, 3 starts | however calls, exits, restarts and polls nest, the list is sound, no thread is entered twice, PROCESS_CURRENT() is right, polls are not lost and come, and the ring buffer implements `EventQueue` |
| `ContikiProcess_exit` | `ExitIsFinal` (violated) | the same, threads may exit any process (`MayExitBusy`) | finding 3 |
| `RestManager_periodic` | `RestTypeOK`, `TimersListedOnce`, `TimersHaveOwners`, `ResourcesAwaited`, `PeriodsFollow`, `ExpiredIsPosted`, `PeriodicServed` | 3 processes, 2 resources, 3 timers, room for 1 event, a clock of 4 | timers are linked once and never outlive their process, every expired timer posts its event although the queue is full, no periodic resource is forgotten or runs early, its periods follow each other also when the clock wraps, and it runs for ever |
| `ErCoap_engine` | `TypeOK`, `PoolsMatchLists`, `NoStrandedTransaction`, `OneRelationPerUrl`, `ReplyIsSelective`, `StoredUnlessRejected`, `KeepsPromise`, `TransactionsEnd` | 2 clients, 2 resources, 2 transactions, 2 observers, 2 retransmissions, room for 1 event, 2 message ids | pools and lists agree, answers touch only their own notification, which stays stored until it is answered, given up or hit by finding 1, the engine implements `ObserveServer`, no expired transaction is stranded and every transaction is closed |
| `ErCoap_stored` | `StoredUntilAnswered` (violated) | 1 client, 2 of everything else | finding 1 |
| `ErCoap_timeout` | `TimedOutClientForgotten` (violated) | as above | finding 2 |
| `CoapBridge_live` | `TypeOK`, `HandlersAreSubscriptions`, `WaitHasAnEnd`, `RequestEnds` | 1 resource, 2 requests, 1 line each way, connections break | `process()` waits only for what can still come, and returns unless FHEM and the bridge have come to wait for each other; a response handler is the present subscription of its resource, so that FHEM gets no notification twice (a subscription may lose its handler's connection: it then gets none) |
| `CoapBridge_lines` | `NoRequestLost` (violated) | 2 lines under way | finding 4 |
| `CoapBridge_reconnect` | `ReconnectServed` (violated) | 1 request | finding 5 |
| `WsnSystem_system` | `ResponsesMatchExchanges`, `SystemTypeOK`, `OnlyCommandedSubscriptions`, `SubscriptionIsKnown`, `GetsSpareRelations`, `SilenceHolds` | 2 resources (1 counts), 2 requests, 1 line each way, a connection that lasts | tokens mean one resource; nothing is observed unasked; FHEM knows the bridge's subscriptions; the gets of devices leave relations alone; what was unsubscribed stays silent |
| `WsnSystem_late` | `SubscribedAsCommanded` (violated) | 1 resource, 3 requests | finding 6 |
| `I2cDev_driver` | `TypeOK`, `StaysInBuffer`, `ResultIsKnown`, `SuccessIsReal`, `InterruptsEnd`, `WaitEnds` | 1 device, 3 bytes, 2 retries | the routine may interrupt the caller anywhere, after a transfer was given up too: it stays in the buffer, results are written, successes are real, every interrupt brings a transfer nearer its end, waits end |

**Bounds and why they suffice.** *Kernel:* two processes call, exit and restart each
other; with three starts (`MaxStarts`) one of them comes back after it exited, also
while its exit is still under way further down the stack. Two events are the least
for a ring buffer that wraps, and `CountWrap = 2 * NumEvents` is the narrowest counter the
code's sum allows. *Timers:* two resources that expire together, one other timer
and room for one event, so that the queue is full whenever both expire; a clock of four
ticks wraps. *Engine:* two transactions expire together; two
observers fill the pool, and are two clients or two relations of one; two
retransmissions are a first and a last one; room for one event is less than
the transactions need; `MaxMid` bounds the notifications, one for each transaction.
*Bridge and system:* two requests are a subscription and the
request that follows it (an unsubscription, a get, another subscription), two resources let a token
be mistaken for another's, and one line in each direction already fills a connection, while FHEM is blocked with
a second. `MaxToken` bounds the requests the bridge executes and with them the lines
FHEM writes; the tokens of Californium, which are never given back, do not run out in the models.
*I2C:* three bytes have a first, a
middle and a last, so each branch on the position in the buffer is taken, also at the
buffer's end, and two retries are a first and a last. One device is enough where one
caller at a time uses the bus. The real values (4 transactions, 3 observers, 4
retransmissions, 10 to 32 events, 20 bytes, 3 retries) are larger;
the properties of section 5 are proved for all values.

The configurations of kernel, bridge and system do not check for deadlock: the server
thread really ends (`ReadFails`), and the bounds on starts and requests stop the models.

**Fairness.** In `ContikiProcess`, the processor runs the kernel, and a thread that was
called returns in the end, whatever it calls before (strong fairness: it may call
others for ever in between, each of which returns). In `RestManager` the clock runs too; the
two services run to their end, and other threads return. In `ErCoap`, the clock runs and the kernel serves its queue in order, so a
timer that stays armed expires and a queued event is taken: strong fairness, because a handler that
runs disables both now and then. A loop that has begun goes on: weak
fairness. Clients, the network and resources owe nothing. In `CoapBridge`, the two
threads run, Californium's timeout expires, FHEM's main loop, unless it
is in `syswrite()`, reads its connection and `WSNPHD_Ready` opens it again, and the garbage collector runs; the two writers
take turns on a full connection (strong fairness). The node and the network
owe nothing. In `I2cDev`, the processor runs the caller, and the interface ends whatever it
is doing with some status code. The latter is an assumption about the bus that no code of
this repository ensures: the timeout of the wait counts only until the first interrupt
(`i2c-dev.c:622`), so a bus that falls silent later stops the whole node.

Each property is violated when one definition is replaced by a faulty version
of itself (the operators whose comment begins with *Mutant*): see `mutants`.

## 4. Findings

1. **A rejected datagram frees somebody else's transaction**
   (`er-coap-13-engine.c:88`). A request leaves its freed block in the static pointer, a CON
   notification takes the block, and an error in the next datagram
   clears it: the notification is never sent again and never times out.
2. **A silent client keeps its other relations** (`er-coap-13-observing.c:101`).
   `coap_remove_observer_by_client()` removes one observer only.
3. **A process that exits itself may go on running** (`process.c:191`). When its thread
   yields after `process_exit()` on itself, `call_process()` sets it to RUNNING again: it
   is off the list and still receives events. The same happens to a process that a thread it called exits.
4. **Lines that arrive together are lost** (`TcpServerThread.java:44`).
5. **The bridge does not survive the end of a connection**
   (`TcpServerThread.java:48`): `readLine()` returns null and the thread ends.
6. **A late line undoes `observe=0`** (`10_WSN.pm:79`). The answer of the subscription or a
   notification of it, read after the unsubscription was written, sets the attribute back to 0, and
   the next plain `get` subscribes again.

The models contain more behaviour a reader may find surprising, without a run of its own: a
subscription that failed or whose connection was lost stands in the way of the next one
(`CoapClient.java:159`); the node takes the GET that unsubscribes for a registration, so
that relations outlive their subscriptions (`er-coap-13-observing.c:231`); a plain `get`
with the attribute 0 is not executed by the bridge and gets no answer while the
subscription lasts (`CoapClient.java:162`), though FHEM says that the current value was requested
(`10_WSN.pm:243`); a discovery that names an observed resource ends its relation (`er-coap-13-observing.c:252`); FHEM in
`syswrite()` and the bridge in `println()` may wait for each other for ever (`00_WSNPHD.pm:159`); an I2C transfer that was given up may still run on the next call's frame.

None of these breaks a safety invariant of section 3: the pools stay consistent even
when finding 1 happens, which is what `PoolsMatchLists` shows.

## 5. What TLAPS proves

For every value of the constants that satisfies `ContikiProcessAssumption` (finitely many
processes; events fit a counter that holds twice their number, which is what
`process_num_events_t` must do),
`EtimerAssumption` (the etimer process is one, and no interval is within two ticks of a lap of the
clock), `RestManagerAssumption` (the periodic resources have timers and such intervals),
`WsnSystemAssumption`, `ErCoapAssumption`
(`EventUrls` are resources, the pools, the queue and the number of
retransmissions are positive), `CoapBridgeAssumption`, or `I2cDevAssumption` (more than one
byte of buffer, as the `#error` of `i2c-dev.c:63` demands):

| Theorem | States |
|---|---|
| `ContikiProcess_proofs!TypeCorrect` | `Spec => []TypeOK` |
| `ContikiProcess_proofs!CurrentCorrect` | `Spec => []CurrentRuns` |
| `ContikiProcess_proofs!QueueRefines` | `Spec => Queue!Spec` |
| `ContikiList_proofs!ListSound` | `~MayExitBusy /\ "INIT" \notin Posted`: `Spec => []ListIsSound` |
| `ContikiList_proofs!NeverReentered` | `~MayExitBusy /\ "INIT" \notin Posted`: `Spec => []NotReentered` |
| `ContikiList_proofs!ExitCorrect` | `~MayExitBusy /\ "INIT" \notin Posted`: `Spec => []ExitIsFinal` |
| `ContikiList_proofs!PollsCorrect` | `~MayExitBusy /\ "INIT" \notin Posted`: `Spec => NoPollLost` |
| `RestManager_proofs!RestTypeCorrect` | `RestSpec => []RestTypeOK` |
| `RestManager_proofs!ListedOnceCorrect` | `RestSpec => []TimersListedOnce` |
| `RestManager_proofs!KernelStaysSound` | `~MayExitBusy /\ "INIT" \notin Posted`: `RestSpec => [](ListIsSound /\ NotReentered /\ CurrentRuns)` |
| `RestManager_proofs!OwnersCorrect` | `~MayExitBusy /\ "INIT" \notin Posted`: `RestSpec => []TimersHaveOwners` |
| `RestManager_proofs!ResourcesCorrect` | `~MayExitBusy /\ "INIT" \notin Posted`: `RestSpec => []ResourcesAwaited` |
| `RestManager_proofs!PeriodsCorrect` | `~MayExitBusy /\ "INIT" \notin Posted`: `RestSpec => PeriodsFollow` |
| `RestManager_proofs!RestPollsCorrect` | `~MayExitBusy /\ "INIT" \notin Posted`: `RestSpec => NoPollLost` |
| `RestManager_proofs!RestQueueRefines` | `RestSpec => Queue!Spec` |
| `WsnSystem_proofs!SystemRefinesBridge` | `SystemSpec => Spec` |
| `WsnSystem_proofs!SystemKeepsPromises` | `SystemSpec => [](ResponsesMatchExchanges /\ HandlersAreSubscriptions /\ WaitHasAnEnd)` |
| `WsnSystem_proofs!SystemTypeCorrect` | `SystemSpec => []SystemTypeOK` |
| `WsnSystem_proofs!OnlyCommandedCorrect` | `SystemSpec => []OnlyCommandedSubscriptions` |
| `WsnSystem_proofs!SilenceCorrect` | `SystemSpec => SilenceHolds` |
| `WsnSystem_proofs!SparesCorrect` | `SystemSpec => GetsSpareRelations` |
| `WsnSystem_proofs!KnownCorrect` | `MaxLines = 1 /\ ~LinkBreaks`: `SystemSpec => []SubscriptionIsKnown` |
| `ErCoap_proofs!TypeCorrect` | `Spec => []TypeOK` |
| `ErCoap_proofs!PoolsCorrect` | `Spec => []PoolsMatchLists` |
| `ErCoap_proofs!OneRelationCorrect` | `Spec => []OneRelationPerUrl` |
| `ErCoap_proofs!NoStrandedCorrect` | `Spec => []NoStrandedTransaction` |
| `ErCoapPromise_proofs!SelectiveCorrect` | `Spec => ReplyIsSelective` |
| `ErCoapPromise_proofs!PromiseCorrect` | `Spec => KeepsPromise`: the engine implements `ObserveServer` |
| `ErCoap_proofs!StoredCorrect` | `Spec => StoredUnlessRejected` |
| `CoapBridge_proofs!TypeCorrect` | `Spec => []TypeOK` |
| `CoapBridge_proofs!HandlersCorrect` | `Spec => []HandlersAreSubscriptions` |
| `CoapBridge_proofs!ResponsesCorrect` | `Spec => []ResponsesMatchExchanges` |
| `CoapBridge_proofs!WaitCorrect` | `Spec => []WaitHasAnEnd` |
| `I2cDev_proofs!TypeCorrect` | `Spec => []TypeOK` |
| `I2cDev_proofs!BufferCorrect` | `Spec => []StaysInBuffer` |
| `I2cDev_proofs!ResultCorrect` | `Spec => []ResultIsKnown` |
| `I2cDev_proofs!SuccessCorrect` | `Spec => SuccessIsReal` |
| `I2cDev_proofs!InterruptsCorrect` | `Spec => InterruptsEnd` |

**The kernel.** That `PROCESS_CURRENT()` is right when a thread goes on depends on what the
frames above it will restore. The invariant (`Consistent`) says of every frame above a
thread that its `back` is that thread, so that returning, in any order of nesting, gives
the thread what is its own; frames of loops that restore nothing never lie on a thread. One lemma
for each way the stack changes (push, pop, replace the top), one for calls and one for
exits carry the step of every action. `QueueRefines` needs the arithmetic of the ring
buffer: a sum below twice the size wraps at most once, the place of a new event differs from
those of the waiting ones, and moving `fevent` on shifts every place by one.

*The list of processes.* `ListIsSound` speaks of what following the pointers finds (`Walk`, a
recursive function), so the proof takes a sequence without repetitions whose elements the pointers
join (`Chain`) and shows that `Walk` is this sequence (`ChainWalk`: there is no least
place where they differ); starting a process puts one in front of the sequence, exiting one
takes one out. Who is on the list depends on the C stack (`Shape`): a process has at most one frame,
but for the thread `exit_process()` tells; a process whose thread has a frame is CALLED, one that
is exiting NONE; loops of the kernel lie below all threads. `do_poll()` sets whatever process it
finds to RUNNING, so its next one must be on the list (`Ready`), although the process it has come to may
have left: the link of a process that leaves stays, and leads to one on the list because `do_poll()` goes on
as soon as that process has returned. Two conditions are needed. A thread that exits its
own process may run on without being on the list (finding 3), and a posted
`PROCESS_EVENT_INIT` sets a process that was never started to RUNNING; no process of
this node does either. The first condition (`~MayExitBusy`) says more than that no thread exits
itself: none exits any process that is being called or is exiting, for a caller that a nested thread
exits comes back to `call_process()` in the same way. `ExitCorrect` is what is left of finding 3
under these conditions: what has left the list does not run.

*Polls.* `do_poll()` forgets that a poll was asked for before it walks the list. So a poll that is due is
a flag that is set and either a request or a walk that has the process before it
(`Ahead`, said without recursion: whatever holds what follows the place of the walk, and the successor
of each of its elements but the process, holds the process). It is proved step by step from the invariants of the list: a process
that leaves the list keeps its link, one that starts goes to the front, where no walk is, and a
walk passes over nobody because a process it has called stays on the list until it returns
(`PollAtListed`).

**The timers.** `add_timer()` looks for a timer on the list only if the timer has an owner, so that no
timer is linked twice needs that every timer on the list has one (`ListOK`); the two
are inductive together, through each removal. The etimer process stops in the middle of its list
between two steps, and is where it was when it goes on because nobody runs in between
(`ScanIsOn`): a thread of its own is on top of the stack then, and an interrupt only counts and asks for polls.
`KernelStaysSound` carries the invariants of the kernel over: each step of the
composition is a step of `ContikiProcess`, or leaves list, states and stack alone
(`StepIsKernels`), or is `Pause`, which posts to the process itself, whatever `Posted` allows, and yields.

`OwnersCorrect` speaks of states in which nobody is exiting; in between, an armed timer of a
process that is gone is owed to its `exit_process()` (`Informs`): the loop of this call has the etimer process
before it, or has just called it with `PROCESS_EVENT_EXITED`. What a loop has before it
is said without recursion (`Pending`): whatever holds the element after the one the loop has come to, and the successor of
each element but the etimer process, holds the etimer process. A process that leaves the list while
the loop stands on it keeps its link, and one that is started goes to the front, where no
loop is, because the process a loop has come to is on the list (`ExitAtListed`), so both leave
`Pending` true (`PendingUnlink`, `PendingStart`). The etimer process must be RUNNING when
its turn comes: it calls nobody itself (`EtimerOnTop`), and is started before everybody else (`EtimerServes`).

*Periodic resources.* `ResourcesAwaited` is nearly inductive, once it is known by which ways the timer of a
resource leaves the list. The loop of the etimer process takes it off as it posts to the REST manager; it
never drops it, because nothing on the stack says that the REST manager has exited or starts the etimer
process a second time (`Spared`), and no app touches it. The event then stays in the
queue, wherever others are appended (`PostKeepsComing`), until `do_event()` takes it, and finds a REST
manager that is RUNNING, since no thread is under way then (`KernelComes`); so the loop runs, and has the resource before it until it
resets its timer. An app that sets, stops or restarts a timer of its own leaves the others
on the list (`WithoutKeeps`, `AddArms`). That the timer has run out, and not only its event, needs the
assumption on the clock: `TickKeepsExpired` is arithmetic modulo its width.
`PeriodsFollow` is a consequence: `etimer_reset()` only meets timers that have run out, for which
adding the interval to the start takes the interval off what has elapsed (`ResetFollows`).

`RestQueueRefines` and `RestPollsCorrect` hold because every step of the composition is the kernel's, or
`Pause`, or calls nobody, posts one event at most and takes back no poll (`StepKinds`).

**The system.** Every step of FHEM's devices is a step of `CoapBridge` that writes or reads a
line, or none, so `SystemSpec => Spec` and the bridge's theorems hold of the system. Nothing is
observed unasked because an observe option has only two sources, a command and an answer
to a request that carried one, and the invariant follows it through lines, requests,
exchanges, relations and answers. Silence rests on the bridge's invariant that handlers are
subscriptions: a late notification finds no handler.

`GetsSpareRelations` speaks of the moment a line is read, but the option in a line is the
attribute's when it was written, so the invariant (`Spared`) follows lines through the queue: if a get
without the option is in it, no subscription of the device is before it or at the
bridge. `SubscriptionIsKnown` is the case of the empty queue of `Known`: attribute, line under way and
subscription agree two by two. It needs that what FHEM writes arrives (`Lasting`).

**The engine.** `TypeOK` and `PoolsMatchLists` are inductive together: an element of a
list is used as an index of its pool, so typing needs the lists to match. The proof has one lemma per way a
pool changes (in the first part of `ErCoap_proofs`: what `memb_alloc`, `list_remove` and
`FirstMatch` return and preserve), and one step per action.
`OneRelationPerUrl` follows because there is at most one match to remove, so that removing the first removes
all. `NoStrandedTransaction` is not inductive: it speaks of idle states,
and while `coap_check_transactions` runs, the transactions it has yet to visit are
served by the event that is being handled. The strengthening counts, at each position of the cursor, only the
expired transactions the loop has left behind; it ends early only when it has just freed
one, and the count is down by one by then.

*The promise.* `coap_receive` finds transactions and observers by message id alone, so
`ObserveServer` is implemented only if an id means one notification. `Linked` says so: ids
are drawn once and never ahead of `current_mid`; a transaction's id is that of a
notification sent to its client, no two transactions share one, and an observer's last id is that of
a notification of its resource. With it and `OneRelationPerUrl` each step of
the engine ends the relations and the waits that the promise's step ends: one lemma per action.

*Stored notifications.* `StoredUnlessRejected` bounds finding 1: the static pointer is the only way a stranger's
block is freed, and only `ReceiveRejected` frees by it; every other step that frees one has looked it up, by the id of the answer
or by its last timeout.

**The bridge.** The first three properties hold of the token tables together: every
token in use has been issued, and none is issued twice (tokens are below `last_token`); a
subscription's token has an exchange for the same resource with a handler;
everything under way is filed under its token. `Unsubscribe` is the step that needs all
of it: it re-files the token of the subscription, without its handler, for the same
resource. `WaitHasAnEnd` needs beside them that the request the server thread
waits for is filed (`WaitsOnExchange`); each of the three ways it can end offers something to the response queue (`OfferAnswers`).
`SystemKeepsPromises` is the three invariants again, for the whole system, by `SystemRefinesBridge`.

**The I2C driver.** The invariant has three parts beside types and `StaysInBuffer`:
`CallerInv` (which assignments are left at each point of the caller), `FrameInv` (a field
that has been set keeps its value; the data only until an earlier transfer
interferes) and `TransferInv`, which says for a transfer that meets no earlier one how
many bytes have moved at each state of the interface. `StaysInBuffer` is needed for
typing: the position may grow because there was room for one more when the byte was asked
for, and nothing but the routine changes the position. `SuccessIsReal` is `TransferInv` at the
moment the wait ends. `InterruptsEnd` is a measure that falls with every interrupt (`ToCome`): the bytes left and the retries left
to refused ones. The proof uses only that the position, the size and the count of retries stay in their bounds, for the
frame may change in between; a caller that waits changes nothing, so its wait meets finitely many interrupts.

**Only model-checked.** Liveness (`PollsServed`, `ExpiredIsPosted`, `PeriodicServed`,
`TransactionsEnd`, `RequestEnds`, `WaitEnds`, and that queued events are taken), which is out of the
prover's reach with the fairness it needs. For four of them the theorems have the safety
half: `NoPollLost` for `PollsServed`, `ResourcesAwaited` for `PeriodicServed`, `WaitHasAnEnd` for `RequestEnds`,
and `InterruptsEnd` for `WaitEnds`: what would have to come is never lost, so that only the scheduler can keep it away.
Every safety property of a passing run is proved.

## 6. Not modelled

* **The rest of Contiki**: network stack, MAC layers, file systems, platforms, applications and
  tools, more than nine tenths of the repository's lines, are third-party code that this
  project uses unchanged. The parts of it on which the project's own node depends
  most are modelled: processes, event timers, memory pools, CoAP.
* **I2C sensors**: straight sequences of bus transfers (which are the inputs of `I2cDev`) and
  conversions of raw values without state or concurrency.
* **Message ids that wrap** (`er-coap-13.c:281`), the callback of a transaction and the
  blocking client: no program on this node uses the latter two, and an answer
  would have to be delayed by 65536 notifications for the first.
* **The order of a notification and an answer** at the bridge (`CoapClient.java:305`): replies
  have no values in the model.
* **Malformed lines and unknown hosts** at the bridge, and names, readings and discovery in FHEM:
  text, which the properties do not tell apart.
* **Web front end, rule editor, bench program**: single requests and serial output.

## 7. Running

    tlc -workers 2 -config ContikiProcess_kernel.cfg ContikiProcess
    tlc -workers 2 -config RestManager_periodic.cfg MCRestManager
    tlc -workers 2 -config ErCoap_engine.cfg ErCoap
    tlc -workers 2 -config CoapBridge_live.cfg CoapBridge
    tlc -workers 2 -config WsnSystem_system.cfg WsnSystem
    tlc -workers 2 -config I2cDev_driver.cfg I2cDev
    tlapm ContikiProcess_proofs.tla
    tlapm ContikiList_proofs.tla
    tlapm RestManager_proofs.tla

The module of every other run is the part of its configuration's name before the underscore.
