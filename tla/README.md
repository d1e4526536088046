# Verification of iprcv

iprcv is the network half of an alarm gateway. It runs on an ARM board, takes
alarm messages from client devices over TCP, passes them over a serial line to
an ARM7 board that acknowledges them, and sends "reverse control" commands from
that board to the clients. The serial line also brings new network
configurations. A supervisor (`daemon.c`) restarts the program when it ends.

This directory holds TLA+ models of the program, the TLC configurations that
check them, and proofs that the TLA+ proof system checks. Line numbers are
those of `src/`.

## 1. Inventory

### Threads and the way they interact

```
 clients --TCP--> net thread --g_inq--> UART thread --serial--> ARM7 board
         <--TCP--            <-g_outq--             <--serial--
                     g_nl, nl_mtx, nl_cnd; g_prt, hb_tmeo
```

* The **UART thread** is the main thread with the event loop `g_loop`. Its
  callbacks are `ruart_cb` (serial input), `inq_cb` (command pipe of `g_inq`)
  and `uart_tmeo_cb` (ack timeout).
* The **net thread** is `net_loop` with the event loop `nl_loop`. Its callbacks
  are `listen_cb`, `conn_cb`, `ntmeo_cb` (heartbeat timeout) and `outq_cb`
  (command pipe of `g_outq`).
* They share the two queues, each with its mutex and pipe; the flag `g_nl` with
  a mutex and one condition variable; and, with no lock at all, the globals
  `g_prt` and `hb_tmeo`.

### Components

| Component | State | Operations | What makes it correct |
|---|---|---|---|
| Message queue, `fq.c` | ring `node`, `ridx`, `widx`, `size`, `fmtx` | `fq_put`, `fq_get`, `fq_get_ai`, `fq_drain` | a bounded FIFO that drops its oldest item; no torn or lost node |
| Command pipe, `fq.c` | `pfd` | `fq_putcmd`, `fq_getcmd` | wakes the reader for what was queued |
| Alarm link, `main.c` 970-1020, 1130-1145, 573-574 | `uart_obuf`, `repeat_counter`, `uart_tmeo_watcher`, `g_inq` | `send_uart`, `uart_tmeo_cb`, ack branch, `inq_cb` | alarms reach the board in order, in bounded copies; none waits for ever; losses only by the causes the code names |
| Net module lifecycle, `main.c` 773-836, 870-966, 723-771 | `g_nl`, globals of the configuration, `listenFd`, `g_outq` | `stop_net_module`, `start_net_module`, `net_loop`, `handle_netconf`, `outq_cb`, `write_nio` | a new configuration is applied while everything is closed; nothing of the old one survives; a stop ends |
| Sessions, `main.c` 339-523, 539-721 | `ev_nio_t`, `ev_ntmeo_t`, both free lists, `ev_arr`, counters | accept, register, take over, time out, clean up | one timer per session, one session per ID, no descriptor lost |
| Receive buffer, `buffer.c` | `bufbase`, `rptr`, `misalign`, `off`, `totallen` | `buffer_read`, `buffer_drain_ptr`, `buffer_find_chr` | bytes in order; pointers kept across a read still point at their byte |
| UART framing, `main.c` 1007-1118 | `uart_rptr`, `uart_tail`, `uart_buf` | `handle_uart`, `_handle_uart` | each frame acted on once, whole, for what it is |
| Network framing, `main.c` 525-633 | `ev->rptr`, `ev->tail`, `ev->buff` | `handle_nio`, `handle_netmsg`, `msg_id` | each message handled once; what noise can do is bounded |
| Configuration, `main.c` 157-330, 870-966 | globals, `hw_*`, `net.conf`, the interface | `get_def_netinfo`, `load_net_conf`, `store_net_conf`, `handle_netconf`, `config_netif` | what was stored is what is loaded; the interface has it, as far as the calls that set it do not fail |
| Supervisor, `daemon.c` | processes | `daemon_init`, `main` | one instance runs, again and again |
| Start-up, signals, serial port | - | `main`, `setup_signals`, `uart_init`, `sigterm_hanle` | a start that fails is tried again; SIGTERM leaves a file that can be loaded |
| libev, ulib (`ev/`, `inc/`) | - | external, headers only | - |

### Hard behaviours

Two threads over shared queues, globals and one condition variable; the reader
of a queue that looks at a node, works on the copy and discards *whatever is
the head* much later; a pipe that loses wakeups silently; acknowledgements that
carry no identity, over a line that loses frames; a timer racing them;
reconfiguration that stops one thread from the other; node pools whose pointers
outlive the nodes' use; marks that end frames among the data of frames, with
pointers into a buffer that moves. `PROJECT.json` lists each at its line.

## 2. Modules

| Module | Models | State and code |
|---|---|---|
| `DropOldestQueue` | what `fq.c` promises: an atomic FIFO, the writer never waits | `queue` the nodes from `ridx` to `widx`, `ret` the reader's buffer |
| `Fq` | the ring of `fq.c`, each access to shared fields a step, under the mutex | variables named as the fields; `wpc`, `rpc` the places in `fq_put` and the readers |
| `FqSize` | `power2_align`, the masks on the indices, as a module over `Fq` | `Size` is what `power2_align` returns; `Request` the arguments of `fq_new` looked at; `BitAnd` is `&` |
| `CmdPipe` | `fq_putcmd`, `fq_getcmd` | `pipe` the bytes in the kernel; a write to a full pipe is dropped |
| `AlarmLink` | net thread -> `g_inq` -> serial line -> board and back | composes `DropOldestQueue` and `CmdPipe`; `obuf`, `repeat`, `timer` are `uart_obuf`, `repeat_counter`, `uart_tmeo_watcher` |
| `AlarmLinkBlank` | the link with nodes of size 0 in `g_inq` | `AlarmLink` and one more action of the net thread |
| `NetCtl` | the UART thread controlling the net thread, reverse control | composes `DropOldestQueue` and `CmdPipe`; `upc`, `npc` the places of the threads |
| `Registry` | what the sessions promise: open connections, and at most one, an open one, for each user ID | `conns` the descriptors, `owner` the descriptor `write_nio` reaches through `ev_arr` |
| `Sessions` | node and timer pools, `ev_arr`, accept to clean-up | fields as functions from node addresses; `nlist`, `tlist` say which list a node is in |
| `Buffer` | `buffer.c` | `mem`, `block` the memory and its identity, `rptr`, `off` as in the code; no behaviour of its own |
| `ByteStream` | what the peers of both framings send | messages one behind the other; a byte carries the message it is of and its place in it, so that properties can tell what became of it |
| `UartFraming` | the search for frames in `handle_uart`, what `_handle_uart` takes them for | composes `Buffer`; `uart_rptr` a pair of block and offset; `handled` each call of `_handle_uart` |
| `NetFraming` | the search for messages in `handle_nio`, `handle_netmsg` | composes `Buffer`; `start` is `ev->rptr` |
| `NetConf` | the configuration item by item: globals, `net.conf`, interface, calls that fail, crashes, SIGTERM | `conf`, `file`, `iface`; `pc` the steps of the reset; `Loading` and `Configuring` the calls of `load_net_conf` and `config_netif` in their order; `amiss` the addresses whose call failed or was left out too early |
| `Daemon` | the supervisor, and the start of the program | `st`, `parent` the process table, `pid` the variable of that name in each process |
| `FqProofs`, `AlarmLinkProofs`, `NetCtlProofs`, `SessionsProofs`, `BufferProofs`, `NetFramingProofs`, `UartFramingProofs` | theorems about the module of that name (`FqProofs` about `FqSize` too, `BufferProofs` about `ByteStream` too) | section 6 |
| `RestartProofs` | theorems about `NetConf` and `Daemon`, what is there again after a crash | section 6 |
| `MC*` | constants for TLC | |

```
 MCFq -> FqSize -> Fq ==implements==> DropOldestQueue
                                           |  CmdPipe
                                           |  |
                              AlarmLink <--+--+--> NetCtl

             AlarmLinkBlank <--+

 Buffer, ByteStream -> UartFraming, NetFraming
                                          Sessions ==implements==> Registry
                                          NetConf   Daemon
```

`Fq` implements `DropOldestQueue` and `Sessions` implements `Registry` (both
checked and proved). `AlarmLink` and
`NetCtl` use `DropOldestQueue` in place of the ring, so that the steps inside
`fq_put` do not have to be interleaved with everything else again. `FqSize`
justifies the one thing `Fq` takes for granted, that masking with `size - 1` is
counting modulo `size`. It writes `&` by what it does to the bits, since no proof can use the recursive
operator of module `Bitwise`; an assumption of `MCFq` compares the two.

The size of a step follows from what can be seen in between. A callback of an
event loop is one step where all it works on belongs to its thread. It is split
at every access to something shared: a queue, a pipe, `g_nl`, `g_prt`,
`hb_tmeo`. `Sessions` is split further, at the functions the callbacks call, so
that invariants can be stated about the middle of a callback.

Some definitions have a twin just above them whose comment begins with
*Faulty*. It is the same step with a mistake somebody could make in the code (a
reset forgotten, a signal left out, a counter counted at the wrong moment). No
specification uses it. Put in place of the correct one it makes the property
listed for it in `PROJECT.json` ("mutants") fail, which shows that the property
depends on that line of code.

## 3. Runs

All with `tlc -config <cfg> <module>`. The numbers are distinct states.

| Run (cfg) | Bounds | States | What it shows |
|---|---|---|---|
| `fq` (`MCFq`) | ring of 4 (made by `power2_align(3)`), nodes of 3 bytes, a message of 2 and one of 5 | 9 325 | `ReadableIsWhole`: no reader can meet a half-written node. `IInv`: the invariant the proof uses. `ImplementsQueue`: every behaviour is one of `DropOldestQueue`. `RingsFit`: for requests at both sides of each threshold of `power2_align`, up to its limit of 4096, the ring is large enough, and in every ring the mask is the remainder |
| `alarm_link` (`MCAlarmLink`) | 4 alarms, queue of 2, pipe of 2, 1 retry | 73 745 | wakeups, order, number of copies, causes of loss, which exchange an ack ends; no alarm stays in the queue |
| `net_ctl` (`MCNetCtl`) | 1 connection, 2 values per item, 2 configurations, 3 reverse-control messages, queue and pipe of 2 | 124 646 | sockets are closed while the configuration changes; nothing of the old one stays; no QUIT is left over; messages before a stop are handled before it, each once and in order; a stop ends and the module comes up again |
| `sessions` (`MCSessions`) | 2 nodes, 2 timers, 3 descriptors, 2 IDs, `MAX_CLIENT` 2 | 8 061 | `IInv`: the invariant the proofs use; pointers, table, descriptors and timers agree through every way a session can begin, change and end, and what the outside sees of them is the abstract `Registry`; a silent session is closed |
| `uart_framing` (`MCUartFraming`) | 3 frames of 2 to 6 bytes, of each kind and with an end mark, a start mark or start marks of both kinds among their octets; buffer of 6 | 952 628 | each plain frame is acted on whole, for what it is, once, in turn, when the board sends the next one only after the last one was read; `uart_rptr` goes astray only where a failed read has cut a frame with an inner start mark, or where a frame has start marks of both kinds and another one behind them; a program that this ends (`CrashHandle`) is among the states |
| `net_framing` (`MCNetFraming`) | 3 chunks (message, message with an inner end mark, with an inner start mark, stray byte, stray end mark), buffer of 8 | 42 417 | for a client that does not wait, as long as no read moves the data: what reaches the queue is an unbroken piece of what was sent, begins at the start of a message and ends at its first end mark, or has size 0; no plain message is lost or doubled; no byte of one session reaches the next |
| `net_conf` (`MCNetConf`) | 2 messages of 1 or 2 items, 2 values, one of which the interface starts with, one invalid address | 832 314 | `IInv`: the invariant the proofs use; with calls to the interface that fail or are left out, a kernel that drops masks and routes, a crash between any two steps or calls and SIGTERM anywhere in the writing: what would be loaded is what the program has, and the interface has each address whose own call did not fail, but for the one exception `InterfaceAgrees` names |
| `daemon` (`MCDaemon`) | 5 processes, 3 failures | 26 669 | never two programs; a supervisor waits for its own child only; the program comes back |
| `alarm_discard`, `alarm_blank`, `uart_burst`, `net_burst` | | | counterexamples, section 4 |

Why the bounds are enough. For the safety properties of `AlarmLink`, `NetCtl`,
`Sessions`, `NetConf`, `Daemon` and the ring the proofs of section 6 cover every
value of the constants, and for the framings all messages and frames of the shapes
that are named there. For the other shapes, and for liveness:

* `fq`: four nodes is the smallest ring with an index that wraps while others
  do not, and a full ring with more than one item to drop. The ring wraps
  without limit, nothing counts its turns. Message lengths differ from each
  other and from the node, one is cut.
* `alarm_link`: four alarms overflow a queue of two while one of them is in
  flight, and then one more. A pipe of two is full at the third command. With
  one retry an exchange has all of its stages: first copy, retry, given up.
* `net_ctl`: sessions do not affect each other in it, so one is enough. Two
  configurations are one more than is needed for something stale. Three
  messages overflow the queue and fill the pipe in front of the QUIT.
* `sessions`: with two of each both pools are used up, with a third connection
  that is refused, and one session can take over or be mistaken for the other.
* framings: three frames are one that may be handled wrongly, one before it and
  one after; the buffer holds one frame (UART) or two (network), so the data
  reaches its end. Three chunks are what it takes for a size below zero: an end
  mark, a byte, and a message.
* `net_conf`: one message changes an item, the next changes it back or changes
  another. The interface starts with a value that messages can carry, so that
  `load_net_conf` meets an address it need not set. Only `ipaddr` can be invalid:
  `netmask` and `gateway` are not validated, and that the interface refuses one is
  among the failures any of its calls may have.
* `daemon`: each failure leaves one more supervisor, and one process is left to
  be the program.

The runs with bounded arrivals have `CHECK_DEADLOCK FALSE`: when the alarms,
frames or chunks the bound allows have been used, the system has nothing to do
and stops (in `daemon`: when the first fork has failed, `main` returns).
`fq`, `sessions` and `net_conf` never stop, and there TLC checks for deadlock.

### The properties that say most

* `NoLostWakeup` (`AlarmLink`). `inq_cb` takes a command byte and does nothing
  with it while an alarm is in flight, and a full pipe drops commands. No alarm
  is forgotten because the end of each exchange looks at the queue itself.
* `LossAccounted` (`AlarmLink`, `NetCtl`). The readers peek, work, and discard
  by position later. An overflow in between makes them discard another node. The
  count of messages that vanish is still at most that of overflows (and, for
  alarms, of acks that found nothing in flight): a single cause never costs two.
* `AckEndsItsExchange` (`AlarmLink`). Acks are anonymous. Unless an answer is
  late, an ack ends the exchange of the alarm it was sent for; and once the line
  was quiet after a late one, the two ends agree again.
* `NoStaleQuit`, `StopIsUnderWay`, `StopEnds` (`NetCtl`). The condition variable
  has two waiters for opposite values and wakes with single signals; the QUIT
  goes through a pipe that may drop it. A stop still ends unless exactly that
  happened, and no QUIT is left to stop the module that is started next.
* `OneTimerEach` (`Sessions`). Free nodes keep a dangling `tev`. It is never
  followed, and each session has one running timer that points back at it,
  except the one being worked on, which has none.
* `HeardIsKept` (`Sessions`). At the limit of the pool, the session that gives
  its timer back at the start of `conn_cb` finds one at the end.
* `Durable` (`NetConf`). With the file truncated first and written second, there
  is a window in which a crash loses the configuration; outside of it nothing
  is lost, except the MAC address, which is never loaded.
* `InterfaceAgrees` (`NetConf`). Nobody looks at the results of the calls that set the
  interface, a new address may take the mask with it and going down takes the routes. One
  failure still spoils one address only: in both sequences of calls each address is set after
  all that upsets it. There is one exception besides, and the property names it:
  `load_net_conf` leaves out what equals `hw_*`, and a call of its own may have upset that since.
* `ActedOnce` (`UartFraming`). `uart_rptr` is never set back after a frame. It works
  because an empty buffer is filled from its beginning again, where `uart_rptr` has
  pointed since the first frame (`PointerKept`); even the leftovers of a
  configuration that was cut at an octet 0xdd are got rid of before the next frame.
  What it does not survive is a start mark at which a failed read has cut a frame, or
  a start mark of the other kind in a frame of which there is more to come (`Torn`):
  then the frame is thrown away as invalid, and a start mark among the rest of it is
  taken for the next one's. The proof of `PointerKept` brought this second way to light;
  it takes a configuration with octets 0xbb and 0xee that is read in pieces, and the run
  has such a frame now.
* `CutAtFirstMark` (`NetFraming`). Stray end marks do not shift later messages; the
  one thing they leave is a node of size 0, and what that does is in `alarm_blank`.
* `HandedAsSent` (`NetFraming`). The piece that is queued is found with a pointer kept
  from an earlier read, an end mark looked for from somewhere else, and a buffer that
  fills and drains in between; it is still one piece of what was sent, from a start mark
  to the first end mark behind it, whatever the client sends.
* `ImplementsRegistry` (`Sessions`). All the lists, pools and pointers amount to a
  table from users to open connections; every callback is one step of it or none.
* `AtMostOne` (`Daemon`). A child whose `execl` fails in the loop becomes another
  supervisor. There can be many of these, but never two programs.

What some of them leave out, on purpose: `ActedOnce` speaks of a board that waits, so what a
burst of frames meets is in `uart_burst` only, and `HandedAsSent` of data that no read moves, so
what moving does is in `net_burst` only. `Durable` says nothing of the time between
`fopen` and the last line, where the items can be lost. `ComesBack` counts a program whose net
thread could not be created as started. `IInv` of `Sessions` has the pools hold no more
nodes than were counted (`PoolsCounted`), not as many: a failed `calloc` takes a place
for good. `hazards` in `PROJECT.json` has a note for each of these.

### Fairness

| Module | Assumed | Justified by |
|---|---|---|
| `AlarmLink` | weak fairness of each callback and of the line | the loops serve whatever is pending; the timer is one-shot and expires; a frame arrives or is lost. Nothing says that alarms arrive or that any frame gets through |
| `NetCtl` | weak fairness of each thread's loop as a whole | both threads run. Not of the clients, the serial line, or spurious wakeups |
| `Sessions` | weak fairness inside a callback, strong fairness of its end and of each timer | a read is finite, so the loop over its messages ends; libev looks at its timers in each round, so one that stays started expires in spite of what comes in between |
| `Daemon` | weak fairness of each process's own steps | the kernel runs every process. Failures are not fair and are at most `MaxFail`; the program need not end |

## 4. Where the code does something else than it says

Four runs are expected to fail. Each checks what a comment says and finds a
behaviour of the code that differs.

* `alarm_discard`, `main.c:1019`. An ack that arrives when nothing is in flight,
  as the answer to a first copy does after the alarm was given up, discards a
  head that nobody has copied. `fq.c:104` speaks of the current node. Giving up
  (`main.c:1003`) does the same if the queue has overflowed during the exchange;
  the property names both, TLC finds the ack first.
* `alarm_blank`, `fq.c:99`. `net_framing` shows that an end mark just before a message
  puts a node of size 0 in `g_inq`. `fq_get` returns 0 for it, as for an empty
  queue, so `send_uart` does nothing and the node stays. Alarms behind it wait
  until an overflow or a stray ack removes it. `main.c:1140` says that data in the
  queue "will be transfered to uart".
* `uart_burst`, `main.c:1101`. `uart_rptr` is not cleared after a frame. When two
  frames are in the buffer, the first is handled again with the length of both,
  and the second never. By the same cause a stray byte before the first start
  mark leaves `uart_rptr` pointing behind the place where all later frames begin.
* `net_burst`, `main.c:573`. `ev->rptr` survives from one read to the next, and
  the next read may move or reallocate what it points to. The size computed
  from it can then be zero or negative.

The passing runs of the same modules say under which condition the code is
right: `OneAtATime` (the board waits until a frame was read) for `uart_framing`,
`Roomy` (each read fits behind the data in the buffer) for `net_framing`, and
for the link the counts in `LossAccounted`.

## 5. Assumptions

* The board acknowledges each frame it gets, and only then. The line loses frames
  and acks as a whole and keeps their order. Within `UartFraming` bytes are
  neither lost nor changed, except by a failed read.
* A UART frame may carry marks among its data, but nothing comes between frames (a
  stray byte would set `uart_rptr` to the wrong place, or be taken for the first
  byte of the next frame). Data of clients may carry any marks, and so may what
  comes in between.
* `char` is unsigned, as it is on ARM: with a signed one `*ptr == 0xbb` would never
  be true.
* SIGTERM may cut the last line that `store_net_conf` has printed; what is left of
  the value is some value of that item.
* `ControlsAnnounced` and `HandledBeforeStop` hold when the pipe holds at least
  as many bytes as the queue has messages. Linux gives a pipe 64 KiB, `g_outq` has
  256 nodes.
* What was written to the file and flushed stays there after a crash; a file
  opened with "w" is empty from then on. Not modelled: a power failure before
  the kernel has written it back.
* An empty address in `net.conf` is read as no address (`ulib`).
* `pthread_cond_wait` may wake spuriously; `pthread_cond_signal` wakes one of the
  waiters.
* Each call that sets something of the interface either does so or fails and changes
  nothing; an empty address and a MAC address of zeros are refused. With a new address the
  kernel may drop the mask and the routes, with a new mask the routes, and `u_if_down`
  may drop the routes. What `get_def_netinfo` reads is what the interface has, if it can be read.
* In `NetCtl` the net thread exists, and storing and applying a configuration
  succeeds. That the thread cannot be created is in `Daemon`, a file that cannot be
  opened and calls to the interface that fail are in `NetConf`.
* Where the code gives `fq_put` a size below zero, its `memcpy` ends the program. The
  framing models end there (`CrashHandle`, `CrashMsg`); what comes then is in `Daemon`.

## 6. Proofs

Each `*Proofs` module extends the module it is about and proves for all values of
the constants what a run shows on a small instance. The assumptions are the
`ASSUME`s of the modules; what a theorem needs beyond these is a hypothesis in its
statement (`Roomy`, `MarksInPlace`, `FramesAsExpected`, and for `RingsFit` that the ring is
one `power2_align` makes), explained below and true in the run that checks the property:

| Module | Assumed of the constants |
|---|---|
| `Fq` | the ring has at least two nodes; messages have lengths, `NoMsg` is none of them |
| `AlarmLink` | numbers, with room for at least one alarm and one command |
| `NetCtl` | numbers, with room for at least one message and one command; the first value of an item is one of its values |
| `Sessions` | there are finitely many node addresses, but at least `MAX_CLIENT` of each kind; the null pointer is no node, timer or descriptor, and `NoId` is no ID |
| `FqSize` | the requests are numbers |
| `NetConf` | what is absent, a default, cut off or dropped by the kernel is no value a message can carry; the invalid addresses and what the interface starts with are |
| `Daemon` | there are finitely many processes; what a child has in `pid` and what a failed `fork` returns are no process IDs |
| `NetFraming`, `UartFraming` | messages and frames are sequences of 1 to `MaxLen` bytes; the buffer is not empty |

All these theorems have the same shape. The property is not inductive; an invariant
`IInv` (in `Daemon`: `DaemonInv`), defined at the end of each module next to the properties, is. `Init => IInv`
and `IInv /\ [Next]_vars => IInv'` are proved with one lemma for each operation and one
step for each action; what follows from `IInv` is a theorem of its own. In the runs
`fq`, `alarm_link`, `sessions` and `net_conf` TLC checks `IInv` as well. For `NetCtl`
(with a pipe of two bytes and of one), `Daemon`, `NetFraming` (with both of its
configurations; `CutInv` and `QueueInv` with the first) and `UartFraming` (`FramesInv`,
with the first) it was checked with the constants of the run before it was proved.

**The ring** (`Spec => []IInv`, `[]ReadableIsWhole`, refinement). `IInv` says that
the mutex is held by whoever is inside, that the indices are in the ring, and,
for each place in `fq_put`, what is true there. The part that is needed and not
obvious is `RoomForPut`: past the check for a full ring there is one node that
no reader can reach, so clearing and filling it hurts nobody. `ReadableIsWhole`
follows: the node is published by the last step only, when it is whole.
For the refinement the abstract queue is the sequence of nodes from `ridx` to
`widx`, with the message of `fq_put` already appended while it is being written.
`fq_put` maps to the abstract put at the step that makes room for the node, and
`fq_get_ai` to the abstract one at the step that moves `ridx`; the other steps
stutter, as the mutex keeps everybody else out.

**Its size** (`RingsFit`, of the sizes `power2_align` makes of `Request`). Each of them is
one of eleven powers of two, for each of which there are lemmas: the bits of `size - 1` are
those below `size` (`BitsOfSize`), and a number up to 4096 is known by its bits
(`SameBits`), so there is one `BitAnd(i + 1, size - 1)`, and it is `(i + 1) % size` (`Masked`).

**The link** (`NoLostWakeup`, `MaxCopies`, `InFlightIsHead`, `InOrder`,
`LossAccounted`, `AckEndsItsExchange`). They rest on the queue being in the order of
arrival (`Increasing`, `QueuedIsTaken`), on an alarm that was written being at or before
the head, and at the head only while it is in flight (`SentIsBefore`, `HeadIsUnsent`),
and on the tries made and the tries left adding up (`InFlight`); together these are
`ExchangeInv`. The proof has a lemma for what a send, a discard and a put do to the
queue. `InOrder` is an action property: an action that writes an alarm writes the head,
and everything later is in the queue behind it, hence unsent. `LossAccounted` compares
the size of a set with two counters. A step makes at most one more alarm lost (`OneMore`),
the head that it removes, and it does so only if the head was never sent, for which
there is a cause that is counted in the same step or was counted when it made the head
differ from the alarm in flight. `AckEndsItsExchange` needs `OneOnTheLine`: unless an answer
is late there is one frame or one ack on the line, and it belongs to the alarm in
flight.

**The net module** (all its safety properties and `DeliveredInOrder`). The core is
`Phases`: with `g_nl` at 0 the net thread waits and the UART thread is in the middle of a
reconfiguration, and what is closed at each place of the net thread's way out. It gives
`StoppedWhileConfiguring`, and with `AgreeSoFar` (which of the globals, the file and the
interface agree at each place of `handle_netconf`) `NothingStale`. `PipeInOrder` says that
there is one QUIT at most, that it is behind everything else, and that the UART thread
is waiting for it; `NoStaleQuit` and `StopIsUnderWay` follow. `EachIsTold` counts the command
bytes against the messages: if the pipe is as long as the queue, the write that finds it
full comes when every message has a byte already. `HandledBeforeStop` is then that QUIT is
read only when no command byte is left.

**The sessions** (all safety properties, refinement). `IInv` is `NodesInv`, the conjunction of the
properties with `WorksOnSession` (what the callback in progress has in its hands) and
`HasDescriptor`, and `PoolsCounted`: a counter is never behind the nodes of its pool, since
the step that makes a new node counts it. With the limits on the counters that gives the second half
of `TypeCorrect`, that the pools hold at most `MAX_CLIENT` nodes. Lemmas say what `RemoveNio` and the timer functions do to one node and
that they leave the others alone; the rest is a step for each place in a callback. For
the refinement a session is registered for the outside when `ev_arr` has it, and a
descriptor is open when a node in use has it.

**The framing of the net thread** (`BytesInOrder`, `StartKept`, `HandedAsSent`,
`CutAtFirstMark`, `QueuedOnce`).
`BufferProofs` first shows that the buffer is a queue of bytes: `buffer_read` appends to the
unread bytes (`ReadAppends`), whether it writes behind them, moves them to the front or
has a block doubled until it is long enough, and `buffer_drain_ptr` removes from the head
(`DrainPtrRemoves`). That doubling ends needs 2^n >= n, which comes from counting subsets.
With these two facts the unread bytes are at any time the last ones of the stream
that arrived, for every behaviour. As long as no read moves the data (`Roomy`; otherwise
`net_burst` is the counterexample) the start that is kept stays the first start mark among
them, and so `HandedAsSent`, for any bytes clients may send. `CutAtFirstMark` speaks of
messages, so it needs that chunks can be told apart by their marks (`MarksInPlace`): a
start mark is the first byte of its chunk or behind one that is, in front of the chunk's
end marks, and what begins with a start mark has an end mark. The chunks of the run are
such, and a message with end marks among its data is one. The invariant (`CutInv`) then
needs `RestInv`: a start mark that is not parsed yet has the start of its chunk with it,
and if the unparsed bytes begin in the middle of a chunk, that is no plain message. It
rests on `FlattenPlaces`, which gives each chunk its place in the stream.

`QueuedOnce` needs the converse of `CutAtFirstMark`: not only is what was queued a message
from start to end, but no plain message is passed over or taken twice. `QueueInv` adds to
`CutInv` that this is so for the messages that have been parsed, which are the ones in
front of the unread bytes; each step that drains the buffer moves that border over at
most one plain message, and that is the one it queues.

**The framing of the UART thread** (`ActedOnce`, `PointerKept`). That the unread bytes are
the last ones that arrived (`IInv`) holds for every behaviour and all frames, also of a
board that does not wait, though an answer is written over bytes of the buffer: they
are bytes of a frame that is drained in the same step. The rest is true of frames as
the board should send them (`FramesAsExpected`): it waits with each until the one before
was read, a frame is from a start mark to an end mark and fits into the buffer, and a
shake hands has nothing between. What is *in* the frames is free, marks included. The
properties are about the places where `handle_uart` waits for more, and are not
inductive. `FramesInv` says what is between: `OneFrame`, all unread bytes are of one frame
and in the block `uart_rptr` points into, no further from its beginning than in their frame; `StartLost`, in which
ways the beginning of a frame whose rest is to come can be gone; `PlainInPlace`, that
this is never so for a plain frame that no failed read cut; and `ActedOnce` for the frames
parsed so far (`Parsed`). `PointerKept`, whose exception only counts frames of which a byte has been read, follows from the first two, `ActedOnce` from the
last, since at the place where the loop waits no end mark is unread. `FramesAsExpected`
is needed: without waiting, `uart_burst` is the counterexample.

**The configuration** (`Durable`, `InterfaceAgrees`). `Saved` says that what would be
loaded from the file is what the program has; it is true from the last line written until
the next message changes an item. The lemma it needs is the round trip: what
`load_net_conf` makes of the lines of `store_net_conf` is the configuration they were made from.
`InterfaceAgrees` rests on the order of the calls: whatever set of them is done, and whatever the
kernel drops at each, an address whose call is done has its value at the end, as only
calls in front of it upset it (`ConfiguringSets`), and one that `load_net_conf` leaves out has kept it
if no call that is done upsets it (`LoadingSets`).

**The supervisor** (`AtMostOne`, `WaitsForOwnChild`, in the same module as the
configuration: the two are what is there again after a crash). The program can only be a process
that has no child. Of the processes there are, at most one has none
(`Last`): a fork passes that role on to the child, a wait that returns gives it back,
and an `execl` that fails in the child makes it one more supervisor that has the role
already.

`TypeCorrect` is there in most modules because other steps cite it.

Every safety invariant and action property of the passing runs, and both refinements,
are stated by a theorem. Model-checked only is what the prover cannot do:

* everything under fairness (`AlarmsLeave`, `StopEnds`, `ModuleRuns`,
  `SilentEnds`, `ComesBack`): liveness and ENABLED are beyond the prover;
* that `BitAnd` is the `&` of module `Bitwise`, which is recursive (numbers up to 40, in
  `MCFq`).

The four runs of section 4 show behaviours; there is nothing to prove about them.

## 7. Not modelled

* The details of start-up: `setup_signals` and `uart_init` are calls
  to libraries, one after the other. That a start can fail, and where, is in
  `Daemon`; what it leaves is the Init of the modules. `get_def_netinfo` is part of
  `load_net_conf` in `NetConf`; what it reads is used nowhere else, and `hw_mac` not at all.
* `fq_free` and the end of the program: `main` gets there only when the UART loop
  ends.
* libev and ulib: external, of which the repository has headers only. Their
  effect is in the atomicity of the callbacks and in the fairness.
* `buffer_drain`, `buffer_find`, `buffer_find_rchr`: nothing calls them. `set_rs232`
  is not compiled in, `dbg_uart` only prints.
* The headers under `src/inc` and `src/ev`, seven eighths of the lines of the repository:
  declarations of libpng, zlib, libjpeg, mpg123, libev and of helper libraries, most
  of which the program does not even include. They hold no code to model. Of the
  program's own 1 857 lines the modules cover about two thirds; the rest is blank
  lines, declarations, disabled code, tracing and the set-up above.
* What is in `PROJECT.json` under "hazards" without a property: a failed
  `u_tcp_serv` that nothing retries, a sender without end mark, the MAC address, failed
  `calloc`s that count, what a burst of frames does to marks and answers,
  a net thread that was not created, an address left out at the start, the
  default route of a board that never named one. Most of these behaviours are in the models, but no document or
  comment makes a promise of them that could be checked; the note of each says what is.

## 8. Plan

Done, in this order: the queue, the pipe, the alarm link and the proofs of both;
the net module's control; sessions; buffer and framings; configuration; supervisor;
then marks among the data in both framings and what they do to the link, the
registry the sessions implement, start-up, SIGTERM.

Proved since then: the sessions and their registry, the net module's control, the
supervisor, the configuration, the causes of loss and the acks of the alarm link, the
buffer and the framing of the net thread.

Proved last: the size of the rings and their masks, `QueuedOnce`, and the framing of the
UART thread.

What could come next: `ActedOnce` without `FramesAsExpected`, that is, a condition on
what may be between frames under which `uart_rptr` still comes right; the effect of
`u_tcp_serv` failing on what the clients see, once the code retries it; and liveness,
if a prover for it is at hand.
