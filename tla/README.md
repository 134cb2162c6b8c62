# Formal models of the IoT voice communication system

TLA+ models of the ESP32 firmware and the laptop server in this repository, the
TLC runs that check them on small instances, and TLAPS proofs of the results
that should hold for every instance. `PROJECT.json` lists the parts, runs,
mutants, source lines, hazards, findings and theorems in machine-readable form.

    tlc -workers 2 -config tcp.cfg TcpHelper        # one run, see the table below
    tlapm TcpHelperProofs.tla                       # one proof module

## 1. The system

### Components, their state and their operations

| Part | Source | State | Operations |
|---|---|---|---|
| app_main | `main/app_main.c`, `main/Audio_play.c` | the handles of two FreeRTOS queues (20 items of 64 bytes) | create queues, start GUI, audio (blocking), messaging, button, in this order |
| TCP task | `main/tcp_helper.c` | socket, static `rx_buffer`, `send_buf` | connect, receive with timeout, forward to the GUI, drain the send queue, close and retry; `wifi_helper_init` (not called) |
| user input task | `main/tcp_helper.c` | a line buffer | offer a line to the send queue (1 s) |
| Push button | `main/button.c` | event queue (10), `last_state` | interrupt, debounce and compare, offer "SOS" or a blank message (100 ms) |
| GUI task, chat screen | `main/gui.c`, `ui_events.c`, `ui_ChatScreen.c` | 8 labels, `message_buffer`, `idx`, `alignments`, `send_buffer` | show a received message, show and buffer a typed one, hand it to the send queue (10 ticks) |
| Buzzer | `main/buzzer.c` | a pin | blocking beep |
| UDP audio client | `components/udp_client` | `udp_client_running`, `s_retry_num`, event group, task, socket | init, start, both in one, stop, Wi-Fi events, receive and play |
| Audio utilities, amplifier | `components/audio_utils`, `components/max98357` | gain, `sd_pin`, pin level, I2S driver | init, enable, write, deinit |
| Server, text | `server/server.py` | `clients`, log widget, a thread per connection | accept, receive and log, broadcast, forget |
| Server, microphone | `server/server.py` | `mic_running`, button label, threads | toggle, stream |
| wifi_station component | `components/wifi_station` | retry counter, event group | initialise, retry for ever; not used by `main` |
| button component | `components/button` | pin, event queue, task handle, last level, callback | init, deinit, interrupt, debounce and call back; not used by `main` |
| buzzer component | `components/buzzer` | a pin | not used by `main` |

### Interactions

The GUI task, the user input task and the button task put 64-byte messages into
the send queue; the TCP task takes them out and sends them over the one TCP
connection it has. What it receives goes into the receive queue, which only the
GUI task reads. The server's handler threads read whole messages and write them
to the log; the operator's messages go from the main thread to every client in
a shared list. Audio is independent of this, except that `app_main` starts the
messaging only after `play()` has returned, and that the audio client is what
brings the Wi-Fi up (`wifi_helper_init` of tcp_helper.c is commented out). The
microphone threads of the server send datagrams that the device's receiving task
writes into the DMA buffers of the amplifier; nothing flows back.

### What is hard here

* The TCP task dequeues before it sends; there is no acknowledgement or retry.
* End of stream, timeout and "nothing to read" are the same value, 0.
* `recv` may return any part of the stream while 64 bytes are forwarded each time.
* Three producers with different timeouts share a bounded queue.
* Interrupts are dropped on a full event queue, edges merge, and the pin may be read in the middle of a bounce.
* `send` has no timeout and can hold the whole task up.
* The labels, their alignments and the text rows are three arrays that are shifted or rotated separately.
* Server threads share a list that one iterates while others change it, and a widget that each of them writes with four separate calls.
* `sendall` blocks the server's main thread while the handler threads need that thread for their log lines.
* Microphone threads follow one flag, which a quick stop and start changes under them, and every packet plays longer than it was recorded.
* Three stations bring up one Wi-Fi, each with its own counter, on one event loop.
* The button component starts its task before its state is complete, and can be torn down at any point, by its own callback too, while another call of it is under way.
* The audio client offers its initialisation and its start separately and in one, can fail at every step of them, stops without waiting for its task, and aborts when the Wi-Fi is initialised twice.

### What makes each part correct

| Part | Properties |
|---|---|
| TCP task | order per connection, no duplicates, loss only on a dead connection, the queue is always emptied, dead connections are replaced, inbound items keep the order of the stream |
| Button | the pin's last level becomes known, one report per press however the contacts bounce |
| Device | from the pin to the server's log at most one alert per press, the newest report is the true one, no report is stuck |
| Button component | queue, task and handler are torn down in an order that never leaves a user without a queue; each callback tells a change |
| GUI | messages in order, on the side of their origin, none overwritten before it is offered to the queue |
| Server, text | nobody served twice, nobody skipped, the log in order and locked, broadcasts end, ended connections forgotten |
| Server, microphone | the button tells the truth about the newest thread, buffers fill no faster than the surplus explains, silence after the last stop |
| Audio | one receiving task, failed calls leave no driver behind, a stream is audible unless a call comes out of turn, the boot is never stuck |
| Wi-Fi stations | the stations that have a limit give up exactly at it, and say so to whoever waits |

## 2. Modules

* `MessageChannel` is the abstract specification of the outbound path: a message is in
  transit from the moment the send queue accepts it until it arrives or is lost; on each
  session messages arrive in increasing order, and none arrives twice.
* `TcpHelper` is the core. `TcpTask` is the loop of `tcp_helper_task`, one action per call
  that changes state or per outcome of a call; `Producing` is an `xQueueSend` with
  its timeout for any task that calls it; `World` is the network and the server. A message is
  the number at which the queue accepted it, its 64 bytes travel together (the code treats
  any other result of `send` as a failure). Inbound data is a sequence of units, `FrameLen`
  to a message, so that `recv` can cut it anywhere. A connection is `up`, `broken` (the
  device gets errors), `silent` (lost, nobody tells it) or `unacked` (lost, with data that
  TCP retransmits until it gives up). `SockBuf` is the number of messages the socket buffers hold that nobody has read:
  when they are full, `send`, which has no timeout, blocks, and the task with it. The beeps are no state, they only lie between two steps.
* `Button` has the contacts, the latched interrupt, the event queue as a counter, the task, and
  the send queue as "full or not", which the rest of the device changes at will. A press or a release is a `Gesture`, after which the
  contacts `Bounce` any number of times and `Settle` before the next gesture. The 20 ms of `vTaskDelay` are what the code relies on to
  outlast them, so that is the one assumption about time: a delay that begins within a bounce ends after it (`within`). A delay that
  began before, at an edge of an earlier gesture, may end in the middle of the next, and then the pin reads either way.
* `Device` composes the two: it EXTENDS `TcpHelper` and has `Button` as an INSTANCE over the same state,
  with `sendFull` replaced by the state of the real queue. A step of the button's task inside `xQueueSend`
  is a joint step of both modules; `app_main`'s order of starting the parts is the variable `boot`, so the GUI's
  messages may wait in the queue before there is a TCP task.
* `ButtonDriver` is the button component: the steps of `button_init` and `button_deinit` one by one, with the
  failure of each, and the interrupt and the task running between them. The caller's task is the one the interrupts of
  the pin are served beside (the service belongs to the core that installed it), so no interrupt handler is
  halfway through when the caller goes on. A second init of an initialised button is not among the calls.
  A deinit by the callback runs in the button's own task, so it may come at any step of the caller's `button_init` or
  `button_deinit`: `CallbackDeinits` removes the handler, and `DeletesItself` ends the task, with a handle left that dangles.
  A deleted queue that is deleted again, and a task handle that is no longer one, end in `crashed`.
* `Gui` has the loop of `_gui_task` with the chat screen. Of a text only its size matters:
  `blank` starts with the terminator, `fits` has room for one, `full` has 64 characters. A label
  is the sequence of messages whose characters it shows, so that a missing terminator is visible.
  What lies behind `message_buffer` in memory is unknown: nothing or garbage.
* `Server` has one program counter per thread, and the four calls of `log()` as separate steps
  (`yview` changes nothing and is merged with the last). Tk executes calls of other threads in
  the main loop, between the callbacks of the main thread: `MainloopRuns`. Callbacks of the main
  thread are therefore free of other threads' widget calls, but not of changes to the list.
  `sendall` blocks while the client's socket buffers are full (`RcvBuf`, a bound) and the client does not read:
  the client may be one that reads only after it has sent (`Blocked`).
* `AudioStream` has the microphone half of the server, the datagrams, lwIP's mailbox and the device's DMA buffers, in
  units of time: a `Tick` records one unit in every open stream and plays one. `Chunk` units are a packet,
  `Header` the units its sequence number plays for. What would take a thread no time at all happens before the next
  tick; only the network is slow.
* `WifiStation` has the station: connecting, online or given up, with the counter and the event bits of whichever of the three
  initialisations came first, and the three event handlers, two that count and one that does not.
* `Audio` EXTENDS it with the caller (first `app_main`, later users of the four calls of `udp_client.h`, of `wifi_helper_init` and of
  `wifi_station_init`, one call at a time), the receiving task, and the amplifier with its driver. An abort or a
  crash ends the boot; `Restart` begins the next. The program makes only the first call, `udp_client_start_audio_streaming`; the others,
  `udp_client_init` and `udp_client_start` separately and `udp_client_stop`, are modelled because the header offers them. A call is
  out of turn (`disturbed`) if it stops the client or initialises it while it runs, initialises it twice, or starts it uninitialised. `i2s_write` on a driver that was
  freed meanwhile is undefined: it returns an error or crashes.
* `TcpHelperProofs`, `ButtonProofs`, `ButtonDriverProofs`, `DeviceProofs`, `GuiProofs`,
  `ServerProofs`, `AudioStreamProofs` and `AudioProofs` hold the theorems.

Operators that no specification uses and whose comment begins with "Mutant" are changed
versions of an action; they show that a property notices the corresponding programming error.

Variables named "history" in their comments are not in the code; they record what the
properties speak about. How each definition corresponds to source lines is the `map` of
`PROJECT.json`.

## 3. Runs

| Run | Bounds | Shows |
|---|---|---|
| `tcp` | 2 producers, queue of 2, 2 connections, 2 messages out, 2 in, two units to a message, `recv` of one or three units | the outbound path keeps the order of a connection, never duplicates, loses only on a dead connection and implements `MessageChannel`; inbound items are in the order and of the shape the stream explains; reconnection; no message stays in the queue |
| `device` | 2 producers, queue of 1, event queue of 1, 3 edges, 1 message of the GUI, 2 connections | bounces, full queues, full socket buffers, lost connections and the boot between the pin and the server's log |
| `button` | event queue of 3, 7 edges | more edges than the queue holds, bounces in which the pin is read anywhere; no edge is forgotten, at most one report of a press |
| `driver` | event queue of 2, 4 edges, 4 calls | init, deinit, init again and deinit again with a failure at each step, a deinit from the callback at each step of these calls |
| `gui` | 3 labels, 5 messages of all sizes | the rows and the labels wrap around; sides, order, and what happens to typed messages |
| `server` | 2 connections, socket buffers of 1, 2 messages, 1 broadcast | joins, departures, resets and clients that stop reading at every point of a broadcast and of each `log()` |
| `audio` | 5 retries as in the code, 5 calls per boot, 2 boots | inits, starts and stops in every order, all three stations, a failure at every step, and a reboot |
| `stream` | chunks of 2 units, header of 1, DMA of 4, mailbox of 2, 1 datagram under way, 2 threads, 9 packets | stop and start at every point, two threads at once, failures, jitter; the mailbox overflows within the bounds |

Why the bounds are enough: order and duplication need two messages and two
connections. In `tcp` a frame is cut by a `recv` of one unit and joined to the next by one of three.
In `device` three edges are press, release, press, or a press that bounces; a queue of one
is full with one message of the GUI, and each alert may be lost with the first connection. The button's queues are
overrun by the event after the last that fits, and seven edges are two presses with bounces to spare. Three labels are the fewest with a first, a
middle and a last, and five messages turn them over. With two clients each of the two
positions of the list can be removed under the iterator. Five retries are the real
number; five calls are an init, a start, a stop, and the same again as far as it goes. Socket buffers of one message are full at the
first that is not read. In `stream` the header is half a chunk (in the code 2 samples to
512) so that the surplus of a few packets fills the buffers.

What some of the properties concede, because the code does no better:

* `Forgotten` and `BroadcastEnds` leave out one cycle of three waits (`CyclicWait`): the main thread in `sendall` to a client
  whose buffers are full, that client in a send of its own that nobody reads, and its handler in `log()` waiting for the
  main thread. Everything else that can hold up a broadcast passes.
* `ServerKnows` and `AlertArrives` leave out reports dropped at a full queue or lost with a connection; `button_alert` and
  `tcp_loss` are about those.
* `DeletedOnce` leaves out a deinit of a button whose init failed, or that its callback has deinitialised (`misused`), and a
  deinit by the callback that ends while the caller is inside `button_init` or `button_deinit` (`overlapped`): there the
  code does delete a queue, or a task, twice. Neither concession can be dropped: TLC then finds the crash at once.
* `ReportsChanges` and `ToldInTheEnd` leave out runs in which the task compared levels before
  `button_init` stored the first one (`early`): there a level may be reported twice, against "Only trigger callback if state actually changed (debounced)" (`button.c:39`),
  or never. `ReportsChanges` says nothing of levels that pass within a delay: those are not reported.
* `OneReportPerPress` and `OneAlertPerPress` assume that a bounce is over within the delay that begins in it. Contacts that bounce longer
  than 20 ms can raise a second alert.
* `PlaysAloud` leaves out everything after a call out of turn: a second initialisation mutes the stream (`max98357.c:37`), a stop frees
  the driver under the task, and `udp_client_start` alone plays into no driver. A task that has ended is not claimed to play either,
  although `udp_client_running` may still say so (`udp_client.c:159`).
* `RetryPossible` speaks of the time before the Wi-Fi is up. After it, another start aborts (`udp_client.c:76`), also one that
  repeats a start whose `xTaskCreate` failed.
* `GivesUpLate` leaves out the station of the `wifi_station` component, which does not keep its limit (below).
* `StopMeansStreaming` allows a thread that an exception has ended: the button then stays on "Stop Mic Stream".
* `SurplusFillsFirst` leaves out two streams at once (`hasty`), which overrun the device soon, and networks that can hand
  over more packets at once than the mailbox holds (`Flight < Mailbox`), which overrun it at any time. In the run one
  datagram can be under way and two fit in the mailbox.

Every property of a passing run is broken by at least one mutant of an action it
depends on.

### Disagreements with the documentation

Each has a run in which TLC finds the counterexample:

| Run | The code | The text |
|---|---|---|
| `tcp_loss` | a message is taken off the queue before it is sent, and is gone when sending fails or the peer has left (`tcp_helper.c:267-272`) | "TCP ensures all messages arrive and in correct order", README.md:122 |
| `button_alert` | a press sampled while the send queue is full is remembered as reported (`button.c:35`) | "Button press on ESP32 → sends alert via TCP", README.md:115 |
| `gui_full_text` | a text of 64 characters is stored without a terminator (`ui_events.c:23,45`) | "Max Message: 64 characters per message", README.md:55 |
| `server_log` | two threads' `log()` calls mix and a line is inserted into a disabled widget (`server.py:62-65`) | "Server receives → processes and stores message", README.md:111 |

`tcp_loss` and `AllMessagesArrive` read the sentence mildly: only messages accepted before a
connection that stays up for ever are asked for.

Seen while modelling, without a run of its own:

* Of what one `recv` returns, 64 bytes are forwarded, whatever their number (`tcp_helper.c:255`): two messages that arrive
  together become one, and a fragment is completed with the remains of an older message. `ItemShape` says exactly which
  units an item may hold.
* The device dials port 3333 (`tcp_helper.h:21`) while the server listens on 8000 (`server.py:14`); the server streams audio to port 3333
  (`server.py:19`) while the device binds 8000 (`udp_client.c:24`). The models take pairs that match.
* `wifi_station.c:93-96` connects again after every disconnection, for ever, and only counts: its Kconfig (15-19) offers "Maximum
  connection retries", "Number of retries when connection fails.", a number that no code reads. `UnlimitedRetry` is the code. To see the
  disagreement takes no interleaving, only one more disconnection than the number; no property of a passing run says that it should be so.
* A start after a stop, and a button component whose task overtakes `button_init` are in the models, a bounce longer than 20 ms is not;
  what the properties leave out is listed above.

## 4. Fairness

* `TcpHelper`: weak fairness of the task as a whole (the FreeRTOS scheduler runs it; no step
  waits for ever: every call but `send` has a timeout, of its own or of the TCP stack, and `send`, which can block on a full socket
  buffer, is not counted on while the peer acknowledges nothing, `MayBlock`), of each server thread, which makes room in the
  buffers of a working connection because `handle_client` does nothing but read and log, and of TCP giving
  up on unacknowledged data, which ends a `send` that blocks. Strong fairness of `Connect`, because a `connect` to a server that
  stays reachable succeeds in the end although single attempts may fail, and of `RecvError`,
  because `recv` may first report the end of the stream as 0, but lwIP reports it at most once
  and an error from then on. Nothing is assumed about producers, losses or the server's uptime:
  the properties say `<>[]listening` where they need it. No keepalive is set, so a connection
  lost in silence is noticed only by sending: `Reconnects` says so.
* `Device`: `app_main` goes on, the TCP task runs, the button's task comes out of `xQueueSend` (which has a timeout), and the server's
  threads read. `AlertArrives` needs nothing of the button's interrupts or of the other producers.
* `Button`, `ButtonDriver`: a latched interrupt is served, and the task (priority 6, or 5) runs. The contacts of `Button` do not bounce for ever. Nobody is assumed to
  call `button_init` or `button_deinit`; in `ButtonDriver` the callback returns.
* `Server`: threads run, and the main loop serves queued calls in turn (strong fairness, as it is
  not available during a broadcast). A client need not read: `sendall` returns only when there is room or the connection ends.
* `AudioStream`: threads, network, receiving task and clock go on. Nobody need click and nothing need fail.
* `Audio`: the calling task runs inside a call, and an attempt to join the network ends with an
  address or a disconnection. An access point that answers but never hands out an address violates
  this, and then `app_main` does wait for ever: the wait has no timeout.
  Nobody is assumed to make a call, and the receiving task may block for ever.

Deadlock is checked in the runs of the messaging core, the button and the GUI. In `server`, `audio`, `driver`, `device` and
`stream` it is not: all connections may have come and gone, a device may be crashed at the last boot or have no
connections left, a button may be deinitialised by the last call, and a stream is cut off at the last packet.

## 5. Proofs

Every theorem assumes only the assumptions its module states about the constants
(`TcpConstants`, `ButtonConstants`, `DriverConstants`, `DeviceConstants`, `GuiConstants`, `ServerConstants`,
`StreamConstants`, `AudioConstants`, `RetryConstant`): queue lengths are positive, bounds are
natural numbers, and the names of the server's own threads are not names of connections. The bounds are arbitrary, so the theorems hold for runs of any length; the fairness is
not used.

`TcpHelperProofs`
* `TypeCorrect`: type correctness.
* `OrderCorrect`: `OrderInv`. Order at the server is not inductive by itself, since
  it says nothing of messages still on their way. `OrderInv` says of every place on the path (log, sockets of each
  session, `send_buf`, queue) that what is in it is older than what is behind it, and that a later session
  carries later messages; with type correctness it is inductive. It is stated over sets of messages
  (`Before`) so that most steps move one element from one set to another.
* `SessionOrderCorrect`, `DeliveredOnceCorrect`: consequences of `OrderInv`.
* `LossNeedsDeadLinkCorrect`: by cases over the steps: where did each message in transit go?
* `ChannelImplemented`: `TcpHelper` implements `MessageChannel` under the mapping
  `transit <- InTransit`, `arrived <- log`: producers map to `Accept`, the server's reads to `Arrive`, losses
  in a socket or in `send_buf` to `Lose`, and every other step to a stutter. `OrderInv` gives the guard of `Arrive`.
* `InboundInvCorrect`: `InboundInv` follows the bytes from the server to the GUI. What is under way is a run of the
  stream without gaps (`DownInv`), and on a working connection it ends where the server will go on; what is in
  `rx_buffer` is older than what is under way (`BufferInv`); the items start before the buffer does (`ItemsInv`).
  A lost connection leaves a prefix of what was under way, which keeps all of this.
* `InboundOrderCorrect` is a conjunct of it that is not inductive alone; `ItemShapeCorrect` follows from the shape of the buffer between `recv` and
  the forwarding. Both hold for every length of a message and all sizes of the pieces `recv` returns.

`ButtonProofs`
* `ButtonTypeCorrect` and `NoLostEdgeCorrect`; `NoLostEdge` is inductive: the interrupt adds an
  event or finds the queue full, hence not empty, and the task reads the pin after it took an event.
* `OneReportPerPressCorrect`: the invariant `PressInv` counts, besides the reports made, the one that may still be `Owed`. A press pays
  for one report. It is owed until it is made, and once more while a delay can end in the middle of a bounce: a read there may see
  the old level, which takes a report back that a second read then makes again, or the new one too early, but never both, because
  the next delay begins within the bounce and outlasts it.

`ButtonDriverProofs`
* One invariant, `IInv`: `SetUp` says which of queue, task, handler and interrupt exist at each step of `button_init` and of its
  failure path, `TornDown` the same of `button_deinit`, with a callback that deinitialises beside either, and `History` that the last level reported is the last level
  stored. `DriverTypeCorrect`, `QueueOutlivesUsersCorrect`, `DeletedOnceCorrect` and `ReportsChangesCorrect` follow.

`DeviceProofs`
* `DeviceLosesNoEdge` and `DeviceMessaging` carry theorems of `ButtonProofs` and `TcpHelperProofs` over to the device. The refinements they
  go along are lemmas and no news: the device is composed of the actions of the two modules. What takes an argument is
  that each part sees the others only as what its own module allows, `Button` as a queue that is full or not (`OthersSeenByButton`).
* `DeviceInvCorrect`: `DeviceInv` relates the two parts, with the types of both given. `PressInv` says that the
  alerts accepted, and one being offered, are no more than the "SOS" reports the task made. `OneAlertPerPressCorrect` follows because these are no
  more than the presses (`OneReportPerPress`, by refinement) and the log has no message twice
  (`DeliveredOnce`), so that the entries of the log, counted one by one, map one to one into what was accepted. `ReportInv` and `NewestInv` say that as long as every
  report was queued, the newest alert tells what the task saw last; a report dropped at a full queue makes the counts
  differ for ever. `ServerKnowsCorrect` follows with `NoLostEdge` (at rest the task has seen the pin's level) and because
  an alert neither in transit nor lost has arrived.
* `DeviceTypeCorrect`: the k-th message of the button is the k-th alert among all that were accepted. The relation is
  stated with the rank of an alert, a cardinality, as the prover cannot reason by induction over a filtered sequence.

`GuiProofs`
* `GuiInvCorrect`: one invariant, `IInv`. `LabelInv` says of every label with text which message is the first it shows, and
  that the alignment the widget has is the one the array has, which is the one of that message's origin. `SideMatchesOrigin` needs the first half, because the
  origin of a message is found through what the label shows; `NewestFirst` is inductive together with it. `Room` bounds the numbers of the messages to come, and `BufferInv` says that a
  typed message is younger than everything the queue has taken, which `TypedAccounted` needs when it is offered.
* A shift leaves each label a copy of itself or of the one below it (`DisplayFacts`), so the step is
  proved label by label. How many rows a missing terminator joins is a cardinality (`FullRun`), not a recursion, so the prover can reason about it.

`ServerProofs`
* `ServerInvCorrect`: one invariant, `IInv`. `Life` says that a connection is in the list at most once and nowhere before it
  was accepted; `Ahead` that whoever is still ahead of the iterator has not been sent this broadcast, which is why a
  removal, which moves clients towards the iterator, skips but never repeats (`NoEchoCorrect`); `Offered` that
  without a removal whoever was in the list is ahead, was tried or is gone (`NobodySkippedCorrect`); `Lines`
  that a handler that is about to insert holds the newest message of its connection (`ShownInOrderCorrect`).
  `LockedWhenQuietCorrect` is inductive by itself.
* `Types` is the module's `TypeOK` without the bounds, which the other properties do not need. (`TypeOK` of `Server`
  describes the variables and is in no run.)

`AudioStreamProofs`
* `StreamInvCorrect`: one invariant, `IInv`. `ToggleInv` and `LastStartInv` tie button, flag and threads together:
  threads start in the order of their numbers, the flag is set before the button, and a thread takes its end only after it
  read a flag that is off. `StopMeansStreamingCorrect` follows.
* `SurplusFillsFirstCorrect` needs to know where waiting audio can have come from. Time passes for the microphone and the amplifier alike, so what waits
  in microphone, network, mailbox and DMA buffers (`Backlog`) grows only by what a packet plays longer than it was
  recorded and by what the network held back (`SurplusInv`: `Backlog <= Allowance`). That needs a single
  stream (`SingleInv`: two record twice as much as is played), and for a packet dropped at a full mailbox
  it has to be known that the DMA buffers are full: while they have room, the task empties the mailbox, so that only
  what was under way at once can be in it (`MailboxInv`). `IInv` was checked with TLC on five sets of constants
  first; that is how the burst larger than the mailbox was found.
* `StreamTypeCorrect`: `TypeOK`, which is in no run.

`AudioProofs`
* One invariant, `IInv`, carries `AudioTypeCorrect`, `OneReceiverCorrect`, `RetryPossibleCorrect`, `PlaysAloudCorrect` and
  `GivesUpLateCorrect`. It spans `Audio` and `WifiStation`, for calls of all three initialisations. Its parts say what holds between the steps of the calls: the Wi-Fi comes before the task; until it is up, a
  driver is there inside the call that installed it or because `udp_client_init` prepared it; each step may rely on those before it, and
  `udp_client_start` on what was prepared, unless a call came out of turn; and the retry counter counts the
  failures since the last address.

`SessionOrder` and `DeliveredOnce` are not in a run: `OrderInv`, which is, contains them (`LogOrder`), and the theorems make that
precise. For each value of the constants, then, what the `tcp` run checks of the safety of both directions is proved.

What stays with TLC is liveness (`Reconnects`, `QueueMoves`, `AlertArrives`, `ToldInTheEnd`, `BroadcastEnds`,
`Forgotten`, `MessagingStarts`, `Silenced`), which is out of the prover's reach. Every invariant of a passing run, and every
action property and refinement, is a theorem.

## 6. Not modelled

* The buzzer component, whose operations are single assignments to a pin, and the pin of `main/buzzer.c`.
* `button_is_pressed` and `button_get_raw_state`, which only read the pin (neither debounces, although the header calls the
  first debounced); a NULL configuration, which `button_init` dereferences before it looks.
* The content of texts and of the samples. The gain path of `audio_play_buffer` is not taken with the gain the
  program sets; `audio_play_sine_wave` and `max98357_amp_disable` are never called.
* The log lines of the microphone thread: one more caller of `log()`, as in `Server`.
* LVGL and the display drivers (submodules, not in the tree), generated widget code, the
  keyboard of the chat screen, NVS (`nvs_flash_init` is taken to succeed: where it does not, ESP_ERROR_CHECK aborts), build files, scripts and patches. (As they stand, the
  component sources listed in `main/CMakeLists.txt` do not name `buzzer.c`.)
* Partial writes by `send` on a working connection: lwIP sends a blocking call of 64 bytes whole, and a
  message cut by a lost connection is dropped by `recvn`, as a whole lost one is.
* A firmware that does not come up because `xQueueCreate` in `app_main` fails.

## 7. Plan

1. Core: `MessageChannel`, `TcpHelper`, `Button` with runs and proofs (done).
2. `Gui`, `Server`, `Audio` with runs (done); proofs about `Audio` (done).
3. `Device` (done for button, TCP task and the other producers; the GUI as a refinement is left, since its side of the
   queues is an `xQueueSend` and an `xQueueReceive` that `TcpHelper` already has).
4. `AudioStream`, `WifiStation`, `ButtonDriver`, blocking `sendall` in `Server` (done).
5. Proofs about `ButtonDriver` and the inbound path of `TcpHelper` (done).
6. Proofs about `Gui` and `Server` (done).
7. Proofs about `AudioStream` and the invariants of `Device` (done).
8. Bouncing contacts in `Button` and `Device`, a `send` that blocks, the deinit by the callback at any moment, and the separate calls of `udp_client.h` (done).
