# Verification of esp_mqtt

TLA+ models of the MQTT client library for the ESP8266 in this repository, the
TLC runs that check them on small instances, and TLAPS proofs of what holds for
every instance. Paths below are relative to the repository root.

    tlc -workers 2 -config MqttClient.cfg MCMqttClient    # any run of PROJECT.json
    tlapm QueueProofs.tla                                 # any module named ...Proofs

## 1. The system

Everything runs on one core under the SDK's cooperative scheduler: the network
stack's callbacks, the software timer, `MQTT_Task` and the application's own
callbacks each run to completion, in any order. Only the serial port's interrupt
handler preempts them.

| Component | State | Operations | Talks to |
|---|---|---|---|
| Message queue: `mqtt/queue.c`, `mqtt/proto.c`, `mqtt/ringbuf.c` | ring of `QUEUE_BUFFER_SIZE` bytes, `p_r`, `p_w`, `fill_cnt`; the cursors `QUEUE_Puts` saved (static, shared by all queues) | `QUEUE_Init`, `QUEUE_Puts`, `QUEUE_Gets`, `QUEUE_IsEmpty` | called by the client only |
| MQTT client: `mqtt/mqtt.c`, `mqtt/include/mqtt.h` | `connState`, `pCon`, three tick counters, `msgQueue`, `mqtt_state` (buffers, the packet built last, type and id of the packet sent last) | `MQTT_InitConnection`/`InitClient`/`InitLWT`, `Connect`, `Disconnect`, `DeleteClient`, `Publish`, `Subscribe`, `UnSubscribe`, `Ping`; callbacks for lookup, connect, reconnect, disconnect, receive, sent; `mqtt_timer`; `MQTT_Task` | espconn, `os_timer`, `system_os_post`, the application's callbacks |
| Packets: `mqtt/mqtt_msg.c` | `mqtt_connection_t`: output buffer, length, identifier counter | one builder a packet type; `mqtt_get_*` readers | called by the client |
| Text utilities: `mqtt/utils.c` | none | `UTILS_StrToIP`, `UTILS_IsIPV4`, `UTILS_Atoh` | `MQTT_Connect` uses `UTILS_StrToIP` |
| Wi-Fi and application: `modules/wifi.c`, `user/user_main.c` | last Wi-Fi status, polling timer | `WIFI_Connect`, `wifi_check_ip`; `wifiConnectCb` | `MQTT_Connect` on an address, `MQTT_Disconnect` on its loss |
| Serial port: `driver/uart.c` | hardware FIFOs and interrupt registers | `uart_init`, `uart0_write_char`, `uart0_sendStr`, the receive interrupt | prints the log; interrupts everything else |
| `user/rfinit.c` | none | a table lookup at boot | none |
| SDK (external) | connections, lookups, timers, the task's event queue of `MQTT_TASK_QUEUE_SIZE` = 1 | `espconn_*`, `os_timer_*`, `system_os_*` | all of the above |

What is hard about it:

- **One word of intent.** A request to the state machine is a value in
  `connState` and a post to a queue of one event whose result nobody reads.
  Callbacks, timer and application all overwrite `connState`; a request is seen
  only if nothing overwrites it before `MQTT_Task` runs.
- **Stale callbacks.** A lookup outlives the espconn it was started for.
- **Two clocks.** `keepAliveTick` and `sendTimeout` run side by side and share
  `pending_msg_type`.
- **Waiting without a post.** When `sendTimeout` expires nobody is told.
- **A queue of bytes.** Frames are escaped, wrap around the ring's end, and a
  frame that does not fit is discovered half way. Publishing makes room by
  discarding the oldest packets.
- **A stream cut anywhere.** The receive callback takes a TCP segment for whole
  packets, reads identifiers out of a buffer that keeps bytes of earlier
  segments, and looks behind nothing but a PUBLISH.
- **Identifiers that start over.** Each connection resets the counter while
  packets of the one before are still queued or held by the broker.
- **One task queue for all clients.** It holds one event.
- **Polling.** The state of the Wi-Fi network is looked at, not reported.
- **Memory.** `mqtt_client_delete` frees buffers that point into each other.

`PROJECT.json` lists these as hazards, each at its line and with the properties
about it. Four have no property, because they simply happen and the models
contain them: a lookup that outlives its espconn (mqtt.c:70), the bad `free` of
`mqtt_client_delete` (mqtt.c:220), the empty frame that a packet too long for
the buffer leaves in the queue (mqtt.c:656), and the 8-bit accumulator of
`UTILS_IsIPV4` (utils.c:73).

What makes each component correct: the *queue* is a bounded FIFO of whole
packets; the *client* uses a session only on an accepted live connection, never
waits for an event that nobody posted, reconnects until asked to stop, opens
nothing after it was asked to stop, and keeps its queue moving and in order;
*packets* read back what was built; *utilities* agree with a reference reading
of their input; the *Wi-Fi link* turns each change of status into one call; the
*serial port* puts out what is printed, whole and in order.

## 2. Modules

| Module | What it is |
|---|---|
| `PacketFifo` | abstract: a FIFO of whole packets in a fixed number of bytes |
| `Queue` | `queue.c` on `proto.c` on `ringbuf.c`, one step a byte |
| `MCQueue` | the instance checked |
| `SequenceFacts` | lemmas the proof modules share: pieces and joins of sequences, running totals, folds |
| `QueueProofs` | theorems about `Queue`, the refinement of `PacketFifo` among them |
| `MqttClient` | one client: connection state machine, timer, task, packet queue |
| `MCMqttClient` | the instances checked |
| `MqttClientProofs` | theorems about `MqttClient` and `Application` |
| `MqttMsg` | the builders and readers of `mqtt_msg.c`, as operators |
| `Connection`, `MCConnection`, `ConnectionProofs` | one `mqtt_connection_t` under any sequence of builder calls |
| `Delivery` | abstract: which packets are delivered and answered |
| `Receive`, `MCReceive`, `ReceiveProofs` | `mqtt_tcpclient_recv` on bytes, on top of `MqttMsg`, and the mapping to `Delivery` |
| `Session`, `MCSession`, `SessionProofs` | identifiers and QoS flows over several connections, with the broker's side |
| `MultiClient`, `MCMultiClient`, `MultiClientProofs` | several clients on one task queue |
| `Application`, `MCApplication` | `wifi.c` and `user_main.c` around one `MqttClient` |
| `Utils`, `MCUtils` | the scanners of `utils.c` |
| `Uart`, `MCUart` | the serial port |
| `EdgeProofs` | theorems about `Uart` and `Utils`, the two components at the edge |

How they compose. `Queue` implements `PacketFifo`, and the other modules use
that: their queues are sequences of packets. `Application` extends `MqttClient`
with its whole state. `Receive` is the byte level of `MqttClient`'s receive
action, `Session` the packet level of its traffic, and `MultiClient` several of
its machines; each of the three keeps of `MqttClient` what its properties tell
apart and says in its head what it takes from there.

Definitions whose comment begins with "Mutant" are not part of the
specification. Each is a plausible bug in the definition after it; replacing
that definition by it makes TLC report the property `PROJECT.json` pairs it
with, which shows that the property says something about the code.

### Queue

State is the ring (`buf`, `rb`), the saved cursors (`last`) and where the
current call is (`call`, `pk`, `stage`, `parser`). `PutsStart` is the entry of
`QUEUE_Puts`; `PutsByte` and `PutsDone` are the calls of `RINGBUF_Put` in
`PROTO_AddRb`; `PutsFull` is its failure with the roll-back. `GetsStart`,
`GetsByte` and `GetsEmpty` are `PROTO_ParseRb`'s loop. `PROTO_Init` leaves
`isBegin` as it finds it on the stack, so the model starts a read with either
value. Calls do not overlap: the scheduler is cooperative. The C code's
16-bit lengths and results cannot overflow below `QUEUE_BUFFER_SIZE` = 2048.

### MqttClient

The queue is `PacketFifo`'s sequence of packets, with sizes in units: what
`Queue` is shown to implement. A packet is a type and a size; identifiers are
left out because in `mqtt.c` they only decide what is logged; `Session` has
them, because the broker does not only log them.

| Variable | In the code |
|---|---|
| `connState`, `pCon`, `keepAliveTick`, `reconnectTick`, `sendTimeout`, `msgQueue`, `pending_msg_type` | the fields of those names; enum values no code assigns are left out |
| `outbound` | `outbound_message` is not `NULL` |
| `armed` | `mqttTimer` is armed |
| `events` | events waiting for `MQTT_Task` |
| `rx` | what is left of a segment while `mqtt_tcpclient_recv` loops |
| `inited` | the client's buffers are allocated |
| `link`, `inflight`, `dns` | SDK: the connection, unconfirmed sends, pending lookups |
| `greeted`, `accepted` | history: this connection's CONNECT went to espconn, its CONNACK came |
| `asked`, `fault` | history: the application's last request, a use of freed memory |

Every callback, every lifecycle function and every case of `MQTT_Task` is an
action of the same name (`TaskReconnect` ... for the cases). The environment:

- *espconn_connect* starts an attempt or refuses it, unnoticed by the code.
  An attempt ends in the connect or the reconnect callback.
- *espconn_disconnect* closes an open connection; whether it stops an attempt
  is left open (three outcomes).
- *espconn_send* accepts up to `MaxInflight` unconfirmed sends on an open
  connection; otherwise it refuses (and with `SendMayFail` at any time).
- CONNECT is built and sent, built and refused by espconn, or, with
  `ConnectMayBeEmpty`, does not fit `out_buffer`: then no bytes are sent, and
  `pending_msg_type` is what the first byte of `out_buffer` says, which belongs
  to the last packet of more than 127 bytes (`LongType`).
- *espconn_abort/delete* end the connection without callbacks.
- *system_os_post* drops the event when the queue is full.
- *espconn_gethostbyname* starts a lookup, or none: it refuses, or it knows the
  name at once and no callback comes. `MQTT_Connect` does not look at the
  result, and calls it again while lookups are pending; the SDK keeps `MaxDns`
  of them for one espconn. A lookup answers with an address, with none, or with
  one the callback ignores; or never.
- A segment is a sequence of whole packets; the empty sequence stands for a
  length the receive callback refuses. Between two packets of a segment `dataCb`
  may call the client (but not `MQTT_Connect`, which would free the espconn
  whose callback is running). Application callbacks at the end of a handler are
  the application's call right after it; nothing can come in between.
- The application calls nothing on a client it has deleted until it has
  initialised it again.

A use of freed memory sets `fault` and ends the behaviour: nothing after it is
meaningful. Runs in which that (or the delete that gets lost, below) can happen
do not check deadlock, because the client really does stop there.

### MqttMsg and Connection

A packet is a sequence of bytes. A builder appends fields to `m.body` for as
long as they fit behind the three bytes kept for the header (`append_string`,
`append_message_id`), and `fini_message` writes the header in front. An absent
string is empty; `client_id` alone can be `NULL`, empty or not. `Connection` has
one action a builder; `req` records what was asked for, `pending_id` what the
caller was told.

### Receive

`stream` is what the broker has sent and TCP not yet delivered; a segment is the
next bytes of it, all of them or as many as one of `Cuts`. `rest` is
`pdata` and `len`, `in_buffer` the buffer whose head each turn of the loop
overwrites and whose tail keeps older bytes. Answers are built with `MqttMsg`.
`message_length` is 16 bits wide. One burst announces 65532 bytes and TCP
delivers its beginning, which is enough for the loop to compute with. The
history variables are `todo`, the packets of the segment at hand, and `cut`,
whether TCP has cut it: the mapping to `Delivery` is about the steps on segments
that are not cut, `CutPublishDelivered` about the others.

### Session

A connection is up or down, `sendTimeout` running or not. The network is two
queues, the broker a QoS 2 receiver that holds an identifier from PUBLISH to
PUBREL and, with a clean session, forgets what it held at CONNECT;
`clean_session` is the value given to `MQTT_InitClient`, either one. A packet
sent is on its way until the broker takes it or the connection ends. A segment
is any number of the broker's answers: none of them is a PUBLISH, so the first
is handled and the others are not looked at (`READPACKET` goes on behind a
PUBLISH only). The histories are `carried`, whether a connection began with
packets queued or, the session not being clean, held by the broker; `late`; and
`cut`, the messages held whose handshake lost a packet: no room for it, or it
was not looked at, or the connection ended.

### MultiClient

For each client: its state, link, armed timer, whether its CONNECT went out and
a send is unconfirmed, and how many packets it has queued. Attempts and sends
may be refused. `events` is the task queue with the clients
its events are for. `MQTT_InitClient` registers the task again; whether the SDK
then starts the queue over (`TaskStartsOver`) is not in the source, and `multi`
allows it.

### Application

`wifi_check_ip` is one action: reading the status, calling
`wifi_station_connect` after a failure, reporting a change to `wifiConnectCb` and arming
the timer again. The calls of `mqttConnectedCb` are steps of their own that
nothing interleaves with (`todo`). The station joins, fails and
loses the network at any time; without it nothing is heard from the broker,
though the stack may still report an error.

### Utils

The three scanners read one text, a character a step, until each has returned;
`string` is what they have read, and the properties parse it anew: `Ends`, the
first four characters that are no digits, and `Number`, the digits between two
of them.

### Uart

The transmit FIFO is filled by `uart_tx_one_char` (which looks at the count in
one step and writes in another) and emptied by the hardware. Received bytes are
only counted. The handler serves the first interrupt of its else-if chain; the
loop that waits for an empty receive FIFO (lines 158 and 173) reads nothing, so
once entered it stays (`draining`).

## 3. What the runs check

### Queue (run `queue`, 89,058 states)

Ring of 7 bytes, packets with none, some and only reserved bytes: frames of 2,
3, 4, 6 and 8 bytes, so frames fill the ring exactly, wrap at every offset, run
out of room at every byte, and one never fits.

- `CursorsAgree`: the write cursor is `fill_cnt` bytes ahead of the read cursor.
- `WellFramed`: between calls the ring holds whole frames only.
- `GetsFindsFrame`: the uninitialised `isBegin` decides nothing, and
  `QUEUE_Gets` fails only on a queue that was empty.
- `PutsKeepsQueued`: no step of a `QUEUE_Puts`, roll-back included, disturbs
  what was queued before.
- `ImplementsPacketFifo`: packets come out unchanged and in order, a put succeeds
  exactly if the escaped frame fits, a failing call changes nothing. The
  mapping is the sequence of packets a reader at the current place would parse.

### Client, safety (run `client`, 1,217,369 states)

Every call of the application in any order; publishes that fit the queue, never
fit or are not built, a subscribe and a CONNECT that are not built; segments of
one and two packets, and an empty one; a stack that may refuse to connect and to
send.

- `TypeOK`: among the rest, the tick counters stay bounded by their timeouts.
- `SessionOnLiveLink`: a session has a live accepted connection; CONNACK is
  waited for on a live one, with CONNECT as the packet sent last if it went out
  at all. The "Invalid packet" branch of `mqtt_tcpclient_recv` (line 312) is
  taken only where no CONNECT could be built.
- `NoLostWakeup`: each state that somebody has to act on has its event, a
  callback to come that posts, or its timer.
- `KeepAliveNotOverlapping`: for a host given as an address, a ping never
  overlaps an unconfirmed send if `MQTT_SEND_TIMOUT` is at most half the
  keep-alive time and a second (5 against 61 as configured; the run takes the
  boundary, 3 and 4). For a *name* it fails: a lookup that answers late opens
  the next connection with the keep-alive clock where the last one left it.
- `NoUnaskedConnect`: no connection is opened after `MQTT_Disconnect`, whatever
  callbacks do to `connState`. For a host *name* it fails (a lookup
  that ends late opens one), so it is checked with an address only.
- `QueueOrderKept`: packets leave at the old end and enter at the new one, also
  when a publish makes room.

### Client, liveness (run `client_live`, 134,908 states)

The host is a name with up to two lookups pending, connecting and sending may be
refused, CONNECT may not be built.

- `KeepsTrying`: with a resolver that may not answer and a broker that owes
  nothing, a client asked for a connection is in a session or starts another
  attempt, again and again, but for the places that have no timeout. One is the
  wait for CONNACK (`Silence`). In the others (`Stranded`) the broker could do
  nothing about it: an attempt or a lookup that was not started, or a lookup
  without a usable answer (mqtt.c:892-939); the answer to a second lookup, which
  sets `TCP_CONNECTING` on a connection already open (mqtt.c:86-101); a CONNECT
  that was not built or that espconn refused (mqtt.c:535-554). All are real and
  can last for ever; no comment or document says otherwise, so there is no
  finding.
- `SessionReached`: if the broker is reachable in the sense of `BrokerFairness`,
  whoever asks for a connection gets a session, unless it starts over again and
  again or the client is `Stranded` for ever.
- `QueueNotStuck`: an open session's queue keeps moving, also
  when sends are refused and so never confirmed: the keep-alive ping is what
  posts after `sendTimeout` has silently expired.

Fairness. `MQTT_Task`, the timer and a receive loop under way are run by the SDK
for ever (weak fairness). Strong fairness of `TaskData` says that a task posted
now runs before a timer that fires once a second wins the race for the 60th
time, again and again; and of a send's confirmation in `MQTT_DATA` that it does
not for ever fall into the milliseconds between the timer's request for a ping
and the task. The stack reports the end of a close, an attempt and a send on a
live connection; it owes no report on an idle connection. `BrokerFairness` is no
part of the specification but the hypothesis of `SessionReached`: a name looked
up again and again is resolved at last, a broker tried again and again is
reached and sent CONNECT at last, and one that has been sent CONNECT again and
again accepts at last. It asks for no answer to a CONNECT that was never sent.
Without it no session is promised.

### Packets (run `connection`, 4,996 states)

MQTT 3.1.1; lengths on both sides of 128 and 256 and of the end of the buffer,
and identifiers around the carry and the wrap.

- `FitsBuffer`: nothing is written behind the output buffer.
- `ReadsBack`: the readers of `mqtt_msg.c` find in each packet the length, type,
  flags, topic, payload and identifier it was built from.
- `ConnectParses`: a reader that follows CONNECT's flags finds the strings given.
- `NumberedPackets`: every packet that MQTT numbers has an identifier other than
  0, the one the caller was told, also where the counter wraps.

### Receiving (run `receive`, 1,389,444 states)

- `ImplementsDelivery`: as long as segments end where packets end, the
  byte-level loop does what `Delivery` says: each PUBLISH is delivered as it was
  sent and answered with its own identifier if the queue has room, up to the
  first packet that is none.
- `CutPublishDelivered`: a PUBLISH that TCP cut is delivered as far as it has
  arrived, without a topic if that is cut, and answered with its own identifier
  if that has arrived; what follows it is not taken for a packet in the same
  turn.
- `LoopAdvances`: the READPACKET loop gets further with each turn,
  except for an announced length that is a multiple of 65536.
- `TypeOK`: here because the bytes and positions computed from a cut packet
  are what could leave its bounds.

### Sessions of several connections (run `session`, 917,822 states)

Two QoS 2 messages and one of QoS 0, connections that end at any time, clean
sessions and kept ones, segments of up to two answers.

- `OneSendAtATime`, `PublishedCbRight`: sends do not overlap and `publishedCb`
  is called for the confirmation of a PUBLISH and no other, as long as no send
  of the connection has timed out.
- `NoneSwallowedUncarried`: on connections that began with nothing queued, and
  with nothing held by the broker unless the session is clean, the broker never
  takes a QoS 2 message for a duplicate of another. With something queued or
  held it may, because the identifiers start over (mqtt.c:534).
- `OrderKept`: the broker accepts messages in the order they were sent in, none
  twice.
- `Qos2Completes`: the broker releases a message it holds, PUBREC answered and
  PUBREL taken, unless the connection ends, a packet of the handshake finds no
  room in the queue or in espconn, or PUBREC comes behind another answer in one
  segment. Fairness: the stack confirms, the broker takes and answers what is
  on its way, timeouts run out, and `TaskData` is strongly fair as in
  `MqttClient`.

### Several clients (run `multi`, 210,669 states)

Two clients on the task queue of one event.

- `WokenUnlessLost`: what a client waits for `MQTT_Task` to do has its event,
  unless a post it needs was lost to another client.
- `SessionUnlessLost`: a client asked for a connection gets a session again and
  again, unless it loses a post it needs or is `Stranded`, as one client alone
  may be: its attempt or its CONNECT was refused.

Fairness: for each client, that of `MqttClient`'s scheduler and stack, and, as a
hypothesis about the environment, what `BrokerFairness` is there: a broker tried
again and again is reached and sent CONNECT, one sent CONNECT again and again
answers.

### The application (run `app`, 231,157 states)

- `OpensOnlyWithNetwork`: a connection is opened only if the last poll found the
  station with an address.
- `FirstPacketsQueued`: the packets of `mqttConnectedCb` (six in the code, two in
  the run) are all in the queue when it returns, together and in order, whatever
  an earlier session left there. They are built and have room together
  (`FirstPacketsFit`), as those of the code have: six packets of some tens of
  bytes and a buffer of 2048.
- `SessionWithNetwork`: a network that stays at last gives a session again and
  again, unless the client is `Stranded`: espconn refused the attempt, or CONNECT
  on a connection that then stays open. A CONNECT that does not fit the buffer
  would never give one; this run assumes that it fits.
- `JoinsAgain`: a failure to join is followed by another attempt.

Fairness: the client's and the polling timer's; and while there is a network
`BrokerFairness`, which promises no answer to a CONNECT that was not sent.

### Text (run `utils`, 296,257 states)

Every text of up to ten characters over NUL, the dot, the digits of 255 and 256
and two letters.

- `AddressRead`: what `UTILS_StrToIP` stores is what the text writes, in bytes.
- `QuadsAccepted`: both scanners accept every dotted quad, and `UTILS_IsIPV4`
  accepts nothing but four numbers between dots. `UTILS_StrToIP` is more
  generous: it takes empty numbers for 0 and anything behind the last.
- `HexRead`: `UTILS_Atoh` against the value of the hexadecimal digits.

### Serial port (run `uart`, 44,130 states)

- `OutputRight`, `TextComesOut`: what is printed gets out whole and in order.
  There is one writer, and what comes between its look at the FIFO and its write
  only makes room: the limit on the count is what these depend on.
- `HangsAtTriggerOnly`: until as many bytes have been received as
  the trigger level says (127), when the handler loops for ever.

Fairness: the program goes on while no handler runs, and the hardware sends.

### Where the code departs from its documentation

Each of these runs checks one property, and TLC finds it violated.

| Run | What happens |
|---|---|
| `delete_lost` | `MQTT_DELETED` is overwritten by a callback before `MQTT_Task` sees it; with the timer disarmed the client is never deleted |
| `multi_stuck` | the timers of two clients act before `MQTT_Task`; the second post is lost and its client never reconnects |

Other behaviour a maintainer may not expect is contained in the models, without
a document that it contradicts or a run of its own:

- `TCP_DISCONNECTING` can be overwritten by the connect callback; the
  disconnect callback then asks for a reconnect that the disarmed timer never
  makes, and the connection is not released until the next call.
- `mqtt_dns_found` can be called with an espconn that `MQTT_Connect` freed.
- `MQTT_Connect` called again while a lookup is pending starts a second one. The
  first answer opens a session; the second sets `TCP_CONNECTING` on it, from
  where neither timer nor task moves the client.
- A CONNECT too long for `out_buffer` is sent as no bytes, and the client waits
  for CONNACK until the connection ends; so it does if `espconn_send` refuses
  CONNECT.
- An answer behind another one in the same segment is dropped; if it is PUBREC,
  its QoS 2 handshake stops there.
- `outbound_message->data` points into `out_buffer`, which
  `mqtt_client_delete` frees just before it is freed again.
- A subscribe too long for the buffer is queued as an empty frame and reported
  as success; an empty `client_id` is written as an identifier of two bytes.
- `mqtt_get_id` finds no identifier in a SUBSCRIBE of more than 127 bytes.
- A PUBLISH that TCP cut is acknowledged before the rest has come.
- A queued packet survives into the next connection, where its identifier is
  given out again: the broker may drop a message as a duplicate; without a clean
  session, what the broker still holds has the same effect. A QoS 1 message
  on its way when the connection ends is not sent again.
- `UTILS_IsIPV4` accepts numbers beyond 255: the value tested has 8 bits.

### Bounds

Timeouts of 1 to 3 ticks and a keep-alive of 2 and 4 exercise before, at and
after each expiry; the code compares them only with zero and with each other.
Two unconfirmed sends let a confirmation come late for an earlier packet. A
queue of two units with packets of one and three gives: fits, fits after
eviction, never fits. The event queue has its real size, 1. One espconn address
is enough unless a freed one has to be told from a current one, and the runs end
a behaviour at the use of a freed one anyway. `MaxDns` is 2 in `client_live`: a
second lookup is what takes an open connection for one being opened, and a third
answer would find it so already. A call beyond the bound is not disabled but
finds the resolver full.

`Queue`: a ring of 7 bytes and frames of 2, 3, 4, 6 and 8.
`Connection`: the buffer is 270 bytes, so that one- and two-byte lengths and
both bytes of a field's length occur; `Ids` are the counter's values around 0,
256 and 65535. `Receive`: a buffer of 140 bytes holds a packet with a two-byte
length, and one burst is a packet too long for it; cuts are in the fixed header, in
the length of a topic, and before, inside and behind an identifier. Four
segments give a connection, a burst and its pieces. `Session`: three messages,
a queue of two and two sends in flight make packets wait, be dropped and be
carried to the next connection, and two answers on their way (`MaxAnswers`)
arrive in one segment or in two. `MultiClient`: two clients are
all it takes to lose a post. `Application`: room for its two first
packets and one more; of the three ways to fail to join, which `wifi.c` treats
alike, it takes two. `Utils`: `MaxDigits`, the hexadecimal digits in a row,
keeps the `int` and the 8-bit count of digits below their limits, while three
digits take the 8-bit accumulator of `UTILS_IsIPV4` and the word of `UTILS_Atoh`
(`Word`, 256 in the run for 2^32) past theirs. `Uart`: FIFOs of three bytes with limit
and trigger at two keep the order limit < size and trigger < size of 126, 127
and 128.

## 4. What is proved

Everything here holds for every value of the constants that meets the named
assumption of the module (`QueueAssumption`, `ClientAssumption`, ...).

**Queue** (`QueueProofs`). `WellFramed` is not inductive as it stands: that a
byte stored is no mark depends on what `PROTO_AddRb` is doing, that a roll-back
ends with a whole frame on the saved cursors, and that a read starts at BEGIN on
how the previous one ended. `IInv` is the conjunction of the four invariants and
`EscapePending` (after an ESC the byte still to be stored is a reserved one).
The lemmas say what one `RINGBUF_Put` and one `RINGBUF_Get` do to the bytes
counted from the read cursor, across the wrap. From `IInv`: `TypeCorrect`, `CursorsAlwaysAgree`, `FramesStayWhole`,
`GetsAlwaysFindsFrame`, and the action property `QueuedBytesKept`.

`ImplementsFifo` is the refinement: `Spec => ImplementsPacketFifo`. The mapping
parses the bytes from the read cursor on; an induction over them, in
`SequenceFacts`' form (below), shows that the parse of a frame is its packet,
that what is behind a prefix of frames is parsed as if it stood alone, and
that a frame put at the end appends one packet. Besides `IInv` the mapping
needs `Storing` (the bytes a `QUEUE_Puts` has stored so far are the beginning of
the frame of `pk`) and `Counted` (`fill_cnt` is the sum of the escaped sizes of
the packets stored), which is what makes a put succeed exactly if its frame
fits.

**Induction.** The library's induction theorems take an operator as a
parameter and cannot be used. Where a proof is about sequences of any length,
`SequenceFacts` takes the least counterexample instead: a non-empty set of
naturals has a least element (from `WellFoundedInduction`), and a first place
where a recursive function goes wrong contradicts its recursion. `Totals`, the
running sums of a sequence of numbers, are characterised that way, and so
`Used`, the room a queue of packets takes, is a recursive function.

**Client** (`MqttClientProofs`). `IInv` has four layers, each proved from those
before it by one case for each action:

1. `TypeOK`;
2. `Ownership`: a client without memory is idle, the timer is armed exactly
   while the application asks for a connection, `TCP_RECONNECT` occurs only
   then, `MQTT_DELETED` only after a delete, and `MQTT_DELETING` never;
3. `SessionOnLiveLink`, which needs `Ownership`'s facts about memory, for each
   of the ways `mqtt_tcpclient_connect_cb` ends;
4. `Wakeups`: `NoLostWakeup` and that a connection to be closed before
   reconnecting is still there, without which closing it posts nothing.

This gives `SessionHasLink` and `WakeupsKept`. For a host given as an address,
`NeverConnectsUnasked` follows from `Ownership`. `PingsApart` (also with
`MQTT_SEND_TIMOUT <= KEEPALIVE \div 2 + 1`) needs `Spacing`: while `sendTimeout`
runs, `keepAliveTick + sendTimeout <= MQTT_SEND_TIMOUT`, and the keep-alive
clock is zero from the start of a connection to CONNACK. `OrderKept` rests on
`EvictDropsOldest`: the loop that makes room discards a prefix of the queue.

**Packets** (`ConnectionProofs`). The invariant is `TypeOK` and `Source`: the
packet is what the builder makes of the request recorded. `UnderConstruction`,
that a packet being built and its header stay in the buffer, is carried through
each append; `PacketsFit` follows for any buffer and any strings. `PacketsReadBack` and
`PacketsNumbered` assume `ShortBuffer`, a buffer of at most 16386 bytes: beyond
it `fini_message` would have to write a third length byte, which it does not.
So does `ConnectReadsBack`: `FromConnect`, that a CONNECT packet is what
`mqtt_msg_connect` makes of a `connect_info`, and one lemma for each of its
strings, which says where the reader stands before and behind it, give
`ConnectParses`.

**Receiving** (`ReceiveProofs`). `TypeCorrect` bounds every byte and position
computed from whatever has arrived, and `CallbackReturns` gives `LoopAdvances`,
for all bursts and cuts. `CutDelivery` needs what the readers of `mqtt_msg.c`
find in a prefix of a packet (`HeaderLayout`, and a lemma for each field of
PUBLISH), and that what has arrived is such a prefix. `DeliversWhole` is the
refinement of `Delivery`, under `WholePackets`: the broker sends every packet it
begins. Its invariant `WholeSegment` says that what is left of a segment that
was not cut is the encoding of the packets in `todo`. The endless packet of the
run `receive` is no such burst: for it, `ImplementsDelivery` is checked by TLC
only.

**Sessions** (`SessionProofs`). `Waiting`: without a timeout there is at most
one send under way, `sendTimeout` runs for it, and `pending_msg_type` is its
type; this gives `SendsApart` and `CallbackRight`. `Apart`: as long as nothing
was carried into a connection, the identifiers of the QoS 2 messages in the
queue, on their way and held by the broker are distinct and none is beyond
`message_id`, except that with a clean session what the broker holds from an
earlier connection stays until it takes CONNECT, which is first on its way
(`ClearWaits`). Without a clean session there is no such exception: a connection
that begins while the broker holds something has `carried` set, otherwise the
broker held nothing. This gives `NoneTakenForAnother`, for both kinds of
session.
`Line` puts the messages accepted, on their way and queued in a line: each was
asked for, and of two of them the one in front was asked for first. Sending
appends, eviction and the end of a connection take away, the broker moves the
first one on: the line stays sorted. Hence `OrderRight` and, because a message
is asked for once, `NoneTwice`.

**Several clients** (`MultiClientProofs`). `Good(c)` says of each client that
its connection is open where it sends, that its timer runs while it is asked
for, and that it is woken unless it has lost a post. A step of one client keeps the
others' part and their events (`OthersKept`, `EventsKept`); `LostOnlyToOthers`
follows for any number of clients.

**Application** (`MqttClientProofs`). `UsesClient` is a refinement: every step
of the system is a step of `MqttClient` or leaves the client alone, because
`wifiConnectCb` and `mqttConnectedCb` make only calls it allows. So the
client's theorems carry over (`ClientInvariants`), and `NoAttemptOffline` follows from
`NoUnaskedConnect` and that the application asks only after a poll that found an
address. `FirstPacketsTogether` assumes `FirstPacketsFit`. Its invariant `Asked`
says that what `mqttConnectedCb` has asked for so far is at the new end of the
queue; the step is `EvictKeeps`: making room for a packet keeps the newest
packets that fit the buffer together with it.

**Serial port** (`EdgeProofs`). `Raised` says what raised interrupts tell about
the FIFOs: an overflow comes with a full FIFO and stays behind it in the chain;
`Writer` that room seen is still there at the write. Hence `TypeCorrect` (the transmit FIFO
stays below its limit), `HangsAtTrigger`, and `LastBranchesNeverServed`: overflow
and an empty transmit FIFO are never served. `OutputComesOut` gives `OutputRight`
for texts and FIFOs of any length.

**Text** (`EdgeProofs`). `Scanned` says of each scanner where it
is in the text: `Reading(s, m)`, that `m` numbers have ended at dots and the next
is open, with what it keeps of that number (its length, or its value) and of
those before (stored, or not empty); and once it has returned, why: the address
it stored, or a number that is too large, empty or ends at the wrong character.
A step appends a character: `AfterAppend` says where the search for the next
separator then ends, `ReadsDigit` and `ReadsEnd` what becomes of the numbers,
`ValueAppend` of their values. `RestOfRest` carries the reduction by `Word` from
digit to digit. The digits in a row stay below `MaxDigits` (`FewDigits`), so the
8-bit count of `UTILS_IsIPV4` does not wrap.

**Only proved.** The type invariants of `Connection`, `Session`, `MultiClient`
and `Uart`, `LastBranchesDead`, `NoneTwice` and the refinement `UsesClient`,
which need no run.

**Only model-checked.** All liveness: fairness and `ENABLED` are out of the
prover's reach. `ImplementsDelivery` for a packet the broker never completes.

## 5. Not modelled, and what is left

- The SSL variants of the espconn calls have the same shape; a client with
  `security` set in a build without SSL never connects.
- Allocations that fail: the code never tests for it, so nothing is promised.
- `MQTT_InitLWT` and the setters of callbacks change nothing the state machine
  reads; the will is part of `Connection`'s CONNECT. Callbacks that only log.
- Logging, `print_info`, baud rates, pins, UART1 (the transmit path of UART0,
  without a caller), `uart_reattach`, `PROTO_Add`, `PROTO_Parse` and
  `mqtt_get_dup` (no caller), `rfinit.c` (a table lookup without state).
- The `int` of `UTILS_StrToIP` from ten digits on.

What could still be added: `MqttClient` and `Receive` composed step by step, to
show that the abstract segments of the first are the bytes of the second; the
refinement of `Delivery` with packets the broker never completes; several
`Application`s on `MultiClient`.
