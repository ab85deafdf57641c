# web-tunnel: specifications

web-tunnel lets a browser reach machines of a private network through a public
server.  This directory specifies it in TLA+: what the modules say, what TLC
checks on small instances, and what TLAPS proves for all of them.

    browser --HTTP, forward websocket--> server.js --websocket--> web-tunnel --TCP--> LAN hosts
    local program --TCP--> local.js --forward websocket--> server.js

## 1. Inventory

### The client, `libwebsockets/test-server/` (C, one thread)

| part | state | operations | hard behaviour |
|---|---|---|---|
| poll table (`http_client.c`) | `pollfds`, `fd_lookup`, `count_pollfds`, each context's `pfd` | `mgmt_add_fd`, `mgmt_del_fd`, re-arming through `pfd` | deleting moves another entry under its owner |
| main loop (`web-tunnel.c`) | the slot being scanned, `revents` | `poll`, `libwebsocket_service_fd`, `http_mgmt_service`, reconnection | the table changes during the scan |
| TCP forwards | `tcp_forward_context`: function, resume point, `idle`, `buf_write` | `tcp_forward_create/connect/write/read/closing/release` | coroutines suspended while frames arrive for them |
| HTTP contexts | `http_context`, ready and timeout lists | `http_context_connect/write/read/finish/release`, `http_parse` | timeouts, de-chunking, errors half-way |
| frame reassembly | `buf_prepare`, `sync_prepare` | `http_mgmt_prepare`, `prepare_process` | pieces, an 8 s reset |
| queue to the server | `buf_toserver`, `toserver`, `shakehand` | `http_mgmt_toserver`, `http_mgmt_writable`, `http_mgmt_handshake` | what survives a reconnection |
| pools | `http_buf_caches`, `ctx_caches` | `alloc_buf`, `free_buf`, `list_splice` | exhaustion; a node in two lists |
| local socket server | `tcp_server`, `tcp_client` | `tcp_server_callback`, `tcp_client_read/write`, `process_tunnel_*` | short writes |

### The server, `nodejs-websocket-server/server.js` (node: one handler at a time)

| part | state | operations | hard behaviour |
|---|---|---|---|
| sequence table | `seq`, `cnt`, `seq2index`, `index2obj` | `newSeq`, `delSeq`, `getBySeq` | objects move; numbers wrap; stale indices |
| frames from devices | `curr_seq`, `curr_total` of the *user* | `parseNormalMessage`, `httpNormalParse`, `processBuffer` | two devices, one state |
| HTTP requests | `HttpProcessor`: `start`, `res` | `app.all`, `/__camsnap` | a request nobody answers |
| forward websockets | `conn.seq`, `conn.sess_devicename` | `textProcess`, `closeForward` | the device switched in between |
| devices | `connections`, `curr_device` | `connectionParse`, close handler, `prepare_device` | random names that collide |
| webcams | `webcamManager` | `addConn`, `openConn`, `delConn` | indices that are never returned |

### The local proxy, `localproxy/local.js`

One websocket per local connection: `connected`, `buffers`, and the handlers of
both sockets.  Hard: what is sent before the other side is ready, and closing
from either end.

`PROJECT.json` lists these and the parts that are not modelled with the reason,
and every hazard at its line.

### What makes each part correct

* poll table: `fd_lookup` and `pollfds` stay inverse; the listening socket is
  always polled; a write never leaves the array;
* forwards: bytes in order, each once, in both directions, and a forward's end
  announced once, after its data;
* sequence table: a number has one owner, who is found until it is given back;
* server: a browser gets its own data only, whole and in order; an answered or
  closed connection is forgotten; no handler throws;
* HTTP contexts: what a host said arrives whole and once, without its chunks'
  size lines; a context is in the ready list exactly when its status says so;
  whatever way a request ends, its buffers and its context come back;
* the client's connection: the handshake is first on every connection; what is
  queued survives reconnections in order and goes out; a frame is handled once
  and whole or not at all; the client comes back;
* local proxy: nothing lost or reordered around the moment of connecting; data
  does get through.

## 2. Modules

| module | models | by |
|---|---|---|
| `PollTable` | the poll table and everything that opens, closes or re-arms an entry | `mgmt_add_fd`, `mgmt_del_fd` as operators; one action per caller |
| `TcpForward` | the main loop, the forwards, the kernel and LAN peers; INSTANCEs `PollTable` on its own variables | one action per outcome of each coroutine between two suspensions |
| `HttpParse` | `http_chunk_check` and `http_parse`: the automaton that takes a chunked response apart | one function per state of the automaton, on sequences of bytes |
| `HttpContext` | HTTP requests of the client: contexts, ready list, pools, `poll` and the scan, LAN hosts, the loss of the websocket; EXTENDS `HttpParse`, INSTANCEs `PollTable` | one action per outcome of each coroutine between two suspensions |
| `WsClient` | libwebsockets' client connection: connecting, upgrade, its failures, its time limit, POLLOUT | one operator per outcome of a library call |
| `TunnelClient` | the life of the client's connection: handshake, queue to the server, reassembly of frames, reconnection; INSTANCEs `WsClient` | one action per callback or step of `main`, split by outcome |
| `SeqMap` | the abstract specification of the sequence table | a function from numbers to owners |
| `SeqTable` | the arrays of `newSeq`, `delSeq`, `getBySeq`; refines `SeqMap` | `OwnerOf` is the refinement mapping |
| `TunnelServer` | the server for one user, its browsers and its devices; INSTANCEs `SeqTable` | one action per event handler, split by outcome |
| `LocalProxy` | `proxyService` for one local connection | one action per event handler |
| `PollTable_proofs`, `SeqTable_proofs`, `TunnelClient_proofs`, `TcpForward_proofs`, `LocalProxy_proofs`, `TunnelServer_proofs`, `HttpContext_proofs` | theorems about the module of that name | section 5 |
| `SequenceLemmas` | lemmas about numbers and sequences those proofs share | section 5 |

State and actions to code, where it is not one to one:

* **PollTable.**  `slotFd` and `slotEvents` are `pollfds[].fd` and `.events`
  without `POLLERR` and `POLLHUP`, which `poll` reports unasked.  `pfd[fd]` is
  the slot the context of `fd` points at (`http_context.pfd`,
  `tcp_forward_context.pfd`, ...): the index `mgmt_add_fd` returned, which
  nobody updates when `mgmt_del_fd` moves the entry.
* **TcpForward.**  `scan` is the loop variable of `main` (0 in `poll`).
  `fwd[s]` is the context: `func` is `func_run`, `line` the coroutine's resume
  point (`partial`: after a short write, `eagain`: after EAGAIN), `todo` is
  `buf_write.list_todo`, `curr` says that `buf_write.curr` is set.  `sock[s]` is
  the kernel's side.  `revents` is kept per slot and moves with an entry, and
  the end of `http_mgmt_service` clears whatever is in the slot by then, as
  the C code does.  `connect` on a socket that is already connected, the
  `POLLOUT == revents` test on a stale pointer and `POLLHUP` on a socket never
  connected are modelled.  Once a forward is released in the middle of a write
  (`intact` is FALSE: the buffer pool is corrupted) nothing more is claimed.
* **HttpContext.**  `phase` is where `main` is: `run` before `http_mgmt_run`,
  `running` in its loop over the spliced ready list, `scan` in the loop over
  the slots, `closing` and `reconn` after the websocket was lost.  `ctx[r]` is
  the context of request r: `func` is `func_run`, `line` the coroutine's resume
  point, `write` the buffers left in `buf_write.list_todo` and `half` whether
  the first went out in part, `read` and `rbytes` what was read.  `host[r]` is
  the LAN host with the kernel's socket.  A response is a head, which is one
  mark, and bytes; a CR is among the data.  `whole` remembers that the host
  said everything and that the client had its chance to pass it on (`owed`:
  there was a buffer, the websocket was there).
* **WsClient, TunnelClient.**  `mode`, `armed`, `timer` are the library's
  structure, `sock` and `reply` what the network holds for it.  The slots of
  `poll` and the order of the scan are left out: every service is an action.
  `prep` is `buf_prepare` with `sync_prepare`; `free` and `held` count the
  buffers of the pool and of everybody else.  `Make` and `Release` are what
  contexts, forwards and local clients do with buffers, in any order.  A piece
  is a number, so its loss, its doubling and its order can be told.
* **SeqTable.**  The arrays have their final size, elements not yet there are
  `null`, as `null == undefined` in the code.  `Next` uses the table as meant:
  a number is given back once and is free when it is handed out.
  `TunnelServer` does not assume this; it calls `newSeq` and `delSeq`
  directly and checks `TableKept`.
* **TunnelServer.**  A frame from a device is its head with the first piece of
  payload, then one message per further piece.  `DeviceTakes`, `DeviceAnswers`,
  `DeviceFails` and `DeviceSends` are what a web-tunnel client puts on the
  websocket (`prepare_process`, `http_context_finish`, `generate_error`,
  `tcp_forward_read` and `_closing`).  After a number is handed out while
  still in use (`reused`) nothing more is claimed.  Three history variables
  say what happened to the frame being received, which the code keeps per
  user: `from` is the device that began it, `clean` that nothing came into the
  middle of a frame so far, and `cut` whether a hang-up deleted the processor
  of a frame being received (`never`, `now` for this frame, `before` for an
  earlier one, `twice` when two hang-ups did so to one frame).
* **LocalProxy.**  The server, the device and the LAN host are one ordered
  path.  The LAN host sends `Greeting` units unasked and one per unit it gets.

## 3. Runs

| run | bounds | shows |
|---|---|---|
| `poll_table` | 4 descriptors | all ways of opening, closing and re-arming: enough for an entry to be moved twice, which is what makes a pointer stale by more than one slot |
| `forward_one` | 1 forward, 3 chunks of 2 units, 2 units back, 3 frames in flight | writes cut inside a chunk and between chunks, data before the connection; liveness in both directions, and closing |
| `forward_two` | 2 forwards, 4 descriptors, 1 chunk of 2 units, 1 unit back | slots moving during the scan, stale pointers; every step is one of `PollTable`'s |
| `seq_table` | 4 numbers, 2 owners | the counter wraps, every order of giving back |
| `server_mixed` | 3 requests (the host of one may refuse), 1 forward, 2 numbers, responses of up to 2 pieces, 2 pieces each way on the forward | the counter wraps, the table is full, responses and forward data interleave; every request ends |
| `server_devices` | 1 request, 1 forward that may hang up, 2 devices that share 2 names, are switched, and one of which may be lost, frames of up to 2 pieces | who gets what when devices change; `closeForward` gives back `mgr.curr_seq`, a number of somebody else's, and the table stays sound |
| `http_context` | 2 requests of 2 buffers, 6 buffers of 5 bytes, 2 contexts, one response of up to 2 chunks of 1 or 3 bytes, 1 fault | requests side by side: partial writes, chunked responses cut in size lines and in data, hosts that refuse, reset or give up, a context that leaked before, the websocket lost and made again; every request ends |
| `tunnel_client` | 3 buffers of 2 units, frames of 0, 3 or 4 units (3 is the longest taken), 2 pieces to send, 3 frames and faults together | handshake, reassembly and queue over up to four connections, with every way a connection or its making fails, no buffer left, partial sends and the 8 s limit in the middle of a frame |
| `proxy_server_first` | 3 units, greeting of 1 | buffering, flushing, closing |

Two runs state properties for what is undisturbed.  The frame being put
together is kept per user (`curr_seq`), so two devices that send at once do
mix their frames, and a forward that hangs up can end another browser's
request.  `OwnPiecesInOrder` and `ResponsesWhole` therefore speak of the time
until something comes into the middle of a frame (`clean`): they say what a
switch, a name that is shared or a loss does to frames that are *not* mixed.
`WaitingIsFound` and `BrowserDataInOrder` hold longer, through mixed frames,
until a hang-up gives back the number of a frame being received (`cut`).
`TableKept`, `OnlyHelloThrows` and `RequestsForgotten` hold even then; what
breaks them is a second hang-up in one frame (`cut = "twice"`): the second
`delSeq` goes through the index the first one left behind, which may lie past
the last object.  `server_devices` lets one browser hang up, and the theorems of
section 5 show the properties for any number of them.  An error response takes
in what follows it (the finding of `frame_length`), so properties of what a
browser gets leave out the browser of a request whose host may refuse.
`forward_two` has no liveness: a forward that is not polled because of a stale
pointer (the finding of `read_is_polled`) does not deliver.

`http_context` and `tunnel_client` name what the code really loses, and claim
the rest:

* `RequestsEnd` excuses a context in `Stuck`: it waits to write in a slot that
  is not polled for that, because `pfd` is stale or `connect` succeeded at
  once, and no timeout exists that would end it.  `AnsweredWhole` is about the
  responses that found a buffer.  `intact` becomes FALSE when a NULL buffer is
  used, when a response ends inside a chunk (`http_parse` unlinks the buffer
  that is not there) and when a context is released in the middle of a write;
  nothing is claimed from there on.
* `FramesHandled` excuses frames (`Excused`) that are too long, that a buffer
  was missing for, that a delay of 8 s or a loss fell into, and the frames of
  the connection after such a one or after an empty one, whose end was not
  seen.  `QueueDrains` excuses `Deaf`: the answer to the handshake was lost for
  want of a buffer, or the handshake went out in part, and the handshake goes
  out for ever.  `intact` becomes FALSE when the handshake finds no buffer,
  when a buffer is filled that `release_prepare` gave back, and when
  libwebsockets services freed memory (`NumberReused`, `NameForgotten`).

Three runs look for a violation and find it:

* `read_is_polled`: the comment at `http_client.c:2207` says a forward that has
  written waits for input.  With two forwards it may wait without being polled,
  because `pfd` is stale after `mgmt_del_fd`.  `forward_one` shows the same
  property to hold with one forward.
* `forward_forgotten`: `server.js:253` says a processor is deleted when its
  connection closes; `closeForward` deletes `mgr.curr_seq` in place of its own
  number.  `RequestsForgotten` in `server_mixed` is what holds of it: the
  requests are forgotten.
* `frame_length`: `http_client.h:47` says the length includes the header;
  `generate_error` converts it with `htons` into 32 bits, so the server waits
  for a payload 65536 times too long and takes the next frame for part of it.

One more is known and has no run: with a LAN host that waits to be asked,
`local.js` never sends the local program's first data, because it waits for the
host to speak (`local.js:249`).  `proxy_server_first` checks
`LocalDataDelivered` with a host that does speak first (`Greeting = 1`); with
`Greeting = 0` it fails.

### Fairness

* `TcpForward`: weak fairness of the client as a whole (the main loop never
  blocks: `poll` has a 10 ms timeout and every socket is non-blocking), of a
  connection being established or refused, and of a LAN peer that reads.  No
  fairness for what the server or the LAN peer sends, or for closing.
* `TunnelServer`: node handles every event; a device takes every frame and
  ends every request.  The latter is an assumption about the client: its
  contexts have a time limit that is not enforced (`http_mgmt_run_timeout` is
  only called when `poll` fails), so `EveryRequestAnswered` is stated for LAN
  hosts that answer.
* `HttpContext`: weak fairness of the client (the main loop never blocks), and
  of each LAN host with its connection: an attempt ends, what was written is
  read, a request is answered and the host closes.  A host that never closes
  keeps its context for ever, as there is no timeout.
* `TunnelClient`: weak fairness of the services of the client as a whole and of
  reading what the server sent (the main loop never blocks, and a service that
  writes also reads), of a server that accepts,
  answers the upgrade and takes what it gets when no fault comes between
  (faults are bounded).  `Silence` is an assumption about the rest of the
  client: the 32 s without any event that `http_mgmt_run` waits for do come.
  Without it a websocket that was closed before it was established is never
  missed, which is listed as a hazard.
* `LocalProxy`: the connection attempt ends, handlers run, and the LAN host
  answers what it is sent.

`CHECK_DEADLOCK FALSE` is set in `proxy_server_first`, where a connection ends,
and in `tunnel_client`, where the process may crash and where nothing is left
to do once both sides are silent within the bounds.

## 4. Bounds

`MaxFds`, `UserMgrMax`, `NumCtx`, `NumBufs`, `BufSize`, `ChunkMax`, `BufUnits`
and `InMax` are sizes of the program, made small.  `MaxChunks`,
`ChunkLen`, `MaxRead`, `MaxInbox`, `MaxPieces`, `MaxData`, `MaxLocal` and
`Greeting`, `Requests`, `MaxLength`, `MaxChunk`, `MaxChunks`, `Segment`,
`Sizes`, `MaxMade`, `MaxWire`, `MaxEvents` and `MaxFaults` are bounds of the
models, in the guards of the environment's
actions only; no handler of the program is bounded.

Small as they are, every action and every disjunct of the next-state relations
fires in some run.  In `tunnel_client`, `MaxEvents` bounds the faults and the
frames together: three faults are three losses of the connection in a row, which
the queue crosses, two frames of the server meet one fault, and three follow one
another without a fault; three buffers are fewer
than a frame, a queued piece and a handshake need together, so the pool does
run out; frames of 3 units fill more than one buffer.  In `http_context`,
the chunk sizes move size lines, data and line ends across the ends of the
buffers of 5 bytes, and two requests with their responses need more buffers
than there are.

## 5. What is proved

For all values of the constants (any table size, any owners), by TLAPS.

**`PollTable_proofs`.**  `Spec => []IndInv`, from which follow `TypeOK`,
`TableConsistent`, `RoomForEveryFd`, `ListenerArmed`, `PfdNeverBelow`, and
the action property `OpenCloseKeepsOthers`.  `TableConsistent` alone is not
inductive: that the write of `mgmt_add_fd` stays in the array needs the count
to be the number of open descriptors (`CountMatches`), and that no stale
pointer disarms the listener needs pointers never to be below their owner's
slot (`PfdNeverBelow`), because `ListenerArmed` keeps everybody else above slot 0.
Assumed: `Listener` is a descriptor of the table.

**`SeqTable_proofs`.**  `Spec => []IndInv` (objects packed, each found under
its own number), then `DelNeverThrows`, `LookupIsLive`, and
`Spec => Map!Spec`: the arrays refine `SeqMap`.  The lemmas say whose number
each is after one `newSeq` and one `delSeq`; the second is where the object
that is moved keeps its number.  Assumed: the size is positive, `null` is none
of the values stored.

**`TunnelClient_proofs`.**  `Spec => []IndInv` for every pool, buffer size,
bound and set of frame lengths, and from it `TypeCorrect`, `NoBufferLost`
(`BuffersConserved`), `HandshakeComesFirst` (`HandshakeFirst`) and
`QueueIsArmed` (`WriteableArmed`); `QueueIsKept` (`PiecesInOrder`) from
`IndInv` and `OrderInv`; `FramesAreHandled` (`FramesHandled`) from `IndInv`
and `FrameInv`.

* `HandshakeFirst` is about the wire; what makes it inductive is how the flags
  of the two sides agree (`HandshakeInv`): only a connection that sent its
  handshake is known, only a known one gets frames, `shakehand` implies
  known, and a connection that is being made has nothing of an old one.
* `WriteableArmed` needs one more fact (`ArmedInv`): an established connection
  that is armed with `toserver` unset has sent nothing yet, its handshake
  included.  Otherwise the answer could set `shakehand` while POLLOUT is
  asked for and nothing is to be written, and the assertion would fail.
* `BuffersConserved` is inductive with the types: the lemma `StoreKeeps` says
  where the buffers are after a unit of payload was stored, in each of
  its outcomes.
* `OrderInv` orders what the server got, what is on the wire and what is
  queued, within each and before the next, and says that every piece ever made
  is in one of them or lost with a connection.  It never mentions a
  connection, which is why the order holds across reconnections.
* `FramesHandled` is about frames that are gone; `FrameInv` follows them there.
  `WireInv`: on the wire a frame's head is followed by the rest of it and comes
  after the frames before.  `PrepInv`: what is put together is the first units
  of its frame, counted in `len` and `curr` (`Counted`), and the next piece on
  the wire is the next unit, unless it was given up.  After a frame was lost for
  want of a buffer, `sync_prepare` stays set and what comes is stored for no
  frame; then a frame of this connection that is hurt is before all of those
  still to come (`Spoilt`), which is what excuses the one whose header is
  swallowed.  `PastInv`: the frames handled come before the one being put
  together, and that before those to come.  `FateInv`: each frame is to come,
  being put together, excused, or handled.  `StoreOutcome` sums up what a piece
  does: the frame is given up, grows, or is whole and cut to its length.

Assumed: `NumBufs` is a number and `Sizes` are numbers.

**`SequenceLemmas`.**  The library's induction theorems take an operator as a
parameter, which no prover here can instantiate.  `LeastNat` (from the
well-foundedness of `<`) and from it `AllNat` and `AllSeq` state induction
with *sets* in its place, and with them the rest is proved: that `FlattenSeq`
is the concatenation it should be (`Flatten...`, its inner function shown to
exist), how it grows and shrinks at either end, that a prefix of
1, 2, 3, ... cut anywhere is one (`PrefixInOrder`), that a function defined by
recursion up to a bound exists (`RecursiveExists`), and how parts of a sequence
of bytes make up the whole (`Part...`, `CutIs`).

**`TcpForward_proofs`.**  `Spec => []IInv` for any forwards, chunks,
descriptors and bounds, and from it `TypeCorrect`, `WriteStartsOnce`
(`WriteNeverRestarted`), `WritesWhatItHas` (`NoDataLeftWaiting`), `Downstream`
(`DownstreamInOrder`), `Upstreams` (`ClosedOnceAndLast`); and
`Spec => PollTableSpec`, so the theorems of `PollTable_proofs` hold of the table
while the forwards use it (`TableInUse`).

* `Writing` ties the three pieces of a coroutine's state together, in both
  directions: it has a buffer in hand exactly when its resume point is not the
  start, is idle exactly when it has none, and is writing exactly when it has
  something to write.  Each of the two properties is a part of this, and
  neither is inductive alone: that data that arrives finds `idle` right is what
  keeps a suspended write from being restarted.
* `Down` also speaks of forwards whose opening frame is still on its way
  (`Awaited`), of which there is nothing yet (`Opens`); `Shape` says that
  nothing of a forward comes before it.
* `Loop` says what the scan relies on: slot 1 is the websocket's once
  it is up, and POLLOUT in it means there is something to send, although
  `revents` stays behind when entries move.

**`LocalProxy_proofs`.**  `Spec => []IInv`, from it `TypeCorrect`, `NothingIsLost`
(`NothingLost`) and `GivenInItsOrder` (`GivenInOrder`).  What makes them
inductive is the order of the opening (`Opening`): until the LAN host is
reached at most one message is under way and it is of the opening, and once
the proxy sends directly (`connected`) its buffers are empty for good.

**`TunnelServer_proofs`.**  `Spec => []IInv` for any requests, forwards, devices,
names, refusals, losses and hang-ups, and any size of the table.  It comes in
layers, each proved from those before it.

* *The table* (`Numbered`, `Tabled`, `Present`): objects packed and each found
  (the lemmas of `SeqTable_proofs`, used on the server's own calls), each with
  the number of a client that still has it, and the object of everyone who
  needs one.  From it `TableIsKept`, `WaitingFound`, `RequestsGone` and
  `HelloThrowsOnly`.  The point is that `delSeq` is called with whatever
  number a frame or `curr_seq` has: `Tabled` says that the number of the
  frame being received leads to an object of the table as long as no hang-up
  gave it back (`cut = "now"`), so only a second hang-up calls `delSeq`
  through an index that was left behind.
* *What is under way* (`Owned`, `Placed`, `Framed`, `Counted`): every frame carries
  the number of its client; the order of a client is in one place only, on
  one link, at one device or, answered, on the way back; a response is a head
  with its pieces right behind it.
* *What is being received* (`Receiving`, `Passed`): one response, of which exactly
  what is missing is at the front of its device's link.  From it
  `ResponsesAreWhole` and `OwnPieces`.
* *The other way* (`Sending`, `Reached`, `Stays`): a forward's data is numbered as
  it was sent, on one link behind its opening, and what a LAN peer was given
  is before it; with one device that stays, without gaps.  From it
  `BrowserData`.

**`HttpContext_proofs`.**  First `http_parse`: each turn of its loop leaves less
to do (`Left`, the bytes and buffers still to come) and keeps
`offset` and `new_total` true to what was kept (`Parsing`), so the loop ends on
whatever a host sent, however it was cut (`LoopEnds`).  Then `Spec => []IInv`
for any requests, contexts, buffers, responses, segments and faults, and from
it `ReadyOnce` (`ReadyExactly`),
`AnswersAreFrames` (`FramesWhole`), `WebsocketInSlot1`; and `Spec => PT!Spec`
(`UsesPollTable`).  Then what arrives: `ParsedWhole` and `AnswersAreWhole`
(`AnsweredWhole`).  Last, that the buffers suffice: `TypeCorrect` and
`PoolsAddUp` (`PoolsConserved`, whose last conjunct says it).

* `Linked`: the two lists are disjoint, without repetition, and hold exactly
  the contexts whose status is READY.  That every unlinking goes by the status
  alone keeps it only because a context that has not tried to connect yet is READY
  (`Owners`).
* `Owners`: each descriptor of kind HTTP is one live context's and no two have the same;
  without it `http_context_release` could take another's entry out of the table.
* `Accounts` is the sum of the pools after every outcome of every handler; that
  `http_parse` frees as many buffers as it drops is `Parsing` again.
* `Sent`: an answer is queued only when its context ends, so for a
  request that is alive or still to come nothing was sent, and a header is
  followed by its own pieces at once, over any loss of the websocket.
* `Loop`: what the scan relies on, as in `TcpForward`.

These hold whether `intact` or not: the runs' properties say less than is proved.
`AnsweredWhole` takes a second layer, about the bytes and not only how many:

* `ParsedWhole`: from any cut of a whole response into buffers, of which the first
  is not empty, `http_parse` makes the head and the chunks' data, as many bytes
  as `new_total` says.  `Laid` says where the size lines and the data of a
  response are (`WireLaid` builds it from `Wire`); `Reads`, which each turn of the
  loop keeps (`ReadsTurn`), says which line or data the automaton is in, that what
  it has of a line is in `chunk_str`, that its buffer and those behind it hold
  what comes next (`HasRead`), and that what it kept is the data before.  A size line
  or its CR LF may be cut anywhere: that is what `InLine` is about.
* `Hosted`: until a context ends, its full buffers, `buf_read.curr`, the socket
  and what the host has still to say make up the response, unless the
  connection was cut short; and a saved buffer is never empty.
* `Reported`: what `poll` said of a hangup still holds when the scan comes to the
  slot, however entries moved in between; so `http_mgmt_service` never ends a
  context at POLLERR or POLLHUP whose host had said everything.

That the pool is never overdrawn, where `Accounts` only says that the sums are
right, takes a third:

* `Stored`: what a context holds of a response begins with the response's head, whatever was
  cut off its end.  So `http_chunk_check`, when it is asked at all, finds a head and tries
  `alloc_buf`; if that gave it none, no answer is queued and nothing is taken.
* `Behind`: what `http_parse` has kept ends before the place where it reads, and at
  least a byte before it while it copies, since a size line was read in between.
  `PacksBehind` draws the conclusions the code relies on: copying within the first
  buffer (where `last_buf` is `buf_info`) overwrites nothing unread, and each time
  `last_buf` is full fewer buffers are in use than were read and looked for, so the
  `assert(NULL != last_buf)` at `http_client.c:1155` holds; the model has no
  case for its failure.
* `ParsedFits`: so `http_parse` never keeps more buffers than it was given.
  An answer therefore takes what its context gives back and one for the header,
  which is the one `http_chunk_check` had.

Assumed, besides the assumptions above (each named in its module and evaluated
by TLC in its runs): in `TcpForward` that the sizes are numbers and the table
has room for the listener and the websocket; in `LocalProxy` that the bounds are
numbers; in `TunnelServer` that the table has room for one number, that
requests are not forwards, and that `null` is no client, name, device, object
or number; in `HttpContext` that the bounds are numbers, a request, a buffer,
a chunk and a segment are not empty, and the table has room for the listener and the
websocket; and, for what arrives (`ReplyAssumption`), that hosts write a chunk's size as
a digit that fits `chunk_str` with the zeros before it, since `http_parse` gives up on a
longer line (errcode 12).

Model-checked only: all liveness, which the prover does not reach.  The type invariants (`TypeOK`) are not in the runs'
lists where a run has other questions to ask; adding one to a configuration of
its module checks it.

## 6. Not modelled

Payload contents, header rewriting, script insertion, login and rendering;
third-party code (libwebsockets beyond the client connection of `WsClient` and
its calls into the client, cJSON, noVNC, zlib); earlier versions of the server.  Within modelled parts: the lists of
`list.h` as pointers (a pool is a count, and what happens after a node was in
two lists is not described), exhaustion of the pool in `TcpForward`, requests
longer than a buffer of the local clients, several users, a frame head split over
two websocket messages, the tunnel request 0x5, several local connections of
one proxy (they share nothing but the process).

The local clients of the client (`tcp_server`, `tcp_client`) are in the poll
table only.  The 10 s timeouts of HTTP contexts are not modelled because they
do not happen: `http_mgmt_run_timeout` is called when `poll` fails, which ends
the loop and releases every context (`WebsocketLost`, `ReleaseAll`).

## 7. Plan

Done: `PollTable`, `TcpForward`, `HttpParse`, `HttpContext`, `WsClient`,
`TunnelClient`, `SeqMap`, `SeqTable`, `TunnelServer`, `LocalProxy`,
`SequenceLemmas`, the seven proof modules.  Next, in this order:

1. `TcpServer`: the local clients, their requests and events; `WebcamManager`.
2. `BufPool`: `list.h` and the pools at the level of nodes: the release of a
   buffer in the middle of a write.
3. `Tunnel`: an end-to-end specification (a forward as two FIFO channels that
   close once), refined by `TcpForward` for the client's part.
