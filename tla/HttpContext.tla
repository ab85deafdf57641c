---------------------------- MODULE HttpContext ----------------------------
(***************************************************************************)
(* HTTP requests in the web-tunnel client: each request the server sends   *)
(* gets a context (http_client.c), which connects to a host of the LAN,    *)
(* writes the request, reads the response until the host closes, takes its *)
(* chunks apart and queues it for the server.  Around them: http_mgmt_run  *)
(* with its list of ready contexts, poll() and the scan of main() in       *)
(* web-tunnel.c, the pools of contexts and buffers, and the loss of the    *)
(* websocket, after which main() releases every context and reconnects.    *)
(*                                                                         *)
(* Requests are numbered in the order the server sends them, and a request *)
(* number stands for the sequence number it travels with.                  *)
(***************************************************************************)
EXTENDS HttpParse, FiniteSets

CONSTANTS Requests,   \* bound: how many requests the server sends
          MaxFds,     \* size of the poll table
          NumCtx,     \* CALLER_CACHES
          NumBufs,    \* HTTPBUF_CACHES
          RequestBufs,\* buffers a request fills
          MaxLength,  \* bound: bytes in a response without chunks
          MaxChunk,   \* bound: bytes in a chunk
          MaxChunks,  \* bound: chunks in a response
          Pad,        \* bound: zeros in front of a chunk's size
          Chunking,   \* bound: the requests whose hosts may answer in chunks
          Segment,    \* bound: bytes a host sends at a time
          MaxFaults   \* bound: hosts that refuse, reset or give up, failures of
                      \* socket(), losses of the websocket

Listener  == 0
Websocket == 1
Reqs      == 1..Requests

\* The table has room for the listening socket and the websocket.
ASSUME ConstantsAssumption ==
    /\ {Requests, MaxFds, NumCtx, NumBufs, MaxLength, MaxChunks, Pad, MaxFaults} \subseteq Nat
    /\ {RequestBufs, MaxChunk, Segment} \subseteq Nat \ {0} /\ MaxFds >= 2
    /\ Chunking \subseteq Reqs

\* Hosts write the size of a chunk as a digit that, with the zeros before it,
\* fits chunk_str; http_parse gives up on a longer line (errcode 12).
ASSUME ReplyAssumption == MaxChunk <= 15 /\ Pad + 1 < ChunkMax

VARIABLES count_pollfds, slotFd, slotEvents, fd_lookup, kind, pfd
table == <<count_pollfds, slotFd, slotEvents, fd_lookup, kind, pfd>>

PT == INSTANCE PollTable

VARIABLES
    revents,     \* pollfds[slot].revents
    phase,       \* where main() is: "run", "scan", "closing" or "reconn"
    scan,        \* the slot it services
    running,     \* the contexts http_mgmt_run spliced off, still to execute
    list_ready,  \* mgmt->list_ready
    ready_len,   \* mgmt->ready_len
    ctx,         \* the context of each request
    ctx_caches,  \* contexts in the pool
    buf_caches,  \* buffers in the pool
    prepared,    \* buffers left in buf_prepare.list_todo
    toserver,    \* buf_toserver.list_todo
    server,      \* what the server received
    asked,       \* requests the server sent
    taken,       \* requests the client took
    host,        \* the LAN host of each request, and the kernel's socket
    faults,      \* the faults so far
    leaked,      \* contexts neither in use nor in the pool
    intact       \* no crash and no corruption of the pools so far

lists  == <<running, list_ready, ready_len>>
main   == <<phase, scan>>
pools  == <<ctx_caches, buf_caches, leaked>>
wire   == <<toserver, server, asked, taken, prepared, faults>>
vars   == <<table, revents, main, lists, ctx, pools, wire, host, intact>>

NoContext == [alive |-> FALSE, fd |-> PT!Uninit, func |-> "connect",
              status |-> "READY", line |-> "start", write |-> 0, half |-> FALSE, wcurr |-> FALSE,
              read |-> <<>>, rcurr |-> FALSE, rbytes |-> <<>>]
NoHost == [st |-> "none", got |-> FALSE, full |-> FALSE, reply |-> <<>>,
           left |-> <<>>, rx |-> <<>>, fin |-> FALSE, whole |-> FALSE]

Alive == {r \in Reqs : ctx[r].alive}
OwnerOf(fd) == CHOOSE r \in Alive : ctx[r].fd = fd

Free == PT!Fd \ PT!Registered
LowestFree == CHOOSE fd \in Free : \A other \in Free : fd <= other

\* f[1] + ... + f[n].
Total(f, n) ==
    LET Sum[k \in 0..n] == IF k = 0 THEN 0 ELSE Sum[k - 1] + f[k]
    IN  Sum[n]

\* A response, as a host writes it: its length, or the sizes of its chunks
\* with size lines padded with zeros.
RepliesTo(r) ==
    [chunked : {FALSE}, length : 0..MaxLength, chunks : {<<>>}, pad : {0}] \cup
    (IF r \notin Chunking THEN {}
     ELSE [chunked : {TRUE}, length : {0}, pad : {Pad},
           chunks : UNION {[1..n -> {1, MaxChunk}] : n \in 0..MaxChunks}])
DataBytes(from, n) == [k \in 1..n |-> IF from + k = 2 THEN CR ELSE 100 + from + k]
Before(sizes, c) == Total(sizes, c - 1)
SizeLine(pad, n) == [z \in 1..pad |-> 0] \o <<n, CR, LF>>
Wire(reply) ==
    IF ~reply.chunked THEN <<PlainHead>> \o DataBytes(0, reply.length)
    ELSE <<ChunkedHead>>
         \o FlattenSeq([c \in 1..Len(reply.chunks) |->
              SizeLine(reply.pad, reply.chunks[c])
                \o DataBytes(Before(reply.chunks, c), reply.chunks[c])
                \o <<CR, LF>>])
         \o SizeLine(reply.pad, 0) \o <<CR, LF>>

-----------------------------------------------------------------------------
(* poll() and the scan of main().                                          *)

HostReady(k) ==
    CASE k.st = "new"        -> {"POLLOUT", "POLLHUP"}
      [] k.st = "connecting" -> {}
      [] k.st = "dead"       -> {"POLLIN", "POLLOUT", "POLLERR", "POLLHUP"}
      [] k.st = "connected"  -> {f \in {"POLLIN"}  : k.rx # <<>> \/ k.fin} \cup
                                {f \in {"POLLOUT"} : ~k.full}

Ready(fd) ==
    CASE kind[fd] = "WEBSOCKET" -> {f \in {"POLLIN"}  : asked > taken} \cup
                                   {f \in {"POLLOUT"} : toserver # <<>>}
      [] kind[fd] = "HTTP"      -> HostReady(host[OwnerOf(fd)])
      [] OTHER                  -> {}

Polled ==
    [slot \in PT!Slot |->
        IF slot >= count_pollfds THEN revents[slot]
        ELSE Ready(slotFd[slot]) \cap
             (slotEvents[slot] \cup {"POLLERR", "POLLHUP"} \cup
              (IF slotFd[slot] = Websocket THEN {"POLLOUT"} ELSE {}))]

\* The scan goes on after slot n; when no slot is left, main() is back at
\* http_mgmt_run.
ScanFrom(n, rev, count) ==
    LET later == {m \in (n + 1)..(count - 1) : rev[m] # {}}
    IN  IF later = {} THEN phase' = "run" /\ scan' = 0
        ELSE /\ phase' = "scan"
             /\ scan' = CHOOSE m \in later : \A o \in later : m <= o

\* pfd->revents = 0 at the end of http_mgmt_service, and the next slot.
ServiceDone(rev) ==
    LET cleared == [rev EXCEPT ![scan] = {}]
    IN  /\ revents' = cleared
        /\ ScanFrom(scan, cleared, count_pollfds')

\* http_mgmt_run: the ready lists are spliced off ...
Run ==
    /\ phase = "run" /\ intact /\ running = <<>> /\ list_ready # <<>>
    /\ phase' = "running"
    /\ running' = list_ready
    /\ list_ready' = <<>>
    /\ UNCHANGED <<table, revents, scan, ready_len, ctx, pools, wire, host, intact>>

\* ... and when each context was executed, poll() comes.
PollFrom(from) ==
    /\ phase = from /\ intact /\ running = <<>>
    /\ revents' = Polled
    /\ ScanFrom(-1, Polled, count_pollfds)
    /\ UNCHANGED <<table, lists, ctx, pools, wire, host, intact>>
Poll == PollFrom("running") \/ (list_ready = <<>> /\ PollFrom("run"))

-----------------------------------------------------------------------------
(* http_context_execute and http_context_release.                          *)

\* Main() runs a context's coroutine from http_mgmt_run or for its slot.
FromRun(r)  == phase = "running" /\ running # <<>> /\ Head(running) = r
FromSlot(r) == /\ phase = "scan" /\ r \in Alive /\ slotFd[scan] = ctx[r].fd
               /\ revents[scan] \cap {"POLLERR", "POLLHUP"} = {}
Executing(r, func) ==
    /\ intact
    /\ FromRun(r) \/ FromSlot(r)
    /\ ctx[r].func = func

\* The lists once a READY context has been unlinked (list_del).
Unlinked(r) ==
    IF ctx[r].status = "READY"
    THEN [running |-> RemoveFirst(running, r), ready |-> RemoveFirst(list_ready, r),
          len |-> ready_len - 1]
    ELSE [running |-> running, ready |-> list_ready, len |-> ready_len]
SetLists(l) == /\ running' = l.running
               /\ list_ready' = l.ready
               /\ ready_len' = l.len

\* On to the next context, or to the next slot.
Goes(r, rev) ==
    IF FromRun(r) THEN revents' = rev /\ UNCHANGED main ELSE ServiceDone(rev)

\* Mutant of Continues: the context is not linked in a ready list again.
Continues_not_linked(r, changed) ==
    /\ SetLists(Unlinked(r))
    /\ ctx' = [ctx EXCEPT ![r] = changed]
    /\ Goes(r, revents)
Continues(r, changed) ==
    /\ SetLists([Unlinked(r) EXCEPT !.ready = <<r>> \o @, !.len = @ + 1])
    /\ ctx' = [ctx EXCEPT ![r] = changed]
    /\ Goes(r, revents)
Pends(r, changed) ==
    /\ SetLists(Unlinked(r))
    /\ ctx' = [ctx EXCEPT ![r] = [changed EXCEPT !.status = "PENDING"]]
    /\ Goes(r, revents)

\* Buffers a context holds.
BufsOf(c) == c.write + Len(c.read) + (IF c.rcurr THEN 1 ELSE 0)

MovedRevents(fd) ==
    [revents EXCEPT ![fd_lookup[fd]] = revents[count_pollfds - 1]]

\* http_context_release: the socket, the poll table's entry, the buffers and
\* the context are given back.  buf_write.curr (if writing) is put into the
\* pool while it is still linked in list_todo, which corrupts the pool.
\* queued is what the context moved to the server's queue before; owed is
\* whether it had its chance to: it found a buffer, the websocket was there.
http_context_release(r, queued, writing, owed) ==
    /\ PT!ContextRelease(ctx[r].fd)
    /\ SetLists(Unlinked(r))
    /\ ctx' = [ctx EXCEPT ![r] = NoContext]
    /\ ctx_caches' = ctx_caches + 1
    /\ buf_caches' = buf_caches + BufsOf(ctx[r]) - Len(queued)
    /\ toserver' = toserver \o queued
    /\ host' = [host EXCEPT ![r].st = "closed", ![r].left = <<>>, ![r].rx = <<>>,
                            ![r].whole = @ /\ owed]
    /\ intact' = ~writing
    /\ UNCHANGED <<leaked, server, asked, taken, prepared, faults>>

\* CALLER_FINISH: generate_error's frame comes first, if it gets a buffer.
Finishes(r, queued, writing, owed) ==
    /\ http_context_release(r, queued, writing, owed)
    /\ Goes(r, MovedRevents(ctx[r].fd))

\* A NULL buffer is used, or list_del of one: the process dies.
Crashes ==
    /\ intact' = FALSE
    /\ UNCHANGED <<table, revents, main, lists, ctx, pools, wire, host>>

Error(r) == [seq |-> r, what |-> "404", len |-> 0, data |-> <<>>]
HEADER_LEN == 16
Header(r, len) == [seq |-> r, what |-> "header", len |-> HEADER_LEN + len, data |-> <<>>]
Piece(r, buf) == [seq |-> r, what |-> "data", len |-> Len(buf), data |-> buf]

-----------------------------------------------------------------------------
(* The coroutines.                                                         *)

\* http_context_connect.  It looks at the revents its pfd points at, and
\* calls connect() again as long as that is not exactly POLLOUT.
SaysConnected(r) == revents[pfd[ctx[r].fd]] = {"POLLOUT"}

ConnectDone(r) ==
    /\ Executing(r, "connect")
    /\ SaysConnected(r) \/ host[r].st \in {"new", "connected"}
    /\ UNCHANGED table
    /\ Continues(r, [ctx[r] EXCEPT !.func = "write", !.line = "start"])
    /\ host' = IF SaysConnected(r) THEN host ELSE [host EXCEPT ![r].st = "connected"]
    /\ UNCHANGED <<pools, wire, intact>>

\* Mutant of ConnectPending: the coroutine returns CALLER_PENDING while it
\* is connecting.
ConnectPending_pends(r) ==
    /\ Executing(r, "connect")
    /\ ~SaysConnected(r) /\ host[r].st \in {"new", "connecting"}
    /\ PT!ContextChangeMode(ctx[r].fd, {"POLLOUT"})
    /\ Pends(r, ctx[r])
    /\ host' = [host EXCEPT ![r].st = "connecting"]
    /\ UNCHANGED <<pools, wire, intact>>

\* EINPROGRESS or EALREADY: the context stays ready.
ConnectPending(r) ==
    /\ Executing(r, "connect")
    /\ ~SaysConnected(r) /\ host[r].st \in {"new", "connecting"}
    /\ PT!ContextChangeMode(ctx[r].fd, {"POLLOUT"})
    /\ Continues(r, ctx[r])
    /\ host' = [host EXCEPT ![r].st = "connecting"]
    /\ UNCHANGED <<pools, wire, intact>>

ConnectFails(r) ==
    /\ Executing(r, "connect")
    /\ ~SaysConnected(r) /\ host[r].st \in {"new", "dead"}
    /\ Finishes(r, IF buf_caches > 0 THEN <<Error(r)>> ELSE <<>>, FALSE, TRUE)

\* Mutant of WriteAll: the buffers written stay in list_todo.
WriteAll_not_unlinked(r) ==
    /\ Executing(r, "write") /\ ctx[r].line # "eagain"
    /\ host[r].st = "connected" /\ ~host[r].full
    /\ PT!ContextChangeMode(ctx[r].fd, {"POLLIN"})
    /\ Pends(r, [ctx[r] EXCEPT !.func = "read", !.line = "start",
                               !.half = FALSE, !.wcurr = FALSE])
    /\ buf_caches' = buf_caches + ctx[r].write
    /\ host' = [host EXCEPT ![r].got = TRUE]
    /\ UNCHANGED <<wire, ctx_caches, leaked, intact>>

\* http_context_write: everything is written, and the context reads.
WriteAll(r) ==
    /\ Executing(r, "write") /\ ctx[r].line # "eagain"
    /\ host[r].st = "connected" /\ ~host[r].full
    /\ PT!ContextChangeMode(ctx[r].fd, {"POLLIN"})
    /\ Pends(r, [ctx[r] EXCEPT !.func = "read", !.line = "start",
                               !.write = 0, !.half = FALSE, !.wcurr = FALSE])
    /\ buf_caches' = buf_caches + ctx[r].write
    /\ host' = [host EXCEPT ![r].got = TRUE]
    /\ UNCHANGED <<wire, ctx_caches, leaked, intact>>

\* The kernel takes some buffers and perhaps half of the next.
WriteSome(r, bufs, part) ==
    /\ Executing(r, "write") /\ ctx[r].line # "eagain"
    /\ host[r].st = "connected" /\ ~host[r].full
    /\ bufs < ctx[r].write /\ (bufs > 0 \/ (part /\ ~ctx[r].half))
    /\ UNCHANGED table
    /\ Pends(r, [ctx[r] EXCEPT !.write = @ - bufs, !.wcurr = TRUE, !.half = part,
                               !.line = IF part THEN "partial" ELSE "eagain"])
    /\ buf_caches' = buf_caches + bufs
    /\ host' = [host EXCEPT ![r].full = TRUE]
    /\ UNCHANGED <<wire, ctx_caches, leaked, intact>>

\* EAGAIN; or the coroutine resumes after one, where n is 0 again and one
\* more round passes.
WriteAgain(r) ==
    /\ Executing(r, "write")
    /\ \/ ctx[r].line = "eagain" \/ host[r].st = "connecting"
       \/ host[r].st = "connected" /\ host[r].full
    /\ UNCHANGED table
    /\ Pends(r, [ctx[r] EXCEPT !.wcurr = TRUE,
                   !.line = IF ctx[r].line = "eagain" THEN "partial" ELSE "eagain"])
    /\ UNCHANGED <<pools, wire, host, intact>>

\* write() fails: no errcode is set, so no answer is sent.
WriteFails(r) ==
    /\ Executing(r, "write") /\ ctx[r].line # "eagain"
    /\ host[r].st \in {"new", "dead"}
    /\ Finishes(r, <<>>, TRUE, TRUE)

\* http_context_read takes a buffer first, and uses it unseen.
CanRead(r) == ctx[r].rcurr \/ buf_caches > 0
Taken(r) == IF ctx[r].rcurr THEN 0 ELSE 1

ReadSome(r) ==
    /\ Executing(r, "read") /\ CanRead(r)
    /\ host[r].st = "connected" /\ host[r].rx # <<>>
    /\ UNCHANGED table
    /\ LET c    == ctx[r]
           room == BufSize - Len(c.rbytes)
           n    == IF Len(host[r].rx) < room THEN Len(host[r].rx) ELSE room
           got  == c.rbytes \o SubSeq(host[r].rx, 1, n)
       IN  /\ IF Len(got) = BufSize
              THEN Pends(r, [c EXCEPT !.read = Append(@, got), !.rcurr = FALSE,
                                      !.rbytes = <<>>])
              ELSE Pends(r, [c EXCEPT !.rcurr = TRUE, !.rbytes = got])
           /\ host' = [host EXCEPT ![r].rx = SubSeq(@, n + 1, Len(@))]
    /\ buf_caches' = buf_caches - Taken(r)
    /\ UNCHANGED <<wire, ctx_caches, leaked, intact>>

ReadAgain(r) ==
    /\ Executing(r, "read") /\ CanRead(r)
    /\ \/ host[r].st = "connected" /\ host[r].rx = <<>> /\ ~host[r].fin
       \/ host[r].st = "connecting"
    /\ UNCHANGED table
    /\ Pends(r, [ctx[r] EXCEPT !.rcurr = TRUE])
    /\ buf_caches' = buf_caches - Taken(r)
    /\ UNCHANGED <<wire, host, ctx_caches, leaked, intact>>

ReadCrashes(r) == Executing(r, "read") /\ ~CanRead(r) /\ Crashes

\* The frame http_context_finish queues.
ResponseFrame(r, p) ==
    <<Header(r, p.len)>> \o [i \in 1..Len(p.bufs) |-> Piece(r, p.bufs[i])]

\* End of file or an error: what was read is parsed and queued.  The result
\* of http_context_finish is not looked at, only errcode.
ReadEnds(r) ==
    /\ Executing(r, "read") /\ CanRead(r)
    /\ \/ host[r].st = "connected" /\ host[r].rx = <<>> /\ host[r].fin
       \/ host[r].st \in {"new", "dead"}
    /\ LET c      == ctx[r]
           bufs   == IF c.rbytes = <<>> THEN c.read ELSE Append(c.read, c.rbytes)
           memory == buf_caches > 0 \/ (c.rcurr /\ c.rbytes = <<>>)
           p      == http_parse(bufs, memory)
       IN  IF p.rc = Crash THEN Crashes
           ELSE Finishes(r, IF p.rc = 0 THEN ResponseFrame(r, p)
                            ELSE IF p.errcode \in {12, 15} THEN <<Error(r)>>
                            ELSE <<>>, FALSE, memory)

\* http_mgmt_service on POLLERR or POLLHUP: a context that is reading is
\* finished with what it saved (not with buf_read.curr), and in any case it
\* is released with no error response.
HangsUp(r) ==
    /\ intact /\ phase = "scan" /\ r \in Alive /\ slotFd[scan] = ctx[r].fd
    /\ revents[scan] \cap {"POLLERR", "POLLHUP"} # {}
    /\ LET p == IF ctx[r].func = "read" THEN http_parse(ctx[r].read, buf_caches > 0)
                ELSE Parsed(-1, 0, <<>>, 0)
       IN  IF p.rc = Crash THEN Crashes
           ELSE Finishes(r, IF p.rc = 0 THEN ResponseFrame(r, p) ELSE <<>>,
                         ctx[r].wcurr, TRUE)

-----------------------------------------------------------------------------
(* The websocket's slot, and its loss.                                     *)

\* http_mgmt_writable: one piece.
Writeable ==
    /\ intact /\ phase = "scan" /\ scan = 1 /\ "POLLOUT" \in revents[1]
    /\ server' = Append(server, Head(toserver))
    /\ toserver' = Tail(toserver)
    /\ buf_caches' = buf_caches + 1
    /\ LET rev == [revents EXCEPT ![1] = @ \ {"POLLOUT"}]
       IN  /\ revents' = rev
           /\ IF rev[1] # {} THEN UNCHANGED main
              ELSE ScanFrom(1, rev, count_pollfds)
    /\ UNCHANGED <<table, lists, ctx, ctx_caches, leaked, asked, taken, prepared,
                   faults, host, intact>>

\* A request arrives: http_mgmt_prepare releases what buf_prepare still held
\* and puts the request's buffers together, got of them here; prepare_process
\* then calls http_context_create.
Receive(got) ==
    /\ intact /\ phase = "scan" /\ scan = 1 /\ revents[1] = {"POLLIN"}
    /\ (buf_caches + prepared >= RequestBufs) = (got > 0)
    /\ taken' = taken + 1
    /\ UNCHANGED <<toserver, server, asked, intact>>

\* Not enough buffers: the request is dropped.
RequestDropped ==
    /\ Receive(0)
    /\ UNCHANGED table
    /\ buf_caches' = buf_caches + prepared
    /\ prepared' = 0
    /\ ServiceDone(revents)
    /\ UNCHANGED <<lists, ctx, ctx_caches, leaked, faults, host>>

\* alloc_context fails: success is returned, so the buffers stay in
\* buf_prepare, and nobody is told.
NoContextLeft ==
    /\ Receive(RequestBufs) /\ ctx_caches = 0
    /\ UNCHANGED table
    /\ buf_caches' = buf_caches + prepared - RequestBufs
    /\ prepared' = RequestBufs
    /\ ServiceDone(revents)
    /\ UNCHANGED <<lists, ctx, ctx_caches, leaked, faults, host>>

\* socket() fails: the test that should give the context back is inverted.
SocketFails ==
    /\ Receive(RequestBufs) /\ ctx_caches > 0 /\ faults < MaxFaults
    /\ faults' = faults + 1
    /\ UNCHANGED table
    /\ ctx_caches' = ctx_caches - 1
    /\ leaked' = leaked + 1
    /\ buf_caches' = buf_caches + prepared
    /\ prepared' = 0
    /\ ServiceDone(revents)
    /\ UNCHANGED <<lists, ctx, host>>

\* http_context_create and http_context_init.
http_context_create ==
    /\ Receive(RequestBufs) /\ ctx_caches > 0 /\ Free # {}
    /\ LET r  == taken + 1
           fd == LowestFree
       IN  /\ PT!ContextOpen(fd, "HTTP")
           /\ ctx' = [ctx EXCEPT ![r] = [NoContext EXCEPT !.alive = TRUE, !.fd = fd,
                                                          !.write = RequestBufs]]
           /\ host' = [host EXCEPT ![r].st = "new"]
           /\ list_ready' = <<r>> \o list_ready
    /\ ready_len' = ready_len + 1
    /\ ctx_caches' = ctx_caches - 1
    /\ buf_caches' = buf_caches + prepared - RequestBufs
    /\ prepared' = 0
    /\ ServiceDone([revents EXCEPT ![count_pollfds] = {}])
    /\ UNCHANGED <<running, leaked, faults>>

\* was_closed, seen at the end of a scan: libwebsocket_context_destroy takes
\* the websocket out of the table; what was on its way is lost.
WebsocketLost ==
    /\ intact /\ phase = "run" /\ kind[Websocket] = "WEBSOCKET" /\ faults < MaxFaults
    /\ faults' = faults + 1
    /\ phase' = "closing"
    /\ PT!WebsocketDel(Websocket)
    /\ revents' = MovedRevents(Websocket)
    /\ taken' = asked
    /\ prepared' = 0
    /\ buf_caches' = buf_caches + prepared
    /\ UNCHANGED <<scan, lists, ctx, ctx_caches, leaked, toserver, server, asked,
                   host, intact>>

\* http_mgmt_release_all, one context of list_timeout after the other: each
\* was given the same timeout when it was created, so the oldest is first.
ReleaseAll(r) ==
    /\ intact /\ phase = "closing" /\ r \in Alive /\ \A o \in Alive : r <= o
    /\ http_context_release(r, <<>>, ctx[r].wcurr, FALSE)
    /\ revents' = MovedRevents(ctx[r].fd)
    /\ UNCHANGED main

\* reconn: the queue for the server is kept.
Reconnect ==
    /\ intact /\ phase \in {"reconn", "closing"} /\ Alive = {}
    /\ PT!WebsocketAdd(LowestFree)
    /\ phase' = "run"
    /\ revents' = [revents EXCEPT ![count_pollfds] = {}]
    /\ UNCHANGED <<scan, lists, ctx, pools, wire, host, intact>>

-----------------------------------------------------------------------------
(* The environment: the server, the kernel and the LAN hosts.              *)

\* Only poll() sees that a request has arrived, so it may as well arrive
\* just before.
ServerAsks ==
    /\ phase = "run" /\ asked < Requests /\ kind[Websocket] = "WEBSOCKET"
    /\ asked' = asked + 1
    /\ UNCHANGED <<table, revents, main, lists, ctx, pools, toserver, server, taken,
                   prepared, faults, host, intact>>

Kernel(r, to, fault) ==
    /\ intact
    /\ host' = [host EXCEPT ![r] = to]
    /\ faults + fault <= MaxFaults
    /\ faults' = faults + fault
    /\ UNCHANGED <<table, revents, main, lists, ctx, pools, toserver, server, asked,
                   taken, prepared, intact>>

Established(r) ==
    /\ host[r].st = "connecting"
    /\ Kernel(r, [host[r] EXCEPT !.st = "connected"], 0)
RefusedOrReset(r) ==
    /\ host[r].st \in {"connecting", "connected"}
    /\ Kernel(r, [host[r] EXCEPT !.st = "dead", !.whole = FALSE], 1)
HostReads(r) ==
    /\ host[r].st = "connected" /\ host[r].full
    /\ Kernel(r, [host[r] EXCEPT !.full = FALSE], 0)
HostReplies(r) ==
    /\ host[r].st = "connected" /\ host[r].got /\ host[r].reply = <<>>
    /\ \E reply \in RepliesTo(r) :
          Kernel(r, [host[r] EXCEPT !.reply = <<reply>>, !.left = Wire(reply)], 0)
HostSends(r) ==
    /\ host[r].st = "connected" /\ host[r].left # <<>>
    /\ LET left == host[r].left
           n    == IF Len(left) < Segment THEN Len(left) ELSE Segment
       IN  Kernel(r, [host[r] EXCEPT !.rx = @ \o SubSeq(left, 1, n),
                                    !.left = SubSeq(@, n + 1, Len(@))], 0)
\* A host closes when it has said everything; whole remembers that.
HostCloses(r) ==
    /\ host[r].st = "connected" /\ ~host[r].fin
    /\ host[r].reply # <<>> /\ host[r].left = <<>>
    /\ Kernel(r, [host[r] EXCEPT !.fin = TRUE, !.whole = TRUE], 0)
\* Or before.
HostGivesUp(r) ==
    /\ host[r].st = "connected" /\ ~host[r].fin /\ host[r].left # <<>>
    /\ Kernel(r, [host[r] EXCEPT !.fin = TRUE, !.left = <<>>], 1)

-----------------------------------------------------------------------------

\* Earlier requests may have leaked contexts.
Init ==
    /\ PT!Init
    /\ revents = [slot \in PT!Slot |-> {}]
    /\ phase = "reconn" /\ scan = 0
    /\ running = <<>> /\ list_ready = <<>> /\ ready_len = 0
    /\ ctx = [r \in Reqs |-> NoContext]
    /\ leaked \in 0..MaxFaults /\ leaked <= NumCtx
    /\ faults = leaked /\ ctx_caches = NumCtx - leaked
    /\ buf_caches = NumBufs
    /\ toserver = <<>> /\ server = <<>> /\ asked = 0 /\ taken = 0
    /\ prepared = 0
    /\ host = [r \in Reqs |-> NoHost]
    /\ intact = TRUE

Executes(r) ==
    \/ ConnectDone(r) \/ ConnectPending(r) \/ ConnectFails(r)
    \/ WriteAll(r) \/ WriteAgain(r) \/ WriteFails(r)
    \/ \E bufs \in 0..(RequestBufs - 1), part \in BOOLEAN : WriteSome(r, bufs, part)
    \/ ReadSome(r) \/ ReadAgain(r) \/ ReadEnds(r) \/ ReadCrashes(r)

Client ==
    \/ Run \/ Poll \/ Writeable \/ Reconnect
    \/ RequestDropped \/ NoContextLeft \/ SocketFails \/ http_context_create
    \/ \E r \in Reqs : Executes(r) \/ HangsUp(r) \/ ReleaseAll(r)

LanHost(r) ==
    \/ Established(r) \/ HostReads(r) \/ HostReplies(r) \/ HostSends(r)
    \/ HostCloses(r)

\* What the process does once it crashed or its pools are corrupted is not
\* described.
Undefined == ~intact /\ UNCHANGED vars

Next ==
    \/ Client \/ WebsocketLost \/ ServerAsks \/ Undefined
    \/ \E r \in Reqs : LanHost(r) \/ RefusedOrReset(r) \/ HostGivesUp(r)

\* The main loop never stops; the kernel ends a connection attempt one way
\* or the other; a LAN host reads, answers and closes.
Fairness ==
    /\ WF_vars(Client)
    /\ \A r \in Reqs : WF_vars(LanHost(r))

Spec == Init /\ [][Next]_vars /\ Fairness

-----------------------------------------------------------------------------
(* Properties.                                                             *)

\* Every variable holds a value the program can store in it.
TypeOK ==
    /\ PT!TypeOK
    /\ revents \in [PT!Slot -> SUBSET {"POLLIN", "POLLOUT", "POLLERR", "POLLHUP"}]
    /\ phase \in {"reconn", "run", "running", "scan", "closing"} /\ scan \in PT!Slot
    /\ running \in Seq(Reqs) /\ list_ready \in Seq(Reqs) /\ ready_len \in Int
    /\ \A r \in Reqs : /\ ctx[r].fd \in PT!Fd \cup {PT!Uninit}
                        /\ ctx[r].status \in {"READY", "PENDING"}
                        /\ ctx[r].write \in 0..RequestBufs
    /\ ctx_caches \in 0..NumCtx /\ buf_caches \in 0..NumBufs
    /\ taken \in 0..asked /\ asked \in 0..Requests

\* A context is linked in a ready list exactly when its status is READY, and
\* once: http_context_execute, http_mgmt_service and http_mgmt_release_all
\* unlink it by its status alone, and insert_ready_prio links it without
\* looking.  ready_len counts those linked.
ReadyExactly ==
    intact =>
    LET linked == running \o list_ready
    IN  /\ IsInjective(linked)
        /\ Range(linked) = {r \in Alive : ctx[r].status = "READY"}
        /\ ready_len = Len(linked)

Frames == server \o toserver

\* Every buffer and every context is in its pool or in one place that will
\* give it back, whatever way a request ends; only a failing socket() loses
\* contexts (http_context_create's inverted test).  And the pool is never
\* overdrawn, although http_context_finish takes the buffer for the header of
\* an answer without looking whether alloc_buf had one to give.
PoolsConserved ==
    intact =>
    /\ ctx_caches + Cardinality(Alive) + leaked = NumCtx
    /\ buf_caches + prepared + Len(toserver)
         + Total([r \in Reqs |-> BufsOf(ctx[r])], Requests) = NumBufs
    /\ buf_caches >= 0

\* What a host said to the end is what the server is sent, and all that it is
\* sent of the request: one header whose length counts the pieces that follow
\* it at once, and in them the head and the body, without the chunks' size
\* lines (http_context_read, http_parse and http_context_finish).
Body(reply) ==
    IF reply.chunked
    THEN <<ChunkedHead>> \o DataBytes(0, Before(reply.chunks, Len(reply.chunks) + 1))
    ELSE Wire(reply)
AnsweredWhole ==
    \A r \in Reqs :
        host[r].st = "closed" /\ host[r].whole /\ intact =>
            LET body == Body(host[r].reply[1])
            IN  \E i \in DOMAIN Frames : \E n \in 0..(Len(Frames) - i) :
                  /\ Frames[i] = Header(r, Len(body))
                  /\ FlattenSeq([k \in 1..n |-> Frames[i + k].data]) = body
                  /\ \A k \in DOMAIN Frames : Frames[k].seq = r <=> k \in i..(i + n)

\* The server counts bytes: a header is followed by exactly its own pieces,
\* with nothing of another request in between, and no request is answered
\* twice.
FramesWhole ==
    /\ \A i \in DOMAIN Frames :
          Frames[i].what = "header" =>
            \E n \in 0..(Len(Frames) - i) :
              /\ \A k \in 1..n : /\ Frames[i + k].what = "data"
                                 /\ Frames[i + k].seq = Frames[i].seq
              /\ HEADER_LEN + Total([k \in 1..n |-> Frames[i + k].len], n) = Frames[i].len
              /\ (i + n < Len(Frames) => Frames[i + n + 1].what # "data")
    /\ \A i, k \in {a \in DOMAIN Frames : Frames[a].what # "data"} :
          Frames[i].seq = Frames[k].seq => i = k

\* A context that waits to write in a slot poll() does not watch for that:
\* its pfd was stale, or connect() succeeded at once.
Stuck(r) ==
    /\ ctx[r].alive /\ ctx[r].func = "write" /\ ctx[r].status = "PENDING"
    /\ "POLLOUT" \notin slotEvents[fd_lookup[ctx[r].fd]]

\* Every context ends (there is no timeout that would see to it), unless it
\* is stuck or the process is not intact any more.
RequestsEnd ==
    \A r \in Reqs : ctx[r].alive ~> (~ctx[r].alive \/ Stuck(r) \/ ~intact)
=============================================================================
