----------------------------- MODULE TcpForward -----------------------------
(***************************************************************************)
(* Forwarding of TCP streams in the web-tunnel client: the main loop of    *)
(* web-tunnel.c (poll, then service each slot that has revents) driving    *)
(* one coroutine per forwarded connection (tcp_forward_connect, _write and *)
(* _read in http_client.c), on top of the poll table of PollTable, during  *)
(* one websocket connection.                                               *)
(*                                                                         *)
(* A forward connects to a host of the LAN, writes to it what the server   *)
(* sends under its sequence number, and sends back what it reads.  The     *)
(* kernel's side of its socket is the record sock; a unit of data is what  *)
(* one write or read moves, and a chunk (one http_buf_info) is ChunkLen    *)
(* units.                                                                  *)
(*                                                                         *)
(* The websocket sits in slot 1 while it lives; libwebsockets keeps its    *)
(* own copy of the events it wants there, so POLLOUT is taken to be armed  *)
(* whenever buf_toserver is not empty (http_mgmt_toserver).                *)
(***************************************************************************)
EXTENDS Integers, SequencesExt

CONSTANTS Seqs,       \* sequence numbers the server gives to forwards
          MaxFds,     \* size of the poll table
          MaxChunks,  \* bound: chunks the server sends per forward
          ChunkLen,   \* bound: units per chunk
          MaxRead,    \* bound: units the LAN peer sends per forward
          MaxInbox    \* bound: frames in flight from the server

\* The table has room for the listening socket and the websocket.
ASSUME ConstantsAssumption ==
    {MaxFds, MaxChunks, ChunkLen} \subseteq Nat /\ MaxFds >= 2

Listener  == 0
Websocket == 1

VARIABLES count_pollfds, slotFd, slotEvents, fd_lookup, kind, pfd
table == <<count_pollfds, slotFd, slotEvents, fd_lookup, kind, pfd>>

PT == INSTANCE PollTable

VARIABLES
    revents,   \* pollfds[slot].revents
    scan,      \* the slot main() is servicing; 0 while it is in poll()
    fwd,       \* the tcp_forward_context of each sequence number
    sock,      \* the kernel's state of its socket
    lan,       \* units the LAN peer received, in order
    toserver,  \* buf_toserver.list_todo: frames queued for the server
    server,    \* what the server received for each sequence number
    inbox,     \* frames the server sent that the client has not read
    sent,      \* chunks the server sent for each sequence number
    opened,    \* sequence numbers the server used
    closing,   \* those whose browser connection closed
    intact     \* the buffer pool has not been corrupted by a release

fwdVars == <<fwd, sock, lan>>
srvVars == <<inbox, sent, opened, closing>>
vars == <<table, revents, scan, fwdVars, toserver, server, srvVars, intact>>

Flags == {"POLLIN", "POLLOUT", "POLLERR", "POLLHUP"}

NoForward == [alive |-> FALSE, fd |-> PT!Uninit, func |-> "connect",
              line |-> "start", idle |-> TRUE, todo |-> <<>>, curr |-> FALSE]
NoSocket  == [st |-> "none", rx |-> 0, fin |-> FALSE, full |-> FALSE, read |-> 0]

Alive == {s \in Seqs : fwd[s].alive}
OwnerOf(fd) == CHOOSE s \in Alive : fwd[s].fd = fd

\* The n-th chunk the server sends to a forward, and a frame it travels in.
Chunk(n) == [i \in 1..ChunkLen |-> (n - 1) * ChunkLen + i]
Frame(type, s, chunk) == [type |-> type, seq |-> s, chunk |-> chunk]

\* socket() returns the lowest descriptor that is not in use.
Free == PT!Fd \ PT!Registered
LowestFree == CHOOSE fd \in Free : \A other \in Free : fd <= other

-----------------------------------------------------------------------------
(* poll() and the scan of main().                                          *)

\* What the kernel reports of a descriptor, when asked for everything.  A
\* socket that never connected is writable and hung up; one whose connection
\* was refused or reset reports everything.
Ready(fd) ==
    IF kind[fd] = "WEBSOCKET"
    THEN {f \in {"POLLIN"}  : inbox # <<>>} \cup
         {f \in {"POLLOUT"} : toserver # <<>>}
    ELSE IF kind[fd] = "FORWARD"
    THEN LET k == sock[OwnerOf(fd)]
         IN  CASE k.st = "new"        -> {"POLLOUT", "POLLHUP"}
               [] k.st = "connecting" -> {}
               [] k.st = "dead"       -> Flags
               [] k.st = "connected"  ->
                    {f \in {"POLLIN"}  : k.rx > 0 \/ k.fin} \cup
                    {f \in {"POLLOUT"} : ~k.full}
    ELSE {}

\* poll() writes revents of the slots in use only.
Polled ==
    [slot \in PT!Slot |->
        IF slot >= count_pollfds THEN revents[slot]
        ELSE Ready(slotFd[slot]) \cap
             (slotEvents[slot] \cup {"POLLERR", "POLLHUP"} \cup
              (IF slotFd[slot] = Websocket THEN {"POLLOUT"} ELSE {}))]

\* The next slot to service after slot n: for(n = 0; n < count_pollfds; n++)
\* if(pollfds[n].revents); back to poll() (0) when there is none.
NextSlot(n, rev, count) ==
    LET later == {m \in (n + 1)..(count - 1) : rev[m] # {}}
    IN  IF later = {} THEN 0 ELSE CHOOSE m \in later : \A o \in later : m <= o

Poll ==
    /\ scan = 0 /\ intact
    /\ \E slot \in 0..(count_pollfds - 1) : Polled[slot] # {}
    /\ revents' = Polled
    /\ scan' = NextSlot(0, Polled, count_pollfds)
    /\ UNCHANGED <<table, fwdVars, toserver, server, srvVars, intact>>

\* poll() times out with nothing ready (and what the process does once its
\* buffer pool is corrupted is undefined: nothing more is said about it).
PollTimeout ==
    /\ \/ scan = 0 /\ \A slot \in 0..(count_pollfds - 1) : Polled[slot] = {}
       \/ ~intact
    /\ UNCHANGED vars

\* The end of http_mgmt_service on slot n: pfd->revents = 0 (on whatever is
\* in slot n by now), then the scan goes on.
ServiceDone(rev) ==
    LET cleared == [rev EXCEPT ![scan] = {}]
    IN  /\ revents' = cleared
        /\ scan' = NextSlot(scan, cleared, count_pollfds')

-----------------------------------------------------------------------------
(* Releasing a forward, which any of its handlers may end in.              *)

\* tcp_forward_closing: the frame that tells the server.
CLOSED == 0
ClosedFrame(s) == [seq |-> s, what |-> CLOSED]

\* mgmt_del_fd moves the last slot's revents along with the slot.
MovedRevents(fd) ==
    [revents EXCEPT ![fd_lookup[fd]] = revents[count_pollfds - 1]]

\* Mutants of tcp_forward_release: the closing frame queued ahead of the data
\* (list_add for list_add_tail), not queued at all, and the descriptor dropped
\* without mgmt_del_fd.
tcp_forward_release_head(s, curr) ==
    /\ toserver' = <<ClosedFrame(s)>> \o toserver
    /\ PT!ContextRelease(fwd[s].fd)
    /\ intact' = ~curr
    /\ fwd' = [fwd EXCEPT ![s] = NoForward]
    /\ sock' = [sock EXCEPT ![s] = NoSocket]
tcp_forward_release_silent(s, curr) ==
    /\ PT!ContextRelease(fwd[s].fd)
    /\ intact' = ~curr
    /\ fwd' = [fwd EXCEPT ![s] = NoForward]
    /\ sock' = [sock EXCEPT ![s] = NoSocket]
    /\ UNCHANGED toserver
tcp_forward_release_keeps_slot(s, curr) ==
    /\ toserver' = Append(toserver, ClosedFrame(s))
    /\ kind' = [kind EXCEPT ![fwd[s].fd] = "NONE"]
    /\ pfd' = [pfd EXCEPT ![fwd[s].fd] = PT!Uninit]
    /\ UNCHANGED <<count_pollfds, slotFd, slotEvents, fd_lookup>>
    /\ intact' = ~curr
    /\ fwd' = [fwd EXCEPT ![s] = NoForward]
    /\ sock' = [sock EXCEPT ![s] = NoSocket]

\* tcp_forward_release.  free_buf puts buf_write.curr into the pool while it
\* is still linked in list_todo, and splicing list_todo then corrupts the
\* pool's list.
tcp_forward_release(s, curr) ==
    /\ toserver' = Append(toserver, ClosedFrame(s))
    /\ PT!ContextRelease(fwd[s].fd)
    /\ intact' = ~curr
    /\ fwd' = [fwd EXCEPT ![s] = NoForward]
    /\ sock' = [sock EXCEPT ![s] = NoSocket]

\* A forward's own handler returned CALLER_FINISH.
Finish(s, curr) ==
    /\ tcp_forward_release(s, curr)
    /\ ServiceDone(MovedRevents(fwd[s].fd))
    /\ UNCHANGED <<lan, server, srvVars>>

-----------------------------------------------------------------------------
(* The coroutines, run by http_mgmt_service on the slot being scanned.     *)

Servicing(s, func) ==
    /\ scan # 0 /\ intact
    /\ s \in Alive /\ slotFd[scan] = fwd[s].fd
    /\ fwd[s].func = func

\* tcp_forward_connect.  It looks at the revents its own pfd points at, and
\* calls connect() again as long as that is not exactly POLLOUT.
SaysConnected(s) == revents[pfd[fwd[s].fd]] = {"POLLOUT"}

ConnectDone(s) ==
    /\ Servicing(s, "connect")
    /\ SaysConnected(s) \/ sock[s].st \in {"connected", "new"}
    /\ fwd' = [fwd EXCEPT ![s].func = "read", ![s].line = "start", ![s].idle = TRUE]
    /\ sock' = IF SaysConnected(s) THEN sock
               ELSE [sock EXCEPT ![s].st = "connected"]
    /\ PT!ContextChangeMode(fwd[s].fd, {"POLLIN"})
    /\ ServiceDone(revents)
    /\ UNCHANGED <<lan, toserver, server, srvVars, intact>>

ConnectPending(s) ==
    /\ Servicing(s, "connect")
    /\ ~SaysConnected(s) /\ sock[s].st \in {"new", "connecting"}
    /\ sock' = [sock EXCEPT ![s].st = "connecting"]
    /\ PT!ContextChangeMode(fwd[s].fd, {"POLLOUT"})
    /\ ServiceDone(revents)
    /\ UNCHANGED <<fwd, lan, toserver, server, srvVars, intact>>

ConnectFails(s) ==
    /\ Servicing(s, "connect")
    /\ ~SaysConnected(s) /\ sock[s].st \in {"new", "dead"}
    /\ Finish(s, FALSE)

\* tcp_forward_write takes up buf_write.curr at its first line, and then
\* writes chunk after chunk until all are gone, the kernel takes only part
\* of one, or it takes nothing (EAGAIN).
WriteAll(s) ==
    /\ Servicing(s, "write") /\ fwd[s].line # "eagain"
    /\ sock[s].st = "connected" /\ ~sock[s].full
    /\ lan' = [lan EXCEPT ![s] = @ \o FlattenSeq(fwd[s].todo)]
    /\ fwd' = [fwd EXCEPT ![s].func = "read", ![s].line = "start",
                          ![s].idle = TRUE, ![s].todo = <<>>, ![s].curr = FALSE]
    /\ \E full \in BOOLEAN : sock' = [sock EXCEPT ![s].full = full]
    /\ PT!ContextChangeMode(fwd[s].fd, {"POLLIN"})
    /\ ServiceDone(revents)
    /\ UNCHANGED <<toserver, server, srvVars, intact>>

\* Mutant of WriteSome: after a partial write, start is not advanced.
WriteSome_no_start(s, chunks, units) ==
    /\ Servicing(s, "write") /\ fwd[s].line # "eagain"
    /\ sock[s].st = "connected" /\ ~sock[s].full
    /\ chunks < Len(fwd[s].todo)
    /\ LET todo == fwd[s].todo
           next == todo[chunks + 1]
       IN  /\ units < Len(next) /\ chunks + units > 0
           /\ lan' = [lan EXCEPT ![s] = @ \o FlattenSeq(SubSeq(todo, 1, chunks))
                                          \o SubSeq(next, 1, units)]
           /\ fwd' = [fwd EXCEPT ![s].todo = SubSeq(todo, chunks + 1, Len(todo)),
                                 ![s].line = "partial",
                                 ![s].idle = FALSE, ![s].curr = TRUE]
    /\ sock' = [sock EXCEPT ![s].full = TRUE]
    /\ UNCHANGED table
    /\ ServiceDone(revents)
    /\ UNCHANGED <<toserver, server, srvVars, intact>>

\* chunks whole chunks and then units units of the next were taken.
WriteSome(s, chunks, units) ==
    /\ Servicing(s, "write") /\ fwd[s].line # "eagain"
    /\ sock[s].st = "connected" /\ ~sock[s].full
    /\ chunks < Len(fwd[s].todo)
    /\ LET todo == fwd[s].todo
           next == todo[chunks + 1]
       IN  /\ units < Len(next) /\ chunks + units > 0
           /\ lan' = [lan EXCEPT ![s] = @ \o FlattenSeq(SubSeq(todo, 1, chunks))
                                          \o SubSeq(next, 1, units)]
           /\ fwd' = [fwd EXCEPT
                 ![s].todo = <<SubSeq(next, units + 1, Len(next))>>
                                \o SubSeq(todo, chunks + 2, Len(todo)),
                 ![s].line = IF units > 0 THEN "partial" ELSE "eagain",
                 ![s].idle = FALSE, ![s].curr = TRUE]
    /\ sock' = [sock EXCEPT ![s].full = TRUE]
    /\ UNCHANGED table
    /\ ServiceDone(revents)
    /\ UNCHANGED <<toserver, server, srvVars, intact>>

\* write() fails with EAGAIN at once; or the coroutine resumes after an
\* earlier EAGAIN, where n is 0 again and one more round passes.
WriteAgain(s) ==
    /\ Servicing(s, "write")
    /\ \/ fwd[s].line = "eagain"
       \/ sock[s].st = "connecting" \/ (sock[s].st = "connected" /\ sock[s].full)
    /\ fwd' = [fwd EXCEPT
          ![s].line = IF fwd[s].line = "eagain" THEN "partial" ELSE "eagain",
          ![s].idle = FALSE, ![s].curr = TRUE]
    /\ UNCHANGED table
    /\ ServiceDone(revents)
    /\ UNCHANGED <<sock, lan, toserver, server, srvVars, intact>>

\* write() fails: curr is set by now, so the release corrupts the pool.
WriteFails(s) ==
    /\ Servicing(s, "write") /\ fwd[s].line # "eagain"
    /\ sock[s].st \in {"new", "dead"}
    /\ Finish(s, TRUE)

\* Mutant of ReadData: the frame is filled but not queued.
ReadData_not_queued(s) ==
    /\ Servicing(s, "read")
    /\ sock[s].st = "connected" /\ sock[s].rx > 0
    /\ sock' = [sock EXCEPT ![s].rx = @ - 1, ![s].read = @ + 1]
    /\ fwd' = [fwd EXCEPT ![s].idle = TRUE]
    /\ UNCHANGED table
    /\ ServiceDone(revents)
    /\ UNCHANGED <<lan, toserver, server, srvVars, intact>>

\* tcp_forward_read: what one read() returns goes out in one frame, and the
\* forward turns to writing if chunks are waiting.
ReadData(s) ==
    /\ Servicing(s, "read")
    /\ sock[s].st = "connected" /\ sock[s].rx > 0
    /\ sock' = [sock EXCEPT ![s].rx = @ - 1, ![s].read = @ + 1]
    /\ toserver' = Append(toserver, [seq |-> s, what |-> sock[s].read + 1])
    /\ IF fwd[s].todo = <<>>
       THEN /\ fwd' = [fwd EXCEPT ![s].idle = TRUE]
            /\ UNCHANGED table
       ELSE /\ fwd' = [fwd EXCEPT ![s].func = "write", ![s].line = "start",
                                  ![s].idle = TRUE]
            /\ PT!ContextChangeMode(fwd[s].fd, {"POLLOUT"})
    /\ ServiceDone(revents)
    /\ UNCHANGED <<lan, server, srvVars, intact>>

ReadAgain(s) ==
    /\ Servicing(s, "read")
    /\ \/ sock[s].st = "connected" /\ sock[s].rx = 0 /\ ~sock[s].fin
       \/ sock[s].st = "connecting"
    /\ fwd' = [fwd EXCEPT ![s].idle = TRUE]
    /\ UNCHANGED table
    /\ ServiceDone(revents)
    /\ UNCHANGED <<sock, lan, toserver, server, srvVars, intact>>

ReadEnds(s) ==
    /\ Servicing(s, "read")
    /\ \/ sock[s].st = "connected" /\ sock[s].rx = 0 /\ sock[s].fin
       \/ sock[s].st \in {"new", "dead"}
    /\ Finish(s, FALSE)

-----------------------------------------------------------------------------
(* The websocket's slot: libwebsockets first writes, then reads.           *)

\* libwebsocket_client_connect, and LWS_CALLBACK_ADD_POLL_FD for its socket.
WebsocketUp ==
    /\ scan = 0 /\ kind[Websocket] = "NONE"
    /\ PT!WebsocketAdd(LowestFree)
    /\ UNCHANGED <<revents, scan, fwdVars, toserver, server, srvVars, intact>>

\* http_mgmt_writable, from LWS_CALLBACK_CLIENT_WRITEABLE: one frame.
Writeable ==
    /\ scan = 1 /\ intact /\ "POLLOUT" \in revents[1]
    /\ LET f == Head(toserver)
       IN  server' = [server EXCEPT ![f.seq] = Append(@, f.what)]
    /\ toserver' = Tail(toserver)
    /\ LET rev == [revents EXCEPT ![1] = @ \ {"POLLOUT"}]
       IN  /\ revents' = rev
           /\ scan' = IF rev[1] # {} THEN 1 ELSE NextSlot(1, rev, count_pollfds)
    /\ UNCHANGED <<table, fwdVars, srvVars, intact>>

\* LWS_CALLBACK_CLIENT_RECEIVE of one frame, which http_mgmt_prepare has put
\* together and prepare_process dispatches on its type.
Receive(type, s) ==
    /\ scan = 1 /\ intact /\ revents[1] = {"POLLIN"}
    /\ inbox # <<>> /\ Head(inbox).type = type /\ Head(inbox).seq = s
    /\ inbox' = Tail(inbox)
    /\ UNCHANGED <<lan, server, sent, opened, closing>>

\* process_tcp_forward, type 0: tcp_forward_create.
OpenForward(s) ==
    /\ Receive("open", s) /\ Free # {}
    /\ LET fd == LowestFree
       IN  /\ PT!ContextOpen(fd, "FORWARD")
           /\ fwd' = [fwd EXCEPT ![s] = [NoForward EXCEPT !.alive = TRUE, !.fd = fd]]
    /\ sock' = [sock EXCEPT ![s].st = "new"]
    /\ ServiceDone([revents EXCEPT ![count_pollfds] = {}])
    /\ UNCHANGED <<toserver, intact>>

\* socket() fails (no descriptor or no memory is left): nobody is told.
OpenFails(s) ==
    /\ Receive("open", s)
    /\ UNCHANGED table
    /\ ServiceDone(revents)
    /\ UNCHANGED <<fwd, sock, toserver, intact>>

\* process_tcp_forward, type 1.
CloseForward(s) ==
    /\ Receive("close", s) /\ s \in Alive
    /\ tcp_forward_release(s, fwd[s].curr)
    /\ ServiceDone(MovedRevents(fwd[s].fd))

\* Mutants of ForwardData: the test of idle dropped, the switch to writing
\* dropped, and POLLOUT not armed.
ForwardData_always(s) ==
    /\ Receive("data", s) /\ s \in Alive
    /\ fwd' = [fwd EXCEPT ![s].todo = Append(@, Head(inbox).chunk),
                          ![s].func = "write", ![s].line = "start"]
    /\ PT!ContextChangeMode(fwd[s].fd, {"POLLOUT"})
    /\ ServiceDone(revents)
    /\ UNCHANGED <<sock, toserver, intact>>
ForwardData_queue_only(s) ==
    /\ Receive("data", s) /\ s \in Alive
    /\ fwd' = [fwd EXCEPT ![s].todo = Append(@, Head(inbox).chunk)]
    /\ UNCHANGED table
    /\ ServiceDone(revents)
    /\ UNCHANGED <<sock, toserver, intact>>
ForwardData_not_armed(s) ==
    /\ Receive("data", s) /\ s \in Alive
    /\ fwd' = [fwd EXCEPT ![s].todo = Append(@, Head(inbox).chunk),
                          ![s].func = IF fwd[s].idle THEN "write" ELSE @]
    /\ UNCHANGED table
    /\ ServiceDone(revents)
    /\ UNCHANGED <<sock, toserver, intact>>

\* process_tcp_forwardresp: the chunk is queued, and an idle forward (one
\* still connecting included) turns to writing.
ForwardData(s) ==
    /\ Receive("data", s) /\ s \in Alive
    /\ LET queued == [fwd EXCEPT ![s].todo = Append(@, Head(inbox).chunk)]
       IN  IF fwd[s].idle
           THEN /\ fwd' = [queued EXCEPT ![s].func = "write", ![s].line = "start"]
                /\ PT!ContextChangeMode(fwd[s].fd, {"POLLOUT"})
           ELSE /\ fwd' = queued
                /\ UNCHANGED table
    /\ ServiceDone(revents)
    /\ UNCHANGED <<sock, toserver, intact>>

\* No forward of that sequence number: "Not found".
NotFound(s) ==
    /\ Receive("close", s) \/ Receive("data", s)
    /\ s \notin Alive
    /\ UNCHANGED table
    /\ ServiceDone(revents)
    /\ UNCHANGED <<fwd, sock, toserver, intact>>

-----------------------------------------------------------------------------
(* The environment: the server, the kernel and the LAN peers.              *)

ServerSends ==
    /\ Len(inbox) < MaxInbox
    /\ \E s \in Seqs :
        \/ /\ s \notin opened
           /\ opened' = opened \cup {s}
           /\ inbox' = Append(inbox, Frame("open", s, <<>>))
           /\ UNCHANGED <<sent, closing>>
        \/ /\ s \in opened \ closing /\ sent[s] < MaxChunks
           /\ sent' = [sent EXCEPT ![s] = @ + 1]
           /\ inbox' = Append(inbox, Frame("data", s, Chunk(sent[s] + 1)))
           /\ UNCHANGED <<opened, closing>>
        \/ /\ s \in opened \ closing
           /\ closing' = closing \cup {s}
           /\ inbox' = Append(inbox, Frame("close", s, <<>>))
           /\ UNCHANGED <<sent, opened>>
    /\ UNCHANGED <<table, revents, scan, fwdVars, toserver, server, intact>>

Kernel(s, to) ==
    /\ sock' = [sock EXCEPT ![s] = to]
    /\ UNCHANGED <<table, revents, scan, fwd, lan, toserver, server, srvVars, intact>>

Established(s) ==
    /\ sock[s].st = "connecting"
    /\ Kernel(s, [sock[s] EXCEPT !.st = "connected"])
RefusedOrReset(s) ==
    /\ sock[s].st \in {"connecting", "connected"}
    /\ Kernel(s, [sock[s] EXCEPT !.st = "dead"])
PeerSends(s) ==
    /\ sock[s].st = "connected" /\ ~sock[s].fin
    /\ sock[s].rx + sock[s].read < MaxRead
    /\ Kernel(s, [sock[s] EXCEPT !.rx = @ + 1])
PeerCloses(s) ==
    /\ sock[s].st = "connected" /\ ~sock[s].fin
    /\ Kernel(s, [sock[s] EXCEPT !.fin = TRUE])
PeerReads(s) ==
    /\ sock[s].st = "connected" /\ sock[s].full
    /\ Kernel(s, [sock[s] EXCEPT !.full = FALSE])

-----------------------------------------------------------------------------

Init ==
    /\ PT!Init
    /\ revents = [slot \in PT!Slot |-> {}]
    /\ scan = 0
    /\ fwd = [s \in Seqs |-> NoForward]
    /\ sock = [s \in Seqs |-> NoSocket]
    /\ lan = [s \in Seqs |-> <<>>]
    /\ toserver = <<>>
    /\ server = [s \in Seqs |-> <<>>]
    /\ inbox = <<>>
    /\ sent = [s \in Seqs |-> 0]
    /\ opened = {}
    /\ closing = {}
    /\ intact = TRUE

ServiceForward(s) ==
    \/ ConnectDone(s) \/ ConnectPending(s) \/ ConnectFails(s)
    \/ WriteAll(s) \/ WriteAgain(s) \/ WriteFails(s)
    \/ \E chunks \in 0..MaxChunks, units \in 0..(ChunkLen - 1) :
          WriteSome(s, chunks, units)
    \/ ReadData(s) \/ ReadAgain(s) \/ ReadEnds(s)

ServiceWebsocket(s) ==
    \/ OpenForward(s) \/ OpenFails(s) \/ CloseForward(s)
    \/ ForwardData(s) \/ NotFound(s)

Client ==
    \/ WebsocketUp \/ Poll \/ Writeable
    \/ \E s \in Seqs : ServiceForward(s) \/ ServiceWebsocket(s)

LanPeer(s) ==
    Established(s) \/ RefusedOrReset(s) \/ PeerSends(s) \/ PeerCloses(s) \/ PeerReads(s)

Next ==
    \/ Client
    \/ PollTimeout
    \/ ServerSends
    \/ \E s \in Seqs : LanPeer(s)

\* The main loop never stops, a connection attempt ends one way or the other
\* (the kernel times it out), and a LAN peer keeps reading.
Fairness ==
    /\ WF_vars(Client)
    /\ \A s \in Seqs : WF_vars(Established(s)) /\ WF_vars(PeerReads(s))

Spec     == Init /\ [][Next]_vars
FairSpec == Spec /\ Fairness

-----------------------------------------------------------------------------
(* Properties.                                                             *)

\* Type invariant of the forwards, their sockets and the queues.
TypeOK ==
    /\ PT!TypeOK
    /\ revents \in [PT!Slot -> SUBSET Flags] /\ scan \in PT!Slot
    /\ \A s \in Seqs :
          /\ fwd[s].fd \in PT!Fd \cup {PT!Uninit}
          /\ fwd[s].func \in {"connect", "write", "read"}
          /\ fwd[s].line \in {"start", "partial", "eagain"}
          /\ sock[s].st \in {"none", "new", "connecting", "connected", "dead"}
          /\ fwd[s].alive <=> sock[s].st # "none"
    /\ closing \subseteq opened /\ opened \subseteq Seqs

\* assert(NULL == buf_info) at the start of tcp_forward_write: a forward
\* never starts a write while an earlier one is suspended half-way, whatever
\* frames arrive in between; and a suspended write is never idle, so its
\* coroutine is not reset under it.
WriteNeverRestarted ==
    \A s \in Alive :
        /\ fwd[s].curr <=> fwd[s].line # "start"
        /\ fwd[s].curr => fwd[s].func = "write" /\ ~fwd[s].idle
        /\ fwd[s].func = "write" => fwd[s].todo # <<>>

\* Chunks never wait at a forward that is reading or connecting: data that
\* arrives in any state turns it to writing at once.
NoDataLeftWaiting ==
    \A s \in Alive : fwd[s].todo # <<>> => fwd[s].func = "write"

\* The units in the frames on their way to forward s.
Coming(s) ==
    FlattenSeq([i \in 1..Len(inbox) |->
        IF inbox[i].seq = s /\ inbox[i].type = "data" THEN inbox[i].chunk ELSE <<>>])

\* What the LAN peer got, what is queued and what is on its way is what the
\* server sent, in order, with nothing lost or repeated: across partial
\* writes, EAGAIN, and data arriving before the connection is up.
DownstreamInOrder ==
    \A s \in Alive :
        lan[s] \o FlattenSeq(fwd[s].todo) \o Coming(s)
            = [i \in 1..(ChunkLen * sent[s]) |-> i]

\* What of forward s is queued for the server.
Queued(s) ==
    FlattenSeq([i \in 1..Len(toserver) |->
        IF toserver[i].seq = s THEN <<toserver[i].what>> ELSE <<>>])

\* What the server got or will get from a forward: everything read from the
\* LAN peer in order, then, once and only once it is released, one CLOSED!
\* and nothing after it.
Upstream(s) == server[s] \o Queued(s)
ClosedOnceAndLast ==
    \A s \in Seqs :
        LET up == Upstream(s)
            n  == IF s \in Alive \/ up = <<>> THEN Len(up) ELSE Len(up) - 1
        IN  /\ \A i \in 1..n : up[i] = i
            /\ s \in Alive => n = sock[s].read
            /\ s \notin Alive /\ up # <<>> => up[Len(up)] = CLOSED

\* "Write complete, switch to idle and wait for read": a forward that turned
\* to reading is polled for POLLIN.
ReadIsPolled ==
    \A s \in Alive :
        fwd[s].func = "read" => "POLLIN" \in slotEvents[fd_lookup[fwd[s].fd]]

\* The poll table behaves as PollTable says, seen from its users: every step
\* of the loop is one of its operations or leaves it alone.
PollTableSpec == PT!Spec

\* A forward the browser closes is released and the server is told, even
\* when its entry is polled for the wrong events.
CloseIsAnswered ==
    \A s \in Seqs :
        (intact /\ s \in closing /\ s \in Alive)
            ~> (~intact \/ CLOSED \in Range(server[s]))

\* Whatever the server sends to a forward reaches the LAN peer, unless the
\* forward ends first or could not be opened.
DataDelivered ==
    \A s \in Seqs : \A n \in 1..MaxChunks :
        (sent[s] = n) ~> \/ Len(lan[s]) >= n * ChunkLen
                         \/ s \notin Alive \/ s \in closing \/ ~intact

\* What the LAN peer sends reaches the server, unless the forward ends.
RepliesDelivered ==
    \A s \in Seqs : \A n \in 1..MaxRead :
        (sock[s].rx + sock[s].read >= n)
            ~> \/ Len(server[s]) >= n \/ s \notin Alive \/ ~intact
=============================================================================
