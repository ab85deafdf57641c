----------------------------- MODULE TunnelClient -----------------------------
(***************************************************************************)
(* The life of the web-tunnel client's connection to the server: main() of *)
(* web-tunnel.c with its reconnection, the callbacks of the websocket      *)
(* (WsClient), and in http_client.c the handshake, the queue to the server *)
(* (buf_toserver), the reassembly of frames (buf_prepare) and the pool of  *)
(* buffers they share with the contexts that handle the frames.            *)
(*                                                                         *)
(* A websocket message from the server reaches http_mgmt_prepare in pieces *)
(* of rx_buffer_size bytes: the header of the frame with one unit of its   *)
(* payload, then a unit each.  Frames and the pieces the client sends are  *)
(* numbered.  A piece of the queue is a buffer.                            *)
(*                                                                         *)
(* The scan of main() services the websocket and the other descriptors in  *)
(* any order; each service is an action.                                   *)
(***************************************************************************)
EXTENDS Integers, Sequences, SequencesExt

CONSTANTS NumBufs,    \* HTTPBUF_CACHES
          BufUnits,   \* HTTP_BUF_SIZE, in units: two or more
          InMax,      \* HTTP_IN_MAX, in units of payload
          Sizes,      \* bound: the units of payload a frame has
          MaxMade,    \* bound: pieces the client makes for the server
          MaxWire,    \* bound: pieces in the kernel's send buffer
          MaxEvents   \* bound: frames from the server besides its answers to
                      \* the handshake, and faults: failures of the network,
                      \* of the server's side, delays beyond the time limits

ASSUME SizesAssumption == NumBufs \in Nat /\ Sizes \subseteq Nat

VARIABLES mode, armed, timer, sock, reply
W == INSTANCE WsClient
wsi == <<mode, armed, timer, sock, reply>>

VARIABLES
    phase,       \* main(): loop, done or sleep
    was_closed,
    shakehand,   \* mgmt->shakehand, toserver and buf_toserver
    toserver,
    curr,
    queue,
    prep,        \* mgmt->buf_prepare and sync_prepare
    free,        \* buffers in the pool
    held,        \* buffers of the contexts, forwards and local clients
    c2s,         \* messages on their way to the server
    s2c,         \* pieces on their way from the server
    known,       \* the server had the handshake of this connection
    got,         \* pieces the server got
    made,        \* how many pieces the client made
    frames,      \* the frames the server sent: length, connection, type
    handled,     \* the frames handled, with what was handled
    hurt,        \* frames a buffer was missing for or a delay fell into, and
                 \* those a connection was lost with
    dropped,     \* pieces written to a connection that broke, or in part
    conn,        \* number of the connection
    faults,      \* the faults so far
    intact       \* no crash and no corrupted memory so far

link   == <<toserver, curr, queue>>
local  == <<prep, free, held>>
server == <<known, got, frames>>
hist   == <<handled, hurt, dropped, made>>
vars   == <<wsi, phase, was_closed, shakehand, link, local, c2s, s2c, server, hist, conn,
            faults, intact>>

Hand     == 0         \* the handshake, in the queue and on the wire
Torn     == -1        \* the first part of a piece
NoPiece  == -2
NoBuffer == -1

\* Where a frame is put together, with no buffer yet.
Empty(sync, of, total) ==
    [sync |-> sync, curr |-> NoBuffer, todo |-> 0, len |-> 0, total |-> total, of |-> of,
     content |-> <<>>]
Idle == Empty(FALSE, 0, 0)
Held(p) == p.todo + (IF p.curr = NoBuffer THEN 0 ELSE 1)

\* Units of frame f, the pieces it travels in, and what a piece is when it is
\* taken for payload.
Units(f, n) == [i \in 1..n |-> <<f, i>>]
Pieces(f, n) ==
    <<[head |-> TRUE, of |-> f, units |-> Units(f, IF n = 0 THEN 0 ELSE 1)]>>
    \o [i \in 1..(IF n = 0 THEN 0 ELSE n - 1) |->
          [head |-> FALSE, of |-> f, units |-> <<<<f, i + 1>>>>]]
Payload(m) == IF m.head THEN <<<<m.of, 0>>>> \o m.units ELSE m.units

Events == faults + Len(SelectSeq(frames, LAMBDA f : ~f.hand))

Fault(n) == Events + n <= MaxEvents /\ faults' = faults + n

Running == phase = "loop" /\ intact

\* The loop ends before the next poll().
Looping == Running /\ ~was_closed

-----------------------------------------------------------------------------
(* Connecting: main() from reconn on, and the connection's first events.   *)

Quiet == UNCHANGED <<queue, local, c2s, s2c, server, hist, intact>>

\* http_mgmt_param_init and libwebsocket_client_connect.  The buffers of
\* buf_prepare were released by http_mgmt_release_all before.
Reconnect ==
    /\ phase = "sleep" /\ intact
    /\ \/ (W!ConnectPending \/ W!ConnectAtOnce) /\ phase' = "loop" /\ Fault(0)
       \/ W!ConnectUnsent /\ phase' = "loop" /\ Fault(1)
       \/ W!ConnectNull   /\ phase' = "done" /\ Fault(1)
    /\ conn' = conn + 1
    /\ shakehand' = FALSE /\ toserver' = FALSE /\ curr' = NoPiece
    /\ UNCHANGED was_closed
    /\ Quiet

\* libwebsocket_service_fd on a connection that is not established; its
\* failures are not failures of this program.
ServiceConnecting ==
    /\ Running
    /\ \/ W!Upgrades /\ UNCHANGED phase /\ Fault(0)
       \/ W!UpgradeUnsent /\ UNCHANGED phase /\ Fault(1)
       \/ W!ConnectRefused /\ phase' = "done" /\ Fault(0)
       \/ (W!ReplyCut \/ W!ReplyReset \/ W!ReplyEnded) /\ phase' = "done" /\ Fault(0)
    /\ UNCHANGED <<was_closed, shakehand, toserver, curr, conn>>
    /\ Quiet

\* CLIENT_ESTABLISHED, and CONNECTION_ERROR: given to the callback of the
\* protocol that was chosen by then, the first one or ours.
ServiceReply ==
    /\ Running
    /\ \/ W!Established /\ UNCHANGED was_closed
       \/ W!Refused /\ was_closed' \in {was_closed, TRUE}
    /\ UNCHANGED <<phase, shakehand, toserver, curr, conn, faults>>
    /\ Quiet

\* gethostbyname fails when libwebsocket_client_connect_2 is called again:
\* the structure is freed and stays in lws_lookup.
NameForgotten ==
    /\ Running /\ mode = "waiting_connect" /\ sock \in {"up", "half", "dead"}
    /\ Fault(1)
    /\ intact' = FALSE
    /\ UNCHANGED <<wsi, phase, was_closed, shakehand, link, local, c2s, s2c, server, hist, conn>>

\* The 5 s limits are looked at when some descriptor is serviced.
Timeout ==
    /\ Looping /\ W!TimedOut
    /\ Fault(IF sock = "up" \/ sock = "connecting" THEN 1 ELSE 0)
    /\ UNCHANGED <<phase, was_closed, shakehand, toserver, curr, conn>>
    /\ Quiet

\* http_mgmt_run: 32 s in which no descriptor has an event.  The server's pings
\* are events of an established connection.
\* Mutant: only while a connection is being made.
Watchdog_connecting ==
    /\ Looping
    /\ ~W!HasEvent(s2c # <<>>, Len(c2s) < MaxWire)
    /\ mode \in {"waiting_connect", "waiting_reply"}
    /\ Fault(IF sock = "up" \/ sock = "connecting" THEN 1 ELSE 0)
    /\ was_closed' = TRUE
    /\ UNCHANGED <<wsi, phase, shakehand, toserver, curr, conn>>
    /\ Quiet

Watchdog ==
    /\ Looping
    /\ ~W!HasEvent(s2c # <<>>, Len(c2s) < MaxWire)
    /\ mode # "client" \/ sock = "gone"
    /\ Fault(IF sock = "up" \/ sock = "connecting" THEN 1 ELSE 0)
    /\ was_closed' = TRUE
    /\ UNCHANGED <<wsi, phase, shakehand, toserver, curr, conn>>
    /\ Quiet

\* SIGUSR1, or poll() interrupted.
Interrupted ==
    /\ Looping /\ Fault(1)
    /\ was_closed' = TRUE
    /\ UNCHANGED <<wsi, phase, shakehand, toserver, curr, conn>>
    /\ Quiet

\* done: libwebsocket_context_destroy, http_mgmt_release_all, sleep(8).  What
\* was under way is lost; of the buffers in use those of HTTP contexts come
\* back.
Done ==
    /\ intact
    /\ phase = "done" \/ (phase = "loop" /\ was_closed)
    /\ phase' = "sleep" /\ was_closed' = FALSE
    /\ W!Closes
    /\ c2s' = <<>> /\ s2c' = <<>> /\ known' = FALSE
    /\ dropped' = dropped \cup {p \in ToSet(c2s) : p > 0}
    /\ hurt' = hurt \cup {m.of : m \in ToSet(s2c)} \cup (IF prep.sync THEN {prep.of} ELSE {})
    /\ prep' = Idle
    /\ held' \in 0..held
    /\ free' = free + Held(prep) + (held - held')
    /\ UNCHANGED <<shakehand, link, got, frames, handled, made, conn, faults, intact>>

-----------------------------------------------------------------------------
(* The queue to the server.                                                *)

\* http_mgmt_toserver, after q was made the list.  websocket_go_writable does
\* something only for a connection of our protocol.
\* Mutants: the list is made anew when nothing was to be sent; websocket_go_writable
\* is not called.
http_mgmt_toserver_anew(q) ==
    IF toserver THEN queue' = q /\ UNCHANGED <<toserver, curr, wsi>>
    ELSE /\ queue' = <<Last(q)>> /\ toserver' = TRUE /\ curr' = Last(q)
         /\ W!ArmedNext(armed \/ mode = "client")
http_mgmt_toserver_not_armed(q) ==
    /\ queue' = q
    /\ IF toserver \/ q = <<>> THEN UNCHANGED <<toserver, curr, wsi>>
       ELSE toserver' = TRUE /\ curr' = Head(q) /\ UNCHANGED wsi

http_mgmt_toserver(q) ==
    /\ queue' = q
    /\ IF toserver \/ q = <<>> THEN UNCHANGED <<toserver, curr, wsi>>
       ELSE /\ toserver' = TRUE
            /\ curr' = Head(q)
            /\ W!ArmedNext(armed \/ mode = "client")

\* A context, a forward or a local client has a piece for the server.
Make ==
    /\ Running /\ made < MaxMade /\ free > 0
    /\ free' = free - 1
    /\ made' = made + 1
    /\ http_mgmt_toserver(Append(queue, made + 1))
    /\ UNCHANGED <<phase, was_closed, shakehand, prep, held, c2s, s2c, server, handled, hurt,
                   dropped, conn, faults, intact>>

\* A context ends, or a forward has written what it was given.
Release ==
    /\ Running /\ held > 0
    /\ held' \in 0..(held - 1)
    /\ free' = free + (held - held')
    /\ UNCHANGED <<wsi, phase, was_closed, shakehand, link, prep, c2s, s2c, server, hist, conn,
                   faults, intact>>

\* CLIENT_WRITEABLE: the handshake is put first while it was not answered;
\* the piece at the head is written, freed whatever comes of it, and POLLOUT
\* asked for again if another one follows.
\* Mutant: the handshake is queued last.
ToWrite_last == IF shakehand THEN queue ELSE Append(queue, Hand)

ToWrite == IF shakehand THEN queue ELSE <<Hand>> \o queue

\* Mutant: a piece that could not be written is not freed.
http_mgmt_writable_keeps ==
    /\ Running /\ mode = "client" /\ armed /\ Len(c2s) < MaxWire
    /\ ToWrite # <<>> /\ (shakehand \/ free > 0)
    /\ queue' = Tail(ToWrite)
    /\ free' = free + (IF sock = "dead" THEN 0 ELSE 1) - (IF shakehand THEN 0 ELSE 1)
    /\ toserver' = (queue' # <<>>)
    /\ curr' = IF queue' = <<>> THEN NoPiece ELSE Head(queue')
    /\ UNCHANGED <<phase, shakehand, prep, held, s2c, server, handled, hurt, made, conn, intact>>

http_mgmt_writable ==
    /\ Running /\ mode = "client" /\ armed /\ Len(c2s) < MaxWire
    /\ ToWrite # <<>> /\ (shakehand \/ free > 0)
    /\ queue' = Tail(ToWrite)
    /\ free' = IF shakehand THEN free + 1 ELSE free
    /\ toserver' = (queue' # <<>>)
    /\ curr' = IF queue' = <<>> THEN NoPiece ELSE Head(queue')
    /\ UNCHANGED <<phase, shakehand, prep, held, s2c, server, handled, hurt, made, conn, intact>>

\* After the first part of a piece nothing more is understood.
Garbled == c2s # <<>> /\ Last(c2s) = Torn

\* Mutant: POLLOUT is not asked for again.
Sent_once(m, lost) ==
    /\ c2s' = IF Garbled THEN c2s ELSE Append(c2s, m)
    /\ dropped' = dropped \cup (IF lost \/ Garbled THEN {Head(ToWrite)} \ {Hand} ELSE {})
    /\ W!ArmedNext(FALSE)
    /\ UNCHANGED was_closed

Sent(m, lost) ==
    /\ c2s' = IF Garbled THEN c2s ELSE Append(c2s, m)
    /\ dropped' = dropped \cup (IF lost \/ Garbled THEN {Head(ToWrite)} \ {Hand} ELSE {})
    /\ W!ArmedNext(queue' # <<>>)
    /\ UNCHANGED was_closed

WriteWhole ==
    /\ http_mgmt_writable /\ sock # "dead"
    /\ Sent(Head(ToWrite), FALSE)
    /\ UNCHANGED faults

\* The kernel takes a part.  lws_issue_raw returns how much, which
\* lws_issue_raw_ext_access does not look at, so all of it counts as sent.
WritePart ==
    /\ http_mgmt_writable /\ sock # "dead" /\ ~Garbled
    /\ Sent(Torn, TRUE)
    /\ Fault(1)

\* The write fails: the callback returns -1 and the connection is closed.
WriteFails ==
    /\ http_mgmt_writable /\ sock = "dead"
    /\ dropped' = dropped \cup ({Head(ToWrite)} \ {Hand})
    /\ W!Closes /\ was_closed' = TRUE
    /\ UNCHANGED <<c2s, faults>>

Writeable == WriteWhole \/ WritePart \/ WriteFails

\* No buffer for the handshake: NULL is written to.
HandshakeCrashes ==
    /\ Running /\ mode = "client" /\ armed /\ Len(c2s) < MaxWire
    /\ ~shakehand /\ free = 0
    /\ intact' = FALSE
    /\ UNCHANGED <<wsi, phase, was_closed, shakehand, link, local, c2s, s2c, server, hist, conn,
                   faults>>

-----------------------------------------------------------------------------
(* Frames from the server: http_mgmt_prepare.                              *)

\* prepare_process of a frame whose payload is in p.todo buffers; keep says
\* whether its handler keeps them.  Type 0 is left by release_prepare.
prepare_process(p, f, keep) ==
    /\ prep' = Idle
    /\ shakehand' = (shakehand \/ (p.of > 0 /\ frames[p.of].hand))
    /\ handled' = IF p.of = 0 THEN handled
                  ELSE Append(handled, [of |-> p.of, content |-> p.content])
    /\ IF keep /\ p.of > 0 /\ ~frames[p.of].hand
       THEN held' = held + p.todo /\ free' = f
       ELSE free' = f + p.todo /\ UNCHANGED held
    /\ UNCHANGED hurt

\* Mutant: the length of the buffer is not counted.
save_prepare_not_counted(p) == [p EXCEPT !.todo = @ + 1, !.curr = NoBuffer]

\* save_prepare.
save_prepare(p) ==
    [p EXCEPT !.todo = @ + 1, !.len = @ + p.curr, !.curr = NoBuffer]

\* The units go into the buffer being filled, or into a new one.
Filled(q, us) ==
    [q EXCEPT !.curr = (IF @ = NoBuffer THEN 0 ELSE @) + Len(us), !.content = @ \o us]

\* The units us go into p, with f buffers in the pool.
Store(p, f, us, of) ==
    LET full == p.curr # NoBuffer /\ p.curr + Len(us) > BufUnits
        q    == IF full THEN save_prepare(p) ELSE p
        new  == q.curr = NoBuffer
        filled == Filled(q, us)
        over == filled.curr + filled.len - q.total
        left == IF new THEN f - 1 ELSE f
        whole == [filled EXCEPT !.curr = @ - over,
                                !.content = SubSeq(@, 1, Len(@) - over)]
    IN  \/ /\ new /\ f = 0
           /\ prep' = Empty(TRUE, 0, 0)
           /\ free' = f + Held(q)
           /\ hurt' = hurt \cup {of, p.of}
           /\ UNCHANGED <<shakehand, handled, held>>
        \/ /\ ~(new /\ f = 0) /\ over < 0
           /\ prep' = filled /\ free' = left
           /\ UNCHANGED <<shakehand, handled, held, hurt>>
        \/ /\ ~(new /\ f = 0) /\ over >= 0
           /\ \E keep \in BOOLEAN : prepare_process(save_prepare(whole), left, keep)

Receiving ==
    /\ Running /\ mode = "client" /\ s2c # <<>> /\ sock # "dead"
    /\ s2c' = Tail(s2c)
    /\ UNCHANGED <<wsi, phase, was_closed, link, c2s, server, dropped, made, conn, faults>>

\* In the middle of a frame, whatever comes is its payload.
ReceiveMore ==
    /\ Receiving /\ prep.sync
    /\ Store(prep, free, Payload(Head(s2c)), Head(s2c).of)
    /\ UNCHANGED intact

\* No header where one should be.
ReceiveIgnored ==
    /\ Receiving /\ ~prep.sync /\ ~Head(s2c).head
    /\ UNCHANGED <<shakehand, local, handled, hurt, intact>>

\* A header.  What was left of an earlier frame is released first; a buffer
\* that was being filled (curr) goes to the pool and is filled on.
Headed(m) == Empty(TRUE, m.of, frames[m.of].total)

ReceiveHead ==
    /\ Receiving /\ ~prep.sync
    /\ LET m == Head(s2c)
           f == free + Held(prep)
       IN  /\ m.head
           /\ \/ /\ frames[m.of].total > InMax
                 /\ prep' = Idle /\ free' = f
                 /\ UNCHANGED <<shakehand, handled, held, hurt, intact>>
              \/ /\ frames[m.of].total <= InMax /\ m.units = <<>>
                 /\ prep' = Headed(m) /\ free' = f
                 /\ UNCHANGED <<shakehand, handled, held, hurt, intact>>
              \/ /\ frames[m.of].total <= InMax /\ m.units # <<>> /\ prep.curr = NoBuffer
                 /\ Store(Headed(m), f, m.units, m.of)
                 /\ UNCHANGED intact
              \/ /\ frames[m.of].total <= InMax /\ m.units # <<>> /\ prep.curr # NoBuffer
                 /\ intact' = FALSE
                 /\ UNCHANGED <<shakehand, local, handled, hurt>>

Receive == ReceiveMore \/ ReceiveIgnored \/ ReceiveHead

\* http_mgmt_run: 8 s after the header of a frame that is not whole yet.
SyncReset ==
    /\ Looping /\ prep.sync /\ Fault(1)
    /\ prep' = [prep EXCEPT !.sync = FALSE]
    /\ hurt' = hurt \cup {prep.of}
    /\ UNCHANGED <<wsi, phase, was_closed, shakehand, link, free, held, c2s, s2c, server,
                   handled, dropped, made, conn, intact>>

\* recv gives 0 or an error: closed, 1, and CLOSED to our callback.
ServerGone ==
    /\ Running /\ mode = "client"
    /\ sock = "dead" \/ (sock = "half" /\ s2c = <<>>)
    /\ W!Closes /\ was_closed' = TRUE
    /\ UNCHANGED <<phase, shakehand, link, local, c2s, s2c, server, hist, conn, faults, intact>>

-----------------------------------------------------------------------------
(* The rest of the client, the network and the server.                     *)

\* A socket is opened under the number of a websocket that was closed while
\* main() goes on: remove_wsi_socket_from_fds left the freed structure in
\* lws_lookup, and the socket is serviced through it.
NumberReused ==
    /\ Looping /\ mode = "none" /\ Fault(1)
    /\ intact' = FALSE
    /\ UNCHANGED <<wsi, phase, was_closed, shakehand, link, local, c2s, s2c, server, hist, conn>>

Environment ==
    UNCHANGED <<phase, was_closed, shakehand, link, local, handled, hurt, dropped, made, conn,
                intact>>

Network ==
    /\ Environment /\ UNCHANGED <<c2s, s2c, server>>
    /\ \/ (W!Accepts \/ W!Answers("whole")) /\ Fault(0)
       \/ (W!Rejects \/ W!Answers("part") \/ W!Answers("refusal")) /\ Fault(1)
       \/ (W!HalfClosed \/ W!Resets \/ W!Vanishes) /\ Fault(1)

\* connectionParse.  The handshake is answered the first time.
SendFrame(total, hand) ==
    /\ frames' = Append(frames, [total |-> total, conn |-> conn, hand |-> hand])
    /\ s2c' = s2c \o Pieces(Len(frames) + 1, total)

ServerTakes ==
    /\ Environment /\ sock \in {"up", "half", "none"}
    /\ c2s # <<>> /\ Head(c2s) # Torn
    /\ c2s' = Tail(c2s)
    /\ known' = (known \/ Head(c2s) = Hand)
    /\ got' = IF Head(c2s) = Hand THEN got ELSE Append(got, Head(c2s))
    /\ IF known \/ Head(c2s) # Hand THEN UNCHANGED <<frames, s2c>> ELSE SendFrame(1, TRUE)
    /\ UNCHANGED <<wsi, faults>>

ServerSends ==
    /\ Environment /\ sock = "up" /\ known
    /\ Events < MaxEvents
    /\ \E n \in Sizes : SendFrame(n, FALSE)
    /\ UNCHANGED <<wsi, c2s, known, got, faults>>

-----------------------------------------------------------------------------

Init ==
    /\ W!Init
    /\ phase = "sleep" /\ was_closed = FALSE
    /\ shakehand = FALSE /\ toserver = FALSE /\ curr = NoPiece /\ queue = <<>>
    /\ prep = Idle /\ free = NumBufs /\ held = 0
    /\ c2s = <<>> /\ s2c = <<>>
    /\ known = FALSE /\ got = <<>> /\ frames = <<>>
    /\ handled = <<>> /\ hurt = {} /\ dropped = {} /\ made = 0
    /\ conn = 0 /\ faults = 0 /\ intact = TRUE

Next ==
    \/ Reconnect \/ ServiceConnecting \/ ServiceReply \/ NameForgotten \/ Timeout
    \/ Watchdog \/ Interrupted \/ Done \/ Make \/ Release \/ Writeable
    \/ HandshakeCrashes \/ Receive \/ SyncReset \/ ServerGone \/ NumberReused
    \/ Network \/ ServerTakes \/ ServerSends

Spec == Init /\ [][Next]_vars

\* The main loop never blocks: poll() gives up after 10 ms and every socket
\* is non-blocking; and a service of the websocket that writes also reads.  A
\* connection to the server is made and its requests are answered, and the
\* server takes what it gets, unless a fault comes between.
Services ==
    \/ Reconnect \/ ServiceConnecting \/ ServiceReply \/ Timeout \/ Done
    \/ Writeable \/ HandshakeCrashes \/ ServerGone

Fairness ==
    /\ WF_vars(Services) /\ WF_vars(Receive)
    /\ WF_vars(ServerTakes)
    /\ WF_vars(Network /\ UNCHANGED faults)

\* Assumed of the rest of the client: it falls silent for 32 s at last.
Silence == WF_vars(Watchdog)

FairSpec == Spec /\ Fairness /\ Silence

-----------------------------------------------------------------------------
(* Properties.                                                             *)

\* What the variables hold: a unit of payload, a piece from the server, and
\* the frame being put together.
Unit  == Nat \X Nat
Piece == [head : BOOLEAN, of : 1..Len(frames), units : Seq(Unit)]
Prepared == [sync : BOOLEAN, curr : Nat \cup {NoBuffer}, todo : Nat, len : Nat, total : Nat,
             of : 0..Len(frames), content : Seq(Unit)]

\* Every variable of the program, and of the connection, holds a value the
\* program can store in it.
TypeOK ==
    /\ W!TypeOK
    /\ phase \in {"loop", "done", "sleep"} /\ was_closed \in BOOLEAN
    /\ shakehand \in BOOLEAN /\ toserver \in BOOLEAN
    /\ curr \in Nat \cup {NoPiece} /\ queue \in Seq(Nat)
    /\ prep \in Prepared /\ free \in Nat /\ held \in Nat
    /\ c2s \in Seq(Nat \cup {Torn}) /\ s2c \in Seq(Piece)
    /\ frames \in Seq([total : Nat, conn : Nat, hand : BOOLEAN])
    /\ known \in BOOLEAN /\ intact \in BOOLEAN /\ conn \in Nat /\ made \in Nat

\* The server's connectionParse reads a field of an undefined variable, and
\* the process ends, when a connection begins with anything but the
\* handshake.  Whatever the queue holds over a reconnection, the handshake is
\* what the server gets first, and until it is answered the only thing.
HandshakeFirst ==
    /\ ~known /\ c2s # <<>> => Head(c2s) \in {Hand, Torn}
    /\ mode = "client" /\ ~shakehand => \A m \in ToSet(c2s) : m \in {Hand, Torn}

\* A piece reaches the server once at most and in the order it was made in,
\* over any number of reconnections, and none disappears but those that were
\* written to a connection that broke.
PiecesInOrder ==
    /\ \A i, j \in 1..Len(got) : i < j => got[i] < got[j]
    /\ \A p \in 1..made : p \in ToSet(got) \cup ToSet(c2s) \cup ToSet(queue) \cup dropped

\* While pieces wait on an established connection POLLOUT is asked for, and
\* when it comes without the handshake to write there is a piece: the
\* assertions of http_mgmt_toserver and http_mgmt_writable hold.
WriteableArmed ==
    intact =>
        /\ IF toserver THEN queue # <<>> /\ curr = Head(queue) ELSE curr = NoPiece
        /\ mode = "client" /\ queue # <<>> => armed
        /\ mode = "client" /\ armed /\ shakehand => toserver

\* No buffer is lost or given back twice, whatever is interrupted.
BuffersConserved == intact => free + held + Len(queue) + Held(prep) = NumBufs

\* The frames all of whose pieces the client had.
Complete == {f \in 1..Len(frames) : \A m \in ToSet(s2c) : m.of # f} \ {prep.of}

\* A frame may be missed if it is too long, if a buffer was missing for it or
\* a delay or a loss fell into it, or if the frame before it on the
\* connection was such a one or had no payload: then its header is taken for
\* payload.
Excused(f) ==
    \/ frames[f].total > InMax \/ f \in hurt
    \/ \E g \in 1..(f - 1) : /\ frames[g].conn = frames[f].conn
                            /\ (g \in hurt \/ frames[g].total = 0)

\* Every other frame is handled, in the order they were sent, once and with
\* all of its payload and nothing else.
FramesHandled ==
    intact =>
        /\ \A i, j \in 1..Len(handled) : i < j => handled[i].of < handled[j].of
        /\ \A h \in ToSet(handled) : h.content = Units(h.of, frames[h.of].total)
        /\ \A f \in Complete : Excused(f) \/ \E h \in ToSet(handled) : h.of = f

\* The client always comes back to an established connection once the faults
\* are over.
Reconnects == (mode # "client") ~> (mode = "client" \/ ~intact)

\* The answer to the handshake was lost for want of a buffer, or the handshake
\* went out in part: it goes out for ever and the queue behind it never does.
Deaf == mode = "client" /\ ~shakehand /\ ((known /\ s2c = <<>>) \/ Garbled)

\* What is queued goes out, although connections break; that is, as the number
\* of pieces is bounded, the queue becomes empty.
QueueDrains == (queue # <<>>) ~> (queue = <<>> \/ ~intact \/ Deaf)
===============================================================================
