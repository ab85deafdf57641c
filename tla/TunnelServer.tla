----------------------------- MODULE TunnelServer -----------------------------
(***************************************************************************)
(* The server, server.js, for one user: the browser's HTTP requests and    *)
(* forward websockets, the user's devices (web-tunnel clients), and the    *)
(* UserMgmr between them, with its table of sequence numbers (SeqTable)    *)
(* and the state of the frame it is putting together (curr_seq,            *)
(* curr_total).                                                            *)
(*                                                                         *)
(* node runs one event handler at a time, so a handler is one action; what *)
(* the devices do is what http_client.c makes them send.  A websocket      *)
(* message from a device is the head of a frame with the first piece of    *)
(* its payload, or one more piece; a piece is one unit long, and so is the *)
(* head's 16 bytes when they are taken for payload.                        *)
(*                                                                         *)
(* Once a sequence number is handed out while an earlier owner still has   *)
(* it (reused), nothing more is said.  The frame being received is state   *)
(* of the user, and not of a connection: the history variables from, clean *)
(* and cut remember whether another device, a loss or a hang-up came into  *)
(* it.                                                                     *)
(***************************************************************************)
EXTENDS Integers, SequencesExt

CONSTANTS Requests,    \* HTTP requests of browsers
          Forwards,    \* forward websockets of browsers and local proxies
          Devices,     \* web-tunnel clients of the user
          Names,       \* device names the server may draw
          null,
          UserMgrMax,
          MaxPieces,   \* bound: pieces of an HTTP response
          MaxData,     \* bound: pieces a forward carries each way
          Refusable,   \* requests whose LAN host may be out of reach
          HangingUp,   \* forwards whose browser may hang up
          Unstable     \* devices that may lose their connection

Clients == Requests \cup Forwards

VARIABLES seq, cnt, seq2index, index2obj
table == <<seq, cnt, seq2index, index2obj>>

T == INSTANCE SeqTable WITH Owners <- Clients

ASSUME ConstantsAssumption ==
    /\ UserMgrMax \in Nat \ {0} /\ MaxPieces \in Nat /\ MaxData \in Nat
    /\ Requests \cap Forwards = {}
    /\ null \notin Clients \cup Names \cup Devices \cup T!Objects
    /\ null \notin Int

VARIABLES
    curr_seq,     \* the frame being received: its sequence number or null,
    curr_total,   \* and the length of its payload
    start,        \* processor.start of each client's processor
    from,         \* history: the device that began the last frame, or null
    clean,        \* history: nothing came into the middle of a frame
    cut,          \* history: whether a hang-up deleted the processor of a
                  \* frame being received: never, now (of this frame),
                  \* before, or twice in one frame
    connections,  \* the device connected under each name, or null
    curr_device,  \* the name of the device browsers are using, or null
    client,       \* what each browser's request or websocket is at:
                  \* idle, greeted (handshake sent), open or over,
    number,       \* the sequence number it was given
    session,      \* devicename of the browser session of each forward
    chosen,       \* names some browser has chosen
    got,          \* pieces written to each browser
    name,         \* devicename of each device's connection, or null
    downlink,     \* frames on their way to each device
    uplink,       \* messages each device has queued or sent
    serving,      \* requests and forwards each device is working on
    lan,          \* pieces given to the LAN peer of each forward
    sent,         \* pieces each forward sent from either side
    up,           \* the server process has not died of an exception
    reused        \* a sequence number was handed out again while in use

frame    == <<curr_seq, curr_total, start, from, clean, cut>>
devices  == <<connections, curr_device, chosen, name>>
browsers == <<client, number, session, got>>
links    == <<downlink, uplink, serving, lan, sent>>
vars     == <<table, frame, devices, browsers, links, up, reused>>

Running == up /\ ~reused

\* getCurrConn.
CurrConn == IF curr_device = null THEN null ELSE connections[curr_device]

\* What a frame to a device says, and the parts of one from a device.
Piece(c, n) == [of |-> c, n |-> n]
Frame(type, s, c) == [type |-> type, seq |-> s, of |-> c, data |-> null]
DataFrame(s, piece) == [Frame("data", s, piece.of) EXCEPT !.data = piece]
Header(s, total, piece) == [head |-> TRUE, seq |-> s, total |-> total, piece |-> piece]
Body(piece) == [head |-> FALSE, seq |-> null, total |-> 0, piece |-> piece]


\* The length generate_error sends, in pieces, is 2^16 times too large.
WrongLength == 65536

\* Mutant of Send: a frame overtakes those sent before it.
Send_overtakes(d, f) == downlink' = [downlink EXCEPT ![d] = <<f>> \o @]

\* conn.sendBytes.
Send(d, f) == downlink' = [downlink EXCEPT ![d] = Append(@, f)]

\* mgr.newSeq with a processor for client c.
NewProcessor(c, state) ==
    /\ T!newSeq(c)
    /\ start' = [start EXCEPT ![c] = 0]
    /\ number' = [number EXCEPT ![c] = T!NextSeq]
    /\ client' = [client EXCEPT ![c] = state]
    /\ reused' = (T!NextSeq \in T!Taken)
    /\ UNCHANGED <<curr_seq, curr_total, from, clean, cut>>

-----------------------------------------------------------------------------
(* HTTP requests: app.all and /__camsnap.                                  *)

Request(r) ==
    /\ Running /\ client[r] = "idle"
    /\ CurrConn # null /\ ~T!Full
    /\ NewProcessor(r, "open")
    /\ Send(CurrConn, Frame("http", T!NextSeq, r))
    /\ UNCHANGED <<devices, session, got, uplink, serving, lan, sent, up>>

\* No current device: redirected to /__devices.  No room in the table:
\* newSeq returns null and express answers the exception with an error.
RequestRejected(r) ==
    /\ Running /\ client[r] = "idle"
    /\ CurrConn = null \/ T!Full
    /\ client' = [client EXCEPT ![r] = "over"]
    /\ UNCHANGED <<table, frame, devices, number, session, got, links, up, reused>>

-----------------------------------------------------------------------------
(* Forward websockets: textProcess and closeForward.                       *)

\* "hello" from the browser, answered with the handshake that carries seq.
Hello(f) ==
    /\ Running /\ client[f] = "idle" /\ ~T!Full
    /\ \E n \in chosen : session' = [session EXCEPT ![f] = n]
    /\ NewProcessor(f, "greeted")
    /\ UNCHANGED <<devices, got, links, up>>

\* newSeq returned null, and reading its seq throws in an event handler.
HelloThrows(f) ==
    /\ Running /\ client[f] = "idle" /\ chosen # {} /\ T!Full
    /\ up' = FALSE
    /\ UNCHANGED <<table, frame, devices, browsers, links, reused>>

\* "openning" goes to whatever device is current by now, if any.
Openning(f) ==
    /\ Running /\ client[f] = "greeted"
    /\ client' = [client EXCEPT ![f] = "open"]
    /\ IF CurrConn = null THEN UNCHANGED downlink
       ELSE Send(CurrConn, Frame("open", number[f], f))
    /\ UNCHANGED <<table, frame, devices, number, session, got, uplink, serving, lan,
                   sent, up, reused>>

\* So does data.
BrowserSends(f) ==
    /\ Running /\ client[f] = "open" /\ sent[f].down < MaxData
    /\ sent' = [sent EXCEPT ![f].down = @ + 1]
    /\ IF CurrConn = null THEN UNCHANGED downlink
       ELSE Send(CurrConn, DataFrame(number[f], Piece(f, sent[f].down + 1)))
    /\ UNCHANGED <<table, frame, devices, browsers, uplink, serving, lan, up, reused>>

\* What delSeq(s) does to the table and to the process.
Deleted(s) ==
    IF T!delSeqThrows(s) THEN up' = FALSE /\ UNCHANGED table
    ELSE T!delSeq(s) /\ UNCHANGED up

\* Mutant of HangUp: conn.seq given back at once.
HangUp_deletes(f) ==
    /\ Running /\ f \in HangingUp /\ client[f] \in {"greeted", "open"}
    /\ client' = [client EXCEPT ![f] = "over"]
    /\ LET d == connections[session[f]]
       IN  IF d = null
           THEN UNCHANGED <<table, up, downlink>>
           ELSE /\ Send(d, Frame("close", number[f], f))
                /\ Deleted(number[f])
    /\ clean' = (clean /\ curr_seq = null)
    /\ UNCHANGED <<curr_seq, curr_total, start, from, cut, devices, number, session, got,
                   uplink, serving, lan, sent, reused>>

\* closeForward: the device is the one the browser's session was using, and
\* the number given back is that of the frame being received, if any.
HangUp(f) ==
    /\ Running /\ f \in HangingUp /\ client[f] \in {"greeted", "open"}
    /\ client' = [client EXCEPT ![f] = "over"]
    /\ LET d == connections[session[f]]
       IN  IF d = null
           THEN UNCHANGED <<table, up, downlink>>
           ELSE /\ Send(d, Frame("close", number[f], f))
                /\ IF curr_seq = null THEN UNCHANGED <<table, up>>
                   ELSE Deleted(curr_seq)
    /\ cut' = IF curr_seq = null \/ connections[session[f]] = null THEN cut
              ELSE IF cut \in {"never", "before"} THEN "now" ELSE "twice"
    /\ clean' = (clean /\ curr_seq = null)
    /\ UNCHANGED <<curr_seq, curr_total, start, from, devices, number, session, got,
                   uplink, serving, lan, sent, reused>>

-----------------------------------------------------------------------------
(* Messages from devices: parseNormalMessage and the processors.           *)

\* A message of device d has been taken: parseNormalMessage.
Taking(d) ==
    /\ Running /\ name[d] # null /\ uplink[d] # <<>>
    /\ uplink' = [uplink EXCEPT ![d] = Tail(@)]
    /\ from' = IF curr_seq = null THEN d ELSE from
    /\ clean' = (clean /\ (curr_seq = null \/ from = d))
    /\ UNCHANGED <<devices, number, session, downlink, serving, lan, sent, reused>>

\* The frame a message belongs to and how much of it the message is.
FrameSeq(m)   == IF curr_seq = null THEN m.seq ELSE curr_seq
TotalOf(m) == IF curr_seq = null THEN m.total ELSE curr_total
LenOf(m)   == IF curr_seq # null /\ m.head THEN 2 ELSE 1

\* The end of a frame in parseNormalMessage: curr_seq and curr_total reset.
FrameOver ==
    /\ curr_seq' = null /\ curr_total' = 0
    /\ cut' = IF cut = "now" THEN "before" ELSE cut

\* Not the head of a frame where one should be, or of a number no processor
\* has: dropped, and the next message is taken for a head.
Dropped(d) ==
    /\ Taking(d)
    /\ LET m == Head(uplink[d])
       IN  IF curr_seq = null /\ ~m.head THEN TRUE
           ELSE T!getBySeq(FrameSeq(m)) = null
    /\ FrameOver
    /\ UNCHANGED <<table, start, client, got, up>>

\* A message goes to the processor that its frame's number is looked up as.
Processing(d, c) ==
    /\ Taking(d)
    /\ LET m == Head(uplink[d])
       IN  /\ curr_seq = null => m.head
           /\ T!getBySeq(FrameSeq(m)) # null
           /\ T!getBySeq(FrameSeq(m)).who = c

Reaches(d, c) ==
    LET m == Head(uplink[d]) IN start[c] + LenOf(m) >= TotalOf(m)

\* Mutants of ProcessPart: the piece not counted, and not written.
ProcessPart_not_counted(d, c) ==
    /\ Processing(d, c) /\ ~Reaches(d, c)
    /\ LET m == Head(uplink[d])
       IN  /\ got' = [got EXCEPT ![c] = Append(@, m.piece)]
           /\ curr_seq' = FrameSeq(m) /\ curr_total' = TotalOf(m)
    /\ UNCHANGED <<table, cut, client, up, start>>
ProcessPart_not_written(d, c) ==
    /\ Processing(d, c) /\ ~Reaches(d, c)
    /\ LET m == Head(uplink[d])
       IN  /\ start' = [start EXCEPT ![c] = @ + LenOf(m)]
           /\ curr_seq' = FrameSeq(m) /\ curr_total' = TotalOf(m)
    /\ UNCHANGED <<table, cut, client, got, up>>

\* processBuffer while the frame is not over.
ProcessPart(d, c) ==
    /\ Processing(d, c) /\ ~Reaches(d, c)
    /\ LET m == Head(uplink[d])
       IN  /\ got' = [got EXCEPT ![c] = Append(@, m.piece)]
           /\ start' = [start EXCEPT ![c] = @ + LenOf(m)]
           /\ curr_seq' = FrameSeq(m) /\ curr_total' = TotalOf(m)
    /\ UNCHANGED <<table, cut, client, up>>

\* Mutant of ResponseEnds: the number not given back.
ResponseEnds_keeps_seq(d, r) ==
    /\ r \in Requests /\ Processing(d, r) /\ Reaches(d, r)
    /\ got' = [got EXCEPT ![r] = Append(@, Head(uplink[d]).piece)]
    /\ client' = [client EXCEPT ![r] = "over"]
    /\ FrameOver
    /\ UNCHANGED <<table, up, start>>

\* HttpProcessor.processBuffer at the end of the response: res.end, delSeq
\* of curr_seq, and the frame is over.
ResponseEnds(d, r) ==
    /\ r \in Requests /\ Processing(d, r) /\ Reaches(d, r)
    /\ got' = [got EXCEPT ![r] = Append(@, Head(uplink[d]).piece)]
    /\ client' = [client EXCEPT ![r] = "over"]
    /\ Deleted(FrameSeq(Head(uplink[d])))
    /\ FrameOver
    /\ UNCHANGED start

\* Mutant of ForwardPasses: the commented-out delSeq put back.
ForwardPasses_deletes(d, f) ==
    /\ f \in Forwards /\ Processing(d, f) /\ Reaches(d, f)
    /\ got' = [got EXCEPT ![f] = Append(@, Head(uplink[d]).piece)]
    /\ start' = [start EXCEPT ![f] = 0]
    /\ Deleted(FrameSeq(Head(uplink[d])))
    /\ FrameOver
    /\ UNCHANGED client

\* ForwardProcessor.processBuffer at the end of a frame: the number stays.
ForwardPasses(d, f) ==
    /\ f \in Forwards /\ Processing(d, f) /\ Reaches(d, f)
    /\ got' = [got EXCEPT ![f] = Append(@, Head(uplink[d]).piece)]
    /\ start' = [start EXCEPT ![f] = 0]
    /\ FrameOver
    /\ UNCHANGED <<table, client, up>>

-----------------------------------------------------------------------------
(* Devices coming, going and being chosen.                                 *)

Device(d) ==
    /\ Running
    /\ UNCHANGED <<table, curr_seq, curr_total, start, from, cut, browsers, up, reused>>

\* connectionParse of the handshake: a random name, not looked up first.
DeviceConnects(d) ==
    /\ Device(d) /\ name[d] = null /\ UNCHANGED clean
    /\ \E n \in Names :
          /\ name' = [name EXCEPT ![d] = n]
          /\ connections' = [connections EXCEPT ![n] = d]
    /\ UNCHANGED <<curr_device, chosen, links>>

\* The close handler: delConnByName.  The device gives up the HTTP requests
\* it was serving (http_mgmt_release_all) and keeps its forwards and what it
\* has not sent; what is under way is lost.
DeviceLost(d) ==
    /\ Device(d) /\ d \in Unstable /\ name[d] # null
    /\ clean' = (clean /\ (curr_seq = null \/ from # d))
    /\ connections' = [connections EXCEPT ![name[d]] = null]
    /\ name' = [name EXCEPT ![d] = null]
    /\ downlink' = [downlink EXCEPT ![d] = <<>>]
    /\ \E n \in 0..Len(uplink[d]) :
          uplink' = [uplink EXCEPT ![d] = SubSeq(@, n + 1, Len(@))]
    /\ serving' = [serving EXCEPT ![d] = {j \in @ : j.type = "open"}]
    /\ UNCHANGED <<curr_device, chosen, lan, sent>>

\* prepare_device, from /__device, /__telnet, /__vnc or /__webcam.
ChooseDevice(n) ==
    /\ Running /\ connections[n] # null /\ curr_device # n
    /\ curr_device' = n
    /\ chosen' = chosen \cup {n}
    /\ UNCHANGED <<table, frame, connections, name, browsers, links, up, reused>>

-----------------------------------------------------------------------------
(* What a device does with the frames it gets.                             *)

\* prepare_process.  A request is queued as a context, a forward opened;
\* data and closes are for the forward of that number.
DeviceTakes(d) ==
    /\ Device(d) /\ name[d] # null /\ downlink[d] # <<>> /\ UNCHANGED clean
    /\ downlink' = [downlink EXCEPT ![d] = Tail(@)]
    /\ LET f    == Head(downlink[d])
           mine == {j \in serving[d] : j.type = "open" /\ j.seq = f.seq}
       IN  \/ /\ f.type \in {"http", "open"}
              /\ serving' = [serving EXCEPT ![d] = @ \cup {f}]
              /\ UNCHANGED <<uplink, lan>>
           \/ /\ f.type = "data"
              /\ lan' = [c \in Forwards |->
                    IF \E j \in mine : j.of = c THEN Append(lan[c], f.data) ELSE lan[c]]
              /\ UNCHANGED <<uplink, serving>>
           \/ /\ f.type = "close"
              /\ serving' = [serving EXCEPT ![d] = @ \ mine]
              /\ uplink' = IF mine = {} THEN uplink
                           ELSE [uplink EXCEPT ![d] = Append(@,
                                    Header(f.seq, 1, Piece(f.of, sent[f.of].up + 1)))]
              /\ UNCHANGED lan
    /\ UNCHANGED <<devices, sent>>

\* A context of a request finishes: its response goes out in one frame.
DeviceAnswers(d) ==
    /\ Device(d) /\ UNCHANGED clean
    /\ \E j \in serving[d], n \in 1..MaxPieces :
          /\ j.type = "http"
          /\ serving' = [serving EXCEPT ![d] = @ \ {j}]
          /\ uplink' = [uplink EXCEPT ![d] =
                @ \o <<Header(j.seq, n, Piece(j.of, 1))>>
                  \o [i \in 1..(n - 1) |-> Body(Piece(j.of, i + 1))]]
    /\ UNCHANGED <<devices, downlink, lan, sent>>

\* The context ends with an error: generate_error converts the length with
\* htons into a 32-bit field, which a little-endian device sends as 2^16
\* times the length.
DeviceFails(d) ==
    /\ Device(d) /\ UNCHANGED clean
    /\ \E j \in serving[d] :
          /\ j.type = "http" /\ j.of \in Refusable
          /\ serving' = [serving EXCEPT ![d] = @ \ {j}]
          /\ uplink' = [uplink EXCEPT ![d] =
                Append(@, Header(j.seq, WrongLength, Piece(j.of, 1)))]
    /\ UNCHANGED <<devices, downlink, lan, sent>>

\* tcp_forward_read; the last piece may be the CLOSED! of a release.
DeviceSends(d) ==
    /\ Device(d) /\ UNCHANGED clean
    /\ \E j \in serving[d], last \in BOOLEAN :
          /\ j.type = "open" /\ sent[j.of].up < MaxData
          /\ sent' = [sent EXCEPT ![j.of].up = @ + 1]
          /\ uplink' = [uplink EXCEPT ![d] =
                Append(@, Header(j.seq, 1, Piece(j.of, sent[j.of].up + 1)))]
          /\ serving' = [serving EXCEPT ![d] = IF last THEN @ \ {j} ELSE @]
    /\ UNCHANGED <<devices, downlink, lan>>

-----------------------------------------------------------------------------

Init ==
    /\ T!Init
    /\ curr_seq = null /\ curr_total = 0 /\ from = null /\ clean = TRUE /\ cut = "never"
    /\ start = [c \in Clients |-> 0]
    /\ connections = [n \in Names |-> null]
    /\ curr_device = null
    /\ chosen = {}
    /\ client = [c \in Clients |-> "idle"]
    /\ number = [c \in Clients |-> null]
    /\ session = [f \in Forwards |-> null]
    /\ got = [c \in Clients |-> <<>>]
    /\ name = [d \in Devices |-> null]
    /\ downlink = [d \in Devices |-> <<>>]
    /\ uplink = [d \in Devices |-> <<>>]
    /\ serving = [d \in Devices |-> {}]
    /\ lan = [f \in Forwards |-> <<>>]
    /\ sent = [f \in Forwards |-> [up |-> 0, down |-> 0]]
    /\ up = TRUE /\ reused = FALSE

Receive(d) ==
    \/ Dropped(d)
    \/ \E c \in Clients : ProcessPart(d, c) \/ ResponseEnds(d, c) \/ ForwardPasses(d, c)

DeviceWorks(d) == DeviceTakes(d) \/ DeviceAnswers(d) \/ DeviceFails(d)

\* The browsers have all been served and nothing is under way.
Quiet ==
    /\ ~Running \/ (\A d \in Devices : uplink[d] = <<>> /\ downlink[d] = <<>>)
    /\ UNCHANGED vars

Next ==
    \/ \E r \in Requests : Request(r) \/ RequestRejected(r)
    \/ \E f \in Forwards :
          Hello(f) \/ HelloThrows(f) \/ Openning(f) \/ BrowserSends(f) \/ HangUp(f)
    \/ \E d \in Devices :
          \/ Receive(d) \/ DeviceConnects(d) \/ DeviceLost(d)
          \/ DeviceWorks(d) \/ DeviceSends(d)
    \/ \E n \in Names : ChooseDevice(n)
    \/ Quiet

\* node handles every event, and a device every frame and every request.
Fairness ==
    \A d \in Devices : WF_vars(Receive(d)) /\ WF_vars(DeviceWorks(d))

Spec     == Init /\ [][Next]_vars
FairSpec == Spec /\ Fairness

-----------------------------------------------------------------------------
(* Properties.                                                             *)

TypeOK ==
    /\ T!TypeOK
    /\ curr_seq \in T!Numbers \cup {null} /\ from \in Devices \cup {null}
    /\ connections \in [Names -> Devices \cup {null}]
    /\ name \in [Devices -> Names \cup {null}]
    /\ curr_device \in Names \cup {null}
    /\ client \in [Clients -> {"idle", "greeted", "open", "over"}]
    /\ number \in [Clients -> T!Numbers \cup {null}]
    /\ chosen \subseteq Names /\ session \in [Forwards -> chosen \cup {null}]

\* Pieces of one client's stream, each once and in order.
InOrderOf(c, pieces) ==
    /\ \A i \in 1..Len(pieces) : pieces[i].of = c
    /\ \A i, j \in 1..Len(pieces) : i < j => pieces[i].n < pieces[j].n

\* A browser is only ever given pieces of its own response or its own
\* forward, each once and in order, whichever devices come, go and answer
\* meanwhile, until something comes into the middle of a frame.  (The browser
\* of a refused request is given more: see FramesDoNotOverlap.)
OwnPiecesInOrder ==
    clean => \A c \in Clients \ Refusable : InOrderOf(c, got[c])

\* The pieces of a response come from its first one on, none left out, until
\* something comes into the middle of a frame.
ResponsesWhole ==
    clean => \A r \in Requests \ Refusable :
                \A i \in 1..Len(got[r]) : got[r][i] = Piece(r, i)

\* Every request being served and every forward that is open is found under
\* its number, whatever is done with the numbers of others, until a hang-up
\* gives back the number of the frame being received.
WaitingIsFound ==
    \A c \in Clients :
        (Running /\ cut = "never" /\ client[c] \in {"greeted", "open"}) =>
            /\ number[c] \in T!Taken
            /\ T!getBySeq(number[c]) = [who |-> c, seq |-> number[c]]

\* "Delete processor at connection closing": the table holds no processor of
\* a request that was answered or of a forward whose browser is gone.
ForgottenWhenOver ==
    \A c \in Clients :
        (Running /\ client[c] = "over") =>
            \A i \in 0..(cnt - 1) : index2obj[i].who # c

\* What there is of it: no processor of a request outlives its response.
RequestsForgotten ==
    \A r \in Requests :
        (Running /\ cut # "twice" /\ client[r] = "over") =>
            \A i \in 0..(cnt - 1) : index2obj[i].who # r

\* "Length include the header": the server never takes the head of a frame
\* for payload of the frame before.
FramesDoNotOverlap ==
    \A d \in Devices :
        (Running /\ name[d] # null /\ uplink[d] # <<>> /\ Head(uplink[d]).head)
            => curr_seq = null

\* What a browser sends on its forward reaches the LAN peer of that forward
\* in order, whatever devices are chosen meanwhile, until a hang-up gives
\* back the number of the frame being received; and without gaps when there
\* is but one device, and it stays.
OneDeviceStays == Unstable = {} /\ \A d, e \in Devices : d = e
BrowserDataInOrder ==
    cut = "never" => \A f \in Forwards :
        /\ InOrderOf(f, lan[f])
        /\ OneDeviceStays => \A i \in 1..Len(lan[f]) : lan[f][i] = Piece(f, i)

\* The one exception that ends the process is that of a hello when the table
\* is full: delSeq always finds what it moves, for whatever number it is
\* called, unless two hang-ups give back the number of one frame.
OnlyHelloThrows == [][up' \/ T!Full \/ cut' = "twice"]_up

\* The server's calls keep the table as SeqTable's own users would, although
\* delSeq is called for curr_seq, which may be stale, and for numbers given
\* back before: objects packed, each found under its own number.  Two
\* hang-ups in one frame are too much: the second delSeq goes through the
\* index the first one left, which may lie behind the last object.
TableKept == (Running /\ cut # "twice") => T!Packed /\ T!EachFound

\* Every request is answered in the end, unless the server is receiving an
\* error response, which never ends.
EveryRequestAnswered ==
    \A r \in Requests :
        (client[r] = "open") ~>
            (client[r] = "over" \/ ~Running \/ curr_total = WrongLength)
===============================================================================
