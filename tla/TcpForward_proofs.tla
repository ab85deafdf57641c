-------------------------- MODULE TcpForward_proofs --------------------------
(***************************************************************************)
(* Proofs about the client's TCP forwards, for any number of forwards,     *)
(* descriptors and chunks of any length: the poll table is used only       *)
(* through its operations, so that what PollTable_proofs shows of it holds *)
(* here; a write is never started inside another; and each direction of a  *)
(* stream arrives in order, whole, and once.                               *)
(***************************************************************************)
EXTENDS TcpForward, SequenceLemmas

PTP == INSTANCE PollTable_proofs

Frames == [type : {"open", "close", "data"}, seq : Seqs, chunk : Units]
Outs   == [seq : Seqs, what : Nat]

Forwards ==
    [alive : BOOLEAN, fd : PT!Fd \cup {PT!Uninit},
     func : {"connect", "write", "read"}, line : {"start", "partial", "eagain"},
     idle : BOOLEAN, todo : Seq(Units), curr : BOOLEAN]
Sockets ==
    [st : {"none", "new", "connecting", "connected", "dead"}, rx : Nat,
     fin : BOOLEAN, full : BOOLEAN, read : Nat]

ScanOK == revents \in [PT!Slot -> SUBSET Flags] /\ scan \in PT!Slot

ForwardsOK ==
    /\ fwd \in [Seqs -> Forwards] /\ sock \in [Seqs -> Sockets]
    /\ lan \in [Seqs -> Units] /\ server \in [Seqs -> Units]
    /\ toserver \in Seq(Outs) /\ inbox \in Seq(Frames)
    /\ sent \in [Seqs -> Nat]
    /\ closing \subseteq opened /\ opened \subseteq Seqs
    /\ intact \in BOOLEAN
    /\ \A s \in Seqs :
          /\ fwd[s].alive <=> sock[s].st # "none"
          /\ fwd[s].alive => fwd[s].fd \in PT!Fd

\* What PollTable_proofs shows of the table, as far as it is needed here.
TableOK ==
    /\ PT!TypeOK /\ PT!TableConsistent /\ PT!ListenerArmed
    /\ kind[Listener] = "TCPSERVER"

\* Until the websocket is there nothing is; then it is in slot 1 for good, and
\* is only said to be writable when there is something to write.
NotYet ==
    /\ kind[Websocket] = "NONE" /\ scan = 0 /\ count_pollfds = 1
    /\ revents = [slot \in PT!Slot |-> {}]
    /\ \A fd \in PT!Fd \ {Listener} : kind[fd] = "NONE"
    /\ \A s \in Seqs : ~fwd[s].alive
InSlot1 ==
    /\ kind[Websocket] = "WEBSOCKET" /\ fd_lookup[Websocket] = 1
    /\ slotFd[1] = Websocket
Loop ==
    /\ NotYet \/ InSlot1
    /\ "POLLOUT" \in revents[1] => toserver # <<>>

\* Where a forward's coroutine is, and what it has to write.
Writing ==
    \A s \in Alive :
        /\ fwd[s].curr <=> fwd[s].line # "start"
        /\ fwd[s].curr => fwd[s].func = "write"
        /\ fwd[s].idle <=> ~fwd[s].curr
        /\ fwd[s].func = "write" <=> fwd[s].todo # <<>>

\* A sequence number is opened once, by the first frame that carries it; until
\* then there is nothing of it.
Fresh(s) ==
    /\ fwd[s] = NoForward /\ sock[s] = NoSocket /\ lan[s] = <<>>
    /\ Upstream(s) = <<>>
IsOpen(i, s)  == inbox[i].seq = s /\ inbox[i].type = "open"
Awaited(s) == s \notin opened \/ \E i \in 1..Len(inbox) : IsOpen(i, s)
Opens == \A s \in Seqs : Awaited(s) => Fresh(s)
Shape ==
    \A s \in Seqs :
        /\ s \notin opened => sent[s] = 0 /\ \A i \in 1..Len(inbox) : inbox[i].seq # s
        /\ \A i, j \in 1..Len(inbox) : IsOpen(i, s) /\ inbox[j].seq = s => i <= j

\* What the server sends to a forward, wherever it is.
Down ==
    \A s \in Seqs : s \in Alive \/ Awaited(s) =>
        lan[s] \o FlattenSeq(fwd[s].todo) \o Coming(s) = Upto(ChunkLen * sent[s])

\* What a forward sends to the server, wherever it is.
Up ==
    \A s \in Seqs :
        /\ s \in Alive => Upstream(s) = Upto(sock[s].read)
        /\ s \notin Alive => \/ Upstream(s) = <<>>
                             \/ \E k \in Nat : Upstream(s) = Append(Upto(k), CLOSED)

Streams == Writing /\ Opens /\ Shape /\ Down /\ Up
IInv == PTP!IndInv /\ ScanOK /\ ForwardsOK /\ Loop /\ Streams

-----------------------------------------------------------------------------
(* The poll table.                                                         *)

LEMMA Sizes ==
  /\ MaxFds \in Nat /\ Listener \in 0..(MaxFds - 1) /\ Websocket \in 0..(MaxFds - 1)
  /\ PT!Fd = 0..(MaxFds - 1) /\ PT!Slot = 0..(MaxFds - 1)
  /\ Listener = 0 /\ Websocket = 1
BY ConstantsAssumption DEF Listener, Websocket, PT!Fd, PT!Slot

\* Both instances are the same module.
LEMMA TableIs ==
  /\ PTP!Init <=> PT!Init
  /\ [PT!Next]_(PT!vars) => [PTP!Next]_(PTP!vars)
<1> USE DEF PTP!Init, PT!Init, PTP!Next, PT!Next, PTP!vars, PT!vars,
            PTP!Slot, PT!Slot, PTP!Fd, PT!Fd, PTP!Uninit, PT!Uninit,
            PTP!ContextKind, PT!ContextKind,
            PTP!WebsocketAdd, PT!WebsocketAdd, PTP!WebsocketDel, PT!WebsocketDel,
            PTP!WebsocketChangeMode, PT!WebsocketChangeMode,
            PTP!ContextOpen, PT!ContextOpen, PTP!ContextRelease, PT!ContextRelease,
            PTP!ContextChangeMode, PT!ContextChangeMode,
            PTP!mgmt_add_fd, PT!mgmt_add_fd, PTP!mgmt_del_fd, PT!mgmt_del_fd
<1>1. PTP!Init <=> PT!Init
  OBVIOUS
<1>2. [PT!Next]_(PT!vars) => [PTP!Next]_(PTP!vars)
  OBVIOUS
<1> QED BY <1>1, <1>2

LEMMA TableFacts == PTP!IndInv => TableOK
<1> USE DEF PTP!IndInv, PTP!Slot, PT!Slot, PTP!Fd, PT!Fd, PTP!Uninit, PT!Uninit
<1>1. PTP!IndInv => PT!TypeOK
  BY DEF PTP!TypeOK, PT!TypeOK, PTP!Events, PT!Events, PTP!Kind, PT!Kind,
         PTP!ContextKind, PT!ContextKind
<1>2. PTP!IndInv => PT!TableConsistent
  BY DEF PTP!TableConsistent, PT!TableConsistent, PTP!Registered, PT!Registered
<1>3. PTP!IndInv => PT!ListenerArmed
  BY DEF PTP!ListenerArmed, PT!ListenerArmed, PTP!Polled, PT!Polled
<1> QED BY <1>1, <1>2, <1>3 DEF TableOK

LEMMA LowestFreeIs ==
  ASSUME Free # {}
  PROVE  LowestFree \in Free /\ \A fd \in Free : LowestFree <= fd
<1>1. Free \subseteq Nat
  BY Sizes DEF Free
<1>2. \E fd \in Free : \A other \in Free : fd <= other
  BY <1>1, LeastNat
<1> QED BY <1>2 DEF LowestFree

\* Every step is a step of the poll table, or leaves it alone.
LEMMA StepTable ==
  ASSUME ForwardsOK, [Next]_vars
  PROVE  [PT!Next]_(PT!vars)
<1> DEFINE Same == UNCHANGED (PT!vars)
<1>1. ASSUME NEW s \in Alive, PT!ContextRelease(fwd[s].fd)
      PROVE  PT!Next
  BY <1>1 DEF PT!Next, ForwardsOK, Alive
<1>2. ASSUME NEW s \in Alive, NEW e \in {{"POLLIN"}, {"POLLOUT"}},
             PT!ContextChangeMode(fwd[s].fd, e)
      PROVE  PT!Next
  BY <1>2 DEF PT!Next, ForwardsOK, Alive
<1>3. ASSUME UNCHANGED table PROVE Same
  BY <1>3 DEF PT!vars, table
<1>4. CASE WebsocketUp
  <2>1. Free # {}
    BY <1>4, Sizes DEF WebsocketUp, Free, PT!Registered
  <2>2. LowestFree \in PT!Fd
    BY <2>1, LowestFreeIs DEF Free
  <2> QED BY <1>4, <2>2 DEF WebsocketUp, PT!Next
<1>5. CASE Poll \/ Writeable \/ ServerSends
  BY <1>3, <1>5 DEF Poll, Writeable, ServerSends
<1>6. ASSUME NEW s \in Seqs, ServiceForward(s)
      PROVE  PT!Next \/ Same
  <2>1. CASE ConnectDone(s) \/ ConnectPending(s) \/ WriteAll(s)
    BY <1>2, <2>1 DEF ConnectDone, ConnectPending, WriteAll, Servicing
  <2>2. CASE ConnectFails(s) \/ WriteFails(s) \/ ReadEnds(s)
    BY <1>1, <2>2 DEF ConnectFails, WriteFails, ReadEnds, Finish,
                      tcp_forward_release, Servicing
  <2>3. CASE WriteAgain(s) \/ ReadAgain(s)
    BY <1>3, <2>3 DEF WriteAgain, ReadAgain
  <2>4. ASSUME NEW chunks \in 0..MaxChunks, NEW units \in 0..(ChunkLen - 1),
               WriteSome(s, chunks, units)
        PROVE  Same
    BY <1>3, <2>4 DEF WriteSome
  <2>5. CASE ReadData(s)
    BY <1>2, <1>3, <2>5 DEF ReadData, Servicing
  <2> QED BY <1>6, <2>1, <2>2, <2>3, <2>4, <2>5 DEF ServiceForward
<1>7. ASSUME NEW s \in Seqs, ServiceWebsocket(s)
      PROVE  PT!Next \/ Same
  <2>1. CASE OpenForward(s)
    <3>1. LowestFree \in PT!Fd
      BY <2>1, LowestFreeIs DEF OpenForward, Free
    <3> QED BY <2>1, <3>1 DEF OpenForward, PT!Next, PT!ContextKind
  <2>2. CASE OpenFails(s) \/ NotFound(s)
    BY <1>3, <2>2 DEF OpenFails, NotFound
  <2>3. CASE CloseForward(s)
    BY <1>1, <2>3 DEF CloseForward, tcp_forward_release
  <2>4. CASE ForwardData(s)
    BY <1>2, <1>3, <2>4 DEF ForwardData
  <2> QED BY <1>7, <2>1, <2>2, <2>3, <2>4 DEF ServiceWebsocket
<1>8. ASSUME NEW s \in Seqs, LanPeer(s)
      PROVE  Same
  BY <1>3, <1>8 DEF LanPeer, Established, RefusedOrReset, PeerSends, PeerCloses,
                    PeerReads, Kernel
<1>9. CASE PollTimeout \/ UNCHANGED vars
  BY <1>3, <1>9 DEF PollTimeout, vars
<1> QED BY <1>4, <1>5, <1>6, <1>7, <1>8, <1>9 DEF Next, Client

-----------------------------------------------------------------------------
(* Frames and the units in them.                                           *)

ComingsOf(q, s) ==
    [i \in 1..Len(q) |->
        IF q[i].seq = s /\ q[i].type = "data" THEN q[i].chunk ELSE <<>>]
ComingOf(q, s) == FlattenSeq(ComingsOf(q, s))
WhatsOf(q, s) == [i \in 1..Len(q) |-> IF q[i].seq = s THEN <<q[i].what>> ELSE <<>>]
WhatOf(q, s)  == FlattenSeq(WhatsOf(q, s))
OneComing(f, s) == IF f.seq = s /\ f.type = "data" THEN f.chunk ELSE <<>>
OneWhat(f, s)   == IF f.seq = s THEN <<f.what>> ELSE <<>>

LEMMA ComingsType ==
  ASSUME NEW q \in Seq(Frames), NEW s
  PROVE  ComingsOf(q, s) \in Seq(Units) /\ ComingOf(q, s) \in Units
<1>1. ASSUME NEW i \in 1..Len(q)
      PROVE  (IF q[i].seq = s /\ q[i].type = "data" THEN q[i].chunk ELSE <<>>) \in Units
  <2>1. q[i] \in Frames
    BY ElementOfSeq
  <2> QED BY <2>1, UnitsConcat DEF Frames
<1>2. ComingsOf(q, s) \in Seq(Units)
  BY <1>1 DEF ComingsOf
<1> QED BY <1>2, FlattenType DEF ComingOf, Units

LEMMA ComingAppend ==
  ASSUME NEW q \in Seq(Frames), NEW f \in Frames, NEW s
  PROVE  ComingOf(Append(q, f), s) = ComingOf(q, s) \o OneComing(f, s)
<1>1. ComingsOf(Append(q, f), s) = Append(ComingsOf(q, s), OneComing(f, s))
  BY DEF ComingsOf, OneComing
<1>2. ComingsOf(q, s) \in Seq(Units) /\ OneComing(f, s) \in Units
  BY ComingsType, UnitsConcat DEF Frames, OneComing
<1> QED BY <1>1, <1>2, FlattenAppend DEF ComingOf, Units

LEMMA ComingTail ==
  ASSUME NEW q \in Seq(Frames), q # <<>>, NEW s
  PROVE  ComingOf(q, s) = OneComing(Head(q), s) \o ComingOf(Tail(q), s)
<1>1. /\ ComingsOf(Tail(q), s) = Tail(ComingsOf(q, s))
      /\ OneComing(Head(q), s) = Head(ComingsOf(q, s))
      /\ ComingsOf(q, s) # <<>>
  BY DEF ComingsOf, OneComing
<1>2. ComingsOf(q, s) \in Seq(Units)
  BY ComingsType
<1> QED BY <1>1, <1>2, FlattenTail DEF ComingOf, Units

LEMMA ComingNone ==
  ASSUME NEW q \in Seq(Frames), NEW s, \A i \in 1..Len(q) : q[i].seq # s
  PROVE  ComingOf(q, s) = <<>>
<1>1. \A i \in 1..Len(ComingsOf(q, s)) : ComingsOf(q, s)[i] = <<>>
  BY DEF ComingsOf
<1>2. ComingsOf(q, s) \in Seq(Units)
  BY ComingsType
<1> QED BY <1>1, <1>2, FlattenNothing DEF ComingOf, Units

LEMMA WhatsType ==
  ASSUME NEW q \in Seq(Outs), NEW s
  PROVE  WhatsOf(q, s) \in Seq(Units) /\ WhatOf(q, s) \in Units
<1>1. ASSUME NEW i \in 1..Len(q)
      PROVE  (IF q[i].seq = s THEN <<q[i].what>> ELSE <<>>) \in Units
  <2>1. q[i] \in Outs
    BY ElementOfSeq
  <2>2. q[i].what \in Nat
    BY <2>1 DEF Outs
  <2> QED BY <2>2 DEF Units
<1>2. WhatsOf(q, s) \in Seq(Units)
  BY <1>1 DEF WhatsOf
<1> QED BY <1>2, FlattenType DEF WhatOf, Units

LEMMA WhatAppend ==
  ASSUME NEW q \in Seq(Outs), NEW f \in Outs, NEW s
  PROVE  WhatOf(Append(q, f), s) = WhatOf(q, s) \o OneWhat(f, s)
<1>1. WhatsOf(Append(q, f), s) = Append(WhatsOf(q, s), OneWhat(f, s))
  BY DEF WhatsOf, OneWhat
<1>2. WhatsOf(q, s) \in Seq(Units) /\ OneWhat(f, s) \in Units
  <2>1. <<f.what>> \in Units
    BY DEF Outs, Units
  <2> QED BY <2>1, WhatsType, UnitsConcat DEF OneWhat
<1> QED BY <1>1, <1>2, FlattenAppend DEF WhatOf, Units

LEMMA WhatTail ==
  ASSUME NEW q \in Seq(Outs), q # <<>>, NEW s
  PROVE  WhatOf(q, s) = OneWhat(Head(q), s) \o WhatOf(Tail(q), s)
<1>1. /\ WhatsOf(Tail(q), s) = Tail(WhatsOf(q, s))
      /\ OneWhat(Head(q), s) = Head(WhatsOf(q, s))
      /\ WhatsOf(q, s) # <<>>
  BY DEF WhatsOf, OneWhat
<1>2. WhatsOf(q, s) \in Seq(Units)
  BY WhatsType
<1> QED BY <1>1, <1>2, FlattenTail DEF WhatOf, Units

LEMMA StreamsAre ==
  /\ \A s : Coming(s) = ComingOf(inbox, s) /\ Upstream(s) = server[s] \o WhatOf(toserver, s)
  /\ \A s : Coming(s)' = ComingOf(inbox', s)
  /\ \A s : Upstream(s)' = server'[s] \o WhatOf(toserver', s)
BY DEF Coming, ComingOf, ComingsOf, Upstream, Queued, WhatOf, WhatsOf

\* The next chunk goes on where the ones before it ended.
LEMMA ChunkNext ==
  ASSUME NEW n \in Nat
  PROVE  /\ Upto(ChunkLen * (n + 1)) = Upto(ChunkLen * n) \o Chunk(n + 1)
         /\ Chunk(n + 1) \in Units
<1> DEFINE a == ChunkLen * n
<1>1. /\ a \in Nat /\ ChunkLen \in Nat
      /\ ChunkLen * (n + 1) = a + ChunkLen /\ ((n + 1) - 1) * ChunkLen = a
  BY ConstantsAssumption
<1> HIDE DEF a
<1>2. Chunk(n + 1) = [i \in 1..ChunkLen |-> a + i]
  BY <1>1 DEF Chunk
<1>3. Upto(a + ChunkLen) = Upto(a) \o [i \in 1..ChunkLen |-> a + i]
  BY <1>1 DEF Upto
<1>4. [i \in 1..ChunkLen |-> a + i] \in Units
  BY <1>1 DEF Units
<1> QED BY <1>1, <1>2, <1>3, <1>4 DEF a

-----------------------------------------------------------------------------
(* The loop: which slot is serviced, and what revents say.                 *)

LEMMA NextSlotIs ==
  ASSUME NEW n \in PT!Slot, NEW rev, NEW count \in 0..MaxFds
  PROVE  NextSlot(n, rev, count) \in PT!Slot
<1> DEFINE later == {m \in (n + 1)..(count - 1) : rev[m] # {}}
<1>1. later \subseteq PT!Slot /\ later \subseteq Nat
  BY Sizes
<1>2. 0 \in PT!Slot
  BY Sizes
<1> HIDE DEF later
<1>3. later # {} => (CHOOSE m \in later : \A o \in later : m <= o) \in later
  <2>1. later # {} => \E m \in later : \A o \in later : m <= o
    BY <1>1, LeastNat
  <2> QED BY <2>1
<1> QED BY <1>1, <1>2, <1>3 DEF NextSlot, later

LEMMA ServiceDoneIs ==
  ASSUME ScanOK, TableOK', NEW rev \in [PT!Slot -> SUBSET Flags], ServiceDone(rev)
  PROVE  /\ ScanOK'
         /\ "POLLOUT" \in revents'[1] => "POLLOUT" \in rev[1]
<1>1. count_pollfds' \in 0..MaxFds
  BY DEF TableOK, PT!TypeOK
<1>2. revents' = [rev EXCEPT ![scan] = {}]
  BY DEF ServiceDone
<1>3. scan' \in PT!Slot
  BY <1>1, NextSlotIs DEF ServiceDone, ScanOK
<1>4. revents' \in [PT!Slot -> SUBSET Flags] /\ 1 \in PT!Slot
  BY <1>2, Sizes DEF ScanOK
<1> QED BY <1>2, <1>3, <1>4 DEF ScanOK

\* A forward's own slot is not the websocket's, nor the last one if that is.
LEMMA MovedReventsIs ==
  ASSUME ScanOK, TableOK, Loop, NEW s \in Alive, ForwardsOK,
         kind[fwd[s].fd] \in PT!ContextKind
  PROVE  /\ MovedRevents(fwd[s].fd) \in [PT!Slot -> SUBSET Flags]
         /\ MovedRevents(fwd[s].fd)[1] = revents[1]
<1> DEFINE fd == fwd[s].fd
<1>1. fd \in PT!Fd /\ fwd[s].alive
  BY DEF ForwardsOK, Alive
<1>2. kind[Websocket] = "WEBSOCKET" /\ fd_lookup[Websocket] = 1 /\ slotFd[1] = Websocket
  BY <1>1 DEF Loop, NotYet, InSlot1, Alive
<1>3. fd # Websocket /\ fd \in PT!Registered
  BY <1>1, <1>2 DEF PT!ContextKind, PT!Registered
<1>4. slotFd[fd_lookup[fd]] = fd /\ fd_lookup[fd] \in 0..(count_pollfds - 1)
  BY <1>3 DEF TableOK, PT!TableConsistent
<1>5. fd_lookup[fd] # 1
  BY <1>2, <1>3, <1>4
<1>6. count_pollfds \in 1..MaxFds
  BY DEF TableOK, PT!TypeOK, PT!ListenerArmed
<1>7. count_pollfds - 1 \in PT!Slot
  BY <1>6, Sizes
<1>8. 1 \in PT!Slot
  BY Sizes
<1> HIDE DEF fd
<1> QED BY <1>5, <1>7, <1>8 DEF MovedRevents, ScanOK, fd

LEMMA PolledIs ==
  ASSUME TableOK, ScanOK
  PROVE  Polled \in [PT!Slot -> SUBSET Flags]
<1>1. ASSUME NEW slot \in PT!Slot
      PROVE  Polled[slot] \in SUBSET Flags
  <2>1. slotEvents[slot] \subseteq Flags
    BY DEF TableOK, PT!TypeOK, PT!Events, Flags
  <2> QED BY <2>1 DEF Polled, ScanOK, Flags
<1> QED BY <1>1 DEF Polled

\* Before the websocket is there poll() has nothing to report.
LEMMA NothingPolled ==
  ASSUME TableOK, Loop, kind[Websocket] # "WEBSOCKET"
  PROVE  \A slot \in 0..(count_pollfds - 1) : Polled[slot] = {}
<1>1. count_pollfds = 1 /\ slotFd[0] = Listener /\ kind[Listener] = "TCPSERVER"
  BY DEF Loop, NotYet, InSlot1, TableOK, PT!ListenerArmed
<1>2. Ready(Listener) = {}
  BY <1>1 DEF Ready
<1>3. Polled[0] = Ready(Listener) \cap
                  (slotEvents[0] \cup {"POLLERR", "POLLHUP"} \cup {})
  BY <1>1, Sizes DEF Polled
<1> QED BY <1>1, <1>2, <1>3

\* No operation on another entry moves the websocket's.
LEMMA StaysInSlot1 ==
  ASSUME TableOK, InSlot1,
         \/ UNCHANGED table
         \/ \E fd \in PT!Fd : \/ \E e \in SUBSET Flags : PT!ContextChangeMode(fd, e)
                              \/ PT!ContextOpen(fd, "FORWARD")
                              \/ PT!ContextRelease(fd)
  PROVE  InSlot1'
<1>1. /\ Websocket \in PT!Registered /\ 1 \in PT!Slot /\ Websocket \in PT!Fd
      /\ Websocket = 1 /\ Listener = 0
  BY Sizes DEF InSlot1, PT!Registered
<1>2. 1 \in 0..(count_pollfds - 1) /\ count_pollfds \in Nat
  BY <1>1 DEF TableOK, PT!TableConsistent, PT!TypeOK, InSlot1
<1>3. CASE UNCHANGED table
  BY <1>3 DEF table, InSlot1
<1>4. ASSUME NEW fd \in PT!Fd, NEW e, PT!ContextChangeMode(fd, e)
      PROVE  InSlot1'
  BY <1>4 DEF PT!ContextChangeMode, InSlot1
<1>5. ASSUME NEW fd \in PT!Fd, PT!ContextOpen(fd, "FORWARD")
      PROVE  InSlot1'
  <2>1. kind[fd] = "NONE" /\ fd # Websocket
    BY <1>5 DEF PT!ContextOpen, InSlot1
  <2>2. count_pollfds # 1
    BY <1>2
  <2> QED BY <1>1, <1>5, <2>1, <2>2 DEF PT!ContextOpen, PT!mgmt_add_fd, InSlot1, TableOK,
                                        PT!TypeOK
<1>6. ASSUME NEW fd \in PT!Fd, PT!ContextRelease(fd)
      PROVE  InSlot1'
  <2>1. fd # Websocket /\ fd # Listener /\ fd \in PT!Registered
    BY <1>6 DEF PT!ContextRelease, PT!ContextKind, InSlot1, TableOK, PT!Registered
  <2> DEFINE last == count_pollfds - 1
             m == fd_lookup[fd]
  <2>2. m \in 0..last /\ slotFd[m] = fd /\ m # 1 /\ m # 0
    <3>1. m \in 0..last /\ slotFd[m] = fd
      BY <2>1 DEF TableOK, PT!TableConsistent
    <3>2. slotFd[0] = Listener /\ slotFd[1] = Websocket
      BY DEF TableOK, PT!ListenerArmed, InSlot1
    <3> QED BY <2>1, <3>1, <3>2
  <2>3. last # 0 /\ last # 1 /\ last \in 0..last /\ last \in Nat
    BY <1>2, <2>2
  <2>4. slotFd[last] # Websocket
    <3>1. fd_lookup[slotFd[last]] = last
      BY <2>3 DEF TableOK, PT!TableConsistent
    <3> QED BY <2>3, <3>1 DEF InSlot1
  <2> HIDE DEF last, m
  <2>5. /\ slotFd' = [slotFd EXCEPT ![m] = slotFd[last]]
        /\ fd_lookup' = [fd_lookup EXCEPT ![slotFd[last]] = m]
        /\ kind' = [kind EXCEPT ![fd] = "NONE"]
    BY <1>6, <2>3 DEF PT!ContextRelease, PT!mgmt_del_fd, last, m
  <2> QED BY <1>1, <2>1, <2>2, <2>4, <2>5 DEF InSlot1, TableOK, PT!TypeOK
<1> QED BY <1>3, <1>4, <1>5, <1>6

\* What a handler that services a slot does to the loop.
LEMMA HandlerLoop ==
  ASSUME TableOK, TableOK', ScanOK, InSlot1, Loop,
         NEW rev \in [PT!Slot -> SUBSET Flags], rev[1] \subseteq revents[1],
         ServiceDone(rev), toserver # <<>> => toserver' # <<>>,
         \/ UNCHANGED table
         \/ \E fd \in PT!Fd : \/ \E e \in SUBSET Flags : PT!ContextChangeMode(fd, e)
                              \/ PT!ContextOpen(fd, "FORWARD")
                              \/ PT!ContextRelease(fd)
  PROVE  ScanOK' /\ Loop'
<1>1. InSlot1'
  BY StaysInSlot1
<1>2. ScanOK' /\ ("POLLOUT" \in revents'[1] => "POLLOUT" \in rev[1])
  BY ServiceDoneIs
<1> QED BY <1>1, <1>2 DEF Loop

-----------------------------------------------------------------------------
(* What a handler does to the streams.                                     *)

\* The frames under way to the other forwards stay, and no number is awaited
\* that was not.
InboxMoves(s) ==
    /\ inbox' \in Seq(Frames) /\ Shape'
    /\ UNCHANGED <<opened, closing, sent>>
    /\ \A t \in Seqs : Awaited(t)' => Awaited(t)
    /\ \A t \in Seqs \ {s} : Coming(t)' = Coming(t)

LEMMA InboxStays ==
  ASSUME ForwardsOK, Shape, UNCHANGED srvVars, NEW s
  PROVE  InboxMoves(s) /\ \A t : Coming(t)' = Coming(t)
<1>1. inbox' = inbox /\ UNCHANGED <<opened, closing, sent>>
  BY DEF srvVars
<1>2. \A t : Coming(t)' = Coming(t)
  BY <1>1, StreamsAre
<1>3. Shape'
  BY <1>1 DEF Shape, IsOpen
<1>4. \A t \in Seqs : Awaited(t)' => Awaited(t)
  BY <1>1 DEF Awaited, IsOpen
<1> QED BY <1>1, <1>2, <1>3, <1>4 DEF InboxMoves, ForwardsOK

\* A frame is taken: no other frame of its number is one to open it.
LEMMA HeadTaken ==
  ASSUME ForwardsOK, Shape, inbox # <<>>, inbox' = Tail(inbox),
         UNCHANGED <<sent, opened, closing>>,
         NEW s \in Seqs, Head(inbox).seq = s
  PROVE  /\ InboxMoves(s) /\ Head(inbox) \in Frames /\ s \in opened
         /\ ~Awaited(s)'
         /\ Coming(s) = OneComing(Head(inbox), s) \o Coming(s)'
         /\ Coming(s)' \in Units
         /\ Head(inbox).type = "open" => Awaited(s)
<1>1. /\ inbox \in Seq(Frames) /\ Tail(inbox) \in Seq(Frames) /\ Head(inbox) \in Frames
      /\ Head(inbox) = inbox[1] /\ 1 \in 1..Len(inbox)
      /\ \A i \in 1..Len(Tail(inbox)) : Tail(inbox)[i] = inbox[i + 1] /\ i + 1 \in 1..Len(inbox)
      /\ \A i \in 1..Len(Tail(inbox)) : i \in Nat
  BY DEF ForwardsOK
<1>2. s \in opened
  BY <1>1 DEF Shape
<1>3. ~Awaited(s)'
  <2>1. ASSUME NEW i \in 1..Len(inbox'), IsOpen(i, s)' PROVE FALSE
    <3>1. i + 1 \in 1..Len(inbox) /\ IsOpen(i + 1, s) /\ i \in 1..Len(inbox') /\ i >= 1
      BY <1>1, <2>1 DEF IsOpen
    <3>2. i + 1 <= 1
      BY <1>1, <3>1 DEF Shape
    <3> QED BY <3>1, <3>2
  <2> QED BY <1>2, <2>1 DEF Awaited
<1>4. ASSUME NEW t \in Seqs, Awaited(t)' PROVE Awaited(t)
  <2>1. ASSUME NEW i \in 1..Len(inbox'), IsOpen(i, t)'
        PROVE  \E j \in 1..Len(inbox) : IsOpen(j, t)
    BY <1>1, <2>1 DEF IsOpen
  <2> QED BY <1>4, <2>1 DEF Awaited
<1>5. Shape'
  <2> SUFFICES ASSUME NEW t \in Seqs
               PROVE  /\ t \notin opened' => sent'[t] = 0 /\ \A i \in 1..Len(inbox') : inbox'[i].seq # t
                      /\ \A i, j \in 1..Len(inbox') : IsOpen(i, t)' /\ inbox'[j].seq = t => i <= j
    BY DEF Shape
  <2>1. t \notin opened' => sent'[t] = 0 /\ \A i \in 1..Len(inbox') : inbox'[i].seq # t
    BY <1>1 DEF Shape
  <2>2. ASSUME NEW i \in 1..Len(inbox'), NEW j \in 1..Len(inbox'), IsOpen(i, t)', inbox'[j].seq = t
        PROVE  i <= j
    <3>1. /\ i + 1 \in 1..Len(inbox) /\ j + 1 \in 1..Len(inbox)
          /\ IsOpen(i + 1, t) /\ inbox[j + 1].seq = t /\ i \in Nat /\ j \in Nat
      BY <1>1, <2>2 DEF IsOpen
    <3>2. i + 1 <= j + 1
      BY <3>1 DEF Shape
    <3> QED BY <3>1, <3>2
  <2> QED BY <2>1, <2>2
<1>6. \A t : Coming(t) = OneComing(Head(inbox), t) \o Coming(t)' /\ Coming(t)' \in Units
  BY <1>1, ComingTail, ComingsType, StreamsAre
<1>7. ASSUME NEW t \in Seqs \ {s} PROVE Coming(t)' = Coming(t)
  <2>1. OneComing(Head(inbox), t) = <<>>
    BY DEF OneComing
  <2>2. <<>> \o Coming(t)' = Coming(t)'
    BY <1>6, UnitsConcat
  <2> QED BY <1>6, <2>1, <2>2
<1>8. Head(inbox).type = "open" => Awaited(s)
  BY <1>1 DEF Awaited, IsOpen
<1> QED BY <1>1, <1>2, <1>3, <1>4, <1>5, <1>6, <1>7, <1>8 DEF InboxMoves

\* What is queued for the server of the other forwards stays.
QueueMoves(s) ==
    /\ toserver' \in Seq(Outs) /\ server' = server
    /\ \A t \in Seqs \ {s} : Upstream(t)' = Upstream(t)

LEMMA QueueStays ==
  ASSUME ForwardsOK, UNCHANGED <<toserver, server>>, NEW s
  PROVE  QueueMoves(s) /\ \A t : Upstream(t)' = Upstream(t)
BY StreamsAre DEF QueueMoves, ForwardsOK

LEMMA QueueGrows ==
  ASSUME ForwardsOK, NEW s \in Seqs, NEW w \in Nat,
         toserver' = Append(toserver, [seq |-> s, what |-> w]), server' = server
  PROVE  /\ QueueMoves(s) /\ Upstream(s)' = Append(Upstream(s), w)
         /\ Upstream(s) \in Units
<1> DEFINE f == [seq |-> s, what |-> w]
<1>1. f \in Outs /\ toserver \in Seq(Outs) /\ f.seq = s /\ f.what = w
  BY DEF ForwardsOK, Outs
<1> HIDE DEF f
<1>2. \A t : WhatOf(toserver', t) = WhatOf(toserver, t) \o OneWhat(f, t)
  BY <1>1, WhatAppend DEF f
<1>3. ASSUME NEW t \in Seqs \ {s} PROVE Upstream(t)' = Upstream(t)
  <2>1. OneWhat(f, t) = <<>>
    BY <1>1 DEF OneWhat
  <2>2. WhatOf(toserver, t) \o <<>> = WhatOf(toserver, t)
    BY <1>1, WhatsType, UnitsConcat
  <2> QED BY <1>2, <2>1, <2>2, StreamsAre
<1>4. toserver' \in Seq(Outs)
  BY <1>1, AppendProperties DEF f
<1>5. Upstream(s)' = Append(Upstream(s), w) /\ Upstream(s) \in Units
  <2> DEFINE a == server[s]
             c == WhatOf(toserver, s)
  <2>1. a \in Units /\ c \in Units /\ <<w>> \in Units
    BY <1>1, WhatsType DEF ForwardsOK, Units
  <2>2. OneWhat(f, s) = <<w>>
    BY <1>1 DEF OneWhat
  <2>3. Upstream(s)' = a \o (c \o <<w>>) /\ Upstream(s) = a \o c
    BY <1>2, <2>2, StreamsAre
  <2> HIDE DEF a, c
  <2>4. a \o (c \o <<w>>) = (a \o c) \o <<w>> /\ a \o c \in Units
    BY <2>1, UnitsConcat
  <2>5. (a \o c) \o <<w>> = Append(a \o c, w)
    BY <2>4, AppendIsConcat DEF Units
  <2> QED BY <2>3, <2>4, <2>5
<1> QED BY <1>3, <1>4, <1>5 DEF QueueMoves

\* A handler that keeps its forward s.
LEMMA ServedKeeps ==
  ASSUME ForwardsOK, Streams, NEW s \in Alive,
         NEW r \in Forwards, NEW k \in Sockets, NEW l \in Units,
         fwd' = [fwd EXCEPT ![s] = r], sock' = [sock EXCEPT ![s] = k],
         lan' = [lan EXCEPT ![s] = l], intact' = intact,
         r.alive, r.fd = fwd[s].fd, k.st # "none",
         r.curr <=> r.line # "start",
         r.curr => r.func = "write",
         r.idle <=> ~r.curr,
         r.func = "write" <=> r.todo # <<>>,
         InboxMoves(s), QueueMoves(s),
         l \o FlattenSeq(r.todo) \o Coming(s)'
             = lan[s] \o FlattenSeq(fwd[s].todo) \o Coming(s),
         Upstream(s)' = Upto(k.read)
  PROVE  ForwardsOK' /\ Streams'
<1> USE DEF Alive
<1>1. /\ s \in Seqs /\ fwd'[s] = r /\ sock'[s] = k /\ lan'[s] = l
      /\ \A t \in Seqs \ {s} : fwd'[t] = fwd[t] /\ sock'[t] = sock[t] /\ lan'[t] = lan[t]
  BY DEF ForwardsOK
<1>2. Alive' = Alive
  BY <1>1
<1>3. ForwardsOK'
  <2>1. \A t \in Seqs : (fwd'[t].alive <=> sock'[t].st # "none")
                        /\ (fwd'[t].alive => fwd'[t].fd \in PT!Fd)
    BY <1>1 DEF ForwardsOK
  <2> QED BY <2>1 DEF ForwardsOK, InboxMoves, QueueMoves
<1>4. Writing'
  BY <1>1, <1>2 DEF Streams, Writing
<1>5. ~Awaited(s)
  BY <1>1 DEF Streams, Opens, Fresh, NoForward
<1>6. Opens'
  BY <1>1, <1>5 DEF Streams, Opens, Fresh, InboxMoves, QueueMoves
<1>7. Down'
  <2> SUFFICES ASSUME NEW t \in Seqs, (t \in Alive \/ Awaited(t))'
               PROVE  (lan[t] \o FlattenSeq(fwd[t].todo) \o Coming(t) = Upto(ChunkLen * sent[t]))'
    BY DEF Down
  <2>1. sent' = sent /\ (t \in Alive \/ Awaited(t))
    BY <1>2 DEF InboxMoves
  <2>2. lan[t] \o FlattenSeq(fwd[t].todo) \o Coming(t) = Upto(ChunkLen * sent[t])
    BY <2>1 DEF Streams, Down
  <2>3. CASE t = s
    BY <1>1, <2>1, <2>2, <2>3
  <2>4. CASE t # s
    <3>1. Coming(t)' = Coming(t)
      BY <2>4 DEF InboxMoves
    <3> QED BY <1>1, <2>1, <2>2, <2>4, <3>1
  <2> QED BY <2>3, <2>4
<1>8. Up'
  <2>1. s \in Alive' /\ Upstream(s)' = Upto(sock'[s].read)
    BY <1>1, <1>2
  <2>2. \A t \in Seqs \ {s} : Upstream(t)' = Upstream(t)
    BY DEF QueueMoves
  <2> QED BY <1>1, <1>2, <2>1, <2>2 DEF Streams, Up
<1> QED BY <1>3, <1>4, <1>6, <1>7, <1>8 DEF Streams, InboxMoves

\* A handler that releases it.
LEMMA ReleasedKeeps ==
  ASSUME ForwardsOK, Streams, NEW s \in Alive,
         fwd' = [fwd EXCEPT ![s] = NoForward], sock' = [sock EXCEPT ![s] = NoSocket],
         lan' = lan, intact' \in BOOLEAN,
         toserver' = Append(toserver, ClosedFrame(s)), server' = server,
         InboxMoves(s)
  PROVE  ForwardsOK' /\ Streams'
<1> USE DEF Alive
<1>1. /\ s \in Seqs /\ fwd'[s] = NoForward /\ sock'[s] = NoSocket
      /\ \A t \in Seqs \ {s} : fwd'[t] = fwd[t] /\ sock'[t] = sock[t]
  BY DEF ForwardsOK
<1>2. Alive' = Alive \ {s}
  BY <1>1 DEF NoForward
<1>3. QueueMoves(s) /\ Upstream(s)' = Append(Upstream(s), CLOSED)
  BY <1>1, QueueGrows DEF ClosedFrame, CLOSED
<1>4. ForwardsOK'
  <2>1. NoForward \in Forwards /\ NoSocket \in Sockets
    BY EmptySeq DEF NoForward, NoSocket, Forwards, Sockets
  <2>2. \A t \in Seqs : (fwd'[t].alive <=> sock'[t].st # "none")
                        /\ (fwd'[t].alive => fwd'[t].fd \in PT!Fd)
    BY <1>1 DEF ForwardsOK, NoForward, NoSocket
  <2> QED BY <1>3, <2>1, <2>2 DEF ForwardsOK, InboxMoves, QueueMoves
<1>5. Writing'
  BY <1>1, <1>2 DEF Streams, Writing
<1>6. ~Awaited(s)
  BY <1>1 DEF Streams, Opens, Fresh, NoForward
<1>7. Opens'
  BY <1>1, <1>3, <1>6 DEF Streams, Opens, Fresh, InboxMoves, QueueMoves
<1>8. Down'
  <2> SUFFICES ASSUME NEW t \in Seqs, (t \in Alive \/ Awaited(t))'
               PROVE  (lan[t] \o FlattenSeq(fwd[t].todo) \o Coming(t) = Upto(ChunkLen * sent[t]))'
    BY DEF Down
  <2>1. t # s /\ sent' = sent /\ (t \in Alive \/ Awaited(t))
    BY <1>2, <1>6 DEF InboxMoves
  <2>2. Coming(t)' = Coming(t)
    BY <2>1 DEF InboxMoves
  <2> QED BY <1>1, <2>1, <2>2 DEF Streams, Down
<1>9. Up'
  <2>1. Upstream(s)' = Append(Upto(sock[s].read), CLOSED) /\ sock[s].read \in Nat
    BY <1>1, <1>3 DEF Streams, Up, ForwardsOK, Sockets
  <2>2. \A t \in Seqs \ {s} : Upstream(t)' = Upstream(t)
    BY <1>3 DEF QueueMoves
  <2> SUFFICES ASSUME NEW t \in Seqs
               PROVE  /\ t \in Alive' => Upstream(t)' = Upto(sock'[t].read)
                      /\ t \notin Alive' => \/ Upstream(t)' = <<>>
                                            \/ \E k \in Nat : Upstream(t)' = Append(Upto(k), CLOSED)
    BY DEF Up
  <2>3. CASE t = s
    BY <1>2, <2>1, <2>3
  <2>4. CASE t # s
    BY <1>1, <1>2, <2>2, <2>4 DEF Streams, Up
  <2> QED BY <2>3, <2>4
<1> QED BY <1>4, <1>5, <1>7, <1>8, <1>9 DEF Streams, InboxMoves

-----------------------------------------------------------------------------
(* Every step.                                                             *)

Rest == ScanOK /\ ForwardsOK /\ Loop /\ Streams

\* What a handler finds: its forward is alive, so the websocket is there.
LEMMA Found ==
  ASSUME TableOK, Rest, NEW s \in Alive
  PROVE  /\ s \in Seqs /\ InSlot1
         /\ fwd[s] \in Forwards /\ sock[s] \in Sockets /\ lan[s] \in Units
         /\ fwd[s].alive /\ sock[s].st # "none" /\ fwd[s].fd \in PT!Fd
         /\ fwd[s].curr <=> fwd[s].line # "start"
         /\ fwd[s].curr => fwd[s].func = "write"
         /\ fwd[s].idle <=> ~fwd[s].curr
         /\ fwd[s].func = "write" <=> fwd[s].todo # <<>>
         /\ fwd[s].todo \in Seq(Units)
         /\ Upstream(s) = Upto(sock[s].read)
         /\ sock[s].read \in Nat
<1>1. s \in Seqs /\ fwd[s].alive
  BY DEF Alive
<1>2. fwd[s] \in Forwards /\ sock[s] \in Sockets /\ lan[s] \in Units
  BY <1>1 DEF Rest, ForwardsOK
<1>3. InSlot1
  BY <1>1 DEF Rest, Loop, NotYet
<1>4. sock[s].st # "none" /\ fwd[s].fd \in PT!Fd
  BY <1>1 DEF Rest, ForwardsOK
<1>5. fwd[s].todo \in Seq(Units) /\ sock[s].read \in Nat
  BY <1>2 DEF Forwards, Sockets
<1>6. Upstream(s) = Upto(sock[s].read)
  BY <1>1 DEF Rest, Streams, Up
<1> QED BY <1>1, <1>2, <1>3, <1>4, <1>5, <1>6 DEF Rest, Streams, Writing

\* A handler that sends nothing and receives nothing.
LEMMA QuietHandler ==
  ASSUME TableOK, TableOK', Rest, NEW s \in Alive,
         NEW r \in Forwards, NEW k \in Sockets, NEW l \in Units,
         fwd' = [fwd EXCEPT ![s] = r], sock' = [sock EXCEPT ![s] = k],
         lan' = [lan EXCEPT ![s] = l],
         UNCHANGED <<toserver, server, srvVars, intact>>,
         r.alive, r.fd = fwd[s].fd, k.st # "none",
         r.curr <=> r.line # "start",
         r.curr => r.func = "write",
         r.idle <=> ~r.curr,
         r.func = "write" <=> r.todo # <<>>,
         k.read = sock[s].read,
         l \o FlattenSeq(r.todo) = lan[s] \o FlattenSeq(fwd[s].todo),
         \/ UNCHANGED table
         \/ \E e \in SUBSET Flags : PT!ContextChangeMode(fwd[s].fd, e),
         ServiceDone(revents)
  PROVE  Rest'
<1>1. s \in Seqs /\ InSlot1 /\ fwd[s].fd \in PT!Fd /\ Upstream(s) = Upto(sock[s].read)
  BY Found
<1>2. ForwardsOK /\ Streams /\ ScanOK /\ Loop /\ Shape
  BY DEF Rest, Streams
<1>3. InboxMoves(s) /\ Coming(s)' = Coming(s)
  BY <1>2, InboxStays
<1>4. QueueMoves(s) /\ Upstream(s)' = Upto(k.read)
  BY <1>1, <1>2, QueueStays
<1>5. l \o FlattenSeq(r.todo) \o Coming(s)'
             = lan[s] \o FlattenSeq(fwd[s].todo) \o Coming(s)
  BY <1>3
<1>6. ForwardsOK' /\ Streams'
  BY <1>2, <1>3, <1>4, <1>5, ServedKeeps
<1>7. revents \in [PT!Slot -> SUBSET Flags] /\ toserver' = toserver
  BY <1>2 DEF ScanOK
<1>8. ScanOK' /\ Loop'
  BY <1>1, <1>2, <1>7, HandlerLoop
<1> QED BY <1>6, <1>8 DEF Rest

LEMMA ConnectKeeps ==
  ASSUME TableOK, TableOK', Rest, NEW s \in Seqs, ConnectDone(s) \/ ConnectPending(s)
  PROVE  Rest'
<1>1. s \in Alive /\ fwd[s].func = "connect"
  BY DEF ConnectDone, ConnectPending, Servicing
<1> DEFINE r == IF ConnectDone(s)
                THEN [fwd[s] EXCEPT !.func = "read", !.line = "start", !.idle = TRUE]
                ELSE fwd[s]
           k == [sock[s] EXCEPT !.st = sock'[s].st]
<1>2. /\ fwd[s] \in Forwards /\ sock[s] \in Sockets /\ lan[s] \in Units
      /\ fwd[s].alive /\ sock[s].st # "none" /\ sock[s].read \in Nat
      /\ fwd[s].curr <=> fwd[s].line # "start"
      /\ fwd[s].curr => fwd[s].func = "write"
      /\ fwd[s].idle <=> ~fwd[s].curr
      /\ fwd[s].func = "write" <=> fwd[s].todo # <<>>
  BY <1>1, Found
<1>3. fwd \in [Seqs -> Forwards] /\ sock \in [Seqs -> Sockets] /\ lan \in [Seqs -> Units]
  BY DEF Rest, ForwardsOK
<1>4. r \in Forwards /\ fwd' = [fwd EXCEPT ![s] = r]
  <2>1. CASE ConnectDone(s)
    BY <1>2, <1>3, <2>1 DEF ConnectDone, Forwards
  <2>2. CASE ~ConnectDone(s)
    BY <1>2, <1>3, <2>2 DEF ConnectPending
  <2> QED BY <2>1, <2>2
<1>5. k \in Sockets /\ sock' = [sock EXCEPT ![s] = k] /\ k.st # "none" /\ k.read = sock[s].read
  <2>1. sock' = sock \/ \E st \in {"connected", "connecting"} : sock' = [sock EXCEPT ![s].st = st]
    BY DEF ConnectDone, ConnectPending
  <2> QED BY <1>2, <1>3, <2>1 DEF Sockets
<1>6. lan' = [lan EXCEPT ![s] = lan[s]] /\ UNCHANGED <<toserver, server, srvVars, intact>>
  BY <1>3 DEF ConnectDone, ConnectPending
<1>7. /\ r.alive /\ r.fd = fwd[s].fd /\ r.curr = fwd[s].curr /\ r.todo = fwd[s].todo
      /\ r.curr <=> r.line # "start"
      /\ r.curr => r.func = "write"
      /\ r.idle <=> ~r.curr
      /\ r.func = "write" <=> r.todo # <<>>
  BY <1>1, <1>2 DEF Forwards
<1>8. /\ ServiceDone(revents)
      /\ \E e \in SUBSET Flags : PT!ContextChangeMode(fwd[s].fd, e)
  <2>1. {"POLLIN"} \in SUBSET Flags /\ {"POLLOUT"} \in SUBSET Flags
    BY DEF Flags
  <2> QED BY <2>1 DEF ConnectDone, ConnectPending
<1> HIDE DEF r, k
<1> QED BY <1>1, <1>2, <1>4, <1>5, <1>6, <1>7, <1>8, QuietHandler

LEMMA WriteAllKeeps ==
  ASSUME TableOK, TableOK', Rest, NEW s \in Seqs, WriteAll(s)
  PROVE  Rest'
<1>1. s \in Alive /\ fwd[s].func = "write"
  BY DEF WriteAll, Servicing
<1> DEFINE r == [fwd[s] EXCEPT !.func = "read", !.line = "start",
                               !.idle = TRUE, !.todo = <<>>, !.curr = FALSE]
           l == lan[s] \o FlattenSeq(fwd[s].todo)
<1>2. /\ fwd[s] \in Forwards /\ sock[s] \in Sockets /\ lan[s] \in Units
      /\ fwd[s].alive /\ sock[s].st # "none" /\ sock[s].read \in Nat
      /\ fwd[s].todo \in Seq(Units)
  BY <1>1, Found
<1>3. fwd \in [Seqs -> Forwards] /\ sock \in [Seqs -> Sockets] /\ lan \in [Seqs -> Units]
  BY DEF Rest, ForwardsOK
<1>4. r \in Forwards /\ fwd' = [fwd EXCEPT ![s] = r]
  <2>1. <<>> \in Seq(Units)
    OBVIOUS
  <2>2. r \in Forwards
    BY <1>2, <2>1 DEF Forwards
  <2>3. fwd' = [fwd EXCEPT ![s] = r]
    BY <1>2, <1>3 DEF WriteAll
  <2> QED BY <2>2, <2>3
<1>5. PICK full \in BOOLEAN : sock' = [sock EXCEPT ![s].full = full]
  BY DEF WriteAll
<1>6. /\ [sock[s] EXCEPT !.full = full] \in Sockets
      /\ sock' = [sock EXCEPT ![s] = [sock[s] EXCEPT !.full = full]]
      /\ [sock[s] EXCEPT !.full = full].st # "none"
      /\ [sock[s] EXCEPT !.full = full].read = sock[s].read
  BY <1>2, <1>3, <1>5 DEF Sockets
<1>7. l \in Units /\ l \o FlattenSeq(<<>>) = lan[s] \o FlattenSeq(fwd[s].todo)
  <2>1. FlattenSeq(fwd[s].todo) \in Units
    BY <1>2, FlattenType DEF Units
  <2>2. l \in Units
    BY <1>2, <2>1, UnitsConcat
  <2>3. FlattenSeq(<<>>) = <<>>
    BY FlattenEmpty
  <2>4. l \o <<>> = l
    BY <2>2, UnitsConcat
  <2> QED BY <2>2, <2>3, <2>4
<1>8. lan' = [lan EXCEPT ![s] = l] /\ UNCHANGED <<toserver, server, srvVars, intact>>
  BY <1>3 DEF WriteAll
<1>9. /\ r.alive /\ r.fd = fwd[s].fd /\ ~r.curr /\ r.todo = <<>>
      /\ r.line = "start" /\ r.func = "read" /\ r.idle
  BY <1>2 DEF Forwards
<1>10. /\ ServiceDone(revents)
       /\ \E e \in SUBSET Flags : PT!ContextChangeMode(fwd[s].fd, e)
  <2>1. {"POLLIN"} \in SUBSET Flags
    BY DEF Flags
  <2> QED BY <2>1 DEF WriteAll
<1>11. l \o FlattenSeq(r.todo) = lan[s] \o FlattenSeq(fwd[s].todo)
  BY <1>7, <1>9
<1>12. l \in Units
  BY <1>7
<1> HIDE DEF r, l
<1> QED BY <1>1, <1>4, <1>6, <1>8, <1>9, <1>10, <1>11, <1>12, QuietHandler

LEMMA AgainKeeps ==
  ASSUME TableOK, TableOK', Rest, NEW s \in Seqs, WriteAgain(s) \/ ReadAgain(s)
  PROVE  Rest'
<1>1. s \in Alive
  BY DEF WriteAgain, ReadAgain, Servicing
<1> DEFINE r == IF WriteAgain(s)
                THEN [fwd[s] EXCEPT
                        !.line = IF fwd[s].line = "eagain" THEN "partial" ELSE "eagain",
                        !.idle = FALSE, !.curr = TRUE]
                ELSE [fwd[s] EXCEPT !.idle = TRUE]
<1>2. /\ fwd[s] \in Forwards /\ sock[s] \in Sockets /\ lan[s] \in Units
      /\ fwd[s].alive /\ sock[s].st # "none" /\ sock[s].read \in Nat
      /\ fwd[s].curr <=> fwd[s].line # "start"
      /\ fwd[s].curr => fwd[s].func = "write"
      /\ fwd[s].idle <=> ~fwd[s].curr
      /\ fwd[s].func = "write" <=> fwd[s].todo # <<>>
  BY <1>1, Found
<1>3. fwd \in [Seqs -> Forwards] /\ sock \in [Seqs -> Sockets] /\ lan \in [Seqs -> Units]
  BY DEF Rest, ForwardsOK
<1>4. r \in Forwards /\ fwd' = [fwd EXCEPT ![s] = r]
  <2>1. CASE WriteAgain(s)
    BY <1>2, <1>3, <2>1 DEF WriteAgain, Forwards
  <2>2. CASE ~WriteAgain(s)
    BY <1>2, <1>3, <2>2 DEF ReadAgain, Forwards
  <2> QED BY <2>1, <2>2
<1>5. /\ sock' = [sock EXCEPT ![s] = sock[s]] /\ lan' = [lan EXCEPT ![s] = lan[s]]
      /\ UNCHANGED <<toserver, server, srvVars, intact>>
      /\ UNCHANGED table /\ ServiceDone(revents)
  BY <1>3 DEF WriteAgain, ReadAgain
<1>6. r.alive /\ r.fd = fwd[s].fd /\ r.todo = fwd[s].todo /\ r.func = fwd[s].func
  BY <1>2 DEF Forwards
<1>7. /\ r.curr <=> r.line # "start"
      /\ r.curr => r.func = "write"
      /\ r.idle <=> ~r.curr
      /\ r.func = "write" <=> r.todo # <<>>
  <2>1. CASE WriteAgain(s)
    BY <1>2, <1>6, <2>1 DEF WriteAgain, Servicing, Forwards
  <2>2. CASE ~WriteAgain(s)
    BY <1>2, <1>6, <2>2 DEF ReadAgain, Servicing, Forwards
  <2> QED BY <2>1, <2>2
<1>8. lan[s] \o FlattenSeq(r.todo) = lan[s] \o FlattenSeq(fwd[s].todo)
  BY <1>6
<1> HIDE DEF r
<1> QED BY <1>1, <1>2, <1>4, <1>5, <1>6, <1>7, <1>8, QuietHandler

\* Writing stops in the middle: what is written and what is left.
Written(todo, chunks) == FlattenSeq(SubSeq(todo, 1, chunks))
PartWritten(todo, chunks, units) == SubSeq(todo[chunks + 1], 1, units)
NotWritten(todo, chunks, units) ==
    <<SubSeq(todo[chunks + 1], units + 1, Len(todo[chunks + 1]))>>
        \o SubSeq(todo, chunks + 2, Len(todo))

LEMMA SplitTodo ==
  ASSUME NEW todo \in Seq(Units), NEW chunks \in Nat, chunks < Len(todo),
         NEW units \in Nat, units < Len(todo[chunks + 1])
  PROVE  /\ NotWritten(todo, chunks, units) \in Seq(Units)
         /\ NotWritten(todo, chunks, units) # <<>>
         /\ FlattenSeq(NotWritten(todo, chunks, units)) \in Units
         /\ Written(todo, chunks) \in Units /\ PartWritten(todo, chunks, units) \in Units
         /\ FlattenSeq(todo) = (Written(todo, chunks) \o PartWritten(todo, chunks, units))
                                  \o FlattenSeq(NotWritten(todo, chunks, units))
<1> DEFINE next == todo[chunks + 1]
           rest == NotWritten(todo, chunks, units)
<1> DEFINE before == SubSeq(todo, 1, chunks)
           after  == SubSeq(todo, chunks + 2, Len(todo))
           a == SubSeq(next, 1, units)
           b == SubSeq(next, units + 1, Len(next))
<1>1. next \in Units
  BY ElementOfSeq
<1>2. a \in Units /\ b \in Units /\ next = a \o b
  <2>1. Len(next) \in Nat
    BY <1>1 DEF Units
  <2>2. units \in 0..Len(next)
    BY <2>1
  <2> QED BY <1>1, <2>2, SplitSeq DEF Units
<1>3. before \in Seq(Units) /\ after \in Seq(Units) /\ todo = before \o (<<next>> \o after)
  <2>1. Len(todo) \in Nat /\ chunks + 1 \in 1..Len(todo) /\ chunks \in 0..Len(todo)
    OBVIOUS
  <2>2. before \in Seq(Units) /\ todo = before \o SubSeq(todo, chunks + 1, Len(todo))
    BY <2>1, SplitSeq
  <2>3. Len(todo) \in (chunks + 1)..Len(todo) /\ (chunks + 1) + 1 = chunks + 2
    BY <2>1
  <2>4. SubSeq(todo, chunks + 1, Len(todo)) = <<next>> \o after
    BY <2>1, <2>3, SubSeqRecursiveFirst
  <2>5. after \in Seq(Units)
    <3>1. chunks + 1 \in 0..Len(todo)
      BY <2>1
    <3> QED BY <2>3, <3>1, SplitSeq
  <2> QED BY <2>2, <2>4, <2>5
<1>4. todo = before \o (<<next>> \o after)
  BY <1>3
<1>5. rest = <<b>> \o after
  BY DEF NotWritten
<1> HIDE DEF before, after, a, b, next, rest
<1>6. <<next>> \in Seq(Units) /\ <<b>> \in Seq(Units)
  BY <1>1, <1>2
<1>7. <<next>> \o after \in Seq(Units) /\ rest \in Seq(Units) /\ rest # <<>>
  <2>1. Len(rest) = 1 + Len(after) /\ Len(after) \in Nat
    BY <1>3, <1>5
  <2>2. rest # <<>>
    BY <2>1
  <2>3. after \in Seq(Units)
    BY <1>3
  <2>4. <<next>> \o after \in Seq(Units) /\ <<b>> \o after \in Seq(Units)
    BY <1>6, <2>3, ConcatProperties
  <2> QED BY <1>5, <2>2, <2>4
<1>8. FlattenSeq(<<next>>) = next /\ FlattenSeq(<<b>>) = b
  BY FlattenOne
<1>9. FlattenSeq(<<next>> \o after) = next \o FlattenSeq(after)
  BY <1>3, <1>6, <1>8, FlattenConcat DEF Units
<1>10. FlattenSeq(rest) = b \o FlattenSeq(after)
  BY <1>3, <1>5, <1>6, <1>8, FlattenConcat DEF Units
<1> DEFINE x == <<next>> \o after
<1> HIDE DEF x
<1>11. FlattenSeq(todo) = FlattenSeq(before) \o (next \o FlattenSeq(after))
  <2>1. x \in Seq(Units) /\ todo = before \o x /\ FlattenSeq(x) = next \o FlattenSeq(after)
    BY <1>4, <1>7, <1>9 DEF x
  <2>2. FlattenSeq(before \o x) = FlattenSeq(before) \o FlattenSeq(x)
    BY <1>3, <2>1, FlattenConcat DEF Units
  <2> QED BY <2>1, <2>2
<1> DEFINE fb == FlattenSeq(before)
           fa == FlattenSeq(after)
<1>12. fb \in Units /\ fa \in Units /\ FlattenSeq(rest) \in Units
  BY <1>3, <1>7, FlattenType DEF Units
<1> HIDE DEF fb, fa
<1>13. fb \o ((a \o b) \o fa) = (fb \o a) \o (b \o fa)
  <2>1. (a \o b) \o fa = a \o (b \o fa)
    BY <1>2, <1>12, UnitsAssoc
  <2>2. b \o fa \in Units
    BY <1>2, <1>12, UnitsConcat
  <2>3. fb \o (a \o (b \o fa)) = (fb \o a) \o (b \o fa)
    <3> DEFINE y == b \o fa
    <3>1. y \in Units
      BY <2>2
    <3> HIDE DEF y
    <3>2. fb \in Units /\ a \in Units
      BY <1>2, <1>12
    <3>3. (fb \o a) \o y = fb \o (a \o y)
      BY <3>1, <3>2, UnitsAssoc
    <3> QED BY <3>3 DEF y
  <2> QED BY <2>1, <2>3
<1>14. FlattenSeq(todo) = (fb \o a) \o FlattenSeq(rest)
  BY <1>2, <1>10, <1>11, <1>13 DEF fb, fa
<1> QED BY <1>2, <1>7, <1>12, <1>14 DEF fb, before, a, next, rest, Written, PartWritten

LEMMA WriteSomeKeeps ==
  ASSUME TableOK, TableOK', Rest, NEW s \in Seqs, NEW chunks \in 0..MaxChunks,
         NEW units \in 0..(ChunkLen - 1), WriteSome(s, chunks, units)
  PROVE  Rest'
<1>1. s \in Alive /\ fwd[s].func = "write"
  BY DEF WriteSome, Servicing
<1> DEFINE todo == fwd[s].todo
           next == todo[chunks + 1]
           rest == <<SubSeq(next, units + 1, Len(next))>> \o SubSeq(todo, chunks + 2, Len(todo))
           r == [fwd[s] EXCEPT !.todo = rest,
                               !.line = IF units > 0 THEN "partial" ELSE "eagain",
                               !.idle = FALSE, !.curr = TRUE]
           k == [sock[s] EXCEPT !.full = TRUE]
           l == lan[s] \o FlattenSeq(SubSeq(todo, 1, chunks)) \o SubSeq(next, 1, units)
<1>2. /\ fwd[s] \in Forwards /\ sock[s] \in Sockets /\ lan[s] \in Units
      /\ fwd[s].alive /\ sock[s].st # "none" /\ sock[s].read \in Nat
      /\ todo \in Seq(Units)
  BY <1>1, Found
<1>3. fwd \in [Seqs -> Forwards] /\ sock \in [Seqs -> Sockets] /\ lan \in [Seqs -> Units]
  BY DEF Rest, ForwardsOK
<1>4. chunks < Len(todo) /\ units < Len(next) /\ chunks \in Nat /\ units \in Nat
  BY SMTT(30) DEF WriteSome
<1>5. /\ fwd' = [fwd EXCEPT ![s] = r] /\ sock' = [sock EXCEPT ![s] = k]
      /\ lan' = [lan EXCEPT ![s] = l]
  BY <1>2, <1>3 DEF WriteSome
<1>6. /\ UNCHANGED <<toserver, server, srvVars, intact>>
      /\ UNCHANGED table /\ ServiceDone(revents)
  BY DEF WriteSome
<1> DEFINE fb == FlattenSeq(SubSeq(todo, 1, chunks))
           a  == SubSeq(next, 1, units)
<1> HIDE DEF todo, next, rest
<1>7. /\ rest \in Seq(Units) /\ rest # <<>> /\ FlattenSeq(rest) \in Units
      /\ fb \in Units /\ a \in Units
      /\ FlattenSeq(todo) = (fb \o a) \o FlattenSeq(rest)
  <2>1. /\ rest = NotWritten(todo, chunks, units) /\ fb = Written(todo, chunks)
        /\ a = PartWritten(todo, chunks, units)
    BY DEF next, rest, fb, a, NotWritten, Written, PartWritten
  <2>2. todo \in Seq(Units) /\ units < Len(todo[chunks + 1])
    BY <1>2, <1>4 DEF next
  <2> HIDE DEF fb, a
  <2> QED BY <1>4, <2>1, <2>2, SplitTodo
<1>8. k \in Sockets /\ k.st # "none" /\ k.read = sock[s].read
  BY <1>2 DEF Sockets
<1>9. r \in Forwards
  BY <1>2, <1>7 DEF Forwards
<1>10. /\ r.alive /\ r.fd = fwd[s].fd /\ r.curr /\ r.todo = rest
       /\ r.line # "start" /\ r.func = "write" /\ ~r.idle
  BY <1>1, <1>2 DEF Forwards
<1>11. l = (lan[s] \o fb) \o a
  OBVIOUS
<1> HIDE DEF r, k, l, fb, a
<1>12. l \in Units /\ l = lan[s] \o (fb \o a) /\ fb \o a \in Units
  <2> DEFINE z == lan[s]
  <2>1. z \in Units
    BY <1>2
  <2> HIDE DEF z
  <2>2. (z \o fb) \o a = z \o (fb \o a) /\ fb \o a \in Units
    BY <1>7, <2>1, UnitsAssoc, UnitsConcat
  <2>3. z \o (fb \o a) \in Units
    BY <2>1, <2>2, UnitsConcat
  <2> QED BY <1>11, <2>2, <2>3 DEF z
<1>13. l \o FlattenSeq(rest) = lan[s] \o FlattenSeq(todo)
  <2> DEFINE x == fb \o a
             y == FlattenSeq(rest)
             z == lan[s]
  <2>1. x \in Units /\ y \in Units /\ z \in Units
    BY <1>2, <1>7, <1>12
  <2>2. l = z \o x /\ FlattenSeq(todo) = x \o y
    BY <1>7, <1>12
  <2> HIDE DEF x, y, z
  <2>3. (z \o x) \o y = z \o (x \o y)
    BY <2>1, UnitsAssoc
  <2> QED BY <2>2, <2>3 DEF y, z
<1>14. l \o FlattenSeq(r.todo) = lan[s] \o FlattenSeq(fwd[s].todo)
  BY <1>10, <1>13 DEF todo
<1> QED BY <1>1, <1>5, <1>6, <1>7, <1>8, <1>9, <1>10, <1>12, <1>14, QuietHandler

\* What is read goes out next after what was read before it.
LEMMA ReadDataKeeps ==
  ASSUME TableOK, TableOK', Rest, NEW s \in Seqs, ReadData(s)
  PROVE  Rest'
<1>1. s \in Alive /\ fwd[s].func = "read" /\ sock[s].rx > 0
  BY DEF ReadData, Servicing
<1> DEFINE r == IF fwd[s].todo = <<>> THEN [fwd[s] EXCEPT !.idle = TRUE]
                ELSE [fwd[s] EXCEPT !.func = "write", !.line = "start", !.idle = TRUE]
           k == [sock[s] EXCEPT !.rx = @ - 1, !.read = @ + 1]
<1>2. /\ fwd[s] \in Forwards /\ sock[s] \in Sockets /\ lan[s] \in Units /\ InSlot1
      /\ fwd[s].alive /\ sock[s].st # "none" /\ sock[s].read \in Nat
      /\ fwd[s].fd \in PT!Fd
      /\ fwd[s].curr <=> fwd[s].line # "start"
      /\ fwd[s].curr => fwd[s].func = "write"
      /\ fwd[s].idle <=> ~fwd[s].curr
      /\ fwd[s].func = "write" <=> fwd[s].todo # <<>>
      /\ Upstream(s) = Upto(sock[s].read)
  BY <1>1, Found
<1>3. /\ fwd \in [Seqs -> Forwards] /\ sock \in [Seqs -> Sockets] /\ lan \in [Seqs -> Units]
      /\ ForwardsOK /\ Streams /\ Loop /\ ScanOK /\ Shape
  BY DEF Rest, ForwardsOK, Streams
<1>4. fwd[s].todo = <<>> /\ ~fwd[s].curr
  BY <1>1, <1>2
<1>5. r = [fwd[s] EXCEPT !.idle = TRUE] /\ r \in Forwards /\ fwd' = [fwd EXCEPT ![s] = r]
  BY <1>2, <1>3, <1>4 DEF ReadData, Forwards
<1>6. k \in Sockets /\ sock' = [sock EXCEPT ![s] = k]
  BY <1>1, <1>2, <1>3 DEF ReadData, Sockets
<1>7. k.st # "none" /\ k.read = sock[s].read + 1
  BY <1>2 DEF Sockets
<1>8. /\ r.alive /\ r.fd = fwd[s].fd /\ ~r.curr /\ r.todo = fwd[s].todo
      /\ r.line = "start" /\ r.func = "read" /\ r.idle
  BY <1>1, <1>2, <1>4, <1>5 DEF Forwards
<1>9. /\ lan' = [lan EXCEPT ![s] = lan[s]] /\ intact' = intact /\ server' = server
      /\ UNCHANGED srvVars /\ UNCHANGED table /\ ServiceDone(revents)
      /\ toserver' = Append(toserver, [seq |-> s, what |-> sock[s].read + 1])
  BY <1>3, <1>4 DEF ReadData
<1> DEFINE w == sock[s].read + 1
<1>10. w \in Nat /\ toserver' = Append(toserver, [seq |-> s, what |-> w])
  BY <1>2, <1>9
<1>11. k.read = w
  BY <1>7
<1>12. Upto(w) = Append(Upto(sock[s].read), w)
  BY <1>2, UptoNext
<1> HIDE DEF r, k, w
<1>13. QueueMoves(s) /\ Upstream(s)' = Append(Upstream(s), w)
  BY <1>3, <1>9, <1>10, QueueGrows
<1>14. Upstream(s)' = Upto(k.read)
  BY <1>2, <1>11, <1>12, <1>13
<1>15. InboxMoves(s) /\ Coming(s)' = Coming(s)
  BY <1>3, <1>9, InboxStays
<1>16. lan[s] \o FlattenSeq(r.todo) \o Coming(s)'
         = lan[s] \o FlattenSeq(fwd[s].todo) \o Coming(s)
  BY <1>8, <1>15
<1>17. ForwardsOK' /\ Streams'
  BY <1>1, <1>2, <1>3, <1>4, <1>5, <1>6, <1>7, <1>8, <1>9, <1>13, <1>14, <1>15, <1>16,
     ServedKeeps
<1>18. toserver' # <<>> /\ revents \in [PT!Slot -> SUBSET Flags]
  <2>1. Len(toserver') = Len(toserver) + 1 /\ Len(toserver) \in Nat
    BY <1>3, <1>10 DEF ForwardsOK
  <2> QED BY <1>3, <2>1 DEF ScanOK
<1>19. ScanOK' /\ Loop'
  BY <1>2, <1>3, <1>9, <1>18, HandlerLoop
<1> QED BY <1>17, <1>19 DEF Rest

\* A handler that ends in tcp_forward_release.
LEMMA ReleaseKeeps ==
  ASSUME TableOK, TableOK', Rest, NEW s \in Alive, NEW curr \in BOOLEAN,
         tcp_forward_release(s, curr), ServiceDone(MovedRevents(fwd[s].fd)),
         lan' = lan, server' = server, InboxMoves(s)
  PROVE  Rest'
<1>1. s \in Seqs /\ InSlot1 /\ fwd[s].fd \in PT!Fd
  BY Found
<1>2. ForwardsOK /\ Streams /\ ScanOK /\ Loop
  BY DEF Rest
<1>3. /\ fwd' = [fwd EXCEPT ![s] = NoForward] /\ sock' = [sock EXCEPT ![s] = NoSocket]
      /\ toserver' = Append(toserver, ClosedFrame(s)) /\ intact' \in BOOLEAN
      /\ PT!ContextRelease(fwd[s].fd)
  BY DEF tcp_forward_release
<1>4. ForwardsOK' /\ Streams'
  BY <1>2, <1>3, ReleasedKeeps
<1>5. /\ MovedRevents(fwd[s].fd) \in [PT!Slot -> SUBSET Flags]
      /\ MovedRevents(fwd[s].fd)[1] = revents[1]
  BY <1>2, <1>3, MovedReventsIs DEF PT!ContextRelease
<1>6. toserver' # <<>>
  <2>1. Len(toserver') = Len(toserver) + 1 /\ Len(toserver) \in Nat
    BY <1>2, <1>3 DEF ForwardsOK
  <2> QED BY <2>1
<1>7. ScanOK' /\ Loop'
  BY <1>1, <1>2, <1>3, <1>5, <1>6, HandlerLoop
<1> QED BY <1>4, <1>7 DEF Rest

LEMMA FinishKeeps ==
  ASSUME TableOK, TableOK', Rest, NEW s \in Seqs,
         ConnectFails(s) \/ WriteFails(s) \/ ReadEnds(s)
  PROVE  Rest'
<1>1. s \in Alive /\ \E curr \in BOOLEAN : Finish(s, curr)
  BY DEF ConnectFails, WriteFails, ReadEnds, Servicing
<1>2. PICK curr \in BOOLEAN : Finish(s, curr)
  BY <1>1
<1>3. /\ tcp_forward_release(s, curr) /\ ServiceDone(MovedRevents(fwd[s].fd))
      /\ UNCHANGED <<lan, server, srvVars>>
  BY <1>2 DEF Finish
<1>4. InboxMoves(s)
  BY <1>3, InboxStays DEF Rest, Streams
<1> QED BY <1>1, <1>3, <1>4, ReleaseKeeps

\* What a handler of a frame finds.
LEMMA Received ==
  ASSUME Rest, NEW s \in Seqs, NEW type, Receive(type, s)
  PROVE  /\ InSlot1 /\ scan = 1 /\ revents[1] = {"POLLIN"}
         /\ UNCHANGED <<lan, server>>
         /\ InboxMoves(s) /\ Head(inbox) \in Frames /\ s \in opened
         /\ ~Awaited(s)'
         /\ Coming(s) = OneComing(Head(inbox), s) \o Coming(s)'
         /\ Coming(s)' \in Units
         /\ type = "open" => Awaited(s)
         /\ Head(inbox).type = type /\ Head(inbox).seq = s
<1>1. /\ scan = 1 /\ revents[1] = {"POLLIN"} /\ inbox # <<>> /\ inbox' = Tail(inbox)
      /\ Head(inbox).type = type /\ Head(inbox).seq = s
      /\ UNCHANGED <<sent, opened, closing>> /\ UNCHANGED <<lan, server>>
  BY DEF Receive
<1>2. InSlot1
  BY <1>1 DEF Rest, Loop, NotYet
<1> QED BY <1>1, <1>2, HeadTaken DEF Rest, Streams

LEMMA CloseKeeps ==
  ASSUME TableOK, TableOK', Rest, NEW s \in Seqs, CloseForward(s)
  PROVE  Rest'
<1>1. /\ s \in Alive /\ tcp_forward_release(s, fwd[s].curr)
      /\ ServiceDone(MovedRevents(fwd[s].fd)) /\ Receive("close", s)
  BY DEF CloseForward
<1>2. fwd[s].curr \in BOOLEAN
  BY DEF Rest, ForwardsOK, Forwards
<1>3. InboxMoves(s) /\ UNCHANGED <<lan, server>>
  BY <1>1, Received
<1> QED BY <1>1, <1>2, <1>3, ReleaseKeeps

\* A chunk is queued behind the ones that wait.
LEMMA DataKeeps ==
  ASSUME TableOK, TableOK', Rest, NEW s \in Seqs, ForwardData(s)
  PROVE  Rest'
<1>1. s \in Alive /\ Receive("data", s) /\ ServiceDone(revents)
      /\ UNCHANGED <<sock, toserver, intact>>
  BY DEF ForwardData
<1>2. /\ InSlot1 /\ UNCHANGED <<lan, server>>
      /\ InboxMoves(s) /\ Head(inbox) \in Frames
      /\ Coming(s) = OneComing(Head(inbox), s) \o Coming(s)'
      /\ Coming(s)' \in Units
      /\ Head(inbox).type = "data" /\ Head(inbox).seq = s
  BY <1>1, Received
<1>3. /\ fwd[s] \in Forwards /\ sock[s] \in Sockets /\ lan[s] \in Units
      /\ fwd[s].alive /\ sock[s].st # "none" /\ fwd[s].fd \in PT!Fd
      /\ fwd[s].curr <=> fwd[s].line # "start"
      /\ fwd[s].curr => fwd[s].func = "write"
      /\ fwd[s].idle <=> ~fwd[s].curr
      /\ fwd[s].todo \in Seq(Units)
      /\ Upstream(s) = Upto(sock[s].read)
  BY <1>1, Found
<1>4. /\ ForwardsOK /\ Streams /\ ScanOK /\ Loop
      /\ fwd \in [Seqs -> Forwards] /\ sock \in [Seqs -> Sockets] /\ lan \in [Seqs -> Units]
  BY DEF Rest, ForwardsOK
<1> DEFINE c == Head(inbox).chunk
           todo == Append(fwd[s].todo, c)
           r == IF fwd[s].idle
                THEN [fwd[s] EXCEPT !.todo = todo, !.func = "write", !.line = "start"]
                ELSE [fwd[s] EXCEPT !.todo = todo]
<1>5. c \in Units /\ OneComing(Head(inbox), s) = c
  BY <1>2 DEF Frames, OneComing
<1>6. todo \in Seq(Units) /\ todo # <<>>
  <2>1. c \in Units /\ fwd[s].todo \in Seq(Units)
    BY <1>3, <1>5
  <2>2. todo \in Seq(Units) /\ Len(todo) = Len(fwd[s].todo) + 1 /\ Len(fwd[s].todo) \in Nat
    BY <2>1, AppendProperties
  <2> QED BY <2>2
<1>7. FlattenSeq(todo) = FlattenSeq(fwd[s].todo) \o c /\ FlattenSeq(fwd[s].todo) \in Units
  BY <1>3, <1>5, FlattenAppend, FlattenType DEF Units
<1>8. fwd' = [fwd EXCEPT ![s] = r]
  BY <1>3, <1>4 DEF ForwardData
<1>9. \/ UNCHANGED table
      \/ \E e \in SUBSET Flags : PT!ContextChangeMode(fwd[s].fd, e)
  <2>1. {"POLLOUT"} \in SUBSET Flags
    BY DEF Flags
  <2> QED BY <2>1 DEF ForwardData
<1> HIDE DEF todo, c
<1>10. r \in Forwards
  BY <1>3, <1>6 DEF Forwards
<1>11. /\ r.alive /\ r.fd = fwd[s].fd /\ r.curr = fwd[s].curr /\ r.todo = todo
       /\ r.idle = fwd[s].idle
       /\ r.curr <=> r.line # "start"
       /\ r.func = "write"
  BY <1>3 DEF Forwards
<1> HIDE DEF r
<1>12. lan[s] \o FlattenSeq(r.todo) \o Coming(s)'
         = lan[s] \o FlattenSeq(fwd[s].todo) \o Coming(s)
  <2> DEFINE l == lan[s]
             q == FlattenSeq(fwd[s].todo)
             z == Coming(s)'
  <2>1. l \in Units /\ q \in Units /\ z \in Units /\ c \in Units
    BY <1>2, <1>3, <1>5, <1>7
  <2>2. FlattenSeq(r.todo) = q \o c /\ Coming(s) = c \o z
    BY <1>2, <1>5, <1>7, <1>11
  <2> HIDE DEF l, q, z
  <2>3. (l \o (q \o c)) \o z = (l \o q) \o (c \o z)
    <3>1. l \o (q \o c) = (l \o q) \o c
      BY <2>1, UnitsAssoc
    <3> DEFINE y == l \o q
    <3>2. y \in Units
      BY <2>1, UnitsConcat
    <3> HIDE DEF y
    <3>3. (y \o c) \o z = y \o (c \o z)
      BY <2>1, <3>2, UnitsAssoc
    <3> QED BY <3>1, <3>3 DEF y
  <2> QED BY <2>2, <2>3 DEF l, q, z
<1>13. QueueMoves(s) /\ Upstream(s)' = Upto(sock[s].read)
  BY <1>1, <1>2, <1>3, <1>4, QueueStays
<1>14. sock' = [sock EXCEPT ![s] = sock[s]] /\ lan' = [lan EXCEPT ![s] = lan[s]]
  BY <1>1, <1>2, <1>4
<1>15. ForwardsOK' /\ Streams'
  <2>1. /\ r.curr => r.func = "write"
        /\ r.idle <=> ~r.curr
        /\ r.func = "write" <=> r.todo # <<>>
        /\ r.curr <=> r.line # "start"
        /\ r.alive /\ r.fd = fwd[s].fd /\ intact' = intact
    BY <1>1, <1>3, <1>6, <1>11
  <2>2. /\ s \in Alive /\ InboxMoves(s) /\ sock[s] \in Sockets /\ lan[s] \in Units
        /\ sock[s].st # "none" /\ ForwardsOK /\ Streams
    BY <1>1, <1>2, <1>3, <1>4
  <2> QED BY <1>8, <1>10, <1>12, <1>13, <1>14, <2>1, <2>2, ServedKeeps
<1>16. ScanOK' /\ Loop'
  <2>1. revents \in [PT!Slot -> SUBSET Flags] /\ toserver' = toserver
    BY <1>1, <1>4 DEF ScanOK
  <2> QED BY <1>1, <1>2, <1>3, <1>4, <1>9, <2>1, HandlerLoop
<1> QED BY <1>15, <1>16 DEF Rest

\* The first frame of a number makes its forward.
LEMMA OpenKeeps ==
  ASSUME TableOK, TableOK', Rest, NEW s \in Seqs, OpenForward(s)
  PROVE  Rest'
<1> USE DEF Alive
<1> DEFINE fd == LowestFree
           r == [NoForward EXCEPT !.alive = TRUE, !.fd = fd]
           k == [sock[s] EXCEPT !.st = "new"]
           rev == [revents EXCEPT ![count_pollfds] = {}]
<1>1. /\ Receive("open", s) /\ Free # {} /\ PT!ContextOpen(fd, "FORWARD")
      /\ fwd' = [fwd EXCEPT ![s] = r] /\ sock' = [sock EXCEPT ![s].st = "new"]
      /\ ServiceDone(rev) /\ UNCHANGED <<toserver, intact>>
  BY DEF OpenForward
<1>2. /\ InSlot1 /\ UNCHANGED <<lan, server>>
      /\ InboxMoves(s) /\ Head(inbox) \in Frames /\ ~Awaited(s)'
      /\ Coming(s) = OneComing(Head(inbox), s) \o Coming(s)'
      /\ Coming(s)' \in Units /\ Awaited(s)
      /\ Head(inbox).type = "open"
  BY <1>1, Received
<1>3. /\ ForwardsOK /\ Streams /\ ScanOK /\ Loop
      /\ fwd \in [Seqs -> Forwards] /\ sock \in [Seqs -> Sockets] /\ lan \in [Seqs -> Units]
  BY DEF Rest, ForwardsOK
<1>4. /\ fwd[s] = NoForward /\ sock[s] = NoSocket /\ lan[s] = <<>> /\ Upstream(s) = <<>>
  BY <1>2, <1>3 DEF Streams, Opens, Fresh
<1>5. fd \in PT!Fd
  BY <1>1, LowestFreeIs DEF Free
<1> HIDE DEF fd
<1>6. r \in Forwards /\ r.alive /\ r.fd = fd /\ r.todo = <<>> /\ ~r.curr /\ r.idle
      /\ r.line = "start" /\ r.func = "connect"
  BY <1>5, EmptySeq DEF NoForward, Forwards
<1>7. sock' = [sock EXCEPT ![s] = k] /\ k \in Sockets /\ k.st = "new" /\ k.read = 0
  <2>1. sock' = [sock EXCEPT ![s] = k]
    BY <1>1, <1>3
  <2>2. k = [NoSocket EXCEPT !.st = "new"]
    BY <1>4
  <2>3. /\ [NoSocket EXCEPT !.st = "new"] \in Sockets
        /\ [NoSocket EXCEPT !.st = "new"].st = "new"
        /\ [NoSocket EXCEPT !.st = "new"].read = 0
    BY DEF NoSocket, Sockets
  <2> QED BY <2>1, <2>2, <2>3
<1> HIDE DEF r, k
<1>8. /\ fwd'[s] = r /\ sock'[s] = k /\ Alive' = Alive \cup {s}
      /\ \A t \in Seqs \ {s} : fwd'[t] = fwd[t] /\ sock'[t] = sock[t]
  BY <1>1, <1>3, <1>6, <1>7
<1>9. QueueMoves(s) /\ \A t : Upstream(t)' = Upstream(t)
  BY <1>1, <1>2, <1>3, QueueStays
<1>10. ForwardsOK'
  <2>1. \A t \in Seqs : (fwd'[t].alive <=> sock'[t].st # "none")
                        /\ (fwd'[t].alive => fwd'[t].fd \in PT!Fd)
    BY <1>3, <1>5, <1>6, <1>7, <1>8 DEF ForwardsOK
  <2> QED BY <1>1, <1>2, <1>3, <1>6, <1>7, <1>9, <2>1 DEF ForwardsOK, InboxMoves, QueueMoves
<1>11. Writing'
  BY <1>3, <1>6, <1>8 DEF Streams, Writing
<1>12. Opens'
  BY <1>2, <1>3, <1>8, <1>9 DEF Streams, Opens, Fresh, InboxMoves
<1>13. Down'
  <2> SUFFICES ASSUME NEW t \in Seqs, (t \in Alive \/ Awaited(t))'
               PROVE  (lan[t] \o FlattenSeq(fwd[t].todo) \o Coming(t) = Upto(ChunkLen * sent[t]))'
    BY DEF Down
  <2>1. sent' = sent /\ lan' = lan /\ (t \in Alive \/ Awaited(t))
    BY <1>2, <1>8 DEF InboxMoves
  <2>2. lan[t] \o FlattenSeq(fwd[t].todo) \o Coming(t) = Upto(ChunkLen * sent[t])
    BY <1>3, <2>1 DEF Streams, Down
  <2>3. CASE t = s
    <3>1. OneComing(Head(inbox), s) = <<>> /\ <<>> \o Coming(s)' = Coming(s)'
      BY <1>2, UnitsConcat DEF OneComing
    <3>2. Coming(s)' = Coming(s) /\ fwd'[s].todo = <<>> /\ fwd[s].todo = <<>>
      <4>1. Coming(s)' = Coming(s)
        BY <1>2, <3>1
      <4>2. fwd'[s].todo = <<>>
        BY <1>6, <1>8
      <4>3. fwd[s].todo = <<>>
        BY <1>4 DEF NoForward
      <4> QED BY <4>1, <4>2, <4>3
    <3> QED BY <2>1, <2>2, <2>3, <3>2
  <2>4. CASE t # s
    <3>1. Coming(t)' = Coming(t)
      BY <1>2, <2>4 DEF InboxMoves
    <3> QED BY <1>8, <2>1, <2>2, <2>4, <3>1
  <2> QED BY <2>3, <2>4
<1>14. Up'
  <2>1. Upto(0) = <<>>
    BY DEF Upto
  <2>2. Upstream(s)' = Upto(sock'[s].read)
    BY <1>4, <1>7, <1>8, <1>9, <2>1
  <2> QED BY <1>3, <1>8, <1>9, <2>2 DEF Streams, Up
<1>15. Streams'
  BY <1>2, <1>11, <1>12, <1>13, <1>14 DEF Streams, InboxMoves
<1>16. rev \in [PT!Slot -> SUBSET Flags] /\ rev[1] \subseteq revents[1]
  <2>1. 1 \in PT!Slot
    BY Sizes
  <2> QED BY <1>3, <2>1 DEF ScanOK
<1>17. ScanOK' /\ Loop'
  <2>1. toserver' = toserver
    BY <1>1
  <2> HIDE DEF rev
  <2> QED BY <1>1, <1>2, <1>3, <1>5, <1>16, <2>1, HandlerLoop
<1> QED BY <1>10, <1>15, <1>17 DEF Rest

\* A frame that nothing comes of.
LEMMA DropKeeps ==
  ASSUME TableOK, TableOK', Rest, NEW s \in Seqs, OpenFails(s) \/ NotFound(s)
  PROVE  Rest'
<1> USE DEF Alive
<1>1. PICK type : Receive(type, s) /\ (type = "open" \/ s \notin Alive)
  BY DEF OpenFails, NotFound
<1>2. ServiceDone(revents) /\ UNCHANGED <<fwd, sock, toserver, intact>> /\ UNCHANGED table
  BY DEF OpenFails, NotFound
<1>3. /\ InSlot1 /\ UNCHANGED <<lan, server>>
      /\ InboxMoves(s) /\ ~Awaited(s)' /\ (type = "open" => Awaited(s))
  BY <1>1, Received
<1>4. ForwardsOK /\ Streams /\ ScanOK /\ Loop
  BY DEF Rest
<1>5. s \notin Alive /\ Alive' = Alive
  BY <1>1, <1>2, <1>3, <1>4 DEF Streams, Opens, Fresh, NoForward
<1>6. QueueMoves(s) /\ \A t : Upstream(t)' = Upstream(t)
  BY <1>2, <1>3, <1>4, QueueStays
<1>7. ForwardsOK'
  BY <1>2, <1>3, <1>4 DEF ForwardsOK, InboxMoves
<1>8. Writing' /\ Up'
  BY <1>2, <1>4, <1>5, <1>6 DEF Streams, Writing, Up
<1>9. Opens'
  BY <1>2, <1>3, <1>4, <1>6 DEF Streams, Opens, Fresh, InboxMoves
<1>10. Down'
  <2> SUFFICES ASSUME NEW t \in Seqs, (t \in Alive \/ Awaited(t))'
               PROVE  (lan[t] \o FlattenSeq(fwd[t].todo) \o Coming(t) = Upto(ChunkLen * sent[t]))'
    BY DEF Down
  <2>1. t # s /\ sent' = sent /\ (t \in Alive \/ Awaited(t))
    BY <1>3, <1>5 DEF InboxMoves
  <2>2. Coming(t)' = Coming(t)
    BY <1>3, <2>1 DEF InboxMoves
  <2> QED BY <1>2, <1>3, <1>4, <2>1, <2>2 DEF Streams, Down
<1>11. revents \in [PT!Slot -> SUBSET Flags] /\ toserver' = toserver
  BY <1>2, <1>4 DEF ScanOK
<1>12. ScanOK' /\ Loop'
  BY <1>2, <1>3, <1>4, <1>11, HandlerLoop
<1> QED BY <1>3, <1>7, <1>8, <1>9, <1>10, <1>12 DEF Rest, Streams, InboxMoves

\* The server sends a frame; the first it sends to a forward opens it.
LEMMA SentKeeps ==
  ASSUME ForwardsOK, Streams, NEW f \in Frames, NEW n \in Nat,
         inbox' = Append(inbox, f), opened' = opened \cup {f.seq},
         closing' \subseteq opened',
         sent' = [sent EXCEPT ![f.seq] = n],
         f.type = "open" <=> f.seq \notin opened,
         f.type = "open" => n = sent[f.seq],
         Upto(ChunkLen * n) = Upto(ChunkLen * sent[f.seq]) \o OneComing(f, f.seq),
         UNCHANGED <<fwdVars, toserver, server, intact>>
  PROVE  ForwardsOK' /\ Streams'
<1> DEFINE s == f.seq
           m == Len(inbox)
<1>1. /\ s \in Seqs /\ m \in Nat /\ inbox \in Seq(Frames) /\ inbox' \in Seq(Frames)
      /\ Len(inbox') = m + 1 /\ inbox'[m + 1] = f
      /\ \A i \in 1..m : inbox'[i] = inbox[i]
      /\ \A i \in 1..(m + 1) : i \in Nat /\ (i \in 1..m \/ i = m + 1)
  BY AppendProperties DEF Frames, ForwardsOK
<1>2. UNCHANGED <<fwd, sock, lan, toserver, server, intact>> /\ Alive' = Alive
  BY DEF fwdVars, Alive
<1>3. \A t : Upstream(t)' = Upstream(t)
  BY <1>2, QueueStays
<1> HIDE DEF m
<1>4. ForwardsOK'
  BY <1>1, <1>2 DEF ForwardsOK
<1>5. Shape'
  <2> SUFFICES ASSUME NEW t \in Seqs
               PROVE  /\ t \notin opened' => sent'[t] = 0 /\ \A i \in 1..Len(inbox') : inbox'[i].seq # t
                      /\ \A i, j \in 1..Len(inbox') : IsOpen(i, t)' /\ inbox'[j].seq = t => i <= j
    BY DEF Shape
  <2>1. /\ t \notin opened => sent[t] = 0 /\ \A i \in 1..m : inbox[i].seq # t
        /\ \A i, j \in 1..m : IsOpen(i, t) /\ inbox[j].seq = t => i <= j
    BY DEF Streams, Shape, m
  <2>2. t \notin opened' => sent'[t] = 0 /\ \A i \in 1..Len(inbox') : inbox'[i].seq # t
    BY <1>1, <2>1 DEF ForwardsOK
  <2>3. ASSUME NEW i \in 1..Len(inbox'), NEW j \in 1..Len(inbox'), IsOpen(i, t)', inbox'[j].seq = t
        PROVE  i <= j
    <3>1. inbox'[i].seq = t /\ inbox'[i].type = "open"
      BY <2>3 DEF IsOpen
    <3>2. CASE i \in 1..m /\ j \in 1..m
      BY <1>1, <2>1, <2>3, <3>1, <3>2 DEF IsOpen
    <3>3. CASE j = m + 1
      BY <1>1, <3>3
    <3>4. CASE i = m + 1 /\ j \in 1..m
      <4>1. t = s /\ t \notin opened
        BY <1>1, <3>1, <3>4
      <4> QED BY <1>1, <2>1, <2>3, <3>4, <4>1
    <3> QED BY <1>1, <3>2, <3>3, <3>4
  <2> QED BY <2>2, <2>3
<1>6. ASSUME NEW t \in Seqs, Awaited(t)' PROVE Awaited(t)
  <2>1. CASE t \notin opened'
    BY <2>1 DEF Awaited
  <2>2. ASSUME NEW i \in 1..Len(inbox'), IsOpen(i, t)' PROVE Awaited(t)
    <3>1. inbox'[i].seq = t /\ inbox'[i].type = "open"
      BY <2>2 DEF IsOpen
    <3>2. CASE i \in 1..m
      BY <1>1, <3>1, <3>2 DEF Awaited, IsOpen, m
    <3>3. CASE i = m + 1
      BY <1>1, <3>1, <3>3 DEF Awaited
    <3> QED BY <1>1, <3>2, <3>3
  <2> QED BY <1>6, <2>1, <2>2 DEF Awaited
<1>7. Opens'
  BY <1>2, <1>3, <1>6 DEF Streams, Opens, Fresh
<1>8. Down'
  <2> SUFFICES ASSUME NEW t \in Seqs, (t \in Alive \/ Awaited(t))'
               PROVE  (lan[t] \o FlattenSeq(fwd[t].todo) \o Coming(t) = Upto(ChunkLen * sent[t]))'
    BY DEF Down
  <2> DEFINE q == lan[t] \o FlattenSeq(fwd[t].todo)
             c == Coming(t)
             o == OneComing(f, t)
  <2>1. t \in Alive \/ Awaited(t)
    BY <1>2, <1>6
  <2>2. q \o c = Upto(ChunkLen * sent[t])
    BY <2>1 DEF Streams, Down
  <2>3. q \in Units /\ c \in Units /\ o \in Units
    <3>1. fwd[t] \in Forwards /\ lan[t] \in Units
      BY DEF ForwardsOK
    <3>2. fwd[t].todo \in Seq(Units)
      BY <3>1 DEF Forwards
    <3>3. FlattenSeq(fwd[t].todo) \in Units
      BY <3>2, FlattenType DEF Units
    <3>4. c \in Units
      BY <1>1, ComingsType, StreamsAre
    <3>5. o \in Units
      BY UnitsConcat DEF Frames, OneComing
    <3> QED BY <3>1, <3>3, <3>4, <3>5, UnitsConcat
  <2>4. Coming(t)' = c \o o
    BY <1>1, ComingAppend, StreamsAre
  <2>5. (lan[t] \o FlattenSeq(fwd[t].todo))' = q
    BY <1>2
  <2>6. Upto(ChunkLen * sent'[t]) = Upto(ChunkLen * sent[t]) \o o
    <3>1. CASE t = s
      BY <1>1, <3>1 DEF ForwardsOK
    <3>2. CASE t # s
      <4>1. sent'[t] = sent[t] /\ o = <<>>
        BY <1>1, <3>2 DEF ForwardsOK, OneComing
      <4>2. (q \o c) \o <<>> = q \o c
        BY <2>3, UnitsConcat
      <4> QED BY <2>2, <4>1, <4>2
    <3> QED BY <3>1, <3>2
  <2> HIDE DEF q, c, o
  <2>7. (q \o c) \o o = q \o (c \o o)
    BY <2>3, UnitsAssoc
  <2> QED BY <2>2, <2>4, <2>5, <2>6, <2>7
<1>9. Writing' /\ Up'
  BY <1>2, <1>3 DEF Streams, Writing, Up
<1> QED BY <1>4, <1>5, <1>7, <1>8, <1>9 DEF Streams

LEMMA ServerSendsKeeps ==
  ASSUME Rest, ServerSends
  PROVE  Rest'
<1>1. /\ UNCHANGED <<fwdVars, toserver, server, intact>>
      /\ UNCHANGED table /\ UNCHANGED <<revents, scan>>
  BY DEF ServerSends
<1>2. ForwardsOK /\ Streams /\ Shape /\ sent \in [Seqs -> Nat] /\ closing \subseteq opened
  BY DEF Rest, ForwardsOK, Streams
<1>3. ASSUME NEW s \in Seqs, s \notin opened, opened' = opened \cup {s},
             inbox' = Append(inbox, Frame("open", s, <<>>)), UNCHANGED <<sent, closing>>
      PROVE  ForwardsOK' /\ Streams'
  <2> DEFINE f == Frame("open", s, <<>>)
  <2>1. f \in Frames /\ f.seq = s /\ f.type = "open"
    BY <1>3, UnitsConcat DEF Frames, Frame
  <2>2. OneComing(f, s) = <<>>
    BY <2>1 DEF OneComing
  <2>3. sent[s] = 0 /\ sent' = [sent EXCEPT ![s] = 0]
    BY <1>2, <1>3 DEF Shape
  <2>4. Upto(ChunkLen * 0) \o <<>> = Upto(ChunkLen * 0)
    BY ConstantsAssumption, UptoNext, UnitsConcat
  <2> HIDE DEF f
  <2> QED BY <1>1, <1>2, <1>3, <2>1, <2>2, <2>3, <2>4, SentKeeps DEF f
<1>4. ASSUME NEW s \in opened \ closing, sent' = [sent EXCEPT ![s] = @ + 1],
             inbox' = Append(inbox, Frame("data", s, Chunk(sent[s] + 1))),
             UNCHANGED <<opened, closing>>
      PROVE  ForwardsOK' /\ Streams'
  <2> DEFINE f == Frame("data", s, Chunk(sent[s] + 1))
             n == sent[s] + 1
  <2>1. s \in Seqs /\ sent[s] \in Nat /\ n \in Nat /\ sent' = [sent EXCEPT ![s] = n]
    BY <1>2, <1>4 DEF ForwardsOK
  <2>2. Chunk(n) \in Units
        /\ Upto(ChunkLen * n) = Upto(ChunkLen * sent[s]) \o Chunk(n)
    BY <2>1, ChunkNext
  <2>3. f \in Frames /\ f.seq = s /\ f.type = "data" /\ f.chunk = Chunk(n)
    BY <2>1, <2>2 DEF Frames, Frame
  <2>4. OneComing(f, s) = Chunk(n)
    BY <2>3 DEF OneComing
  <2>5. inbox' = Append(inbox, f) /\ opened' = opened \cup {s} /\ closing' \subseteq opened'
    BY <1>2, <1>4
  <2> HIDE DEF f, n
  <2> QED BY <1>1, <1>2, <1>4, <2>1, <2>2, <2>3, <2>4, <2>5, SentKeeps
<1>5. ASSUME NEW s \in opened \ closing, closing' = closing \cup {s},
             inbox' = Append(inbox, Frame("close", s, <<>>)), UNCHANGED <<sent, opened>>
      PROVE  ForwardsOK' /\ Streams'
  <2> DEFINE f == Frame("close", s, <<>>)
             n == sent[s]
  <2>1. s \in Seqs /\ n \in Nat /\ sent' = [sent EXCEPT ![s] = n]
    BY <1>2, <1>5 DEF ForwardsOK
  <2>2. f \in Frames /\ f.seq = s /\ f.type = "close"
    BY <2>1, UnitsConcat DEF Frames, Frame
  <2>3. OneComing(f, s) = <<>>
    BY <2>2 DEF OneComing
  <2>4. Upto(ChunkLen * n) \o <<>> = Upto(ChunkLen * n)
    <3>1. ChunkLen * n \in Nat
      BY <2>1, ConstantsAssumption
    <3> QED BY <3>1, UptoNext, UnitsConcat
  <2>5. inbox' = Append(inbox, f) /\ opened' = opened \cup {s} /\ closing' \subseteq opened'
    BY <1>2, <1>5
  <2> HIDE DEF f
  <2> QED BY <1>1, <1>2, <1>5, <2>1, <2>2, <2>3, <2>4, <2>5, SentKeeps
<1>6. ForwardsOK' /\ Streams'
  BY <1>3, <1>4, <1>5 DEF ServerSends
<1>7. ScanOK' /\ Loop'
  BY <1>1 DEF Rest, ScanOK, Loop, NotYet, InSlot1, table, fwdVars, PT!Slot, PT!Fd
<1> QED BY <1>6, <1>7 DEF Rest

\* A step that leaves the forwards and their frames alone.
LEMMA StreamsStay ==
  ASSUME ForwardsOK, Streams, UNCHANGED <<fwdVars, toserver, server, srvVars, intact>>
  PROVE  ForwardsOK' /\ Streams'
<1>1. UNCHANGED <<fwd, sock, lan, toserver, server, inbox, sent, opened, closing, intact>>
  BY DEF fwdVars, srvVars
<1>2. Alive' = Alive
  BY <1>1 DEF Alive
<1>3. /\ \A t : Upstream(t)' = Upstream(t) /\ Coming(t)' = Coming(t)
      /\ \A t : Awaited(t)' <=> Awaited(t)
  BY <1>1 DEF Upstream, Queued, Coming, Awaited, IsOpen
<1>4. ForwardsOK'
  BY <1>1 DEF ForwardsOK
<1>5. Writing'
  BY <1>1, <1>2 DEF Streams, Writing
<1>6. Opens'
  BY <1>1, <1>3 DEF Streams, Opens, Fresh
<1>7. Shape'
  BY <1>1 DEF Streams, Shape, IsOpen
<1>8. Down'
  BY <1>1, <1>2, <1>3 DEF Streams, Down
<1>9. Up'
  BY <1>1, <1>2, <1>3 DEF Streams, Up
<1> QED BY <1>4, <1>5, <1>6, <1>7, <1>8, <1>9 DEF Streams

\* The websocket gets the lowest descriptor and the first slot.
LEMMA UpKeeps ==
  ASSUME TableOK, TableOK', Rest, WebsocketUp
  PROVE  Rest'
<1>1. /\ kind[Websocket] = "NONE" /\ PT!WebsocketAdd(LowestFree)
      /\ UNCHANGED <<revents, scan, fwdVars, toserver, server, srvVars, intact>>
  BY DEF WebsocketUp
<1>2. /\ scan = 0 /\ count_pollfds = 1 /\ revents = [slot \in PT!Slot |-> {}]
      /\ \A fd \in PT!Fd \ {Listener} : kind[fd] = "NONE"
  BY <1>1 DEF Rest, Loop, NotYet, InSlot1
<1>3. Websocket \in Free /\ Listener \notin Free
  BY <1>1, Sizes DEF Free, PT!Registered, TableOK
<1>4. LowestFree \in Free /\ LowestFree <= Websocket
  BY <1>3, LowestFreeIs
<1>5. LowestFree = 1
  <2>1. LowestFree \in 0..(MaxFds - 1) /\ LowestFree # 0
    BY <1>3, <1>4, Sizes DEF Free
  <2> QED BY <1>4, <2>1, Sizes
<1>6. 1 \in PT!Slot /\ 1 \in PT!Fd /\ Websocket = 1
  BY Sizes
<1>7. InSlot1'
  BY <1>1, <1>2, <1>5, <1>6 DEF PT!WebsocketAdd, PT!mgmt_add_fd, InSlot1, TableOK, PT!TypeOK
<1>8. ForwardsOK' /\ Streams'
  BY <1>1, StreamsStay DEF Rest
<1>9. ScanOK' /\ ("POLLOUT" \in revents'[1] => toserver' # <<>>)
  BY <1>1, <1>2, <1>6 DEF Rest, ScanOK, PT!Slot
<1> QED BY <1>7, <1>8, <1>9 DEF Rest, Loop

LEMMA PollKeeps ==
  ASSUME TableOK, Rest, Poll
  PROVE  Rest'
<1>1. /\ \E slot \in 0..(count_pollfds - 1) : Polled[slot] # {}
      /\ revents' = Polled /\ scan' = NextSlot(0, Polled, count_pollfds)
      /\ UNCHANGED <<fwdVars, toserver, server, srvVars, intact>> /\ UNCHANGED table
  BY DEF Poll
<1>2. InSlot1
  BY <1>1, NothingPolled DEF Rest, Loop, NotYet, InSlot1
<1>3. ForwardsOK' /\ Streams'
  BY <1>1, StreamsStay DEF Rest
<1>4. ScanOK'
  <2>1. count_pollfds \in 0..MaxFds /\ 0 \in PT!Slot
    BY Sizes DEF TableOK, PT!TypeOK
  <2>2. scan' \in PT!Slot
    BY <1>1, <2>1, NextSlotIs
  <2>3. Polled \in [PT!Slot -> SUBSET Flags]
    BY PolledIs DEF Rest
  <2> QED BY <1>1, <2>2, <2>3 DEF ScanOK, PT!Slot
<1>5. "POLLOUT" \in Polled[1] => toserver # <<>>
  <2>1. Websocket \in PT!Registered /\ 1 \in PT!Slot /\ Websocket = 1
    BY <1>2, Sizes DEF InSlot1, PT!Registered
  <2>2. 1 < count_pollfds /\ count_pollfds \in Nat
    BY <1>2, <2>1 DEF TableOK, PT!TableConsistent, PT!TypeOK, InSlot1
  <2>3. Polled[1] \subseteq Ready(Websocket)
    BY <1>2, <2>1, <2>2 DEF Polled, InSlot1
  <2>4. "POLLOUT" \in Ready(Websocket) => toserver # <<>>
    BY <1>2 DEF Ready, InSlot1
  <2> QED BY <2>3, <2>4
<1>6. InSlot1'
  BY <1>1, <1>2 DEF InSlot1, table
<1> QED BY <1>1, <1>3, <1>4, <1>5, <1>6 DEF Rest, Loop

\* The first frame of the queue goes to the server.
LEMMA WriteableKeeps ==
  ASSUME TableOK, Rest, Writeable
  PROVE  Rest'
<1> DEFINE f == Head(toserver)
           rev == [revents EXCEPT ![1] = @ \ {"POLLOUT"}]
<1>1. /\ scan = 1 /\ "POLLOUT" \in revents[1]
      /\ server' = [server EXCEPT ![f.seq] = Append(@, f.what)]
      /\ toserver' = Tail(toserver) /\ revents' = rev
      /\ scan' = IF rev[1] # {} THEN 1 ELSE NextSlot(1, rev, count_pollfds)
      /\ UNCHANGED <<fwdVars, srvVars, intact>> /\ UNCHANGED table
  BY DEF Writeable
<1>2. InSlot1 /\ toserver # <<>>
  BY <1>1 DEF Rest, Loop, NotYet
<1>3. /\ ForwardsOK /\ Streams /\ ScanOK
      /\ toserver \in Seq(Outs) /\ server \in [Seqs -> Units]
  BY DEF Rest, ForwardsOK
<1>4. f \in Outs /\ Tail(toserver) \in Seq(Outs)
  BY <1>2, <1>3, HeadTailProperties
<1>5. f.seq \in Seqs /\ f.what \in Nat
  BY <1>4 DEF Outs
<1>6. 1 \in PT!Slot
  BY Sizes
<1>7. rev \in [PT!Slot -> SUBSET Flags] /\ "POLLOUT" \notin rev[1]
  BY <1>3, <1>6 DEF ScanOK
<1> HIDE DEF f, rev
<1>8. server' \in [Seqs -> Units]
  <2>1. server[f.seq] \in Units
    BY <1>3, <1>5
  <2>2. Append(server[f.seq], f.what) \in Units
    BY <1>5, <2>1, AppendProperties DEF Units
  <2> QED BY <1>1, <1>3, <2>2
<1>9. ASSUME NEW t \in Seqs PROVE Upstream(t)' = Upstream(t)
  <2> DEFINE a == server[t]
             o == OneWhat(f, t)
             c == WhatOf(Tail(toserver), t)
  <2>1. WhatOf(toserver, t) = o \o c
    BY <1>2, <1>3, WhatTail DEF f
  <2>2. a \in Units /\ c \in Units
    BY <1>3, <1>4, WhatsType
  <2>3. o \in Units
    BY <1>5 DEF OneWhat, Units
  <2>4. server'[t] = a \o o
    <3>1. CASE t = f.seq
      <4>1. server'[t] = Append(a, f.what) /\ o = <<f.what>>
        BY <1>1, <1>3, <3>1 DEF OneWhat
      <4>2. Append(a, f.what) = a \o <<f.what>>
        BY <1>5, <2>2, AppendIsConcat DEF Units
      <4> QED BY <4>1, <4>2
    <3>2. CASE t # f.seq
      <4>1. server'[t] = a /\ o = <<>>
        BY <1>1, <1>3, <3>2 DEF OneWhat
      <4>2. a \o <<>> = a
        BY <2>2, UnitsConcat
      <4> QED BY <4>1, <4>2
    <3> QED BY <3>1, <3>2
  <2>5. Upstream(t)' = (a \o o) \o c
    BY <1>1, <2>4, StreamsAre
  <2>6. Upstream(t) = a \o (o \o c)
    BY <2>1, StreamsAre
  <2> HIDE DEF a, o, c
  <2>7. (a \o o) \o c = a \o (o \o c)
    BY <2>2, <2>3, UnitsAssoc
  <2> QED BY <2>5, <2>6, <2>7
<1>10. UNCHANGED <<fwd, sock, lan, inbox, sent, opened, closing, intact>>
  BY <1>1 DEF fwdVars, srvVars
<1>11. ForwardsOK'
  BY <1>1, <1>3, <1>4, <1>8, <1>10 DEF ForwardsOK
<1>12. Streams'
  <2>1. Writing' /\ Shape' /\ Down'
    <3>1. Writing' /\ Shape'
      BY <1>3, <1>10, Zenon DEF Streams, Writing, Shape, IsOpen, Alive
    <3>2. Down'
      BY <1>3, <1>10, Zenon DEF Streams, Down, Awaited, IsOpen, Coming, Alive
    <3> QED BY <3>1, <3>2
  <2>2. Opens'
    BY <1>3, <1>9, <1>10 DEF Streams, Opens, Fresh, Awaited, IsOpen
  <2>3. Up'
    BY <1>3, <1>9, <1>10 DEF Streams, Up, Alive
  <2> QED BY <2>1, <2>2, <2>3 DEF Streams
<1>13. ScanOK'
  <2>1. count_pollfds \in 0..MaxFds
    BY DEF TableOK, PT!TypeOK
  <2>2. NextSlot(1, rev, count_pollfds) \in PT!Slot
    BY <1>6, <2>1, NextSlotIs
  <2> QED BY <1>1, <1>6, <1>7, <2>2 DEF ScanOK
<1>14. InSlot1'
  BY <1>1, <1>2 DEF InSlot1, table
<1> QED BY <1>1, <1>7, <1>11, <1>12, <1>13, <1>14 DEF Rest, Loop

\* The kernel and the LAN peers touch the sockets only.
LEMMA LanPeerKeeps ==
  ASSUME Rest, NEW s \in Seqs, LanPeer(s)
  PROVE  Rest'
<1>1. ForwardsOK /\ Streams /\ sock \in [Seqs -> Sockets] /\ sock[s] \in Sockets
  BY DEF Rest, ForwardsOK
<1>2. PICK k : /\ Kernel(s, k) /\ k \in Sockets /\ k.read = sock[s].read
               /\ k.st # "none" /\ sock[s].st # "none"
  <2> DEFINE Moved(k) == /\ Kernel(s, k) /\ k \in Sockets /\ k.read = sock[s].read
                         /\ k.st # "none" /\ sock[s].st # "none"
  <2>1. CASE Established(s)
    <3>1. Moved([sock[s] EXCEPT !.st = "connected"])
      BY <1>1, <2>1 DEF Established, Sockets
    <3> QED BY <3>1
  <2>2. CASE RefusedOrReset(s)
    <3>1. Moved([sock[s] EXCEPT !.st = "dead"])
      BY <1>1, <2>2 DEF RefusedOrReset, Sockets
    <3> QED BY <3>1
  <2>3. CASE PeerSends(s)
    <3>1. Moved([sock[s] EXCEPT !.rx = @ + 1])
      BY <1>1, <2>3 DEF PeerSends, Sockets
    <3> QED BY <3>1
  <2>4. CASE PeerCloses(s)
    <3>1. Moved([sock[s] EXCEPT !.fin = TRUE])
      BY <1>1, <2>4 DEF PeerCloses, Sockets
    <3> QED BY <3>1
  <2>5. CASE PeerReads(s)
    <3>1. Moved([sock[s] EXCEPT !.full = FALSE])
      BY <1>1, <2>5 DEF PeerReads, Sockets
    <3> QED BY <3>1
  <2> HIDE DEF Moved
  <2> QED BY <2>1, <2>2, <2>3, <2>4, <2>5 DEF LanPeer
<1>3. /\ sock' = [sock EXCEPT ![s] = k]
      /\ UNCHANGED <<revents, scan, fwd, lan, toserver, server, srvVars, intact>>
      /\ UNCHANGED table
  BY <1>2 DEF Kernel
<1>4. /\ sock'[s] = k /\ \A t \in Seqs \ {s} : sock'[t] = sock[t]
      /\ UNCHANGED <<inbox, sent, opened, closing>> /\ Alive' = Alive
  BY <1>1, <1>3 DEF srvVars, Alive
<1>5. ForwardsOK'
  <2>1. \A t \in Seqs : (fwd'[t].alive <=> sock'[t].st # "none")
                        /\ (fwd'[t].alive => fwd'[t].fd \in PT!Fd)
    BY <1>1, <1>2, <1>3, <1>4 DEF ForwardsOK
  <2>2. sock' \in [Seqs -> Sockets]
    BY <1>1, <1>2, <1>3
  <2> QED BY <1>1, <1>3, <1>4, <2>1, <2>2 DEF ForwardsOK
<1>6. /\ \A t : Upstream(t)' = Upstream(t) /\ Coming(t)' = Coming(t)
      /\ \A t : Awaited(t)' <=> Awaited(t)
  BY <1>3, <1>4 DEF Upstream, Queued, Coming, Awaited, IsOpen
<1>7. Writing' /\ Shape' /\ Down'
  <2>1. Writing'
    BY <1>1, <1>3, <1>4 DEF Streams, Writing
  <2>2. Shape'
    BY <1>1, <1>4 DEF Streams, Shape, IsOpen
  <2>3. Down'
    BY <1>1, <1>3, <1>4, <1>6 DEF Streams, Down
  <2> QED BY <2>1, <2>2, <2>3
<1>8. Opens'
  <2> SUFFICES ASSUME NEW t \in Seqs, Awaited(t) PROVE Fresh(t)'
    BY <1>6 DEF Opens
  <2>1. Fresh(t)
    BY <1>1 DEF Streams, Opens
  <2>2. t # s
    BY <1>2, <2>1 DEF Fresh, NoSocket
  <2> QED BY <1>3, <1>4, <1>6, <2>1, <2>2 DEF Fresh
<1>9. Up'
  BY <1>1, <1>2, <1>4, <1>6 DEF Streams, Up
<1>10. ScanOK' /\ Loop'
  BY <1>3 DEF Rest, ScanOK, Loop, NotYet, InSlot1, table, PT!Slot, PT!Fd
<1> QED BY <1>5, <1>7, <1>8, <1>9, <1>10 DEF Rest, Streams

LEMMA InitIInv == Init => IInv
<1> SUFFICES ASSUME Init PROVE IInv
  OBVIOUS
<1>1. PTP!IndInv
  <2>1. PTP!Init
    BY TableIs DEF Init
  <2>2. MaxFds \in Nat /\ Listener \in 0..(MaxFds - 1)
    BY Sizes
  <2> QED BY <2>1, <2>2, PTP!InitIndInv
<1>2. /\ revents = [slot \in PT!Slot |-> {}] /\ scan = 0
      /\ fwd = [s \in Seqs |-> NoForward] /\ sock = [s \in Seqs |-> NoSocket]
      /\ lan = [s \in Seqs |-> <<>>] /\ toserver = <<>> /\ server = [s \in Seqs |-> <<>>]
      /\ inbox = <<>> /\ sent = [s \in Seqs |-> 0] /\ opened = {} /\ closing = {}
      /\ intact = TRUE
  BY DEF Init
<1>3. ScanOK
  BY <1>2, Sizes DEF ScanOK
<1>4. /\ NoForward \in Forwards /\ NoSocket \in Sockets /\ ~NoForward.alive
      /\ NoSocket.st = "none" /\ NoForward.todo = <<>>
  BY EmptySeq DEF NoForward, NoSocket, Forwards, Sockets
<1>5. ForwardsOK
  BY <1>2, <1>4, UnitsConcat, EmptySeq DEF ForwardsOK
<1>6. Loop
  <2>1. count_pollfds = 1 /\ kind[Websocket] = "NONE"
        /\ \A fd \in PT!Fd \ {Listener} : kind[fd] = "NONE"
    BY Sizes DEF Init, PT!Init
  <2>2. NotYet
    BY <1>2, <1>4, <2>1 DEF NotYet
  <2>3. "POLLOUT" \notin revents[1]
    BY <1>2, Sizes
  <2> QED BY <2>2, <2>3 DEF Loop
<1>7. \A s \in Seqs : Upstream(s) = <<>> /\ Coming(s) = <<>>
  <2> SUFFICES ASSUME NEW s \in Seqs PROVE Upstream(s) = <<>> /\ Coming(s) = <<>>
    OBVIOUS
  <2>1. Queued(s) = FlattenSeq(<<>>) /\ Coming(s) = FlattenSeq(<<>>)
    BY <1>2 DEF Queued, Coming
  <2>2. server[s] = <<>> /\ <<>> \o <<>> = <<>>
    BY <1>2
  <2> QED BY <2>1, <2>2, FlattenEmpty DEF Upstream
<1>8. Alive = {}
  BY <1>2, <1>4 DEF Alive
<1>9. Writing /\ Opens /\ Shape /\ Up
  BY <1>2, <1>7, <1>8 DEF Writing, Opens, Fresh, Shape, IsOpen, Up
<1>10. Down
  <2> SUFFICES ASSUME NEW s \in Seqs
               PROVE  lan[s] \o FlattenSeq(fwd[s].todo) \o Coming(s) = Upto(ChunkLen * sent[s])
    BY DEF Down
  <2>1. lan[s] = <<>> /\ fwd[s].todo = <<>> /\ Coming(s) = <<>> /\ sent[s] = 0
    BY <1>2, <1>4, <1>7
  <2>2. ChunkLen * 0 = 0 /\ Upto(0) = <<>>
    BY ConstantsAssumption DEF Upto
  <2>3. (<<>> \o <<>>) \o <<>> = <<>>
    OBVIOUS
  <2> QED BY <2>1, <2>2, <2>3, FlattenEmpty
<1> QED BY <1>1, <1>3, <1>5, <1>6, <1>9, <1>10 DEF IInv, Streams

LEMMA NextIInv ==
  ASSUME IInv, [Next]_vars
  PROVE  IInv'
<1>1. TableOK /\ Rest
  BY TableFacts DEF IInv, Rest
<1>2. PTP!IndInv'
  <2>1. [PTP!Next]_(PTP!vars)
    BY <1>1, StepTable, TableIs DEF Rest
  <2>2. MaxFds \in Nat /\ Listener \in 0..(MaxFds - 1)
    BY Sizes
  <2> QED BY <2>1, <2>2, PTP!NextIndInv DEF IInv
<1>3. TableOK'
  <2>1. (PTP!IndInv => TableOK)'
    BY TableFacts, PTL
  <2> QED BY <1>2, <2>1
<1>4. Rest'
  <2>1. ASSUME NEW s \in Seqs, ServiceForward(s) PROVE Rest'
    BY <1>1, <1>3, <2>1, ConnectKeeps, FinishKeeps, WriteAllKeeps, AgainKeeps, WriteSomeKeeps,
       ReadDataKeeps DEF ServiceForward
  <2>2. ASSUME NEW s \in Seqs, ServiceWebsocket(s) PROVE Rest'
    BY <1>1, <1>3, <2>2, OpenKeeps, DropKeeps, CloseKeeps, DataKeeps DEF ServiceWebsocket
  <2>3. CASE WebsocketUp \/ Poll \/ Writeable
    BY <1>1, <1>3, <2>3, UpKeeps, PollKeeps, WriteableKeeps
  <2>4. CASE ServerSends
    BY <1>1, <2>4, ServerSendsKeeps
  <2>5. ASSUME NEW s \in Seqs, LanPeer(s) PROVE Rest'
    BY <1>1, <2>5, LanPeerKeeps
  <2>6. CASE PollTimeout \/ UNCHANGED vars
    <3>1. /\ UNCHANGED <<fwdVars, toserver, server, srvVars, intact>>
          /\ UNCHANGED <<revents, scan>> /\ UNCHANGED table
      BY <2>6 DEF PollTimeout, vars
    <3>2. ForwardsOK' /\ Streams'
      BY <1>1, <3>1, StreamsStay DEF Rest
    <3>3. ScanOK' /\ Loop'
      BY <1>1, <3>1 DEF Rest, ScanOK, Loop, NotYet, InSlot1, table, fwdVars, PT!Slot, PT!Fd
    <3> QED BY <3>2, <3>3 DEF Rest
  <2> QED BY <2>1, <2>2, <2>3, <2>4, <2>5, <2>6 DEF Next, Client
<1> QED BY <1>2, <1>4 DEF IInv, Rest

-----------------------------------------------------------------------------
(* The theorems.                                                           *)

\* Whatever frames, readiness and outcomes of read and write come in whatever
\* order, the forwards keep the invariant above.
THEOREM Invariant == Spec => []IInv
<1>1. Init => IInv
  BY InitIInv
<1>2. IInv /\ [Next]_vars => IInv'
  BY NextIInv
<1> QED BY <1>1, <1>2, PTL DEF Spec

\* The types the runs' invariants rely on.
THEOREM TypeCorrect == Spec => []TypeOK
<1>1. IInv => TypeOK
  <2> SUFFICES ASSUME IInv PROVE TypeOK
    OBVIOUS
  <2>1. TableOK /\ ScanOK /\ ForwardsOK
    BY TableFacts DEF IInv
  <2>2. \A s \in Seqs : fwd[s] \in Forwards /\ sock[s] \in Sockets
    BY <2>1 DEF ForwardsOK
  <2> QED BY <2>1, <2>2 DEF TypeOK, TableOK, ScanOK, ForwardsOK, Forwards, Sockets
<1> QED BY <1>1, Invariant, PTL

\* The assertion at the head of tcp_forward_write: no write is begun while an
\* earlier one is suspended.
THEOREM WriteStartsOnce == Spec => []WriteNeverRestarted
<1>1. IInv => WriteNeverRestarted
  BY DEF IInv, Streams, Writing, WriteNeverRestarted
<1> QED BY <1>1, Invariant, PTL

\* process_tcp_forwardresp turns an idle forward to writing whatever it is
\* doing: chunks never wait for an event that is not polled.
THEOREM WritesWhatItHas == Spec => []NoDataLeftWaiting
<1>1. IInv => NoDataLeftWaiting
  BY DEF IInv, Streams, Writing, NoDataLeftWaiting
<1> QED BY <1>1, Invariant, PTL

\* From the server to the LAN peer: nothing lost, repeated or reordered, for
\* chunks of any length cut at any point by the kernel.
THEOREM Downstream == Spec => []DownstreamInOrder
<1>1. IInv => DownstreamInOrder
  <2> SUFFICES ASSUME IInv, NEW s \in Alive
               PROVE  lan[s] \o FlattenSeq(fwd[s].todo) \o Coming(s)
                        = [i \in 1..(ChunkLen * sent[s]) |-> i]
    BY DEF DownstreamInOrder
  <2>1. s \in Seqs
    BY DEF Alive
  <2> QED BY <2>1 DEF IInv, Streams, Down, Upto
<1> QED BY <1>1, Invariant, PTL

\* From the LAN peer to the server: what was read, in order, then one closing
\* frame once the forward is released, and nothing after it.
THEOREM Upstreams == Spec => []ClosedOnceAndLast
<1>1. IInv => ClosedOnceAndLast
  <2> SUFFICES ASSUME IInv, NEW s \in Seqs, NEW up, up = Upstream(s),
                      NEW n, n = IF s \in Alive \/ up = <<>> THEN Len(up) ELSE Len(up) - 1
               PROVE  /\ \A i \in 1..n : up[i] = i
                      /\ s \in Alive => n = sock[s].read
                      /\ s \notin Alive /\ up # <<>> => up[Len(up)] = CLOSED
    BY DEF ClosedOnceAndLast
  <2>1. CASE s \in Alive
    <3>1. up = Upto(sock[s].read)
      BY <2>1 DEF IInv, Streams, Up
    <3>2. sock[s].read \in Nat
      BY DEF IInv, ForwardsOK, Sockets
    <3> QED BY <2>1, <3>1, <3>2 DEF Upto
  <2>2. CASE s \notin Alive /\ up = <<>>
    BY <2>2
  <2>3. CASE s \notin Alive /\ up # <<>>
    <3>1. PICK k \in Nat : up = Append(Upto(k), CLOSED)
      BY <2>3 DEF IInv, Streams, Up
    <3>2. Upto(k) \in Seq(Nat) /\ Len(Upto(k)) = k /\ CLOSED \in Nat
      BY UptoNext DEF Units, CLOSED
    <3>3. Len(up) = k + 1 /\ up[k + 1] = CLOSED /\ \A i \in 1..k : up[i] = Upto(k)[i]
      BY <3>1, <3>2, AppendProperties
    <3>4. n = k
      BY <2>3, <3>3
    <3> QED BY <2>3, <3>3, <3>4 DEF Upto
  <2> QED BY <2>1, <2>2, <2>3
<1> QED BY <1>1, Invariant, PTL

\* The loop and the forwards implement the poll table: each of their steps is
\* one of its operations or leaves it alone.
THEOREM UsesPollTable == Spec => PollTableSpec
<1>1. Init => PT!Init
  BY DEF Init
<1>2. IInv /\ [Next]_vars => [PT!Next]_(PT!vars)
  BY StepTable DEF IInv
<1> QED BY <1>1, <1>2, Invariant, PTL DEF Spec, PollTableSpec, PT!Spec

\* So the table is consistent under the loop too: every descriptor finds its
\* own slot, and the listening socket is never disarmed.
THEOREM TableInUse == Spec => [](PT!TableConsistent /\ PT!ListenerArmed)
<1>1. IInv => PT!TableConsistent /\ PT!ListenerArmed
  BY TableFacts DEF IInv, TableOK
<1> QED BY <1>1, Invariant, PTL
===============================================================================
