-------------------------- MODULE LocalProxy_proofs --------------------------
(***************************************************************************)
(* What the local program and the host of the LAN are given, for any       *)
(* number of units either of them sends.  The order of the units rests on  *)
(* the order of the protocol: no data is under way before the server has   *)
(* opened the forward, and what is buffered goes out before anything else. *)
(***************************************************************************)
EXTENDS LocalProxy, SequenceLemmas

Messages == [type : {"hello", "handshake", "openning", "request", "response",
                     "closed"},
             data : Units]

\* The units in a sequence of messages.
Datas(q) == [i \in 1..Len(q) |-> q[i].data]
Data(q)  == FlattenSeq(Datas(q))

\* The units on their way from the local program to the host of the LAN.
Line(a, b, c, d) == a \o b \o c \o d

StateOK ==
    /\ TypeOK
    /\ {toServer, fromServer} \subseteq Seq(Messages)
    /\ {buffers, localIn, localGot, lanGot} \subseteq Units

\* Before the forward exists, one message at most of the opening is under
\* way; from then on only requests one way, answers the other.
Opening ==
    /\ ws = "connecting" => lan = "none" /\ toServer = <<>> /\ fromServer = <<>>
    /\ lan = "none" =>
          /\ ~connected
          /\ \/ toServer = <<>> /\ fromServer = <<>>
             \/ toServer = <<Msg("hello", <<>>)>> /\ fromServer = <<>>
             \/ toServer = <<>> /\ fromServer = <<Msg("handshake", <<>>)>>
             \/ toServer = <<Msg("openning", <<>>)>> /\ fromServer = <<>>
    /\ lan # "none" =>
          /\ \A i \in 1..Len(toServer) : toServer[i].type = "request"
          /\ \A i \in 1..Len(fromServer) :
                \/ fromServer[i].type = "response"
                \/ fromServer[i].type = "closed" /\ fromServer[i].data = <<>>

\* What the local program sent, wherever it is.
Outward ==
    /\ connected => buffers = <<>>
    /\ lan # "closed" => Line(lanGot, Data(toServer), buffers, localIn) = Upto(localSent)
    /\ Len(lanGot) <= localSent

\* What the host of the LAN sent, while there is somebody to give it to.
Inward ==
    /\ local = "open" => localGot \o Data(fromServer) = Upto(lanSent)
    /\ GivenInOrder

IInv == StateOK /\ Opening /\ Outward /\ Inward

-----------------------------------------------------------------------------
(* The operators.                                                          *)

LEMMA MsgIs ==
  ASSUME NEW d \in Units, NEW t \in {"hello", "handshake", "openning", "request",
                                     "response", "closed"}
  PROVE  Msg(t, d) \in Messages /\ Msg(t, d).data = d /\ Msg(t, d).type = t
BY DEF Msg, Messages

LEMMA DatasType ==
  ASSUME NEW q \in Seq(Messages)
  PROVE  Datas(q) \in Seq(Units) /\ Data(q) \in Units
<1>1. ASSUME NEW i \in 1..Len(q) PROVE q[i].data \in Units
  <2>1. q[i] \in Messages
    BY ElementOfSeq
  <2> QED BY <2>1 DEF Messages
<1>2. Datas(q) \in Seq(Units)
  BY <1>1 DEF Datas
<1> QED BY <1>2, FlattenType DEF Data, Units

LEMMA DataEmpty == Data(<<>>) = <<>>
<1>1. Datas(<<>>) = <<>>
  BY DEF Datas
<1> QED BY <1>1, FlattenEmpty DEF Data

LEMMA DataAppend ==
  ASSUME NEW q \in Seq(Messages), NEW m \in Messages
  PROVE  Data(Append(q, m)) = Data(q) \o m.data
<1>1. Datas(Append(q, m)) = Append(Datas(q), m.data)
  BY DEF Datas
<1>2. Datas(q) \in Seq(Units) /\ m.data \in Units
  BY DatasType DEF Messages
<1> QED BY <1>1, <1>2, FlattenAppend DEF Data, Units

LEMMA DataTail ==
  ASSUME NEW q \in Seq(Messages), q # <<>>
  PROVE  Data(q) = Head(q).data \o Data(Tail(q))
<1>1. /\ Datas(Tail(q)) = Tail(Datas(q))
      /\ Head(q).data = Head(Datas(q))
      /\ Datas(q) # <<>>
  BY DEF Datas
<1>2. Datas(q) \in Seq(Units)
  BY DatasType
<1> QED BY <1>1, <1>2, FlattenTail DEF Data, Units

LEMMA OneMessage ==
  ASSUME NEW m \in Messages, m.data = <<>>
  PROVE  Data(<<m>>) = <<>>
<1>1. Datas(<<m>>) = <<<<>>>>
  BY DEF Datas
<1> QED BY <1>1, FlattenOne DEF Data

LEMMA OpeningMessages ==
  /\ {Msg("hello", <<>>), Msg("handshake", <<>>), Msg("openning", <<>>)} \subseteq Messages
  /\ Data(<<Msg("hello", <<>>)>>) = <<>>
  /\ Data(<<Msg("handshake", <<>>)>>) = <<>>
  /\ Data(<<Msg("openning", <<>>)>>) = <<>>
<1>1. <<>> \in Units
  BY DEF Units
<1> QED BY <1>1, MsgIs, OneMessage

\* The units move along the line from right to left.
LEMMA BuffersMove ==
  ASSUME NEW a \in Units, NEW b \in Units, NEW c \in Units, NEW d \in Units
  PROVE  Line(a, b \o c, <<>>, d) = Line(a, b, c, d)
<1>1. b \o c \in Units /\ a \o (b \o c) \in Units
  BY UnitsConcat
<1>2. (a \o (b \o c)) \o <<>> = a \o (b \o c)
  BY <1>1, UnitsConcat
<1>3. a \o (b \o c) = (a \o b) \o c
  BY UnitsConcat
<1> QED BY <1>2, <1>3, Zenon DEF Line

LEMMA InputMoves ==
  ASSUME NEW a \in Units, NEW b \in Units, NEW c \in Units, NEW d \in Units
  PROVE  Line(a, b, c \o d, <<>>) = Line(a, b, c, d)
<1>1. c \o d \in Units /\ a \o b \in Units /\ (a \o b) \o (c \o d) \in Units
  BY UnitsConcat
<1>2. ((a \o b) \o (c \o d)) \o <<>> = (a \o b) \o (c \o d)
  BY <1>1, UnitsConcat
<1> DEFINE x == a \o b
<1> HIDE DEF x
<1>3. x \o (c \o d) = (x \o c) \o d
  BY <1>1, UnitsConcat, SMTT(30) DEF x
<1> QED BY <1>2, <1>3, Zenon DEF Line, x

LEMMA InputSent ==
  ASSUME NEW a \in Units, NEW b \in Units, NEW d \in Units
  PROVE  Line(a, b \o d, <<>>, <<>>) = Line(a, b, <<>>, d)
<1>1. <<>> \in Units /\ <<>> \o d = d
  BY UnitsConcat
<1>2. Line(a, b \o d, <<>>, <<>>) = Line(a, b, d, <<>>)
  BY <1>1, BuffersMove
<1>3. Line(a, b, <<>> \o d, <<>>) = Line(a, b, <<>>, d)
  BY <1>1, InputMoves
<1> QED BY <1>1, <1>2, <1>3

LEMMA RequestMoves ==
  ASSUME NEW a \in Units, NEW b \in Units, NEW c \in Units, NEW d \in Units, NEW e \in Units
  PROVE  Line(a \o b, c, d, e) = Line(a, b \o c, d, e)
<1>1. (a \o b) \o c = a \o (b \o c)
  BY UnitsConcat
<1> QED BY <1>1 DEF Line

-----------------------------------------------------------------------------
(* The invariant.                                                          *)

LEMMA InitInv == Init => IInv
<1> SUFFICES ASSUME Init PROVE IInv
  OBVIOUS
<1>1. StateOK
  <2>1. TypeOK
    <3>1. 0 \in 0..MaxLocal /\ 0 \in 0..(Greeting + MaxLocal)
      BY BoundsAssumption
    <3>2. {connected, up} \subseteq BOOLEAN
      BY DEF Init
    <3> QED BY <3>1, <3>2 DEF Init, TypeOK
  <2>2. <<>> \in Units /\ <<>> \in Seq(Messages)
    BY EmptySeq DEF Units
  <2> QED BY <2>1, <2>2 DEF Init, StateOK
<1>2. Opening
  BY DEF Init, Opening
<1>3. /\ Upto(0) = <<>> /\ Len(<<>>) = 0 /\ <<>> \o <<>> = <<>>
      /\ Line(<<>>, <<>>, <<>>, <<>>) = <<>>
  BY DEF Upto, Line
<1>4. Outward
  BY <1>3, DataEmpty DEF Init, Outward
<1>5. Inward
  BY <1>3, DataEmpty DEF Init, Inward, GivenInOrder
<1> QED BY <1>1, <1>2, <1>4, <1>5 DEF IInv

\* The handshake and what follows it before the forward exists.
LEMMA OpeningSteps ==
  ASSUME IInv, WsConnects \/ Handshake \/ ServerHandshake
  PROVE  IInv'
<1> USE DEF IInv
<1>1. CASE WsConnects
  <2> USE DEF WsConnects, Say, proxy, peer, remote
  <2>1. /\ toServer = <<>> /\ fromServer = <<>> /\ lan = "none"
        /\ toServer' = <<Msg("hello", <<>>)>>
    BY <1>1 DEF Opening
  <2>2. StateOK'
    BY <1>1, <2>1, OpeningMessages DEF StateOK, TypeOK
  <2>3. Opening'
    BY <1>1, <2>1 DEF Opening
  <2>4. Outward'
    BY <1>1, <2>1, OpeningMessages, DataEmpty DEF Outward
  <2>5. Inward'
    BY <1>1 DEF Inward, GivenInOrder
  <2> QED BY <2>2, <2>3, <2>4, <2>5
<1>2. CASE Handshake
  <2> USE DEF Handshake, Say, proxy, peer, remote
  <2>1. Head(fromServer) \in {fromServer[i] : i \in 1..Len(fromServer)}
    BY <1>2 DEF StateOK
  <2>2. lan = "none"
    BY <1>2, <2>1 DEF Opening, StateOK, TypeOK
  <2>3. toServer = <<>> /\ fromServer = <<Msg("handshake", <<>>)>>
    BY <1>2, <2>2 DEF Opening
  <2>4. fromServer' = <<>> /\ toServer' = <<Msg("openning", <<>>)>>
    BY <1>2, <2>3
  <2>5. StateOK'
    BY <1>2, <2>4, OpeningMessages, EmptySeq DEF StateOK, TypeOK
  <2>6. Opening'
    BY <1>2, <2>2, <2>4 DEF Opening
  <2>7. Outward'
    BY <1>2, <2>3, <2>4, OpeningMessages, DataEmpty DEF Outward
  <2>8. Inward'
    BY <1>2, <2>3, <2>4, OpeningMessages, DataEmpty DEF Inward, GivenInOrder
  <2> QED BY <2>5, <2>6, <2>7, <2>8
<1>3. CASE ServerHandshake
  <2> USE DEF ServerHandshake, Serve, Answer, proxy, peer, remote
  <2>1. Head(toServer) \in {toServer[i] : i \in 1..Len(toServer)}
    BY <1>3 DEF StateOK
  <2>2. lan = "none"
    BY <1>3, <2>1 DEF Opening, StateOK, TypeOK
  <2>3. fromServer = <<>> /\ toServer = <<Msg("hello", <<>>)>>
    BY <1>3, <2>2 DEF Opening, Msg
  <2>4. toServer' = <<>> /\ fromServer' = <<Msg("handshake", <<>>)>>
    BY <1>3, <2>3
  <2>5. StateOK'
    BY <1>3, <2>4, OpeningMessages, EmptySeq DEF StateOK, TypeOK
  <2>6. Opening'
    BY <1>3, <2>2, <2>4 DEF Opening
  <2>7. Outward'
    BY <1>3, <2>3, <2>4, OpeningMessages, DataEmpty DEF Outward
  <2>8. Inward'
    BY <1>3, <2>3, <2>4, OpeningMessages, DataEmpty DEF Inward, GivenInOrder
  <2> QED BY <2>5, <2>6, <2>7, <2>8
<1> QED BY <1>1, <1>2, <1>3

\* The websocket fails or is closed, and the local program's own steps.
LEMMA EndSteps ==
  ASSUME IInv, WsFails \/ WsClosed \/ LocalSends \/ LocalCloses
  PROVE  IInv'
<1> USE DEF IInv, proxy, peer, remote
<1>1. CASE WsFails \/ WsClosed
  <2> USE DEF WsFails, WsClosed, Closed
  <2>1. StateOK'
    BY <1>1 DEF StateOK, TypeOK
  <2>2. Opening'
    BY <1>1 DEF Opening
  <2>3. UNCHANGED <<connected, buffers, lan, lanGot, toServer, localIn, localSent>>
    BY <1>1
  <2>4. Outward'
    BY <2>3 DEF Outward
  <2>5. Inward'
    BY <1>1 DEF Inward, GivenInOrder
  <2> QED BY <2>1, <2>2, <2>4, <2>5
<1>2. CASE LocalSends
  <2> USE DEF LocalSends
  <2>1. localSent \in Nat /\ localSent' = localSent + 1 /\ localSent + 1 \in Nat
    BY <1>2, BoundsAssumption DEF StateOK, TypeOK
  <2>2. StateOK'
    <3>1. TypeOK'
      BY <1>2, BoundsAssumption DEF StateOK, TypeOK
    <3>2. localIn' \in Units
      BY <1>2, <2>1, AppendProperties DEF StateOK, Units
    <3> QED BY <1>2, <3>1, <3>2 DEF StateOK
  <2>3. Opening'
    BY <1>2 DEF Opening
  <2>4. Outward'
    <3> DEFINE a == lanGot \o Data(toServer) \o buffers
    <3>1. a \in Units /\ localIn \in Units
      BY DatasType, UnitsConcat DEF StateOK
    <3>2. \A d : Line(lanGot, Data(toServer), buffers, d) = a \o d
      BY DEF Line
    <3> HIDE DEF a
    <3>3. a \o Append(localIn, localSent + 1) = Append(a \o localIn, localSent + 1)
      BY <2>1, <3>1 DEF Units
    <3>4. Len(lanGot) <= localSent + 1
      BY <2>1 DEF StateOK, Units, Outward
    <3> QED BY <1>2, <2>1, <3>2, <3>3, <3>4, UptoNext DEF Outward
  <2>5. Inward'
    BY <1>2 DEF Inward, GivenInOrder
  <2> QED BY <2>2, <2>3, <2>4, <2>5
<1>3. CASE LocalCloses
  <2> USE DEF LocalCloses
  <2>1. StateOK'
    BY <1>3 DEF StateOK, TypeOK
  <2>2. Opening'
    BY <1>3 DEF Opening
  <2>3. Outward'
    BY <1>3 DEF Outward
  <2>4. Inward'
    BY <1>3 DEF Inward, GivenInOrder
  <2> QED BY <2>1, <2>2, <2>3, <2>4
<1> QED BY <1>1, <1>2, <1>3

\* What the messages say that come once the forward exists.
LEMMA MessageIs ==
  ASSUME IInv, fromServer # <<>>, Head(fromServer).type # "handshake"
  PROVE  /\ lan # "none" /\ ws # "connecting"
         /\ Head(fromServer).type = "closed" => Head(fromServer).data = <<>>
         /\ Head(fromServer) \in Messages /\ Tail(fromServer) \in Seq(Messages)
         /\ Data(fromServer) = Head(fromServer).data \o Data(Tail(fromServer))
         /\ Head(fromServer).data \in Units /\ Data(Tail(fromServer)) \in Units
         /\ \A i \in 1..Len(Tail(fromServer)) :
                \/ Tail(fromServer)[i].type = "response"
                \/ Tail(fromServer)[i].type = "closed" /\ Tail(fromServer)[i].data = <<>>
<1>1. lan # "none" /\ ws # "connecting"
  <2>1. fromServer # <<Msg("handshake", <<>>)>>
    BY DEF Msg
  <2> QED BY <2>1 DEF IInv, Opening
<1>2. /\ fromServer \in Seq(Messages)
      /\ Head(fromServer) = fromServer[1] /\ 1 \in 1..Len(fromServer)
      /\ \A i \in 1..Len(Tail(fromServer)) :
            Tail(fromServer)[i] = fromServer[i + 1] /\ i + 1 \in 1..Len(fromServer)
  BY DEF IInv, StateOK
<1>3. Head(fromServer) \in Messages /\ Tail(fromServer) \in Seq(Messages)
  BY <1>2
<1>4. Head(fromServer).data \in Units /\ Data(Tail(fromServer)) \in Units
  BY <1>3, DatasType DEF Messages
<1>5. Data(fromServer) = Head(fromServer).data \o Data(Tail(fromServer))
  BY <1>2, DataTail
<1> QED BY <1>1, <1>2, <1>3, <1>4, <1>5 DEF IInv, Opening

\* A message of the server that is not the handshake: the buffers go out first.
LEMMA FlushSteps ==
  ASSUME IInv, Message("response") \/ Message("closed"), ws' \in {ws, "closed"}, up' = up
  PROVE  Opening' /\ Outward'
<1> USE DEF IInv, Message, Flush, Say, remote
<1> DEFINE m == Msg("request", buffers)
<1>1. /\ lan # "none" /\ lan' # "none" /\ ws' # "connecting"
      /\ \A i \in 1..Len(fromServer') :
            \/ fromServer'[i].type = "response"
            \/ fromServer'[i].type = "closed" /\ fromServer'[i].data = <<>>
  BY MessageIs
<1>2. /\ toServer \in Seq(Messages)
      /\ {lanGot, buffers, localIn, Data(toServer)} \subseteq Units
      /\ m \in Messages /\ m.data = buffers /\ m.type = "request"
  BY MsgIs, DatasType DEF StateOK
<1> HIDE DEF m
<1>3. CASE buffers = <<>> \/ connected
  <2>1. toServer' = toServer /\ buffers' = <<>> /\ buffers = <<>> /\ connected'
    BY <1>3 DEF m, Outward
  <2>2. Opening'
    BY <1>1, <2>1 DEF Opening
  <2>3. Outward'
    BY <2>1 DEF Outward
  <2> QED BY <2>2, <2>3
<1>4. CASE ~ (buffers = <<>> \/ connected)
  <2>1. toServer' = Append(toServer, m) /\ buffers' = <<>> /\ connected'
    BY <1>4 DEF m
  <2>2. \A i \in 1..Len(toServer') : toServer'[i].type = "request"
    BY <1>1, <1>2, <2>1 DEF Opening
  <2>3. Opening'
    BY <1>1, <2>2 DEF Opening
  <2>4. Data(toServer') = Data(toServer) \o buffers
    BY <1>2, <2>1, DataAppend
  <2>5. Line(lanGot, Data(toServer) \o buffers, <<>>, localIn)
          = Line(lanGot, Data(toServer), buffers, localIn)
    BY <1>2, BuffersMove
  <2>6. Outward'
    BY <2>1, <2>4, <2>5 DEF Outward
  <2> QED BY <2>3, <2>6
<1> QED BY <1>3, <1>4

\* Messages of the server handled.
LEMMA MessageSteps ==
  ASSUME IInv, DataForLocal \/ DataForNobody \/ RemoteClosed
  PROVE  IInv'
<1> DEFINE d == Head(fromServer).data
           r == Data(Tail(fromServer))
<1> USE DEF IInv
<1>1. /\ fromServer # <<>> /\ Head(fromServer).type # "handshake"
      /\ Message("response") \/ Message("closed")
      /\ ws' \in {ws, "closed"} /\ up' = up
      /\ fromServer' = Tail(fromServer)
  BY DEF DataForLocal, DataForNobody, RemoteClosed, Message, Closed
<1>2. Opening' /\ Outward'
  BY <1>1, FlushSteps
<1>3. /\ d \in Units /\ r \in Units /\ localGot \in Units
      /\ Data(fromServer) = d \o r /\ Data(fromServer') = r
      /\ Tail(fromServer) \in Seq(Messages)
  BY <1>1, MessageIs DEF StateOK
<1> HIDE DEF d, r
<1>4. toServer' \in Seq(Messages) /\ buffers' \in Units /\ localIn' = localIn
      /\ connected' \in BOOLEAN /\ UNCHANGED <<localSent, lan, lanGot, lanSent>>
  <2>1. buffers \in Units /\ <<>> \in Units /\ toServer \in Seq(Messages)
    BY UnitsConcat DEF StateOK
  <2>2. Append(toServer, Msg("request", buffers)) \in Seq(Messages)
    BY <2>1, MsgIs, AppendProperties
  <2> QED BY <1>1, <2>1, <2>2 DEF Message, Flush, Say, remote
<1>5. ASSUME localGot' \in Units, ws' \in {"connecting", "open", "closed"},
             local' \in {"open", "ended", "gone"}
      PROVE  StateOK'
  <2>1. TypeOK'
    BY <1>1, <1>4, <1>5 DEF StateOK, TypeOK
  <2> QED BY <1>1, <1>3, <1>4, <1>5, <2>1 DEF StateOK
<1>6. CASE DataForLocal
  <2>1. localGot' = localGot \o d /\ UNCHANGED <<ws, up, local>> /\ local = "open"
    BY <1>6 DEF DataForLocal, d
  <2>2. StateOK'
    BY <1>3, <1>5, <2>1, UnitsConcat DEF StateOK, TypeOK
  <2>3. (localGot \o d) \o r = localGot \o (d \o r)
    BY <1>3, UnitsConcat
  <2>4. localGot' \o Data(fromServer') = Upto(lanSent)
    BY <1>3, <2>1, <2>3 DEF Inward
  <2>5. localGot' \in Units /\ lanSent \in Nat
    BY <2>2, BoundsAssumption DEF StateOK, TypeOK
  <2>6. GivenInOrder'
    BY <1>3, <2>4, <2>5, PrefixInOrder DEF GivenInOrder
  <2> QED BY <1>2, <1>4, <2>2, <2>4, <2>6 DEF Inward
<1>7. CASE DataForNobody
  <2>1. UNCHANGED <<local, localGot>> /\ local # "open" /\ ws' = "closed"
    BY <1>7 DEF DataForNobody, Closed
  <2>2. StateOK'
    BY <1>5, <2>1 DEF StateOK, TypeOK
  <2> QED BY <1>2, <2>1, <2>2 DEF Inward, GivenInOrder
<1>8. CASE RemoteClosed
  <2>1. localGot' = localGot /\ local' # "open" /\ ws' = "closed"
        /\ local' \in {"open", "ended", "gone"}
    BY <1>8 DEF RemoteClosed, Closed, StateOK, TypeOK
  <2>2. StateOK'
    BY <1>5, <2>1 DEF StateOK, TypeOK
  <2> QED BY <1>2, <2>1, <2>2 DEF Inward, GivenInOrder
<1> QED BY <1>6, <1>7, <1>8

\* The local program's data is read.
LEMMA InputStep ==
  ASSUME IInv, DataFromLocal
  PROVE  IInv'
<1> USE DEF IInv
<1> DEFINE b == Data(toServer)
<1>1. /\ up /\ ws = "open" /\ localIn' = <<>>
      /\ UNCHANGED <<ws, connected, up, local, localSent, localGot, lan, lanGot,
                     lanSent, fromServer>>
  BY DEF DataFromLocal, remote
<1>2. /\ b \in Units /\ lanGot \in Units /\ buffers \in Units /\ localIn \in Units
      /\ toServer \in Seq(Messages) /\ <<>> \in Units
  BY DatasType, UnitsConcat DEF StateOK
<1>3. TypeOK'
  BY <1>1 DEF StateOK, TypeOK
<1>4. CASE connected
  <2> DEFINE m == Msg("request", localIn)
  <2>1. toServer' = Append(toServer, m) /\ buffers' = <<>> /\ buffers = <<>> /\ lan # "none"
    BY <1>4 DEF DataFromLocal, Say, Outward, Opening
  <2>2. m \in Messages /\ m.data = localIn /\ m.type = "request"
    BY <1>2, MsgIs
  <2> HIDE DEF m
  <2>3. StateOK'
    BY <1>1, <1>2, <1>3, <2>1, <2>2, AppendProperties DEF StateOK
  <2>4. \A i \in 1..Len(toServer') : toServer'[i].type = "request"
    BY <1>2, <2>1, <2>2 DEF Opening
  <2>5. Opening'
    BY <1>1, <2>1, <2>4 DEF Opening
  <2>6. Data(toServer') = b \o localIn
    BY <1>2, <2>1, <2>2, DataAppend
  <2> HIDE DEF b
  <2>7. Line(lanGot, b \o localIn, <<>>, <<>>) = Line(lanGot, b, <<>>, localIn)
    BY <1>2, InputSent
  <2>8. Outward'
    BY <1>1, <2>1, <2>6, <2>7 DEF Outward, b
  <2> QED BY <1>1, <2>3, <2>5, <2>8 DEF Inward, GivenInOrder
<1>5. CASE ~connected
  <2>1. toServer' = toServer /\ buffers' = buffers \o localIn
    BY <1>5 DEF DataFromLocal
  <2>2. buffers \o localIn \in Units
    BY <1>2, UnitsConcat
  <2>3. StateOK'
    BY <1>1, <1>2, <1>3, <2>1, <2>2 DEF StateOK
  <2>4. Opening'
    BY <1>1, <2>1 DEF Opening
  <2> HIDE DEF b
  <2>5. Line(lanGot, b, buffers \o localIn, <<>>) = Line(lanGot, b, buffers, localIn)
    BY <1>2, InputMoves
  <2>6. Outward'
    BY <1>1, <1>5, <2>1, <2>5 DEF Outward, b
  <2> QED BY <1>1, <2>3, <2>4, <2>6 DEF Inward, GivenInOrder
<1> QED BY <1>4, <1>5

\* The server hands a request to the host of the LAN.
LEMMA RequestStep ==
  ASSUME IInv, ServerForwards
  PROVE  IInv'
<1> USE DEF IInv
<1> DEFINE d == Head(toServer).data
           r == Data(Tail(toServer))
<1>1. /\ toServer # <<>> /\ Head(toServer).type = "request"
      /\ toServer' = Tail(toServer)
      /\ lanGot' = IF lan = "open" THEN lanGot \o d ELSE lanGot
      /\ UNCHANGED <<ws, connected, buffers, up, local, localIn, localSent, localGot,
                     lan, lanSent, fromServer>>
  BY DEF ServerForwards, Serve, proxy, peer
<1>2. lan # "none" /\ ws # "connecting"
  <2>1. toServer # <<Msg("hello", <<>>)>> /\ toServer # <<Msg("openning", <<>>)>>
    BY <1>1 DEF Msg
  <2> QED BY <1>1, <2>1 DEF Opening
<1>3. /\ toServer \in Seq(Messages) /\ Tail(toServer) \in Seq(Messages)
      /\ Head(toServer) \in Messages
      /\ \A i \in 1..Len(Tail(toServer)) :
            Tail(toServer)[i] = toServer[i + 1] /\ i + 1 \in 1..Len(toServer)
  BY <1>1 DEF StateOK
<1>4. d \in Units /\ r \in Units /\ lanGot \in Units /\ buffers \in Units /\ localIn \in Units
  BY <1>3, DatasType DEF StateOK, Messages
<1>5. Data(toServer) = d \o r
  BY <1>1, <1>3, DataTail
<1> HIDE DEF d
<1>6. lanGot' \in Units
  BY <1>1, <1>4, UnitsConcat
<1>7. StateOK'
  BY <1>1, <1>3, <1>6 DEF StateOK, TypeOK
<1>8. Opening'
  <2>1. \A i \in 1..Len(toServer') : toServer'[i].type = "request"
    BY <1>1, <1>2, <1>3 DEF Opening
  <2> QED BY <1>1, <1>2, <2>1 DEF Opening
<1>9. Outward'
  <2>1. CASE lan = "open"
    <3>1. Data(toServer') = r
      BY <1>1
    <3> HIDE DEF r
    <3>2. Line(lanGot \o d, r, buffers, localIn) = Line(lanGot, d \o r, buffers, localIn)
      BY <1>4, RequestMoves
    <3>3. Line(lanGot', r, buffers, localIn) = Upto(localSent)
      BY <1>1, <1>5, <2>1, <3>2 DEF Outward
    <3>4. Len(lanGot') <= localSent
      <4>1. Line(lanGot', r, buffers, localIn) = lanGot' \o r \o buffers \o localIn
        BY DEF Line
      <4>2. Len(lanGot' \o r \o buffers \o localIn) >= Len(lanGot')
        BY <1>4, <1>6 DEF Units
      <4>3. Len(Upto(localSent)) = localSent
        BY UptoNext, BoundsAssumption DEF StateOK, TypeOK
      <4> QED BY <3>3, <4>1, <4>2, <4>3
    <3> QED BY <1>1, <3>1, <3>3, <3>4 DEF Outward
  <2>2. CASE lan # "open"
    BY <1>1, <1>2, <2>2 DEF Outward, StateOK, TypeOK
  <2> QED BY <2>1, <2>2
<1>10. Inward'
  BY <1>1 DEF Inward, GivenInOrder
<1> QED BY <1>7, <1>8, <1>9, <1>10

\* The forward is opened or refused, answers, and is closed.
LEMMA LanSteps ==
  ASSUME IInv, ServerOpens \/ LanSends \/ LanCloses
  PROVE  IInv'
<1> USE DEF IInv
<1> DEFINE c == Msg("closed", <<>>)
           n == lanSent + 1
           m == Msg("response", <<n>>)
<1>1. /\ fromServer \in Seq(Messages) /\ localGot \in Units /\ Data(fromServer) \in Units
      /\ lanSent \in Nat /\ n \in Nat /\ n = lanSent + 1
      /\ <<>> \in Units /\ <<n>> \in Units
  BY DatasType, UnitsConcat, BoundsAssumption DEF StateOK, TypeOK, Units
<1> HIDE DEF n
<1>2. /\ c \in Messages /\ c.data = <<>> /\ c.type = "closed"
      /\ m \in Messages /\ m.data = <<n>> /\ m.type = "response"
  BY <1>1, MsgIs
<1> HIDE DEF c, m
<1>3. /\ Append(fromServer, c) \in Seq(Messages) /\ Append(fromServer, m) \in Seq(Messages)
      /\ Data(Append(fromServer, c)) = Data(fromServer) \o <<>>
      /\ Data(Append(fromServer, m)) = Data(fromServer) \o <<n>>
  BY <1>1, <1>2, DataAppend, AppendProperties
<1>4. Data(fromServer) \o <<>> = Data(fromServer)
  BY <1>1, UnitsConcat
<1>5. CASE ServerOpens
  <2>1. /\ toServer # <<>> /\ Head(toServer).type = "openning" /\ toServer' = Tail(toServer)
        /\ \/ lan' = "open" /\ fromServer' = fromServer
           \/ lan' = "closed" /\ fromServer' = Append(fromServer, c)
        /\ UNCHANGED <<ws, connected, buffers, up, local, localIn, localSent, localGot,
                       lanGot, lanSent>>
    BY <1>5 DEF ServerOpens, Serve, Answer, proxy, peer, c
  <2>2. toServer = <<Msg("openning", <<>>)>> /\ fromServer = <<>> /\ lan = "none"
    <3>1. Head(toServer) \in {toServer[i] : i \in 1..Len(toServer)}
      BY <2>1 DEF StateOK
    <3>2. lan = "none" /\ toServer # <<Msg("hello", <<>>)>>
      BY <2>1, <3>1 DEF Opening, Msg
    <3> QED BY <2>1, <3>2 DEF Opening
  <2>3. toServer' = <<>> /\ toServer' \in Seq(Messages) /\ Data(toServer') = <<>>
        /\ Data(toServer) = <<>> /\ ws # "connecting"
    BY <2>1, <2>2, EmptySeq, DataEmpty, OpeningMessages DEF Opening
  <2>4. StateOK'
    BY <1>3, <2>1, <2>3 DEF StateOK, TypeOK
  <2>5. fromServer' \in {<<>>, <<c>>}
    BY <2>1, <2>2
  <2>6. Opening'
    BY <1>2, <2>1, <2>3, <2>5 DEF Opening
  <2>7. Outward'
    BY <2>1, <2>2, <2>3 DEF Outward
  <2>8. Data(fromServer') = Data(fromServer)
    BY <1>3, <1>4, <2>1
  <2>9. Inward'
    BY <2>1, <2>8 DEF Inward, GivenInOrder
  <2> QED BY <2>4, <2>6, <2>7, <2>9
<1>6. CASE LanSends
  <2>1. /\ lan = "open" /\ lanSent < Greeting + Len(lanGot) /\ lanSent' = n
        /\ fromServer' = Append(fromServer, m)
        /\ UNCHANGED <<ws, connected, buffers, up, local, localIn, localSent, localGot,
                       lan, lanGot, toServer>>
    BY <1>6 DEF LanSends, Answer, proxy, peer, m, n
  <2>2. lanSent' \in 0..(Greeting + MaxLocal)
    BY <1>1, <2>1, BoundsAssumption DEF StateOK, TypeOK, Outward, Units
  <2>3. StateOK'
    BY <1>3, <2>1, <2>2 DEF StateOK, TypeOK
  <2>4. \A i \in 1..Len(fromServer') :
            \/ fromServer'[i].type = "response"
            \/ fromServer'[i].type = "closed" /\ fromServer'[i].data = <<>>
    BY <1>1, <1>2, <2>1 DEF Opening
  <2>5. Opening'
    BY <2>1, <2>4 DEF Opening
  <2>6. Outward'
    BY <2>1 DEF Outward
  <2>7. localGot \o (Data(fromServer) \o <<n>>) = (localGot \o Data(fromServer)) \o <<n>>
    BY <1>1, UnitsConcat
  <2>8. localGot \o Data(fromServer) \in Seq(Nat) /\ n \in Nat
    BY <1>1, UnitsConcat DEF Units
  <2>9. (localGot \o Data(fromServer)) \o <<n>> = Append(localGot \o Data(fromServer), n)
    BY <2>8, AppendIsConcat
  <2>10. local = "open" => localGot \o Data(fromServer') = Upto(lanSent')
    BY <1>1, <1>3, <2>1, <2>7, <2>9, UptoNext DEF Inward
  <2>11. Inward'
    BY <2>1, <2>10 DEF Inward, GivenInOrder
  <2> QED BY <2>3, <2>5, <2>6, <2>11
<1>7. CASE LanCloses
  <2>1. /\ lan = "open" /\ lan' = "closed" /\ fromServer' = Append(fromServer, c)
        /\ UNCHANGED <<ws, connected, buffers, up, local, localIn, localSent, localGot,
                       lanGot, lanSent, toServer>>
    BY <1>7 DEF LanCloses, Answer, proxy, peer, c
  <2>2. StateOK'
    BY <1>3, <2>1 DEF StateOK, TypeOK
  <2>3. \A i \in 1..Len(fromServer') :
            \/ fromServer'[i].type = "response"
            \/ fromServer'[i].type = "closed" /\ fromServer'[i].data = <<>>
    BY <1>1, <1>2, <2>1 DEF Opening
  <2>4. Opening'
    BY <2>1, <2>3 DEF Opening
  <2>5. Outward'
    BY <2>1 DEF Outward
  <2>6. Data(fromServer') = Data(fromServer)
    BY <1>3, <1>4, <2>1
  <2>7. Inward'
    BY <2>1, <2>6 DEF Inward, GivenInOrder
  <2> QED BY <2>2, <2>4, <2>5, <2>7
<1> QED BY <1>5, <1>6, <1>7

LEMMA StepInv == IInv /\ [Next]_vars => IInv'
<1> SUFFICES ASSUME IInv, [Next]_vars PROVE IInv'
  OBVIOUS
<1>1. CASE UNCHANGED vars
  <2>1. UNCHANGED <<ws, connected, buffers, toServer, fromServer, local, localIn,
                    localSent, localGot, lan, lanGot, lanSent, up>>
    BY <1>1 DEF vars, proxy, peer, remote
  <2> QED BY <2>1 DEF IInv, StateOK, TypeOK, Opening, Outward, Inward, GivenInOrder
<1>2. CASE Next
  BY <1>2, OpeningSteps, EndSteps, MessageSteps, InputStep, RequestStep, LanSteps
     DEF Next, Proxy, Remote
<1> QED BY <1>1, <1>2

THEOREM Invariant == Spec => []IInv
BY InitInv, StepInv, PTL DEF Spec

-----------------------------------------------------------------------------
(* The theorems.                                                           *)

\* Every variable has its type; in particular the LAN host is never given more
\* than the local program sent, so what it sends stays within its bound.
THEOREM TypeCorrect == Spec => []TypeOK
<1>1. IInv => TypeOK
  BY DEF IInv, StateOK
<1> QED BY <1>1, Invariant, PTL

\* As long as neither end is closed, what the local program has sent is given to
\* the host of the LAN, under way, in buffers or in the socket, each unit once
\* and in order: nothing that came before the websocket was connected, or before
\* the first answer, is lost or overtaken.
THEOREM NothingIsLost == Spec => []NothingLost
<1>1. IInv => NothingLost
  BY DEF IInv, Outward, NothingLost, OnTheWay, Line, Data, Datas, Upto
<1> QED BY <1>1, Invariant, PTL

\* The local program is given what the host of the LAN sent from the first unit
\* on, in order, however the connection ends.
THEOREM GivenInItsOrder == Spec => []GivenInOrder
<1>1. IInv => GivenInOrder
  BY DEF IInv, Inward
<1> QED BY <1>1, Invariant, PTL
===============================================================================
