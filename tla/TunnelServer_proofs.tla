-------------------------- MODULE TunnelServer_proofs --------------------------
(***************************************************************************)
(* Proofs about TunnelServer, for every set of requests, forwards and      *)
(* devices and every size of the table: what the numbers given to browsers *)
(* are worth, and what a browser or the LAN peer of a forward is given.    *)
(***************************************************************************)
EXTENDS TunnelServer, SequenceLemmas

TP == INSTANCE SeqTable_proofs WITH Owners <- Clients

-----------------------------------------------------------------------------
(* The inductive invariant, in layers: each is proved from those above it. *)

Pieces == [of : Clients, n : Nat]
Downs  ==
    {f \in [type : {"http", "open", "data", "close"}, seq : T!Numbers, of : Clients,
            data : Pieces \cup {null}] :
        /\ f.type = "http" <=> f.of \in Requests
        /\ f.type = "data" => f.data \in Pieces /\ f.data.of = f.of}
Jobs   == {f \in Downs : f.type \in {"http", "open"}}
Ups    ==
    {m \in [head : BOOLEAN, seq : T!Numbers \cup {null}, total : Nat, piece : Pieces] :
        m.head => m.seq \in T!Numbers}

Types ==
    /\ TypeOK
    /\ curr_total \in Nat /\ start \in [Clients -> Nat]
    /\ clean \in BOOLEAN /\ cut \in {"never", "now", "before", "twice"}
    /\ up \in BOOLEAN /\ reused \in BOOLEAN
    /\ got \in [Clients -> Seq(Pieces)]
    /\ downlink \in [Devices -> Seq(Downs)]
    /\ uplink \in [Devices -> Seq(Ups)]
    /\ serving \in [Devices -> SUBSET Jobs]
    /\ lan \in [Forwards -> Seq(Pieces)]
    /\ sent \in [Forwards -> [up : Nat, down : Nat]]

\* Who has a number, and whose session knows its device.
Numbered ==
    /\ \A c \in Clients :
          /\ client[c] = "idle" => number[c] = null
          /\ client[c] \in {"greeted", "open"} => number[c] \in T!Numbers
    /\ \A f \in Forwards :
          client[f] # "idle" => number[f] \in T!Numbers /\ session[f] \in chosen

\* What is in the table.
Objs == {index2obj[i] : i \in 0..(cnt - 1)}

Tabled ==
    (Running /\ cut # "twice") =>
        /\ T!Packed /\ T!EachFound
        /\ (curr_seq # null /\ cut # "now") => seq2index[curr_seq] \in 0..(cnt - 1)
        /\ cut = "now" => curr_seq # null
        /\ \A o \in Objs :
              /\ o.seq = number[o.who]
              /\ o.who \in Requests => client[o.who] = "open"

\* The object of client c as newSeq made it.
ObjectOf(c) == [who |-> c, seq |-> number[c]]

\* Everyone who still needs an object has it.
Needs(c) == client[c] \in {"greeted", "open"} \/ (c \in Forwards /\ client[c] # "idle")

Present ==
    (Running /\ cut = "never") =>
        \A c \in Clients : Needs(c) => ObjectOf(c) \in Objs

\* What is under way carries the number of its client.
Owned ==
    \A d \in Devices :
        /\ \A i \in 1..Len(downlink[d]) : downlink[d][i].seq = number[downlink[d][i].of]
        /\ \A j \in serving[d] : j.seq = number[j.of]
        /\ \A i \in 1..Len(uplink[d]) :
              uplink[d][i].head => uplink[d][i].seq = number[uplink[d][i].piece.of]

\* A client's order to a device, the job it becomes, and the heads of the
\* frames that the device answers with.
OrdersIn(s, c) == {i \in 1..Len(s) : s[i].of = c /\ s[i].type \in {"http", "open"}}
HeadsIn(s, c)  == {i \in 1..Len(s) : s[i].head /\ s[i].piece.of = c}

Orders(d, c) == OrdersIn(downlink[d], c)
JobsOf(d, c) == {j \in serving[d] : j.of = c}
Heads(d, c)  == HeadsIn(uplink[d], c)
At(d, c)     == Orders(d, c) # {} \/ JobsOf(d, c) # {} \/ Heads(d, c) # {}

\* Until a hang-up gives back the number of another, no two clients that
\* need one have the same.
Live == Running /\ cut = "never"

Cutting == clean => cut = "never"

\* There is one order for each client, and it goes one way, to one device.
PlacedAt(d, c) ==
    /\ At(d, c) => client[c] \notin {"idle", "greeted"}
    /\ Orders(d, c) # {} => JobsOf(d, c) = {} /\ Heads(d, c) = {}
    /\ \A i, j \in Orders(d, c) : i = j
    /\ \A i, j \in JobsOf(d, c) : i = j
    /\ c \in Requests => /\ JobsOf(d, c) # {} => Heads(d, c) = {}
                        /\ \A i, j \in Heads(d, c) : i = j

Placed == Live =>
    \A c \in Clients, d \in Devices :
        PlacedAt(d, c) /\ \A e \in Devices : At(d, c) /\ At(e, c) => d = e

\* A response goes out in one frame, a head and the other pieces; a
\* forward's frame is its head.
FramedIn(s) ==
    \A i \in 1..Len(s) :
        LET m == s[i]
        IN  m.head =>
              /\ m.piece.of \in Forwards => m.total = 1
              /\ m.piece.of \in Requests \ Refusable =>
                    /\ m.total >= 1 /\ i + m.total - 1 <= Len(s)
                    /\ m.piece.n = 1
                    /\ \A k \in 1..(m.total - 1) : s[i + k] = Body(Piece(m.piece.of, k + 1))

Framed == \A d \in Devices : FramedIn(uplink[d])

\* What a device sends for a forward is numbered as it is sent.
CountedAt(d, f) ==
    /\ \A i, j \in Heads(d, f) : i < j => uplink[d][i].piece.n < uplink[d][j].piece.n
    /\ JobsOf(d, f) # {} => \A i \in Heads(d, f) : uplink[d][i].piece.n <= sent[f].up

Counted == Live => \A f \in Forwards, d \in Devices : CountedAt(d, f)

\* The rest of the response of r that is being received.
RestIn(s, r, n, m) ==
    m <= Len(s) /\ \A k \in 1..m : s[k] = Body(Piece(r, n + k))

Rest(r) ==
    /\ start[r] = Len(got[r]) /\ start[r] < curr_total
    /\ RestIn(uplink[from], r, start[r], curr_total - start[r])

\* What is being received while nothing comes between: one response, and
\* what it has not brought yet.
Receiving ==
    (Running /\ clean) =>
        /\ \A f \in Forwards : start[f] = 0
        /\ \A r \in Requests :
              /\ client[r] \in {"idle", "greeted"} \/ (\E d \in Devices : At(d, r))
                    => got[r] = <<>> /\ start[r] = 0
              /\ \A d \in Devices : At(d, r) => client[r] = "open"
        /\ curr_seq # null =>
              /\ from \in Devices
              /\ \E r \in Requests :
                    /\ curr_seq = number[r] /\ client[r] = "open"
                    /\ \A d \in Devices : ~At(d, r)
                    /\ r \notin Refusable => Rest(r)

\* What a forward's browser was given, and what is still to come.
PassedAt(f) ==
    /\ InOrderOf(f, got[f])
    /\ Running /\ client[f] \in {"idle", "greeted"} => got[f] = <<>>
    /\ Running => \A d \in Devices :
          /\ Orders(d, f) # {} => got[f] = <<>>
          /\ JobsOf(d, f) # {} => \A i \in 1..Len(got[f]) : got[f][i].n <= sent[f].up
          /\ \A i \in 1..Len(got[f]), k \in Heads(d, f) :
                got[f][i].n < uplink[d][k].piece.n

Passed == clean => \A f \in Forwards : PassedAt(f)

\* The data of a forward on its way to a device.
DataIn(s, f) == {i \in 1..Len(s) : s[i].of = f /\ s[i].type = "data"}
Data(d, f)   == DataIn(downlink[d], f)

\* Numbered as it was sent, and behind the order that opens the forward.
CarriesIn(s, f, n) ==
    /\ \A i \in DataIn(s, f) : 1 <= s[i].data.n /\ s[i].data.n <= n
    /\ \A i, j \in DataIn(s, f) : i < j => s[i].data.n < s[j].data.n
    /\ \A i \in OrdersIn(s, f), j \in DataIn(s, f) : i < j

SendingAt(d, f) ==
    /\ client[f] \in {"idle", "greeted"} => Data(d, f) = {} /\ sent[f].down = 0
    /\ CarriesIn(downlink[d], f, sent[f].down)

Sending == \A f \in Forwards, d \in Devices : SendingAt(d, f)

\* What the LAN peer of a forward was given, and what is still to come.
ReachedAt(f) ==
    /\ InOrderOf(f, lan[f])
    /\ \A i \in 1..Len(lan[f]) : lan[f][i].n <= sent[f].down
    /\ Running /\ client[f] \in {"idle", "greeted"} => lan[f] = <<>>
    /\ Running => \A d \in Devices :
          /\ Orders(d, f) # {} => lan[f] = <<>>
          /\ JobsOf(d, f) # {} =>
                \A i \in 1..Len(lan[f]), k \in Data(d, f) :
                    lan[f][i].n < downlink[d][k].data.n

Reached == cut = "never" => \A f \in Forwards : ReachedAt(f)

\* With one device that stays, what it has not taken yet is all the rest.
StaysAt(f) ==
    /\ \A i \in 1..Len(lan[f]) : lan[f][i] = Piece(f, i)
    /\ Running => \A d \in Devices :
          Orders(d, f) # {} \/ JobsOf(d, f) # {} =>
            \A n \in (Len(lan[f]) + 1)..sent[f].down :
              \E i \in Data(d, f) : downlink[d][i].data.n = n

Stays ==
    OneDeviceStays =>
        /\ \A n \in chosen : connections[n] # null
        /\ chosen # {} => curr_device \in chosen
        /\ cut = "never" => \A f \in Forwards : StaysAt(f)

IInv == /\ Types /\ Numbered /\ Tabled /\ Present
        /\ Owned /\ Cutting /\ Placed /\ Framed /\ Counted /\ Receiving
        /\ ResponsesWhole /\ Passed
        /\ Sending /\ Reached /\ Stays

-----------------------------------------------------------------------------
(* The table.                                                              *)

Sound == T!TypeOK /\ T!Packed /\ T!EachFound

LEMMA Constants ==
    /\ UserMgrMax \in Nat \ {0} /\ TP!NullAssumption /\ TP!SizeAssumption
    /\ null \notin Clients /\ null \notin Names /\ null \notin Devices
    /\ null \notin T!Numbers /\ null \notin T!Objects
    /\ Requests \cap Forwards = {} /\ T!Numbers \subseteq Nat
BY ConstantsAssumption DEF TP!NullAssumption, TP!SizeAssumption, T!Objects, TP!Objects,
   T!Numbers, TP!Numbers

\* Both instances are the same module.
LEMMA TableIs ==
    /\ TP!Numbers = T!Numbers /\ TP!Objects = T!Objects /\ TP!NextSeq = T!NextSeq
    /\ TP!Taken = T!Taken /\ TP!InTable = Objs
    /\ TP!Full <=> T!Full
    /\ TP!IndInv <=> Sound
    /\ \A s : TP!getBySeq(s) = T!getBySeq(s)
    /\ \A s : TP!delSeqThrows(s) <=> T!delSeqThrows(s)
<1> USE DEF TP!Numbers, T!Numbers, TP!Objects, T!Objects
<1>1. TP!IndInv <=> Sound
    BY DEF TP!IndInv, Sound, TP!TypeOK, T!TypeOK, TP!Packed, T!Packed,
           TP!EachFound, T!EachFound
<1>2. TP!Taken = T!Taken /\ TP!InTable = Objs
    BY DEF TP!Taken, T!Taken, TP!InTable, Objs
<1>3. TP!NextSeq = T!NextSeq /\ (TP!Full <=> T!Full)
    BY DEF TP!NextSeq, T!NextSeq, TP!Full, T!Full
<1>4. /\ \A s : TP!getBySeq(s) = T!getBySeq(s)
      /\ \A s : TP!delSeqThrows(s) <=> T!delSeqThrows(s)
    BY DEF TP!getBySeq, T!getBySeq, TP!delSeqThrows, T!delSeqThrows
<1> QED
    BY <1>1, <1>2, <1>3, <1>4

LEMMA OperationsAre ==
    /\ \A c : T!newSeq(c) /\ T!NextSeq \notin T!Taken <=> TP!New(c)
    /\ \A s : T!delSeq(s) <=> TP!delSeq(s)
<1>1. \A c : T!newSeq(c) <=> TP!newSeq(c)
    BY TableIs DEF T!newSeq, TP!newSeq
<1>2. \A s : T!delSeq(s) <=> TP!delSeq(s)
    BY TableIs DEF T!delSeq, TP!delSeq
<1> QED
    BY <1>1, <1>2, TableIs DEF TP!New

LEMMA SoundIs == (TP!IndInv => Sound) /\ TP!InTable = Objs
BY TableIs

LEMMA SoundNext == TP!IndInv' => Sound' /\ TP!InTable' = Objs'
<1>1. ((TP!IndInv => Sound) /\ TP!InTable = Objs)'
    BY SoundIs, PTL
<1> QED
    BY <1>1

\* What a lookup returns is in the table.
LEMMA Lookup ==
    ASSUME Sound, NEW s \in T!Numbers, T!getBySeq(s) # null
    PROVE  /\ seq2index[s] \in 0..(cnt - 1) /\ T!getBySeq(s) \in Objs
           /\ T!getBySeq(s) = index2obj[seq2index[s]]
<1>1. TP!IndInv /\ s \in TP!Numbers /\ TP!getBySeq(s) # null
    BY TableIs
<1>2. TP!SizeAssumption /\ TP!NullAssumption
    BY Constants
<1>3. /\ seq2index[s] \in 0..(cnt - 1) /\ TP!getBySeq(s) \in TP!InTable
      /\ TP!getBySeq(s) = index2obj[seq2index[s]]
    BY <1>1, <1>2, TP!LookupInTable
<1> QED
    BY <1>3, TableIs

\* What is in the table is found.
LEMMA Found ==
    ASSUME Sound, NEW o \in Objs
    PROVE  o \in T!Objects /\ o.seq \in T!Taken /\ T!getBySeq(o.seq) = o
<1>1. TP!IndInv /\ o \in TP!InTable
    BY TableIs
<1>2. TP!SizeAssumption /\ TP!NullAssumption
    BY Constants
<1>3. o \in TP!Objects /\ o.seq \in TP!Taken /\ TP!getBySeq(o.seq) = o
    BY <1>1, <1>2, TP!ObjectFound
<1> QED
    BY <1>3, TableIs

\* newSeq with a number that is not taken.
LEMMA Added ==
    ASSUME Sound, NEW c \in Clients, T!newSeq(c), T!NextSeq \notin T!Taken
    PROVE  /\ Sound' /\ T!NextSeq \in T!Numbers
           /\ Objs' = Objs \cup {[who |-> c, seq |-> T!NextSeq]}
<1>1. TP!IndInv /\ TP!New(c)
    BY TableIs, OperationsAre
<1>2. TP!SizeAssumption /\ TP!NullAssumption
    BY Constants
<1>3. TP!IndInv' /\ TP!InTable' = TP!InTable \cup {[who |-> c, seq |-> TP!NextSeq]}
    BY <1>1, <1>2, TP!NewKeepsIndInv, TP!NewInTable
<1>4. T!NextSeq \in T!Numbers
    BY Constants, ConstantsAssumption DEF Sound, T!TypeOK, T!NextSeq, T!Numbers
<1>5. Sound' /\ TP!InTable' = Objs'
    BY <1>3, SoundNext
<1>6. TP!InTable = Objs /\ TP!NextSeq = T!NextSeq
    BY TableIs
<1> QED
    BY <1>3, <1>4, <1>5, <1>6, Zenon

\* delSeq through the index of an object.
LEMMA Removed ==
    ASSUME Sound, NEW s \in T!Numbers, seq2index[s] \in 0..(cnt - 1)
    PROVE  /\ ~T!delSeqThrows(s)
           /\ T!delSeq(s) => Sound' /\ Objs' = Objs \ {index2obj[seq2index[s]]}
<1>1. TP!IndInv /\ s \in TP!Numbers
    BY TableIs
<1>2. TP!SizeAssumption /\ TP!NullAssumption
    BY Constants
<1>3. ~TP!delSeqThrows(s)
    BY <1>1, <1>2, TP!DelAtGoes
<1>4. ASSUME T!delSeq(s)
      PROVE  Sound' /\ Objs' = Objs \ {index2obj[seq2index[s]]}
    <2>1. TP!delSeq(s)
        BY <1>4, OperationsAre
    <2>2. TP!IndInv' /\ TP!InTable' = TP!InTable \ {index2obj[seq2index[s]]}
        BY <1>1, <1>2, <2>1, TP!DelAtKeepsIndInv, TP!DelInTable
    <2>3. Sound' /\ TP!InTable' = Objs'
        BY <2>2, SoundNext
    <2>4. TP!InTable = Objs
        BY TableIs
    <2> QED
        BY <2>2, <2>3, <2>4, Zenon
<1> QED
    BY <1>3, <1>4, TableIs

-----------------------------------------------------------------------------
(* Types.                                                                  *)

LEMMA FrameTypes ==
    ASSUME NEW c \in Clients, NEW s \in T!Numbers
    PROVE  /\ c \in Requests => Frame("http", s, c) \in Downs
           /\ c \in Forwards => Frame("open", s, c) \in Downs /\ Frame("close", s, c) \in Downs
           /\ \A n \in Nat : c \in Forwards => DataFrame(s, Piece(c, n)) \in Downs
           /\ \A n \in Nat, t \in Nat : Header(s, t, Piece(c, n)) \in Ups
           /\ \A n \in Nat : Body(Piece(c, n)) \in Ups
BY Constants DEF Frame, DataFrame, Piece, Pieces, Downs, Header, Body, Ups, Clients

LEMMA NewTypes ==
    ASSUME Types, Numbered, NEW c \in Clients, NEW st \in {"greeted", "open"},
           client[c] = "idle", NewProcessor(c, st)
    PROVE  /\ T!TypeOK' /\ start' \in [Clients -> Nat]
           /\ number' \in [Clients -> T!Numbers \cup {null}]
           /\ client' \in [Clients -> {"idle", "greeted", "open", "over"}]
           /\ reused' \in BOOLEAN /\ T!NextSeq \in T!Numbers
<1>1. T!TypeOK /\ T!newSeq(c) /\ cnt \in T!Numbers /\ T!NextSeq \in T!Numbers
    BY Constants, ConstantsAssumption
       DEF Types, TypeOK, T!TypeOK, NewProcessor, T!newSeq, T!Full, T!NextSeq, T!Numbers
<1>2. [who |-> c, seq |-> T!NextSeq] \in T!Objects
    BY <1>1 DEF T!Objects
<1>3. seq' \in 0..UserMgrMax /\ cnt' \in 0..UserMgrMax
    BY <1>1, ConstantsAssumption DEF T!newSeq, T!Numbers
<1>4. seq2index' \in [T!Numbers -> T!Numbers \cup {null}]
    BY <1>1 DEF T!TypeOK, T!newSeq
<1>5. index2obj' \in [T!Numbers -> T!Objects \cup {null}]
    BY <1>1, <1>2 DEF T!TypeOK, T!newSeq
<1>6. T!TypeOK'
    BY <1>3, <1>4, <1>5 DEF T!TypeOK
<1>7. start' \in [Clients -> Nat]
    BY DEF Types, NewProcessor
<1>8. number' \in [Clients -> T!Numbers \cup {null}]
    BY <1>1 DEF Types, TypeOK, NewProcessor
<1>9. client' \in [Clients -> {"idle", "greeted", "open", "over"}]
    BY DEF Types, TypeOK, NewProcessor
<1>10. reused' \in BOOLEAN
    BY DEF NewProcessor
<1> QED
    BY <1>1, <1>6, <1>7, <1>8, <1>9, <1>10

LEMMA DeletedTypes ==
    ASSUME T!TypeOK, up \in BOOLEAN, NEW s \in T!Numbers, Deleted(s)
    PROVE  T!TypeOK' /\ up' \in BOOLEAN
<1>1. CASE UNCHANGED table
    BY <1>1 DEF table, T!TypeOK, Deleted
<1>2. CASE T!delSeq(s) /\ seq2index[s] # null
    <2> DEFINE index == seq2index[s]
               last  == cnt - 1
    <2>1. index \in T!Numbers /\ cnt \in 0..UserMgrMax
        BY <1>2 DEF T!TypeOK
    <2>2. index = last \/ (cnt > 0 /\ index2obj[last] # null)
        BY <1>2, <2>1 DEF T!delSeq, T!delSeqThrows
    <2>3. cnt > 0 /\ last \in T!Numbers
        BY <2>1, <2>2, ConstantsAssumption DEF T!Numbers
    <2>4. index # last => index2obj[last].seq \in T!Numbers
        BY <2>2, <2>3 DEF T!TypeOK, T!Objects
    <2>5. /\ cnt' = last /\ seq' = seq
          /\ index2obj' = [i \in T!Numbers |->
                IF i = last THEN null
                ELSE IF i = index THEN index2obj[last] ELSE index2obj[i]]
          /\ seq2index' = IF index = last THEN seq2index
                          ELSE [seq2index EXCEPT ![index2obj[last].seq] = index]
        BY <1>2 DEF T!delSeq
    <2>6. cnt' \in 0..UserMgrMax /\ seq' \in 0..UserMgrMax
        BY <2>1, <2>3, <2>5, ConstantsAssumption DEF T!TypeOK
    <2> HIDE DEF index, last
    <2>7. index2obj' \in [T!Numbers -> T!Objects \cup {null}]
        BY <2>3, <2>5 DEF T!TypeOK
    <2>8. seq2index' \in [T!Numbers -> T!Numbers \cup {null}]
        BY <2>1, <2>4, <2>5 DEF T!TypeOK
    <2> QED
        BY <2>6, <2>7, <2>8, <1>2 DEF T!TypeOK, Deleted, T!delSeq
<1>3. CASE T!delSeq(s) /\ seq2index[s] = null
    BY <1>3 DEF T!delSeq, T!TypeOK, Deleted
<1> QED
    BY <1>1, <1>2, <1>3 DEF Deleted

\* What the handlers of messages from devices have in common.
LEMMA TakingTypes ==
    ASSUME Types, NEW d \in Devices, Taking(d)
    PROVE  /\ uplink[d] \in Seq(Ups) /\ Len(uplink[d]) > 0
           /\ Head(uplink[d]) \in Ups /\ Head(uplink[d]) = uplink[d][1]
           /\ Head(uplink[d]).piece \in Pieces
           /\ uplink' \in [Devices -> Seq(Ups)]
           /\ from' \in Devices \cup {null} /\ clean' \in BOOLEAN
           /\ TotalOf(Head(uplink[d])) \in Nat /\ LenOf(Head(uplink[d])) \in {1, 2}
<1>1. uplink[d] \in Seq(Ups) /\ uplink[d] # <<>>
    BY DEF Types, Taking
<1>2. /\ Len(uplink[d]) > 0 /\ Head(uplink[d]) \in Ups /\ Head(uplink[d]) = uplink[d][1]
      /\ Tail(uplink[d]) \in Seq(Ups)
    BY <1>1
<1>3. Head(uplink[d]).piece \in Pieces /\ Head(uplink[d]).total \in Nat
    BY <1>2 DEF Ups
<1>4. uplink' \in [Devices -> Seq(Ups)]
    BY <1>2 DEF Types, Taking
<1>5. from' \in Devices \cup {null} /\ clean' \in BOOLEAN
    BY DEF Types, TypeOK, Taking
<1>6. TotalOf(Head(uplink[d])) \in Nat /\ LenOf(Head(uplink[d])) \in {1, 2}
    BY <1>3 DEF TotalOf, LenOf, Types
<1> QED
    BY <1>1, <1>2, <1>3, <1>4, <1>5, <1>6

LEMMA ProcessingTypes ==
    ASSUME Types, NEW d \in Devices, NEW c \in Clients, Processing(d, c)
    PROVE  /\ FrameSeq(Head(uplink[d])) \in T!Numbers
           /\ [got EXCEPT ![c] = Append(@, Head(uplink[d]).piece)]
                 \in [Clients -> Seq(Pieces)]
           /\ [start EXCEPT ![c] = @ + LenOf(Head(uplink[d]))] \in [Clients -> Nat]
<1>1. Taking(d)
    BY DEF Processing
<1>2. FrameSeq(Head(uplink[d])) \in T!Numbers
    BY <1>1, TakingTypes DEF Processing, FrameSeq, Types, TypeOK, Ups
<1>3. got[c] \in Seq(Pieces) /\ start[c] \in Nat
    BY DEF Types
<1>4. Append(got[c], Head(uplink[d]).piece) \in Seq(Pieces)
    BY <1>1, <1>3, TakingTypes
<1>5. start[c] + LenOf(Head(uplink[d])) \in Nat
    BY <1>1, <1>3, TakingTypes
<1> QED
    BY <1>2, <1>4, <1>5 DEF Types

\* The state of the frame being received once it is over.
LEMMA FrameOverTypes ==
    ASSUME Types, FrameOver
    PROVE  /\ curr_seq' \in T!Numbers \cup {null} /\ curr_total' \in Nat
           /\ cut' \in {"never", "now", "before", "twice"}
BY DEF Types, FrameOver

\* What a device sends in answer: the head of a frame and its other pieces.
Answer(j, n) == <<Header(j.seq, n, Piece(j.of, 1))>> \o
                    [i \in 1..(n - 1) |-> Body(Piece(j.of, i + 1))]

LEMMA AnswerIs ==
    ASSUME NEW j \in Downs, NEW n \in Nat, n > 0
    PROVE  /\ Answer(j, n) \in Seq(Ups) /\ Len(Answer(j, n)) = n
           /\ Answer(j, n)[1] = Header(j.seq, n, Piece(j.of, 1))
           /\ \A k \in 1..(n - 1) : Answer(j, n)[k + 1] = Body(Piece(j.of, k + 1))
<1> DEFINE A == <<Header(j.seq, n, Piece(j.of, 1))>>
           B == [i \in 1..(n - 1) |-> Body(Piece(j.of, i + 1))]
<1>1. j.of \in Clients /\ j.seq \in T!Numbers
    BY DEF Downs
<1>2. Header(j.seq, n, Piece(j.of, 1)) \in Ups
    BY <1>1, FrameTypes
<1>3. A \in Seq(Ups) /\ Len(A) = 1 /\ A[1] = Header(j.seq, n, Piece(j.of, 1))
    BY <1>2
<1>4. \A i \in 1..(n - 1) : Body(Piece(j.of, i + 1)) \in Ups
    BY <1>1, FrameTypes
<1>5. B \in Seq(Ups) /\ Len(B) = n - 1
      /\ \A k \in 1..(n - 1) : B[k] = Body(Piece(j.of, k + 1))
    BY <1>4
<1> HIDE DEF A, B
<1>6. /\ A \o B \in Seq(Ups) /\ Len(A \o B) = Len(A) + Len(B)
      /\ \A i \in 1..(Len(A) + Len(B)) :
            (A \o B)[i] = IF i <= Len(A) THEN A[i] ELSE B[i - Len(A)]
    <2>1. A \in Seq(Ups) /\ B \in Seq(Ups)
        BY <1>3, <1>5
    <2> QED
        BY <2>1, ConcatProperties
<1>7. (A \o B)[1] = A[1] /\ Len(A \o B) = n
    BY <1>3, <1>5, <1>6
<1>8. ASSUME NEW k \in 1..(n - 1) PROVE (A \o B)[k + 1] = B[k]
    <2>1. k + 1 \in 1..(Len(A) + Len(B)) /\ ~(k + 1 <= Len(A)) /\ (k + 1) - Len(A) = k
        BY <1>3, <1>5
    <2> QED
        BY <2>1, <1>6
<1> QED
    BY <1>3, <1>5, <1>6, <1>7, <1>8 DEF Answer, A, B

\* DeviceAnswers says the same, put together from the left.
LEMMA AnswerAppended ==
    ASSUME NEW j \in Downs, NEW n \in Nat, n > 0, NEW u \in Seq(Ups)
    PROVE  u \o <<Header(j.seq, n, Piece(j.of, 1))>>
             \o [i \in 1..(n - 1) |-> Body(Piece(j.of, i + 1))] = u \o Answer(j, n)
<1> DEFINE A == <<Header(j.seq, n, Piece(j.of, 1))>>
           B == [i \in 1..(n - 1) |-> Body(Piece(j.of, i + 1))]
<1>1. j.of \in Clients /\ j.seq \in T!Numbers
    BY DEF Downs
<1>2. A \in Seq(Ups)
    BY <1>1, FrameTypes
<1>3. \A i \in 1..(n - 1) : Body(Piece(j.of, i + 1)) \in Ups
    BY <1>1, FrameTypes
<1>4. B \in Seq(Ups)
    BY <1>3
<1> HIDE DEF A, B
<1>5. (u \o A) \o B = u \o (A \o B)
    BY <1>2, <1>4, ConcatAssociative
<1> QED
    BY <1>5 DEF Answer, A, B

\* Every kind of step, to be told apart once.
LEMMA Steps ==
    ASSUME [Next]_vars
    PROVE  \/ \E r \in Requests : Request(r) \/ RequestRejected(r)
           \/ \E f \in Forwards : Hello(f) \/ HelloThrows(f) \/ Openning(f)
           \/ \E f \in Forwards : BrowserSends(f) \/ HangUp(f)
           \/ \E d \in Devices : Dropped(d)
           \/ \E d \in Devices, c \in Clients :
                 ProcessPart(d, c) \/ ResponseEnds(d, c) \/ ForwardPasses(d, c)
           \/ \E d \in Devices : DeviceConnects(d) \/ DeviceLost(d) \/ DeviceTakes(d)
           \/ \E d \in Devices : DeviceAnswers(d) \/ DeviceFails(d) \/ DeviceSends(d)
           \/ \E n \in Names : ChooseDevice(n)
           \/ UNCHANGED vars
BY DEF Next, Receive, DeviceWorks, Quiet

\* A frame more on the way to a device.
LEMMA SendTypes ==
    ASSUME Types, NEW d \in Devices, NEW f \in Downs, Send(d, f)
    PROVE  downlink' \in [Devices -> Seq(Downs)]
<1>1. downlink[d] \in Seq(Downs)
    BY DEF Types
<1>2. Append(downlink[d], f) \in Seq(Downs)
    BY <1>1
<1> QED
    BY <1>2 DEF Types, Send

\* The current device, if any.
LEMMA CurrConnType ==
    ASSUME Types, CurrConn # null
    PROVE  CurrConn \in Devices
BY DEF Types, TypeOK, CurrConn

LEMMA TypesOfClients ==
    ASSUME Types, Numbered,
           \/ \E r \in Requests : Request(r) \/ RequestRejected(r)
           \/ \E f \in Forwards : Hello(f) \/ HelloThrows(f) \/ Openning(f)
           \/ \E f \in Forwards : BrowserSends(f) \/ HangUp(f)
    PROVE  Types'
<1> USE DEF table, frame, devices, browsers, links
<1>1. ASSUME NEW r \in Requests, Request(r) PROVE Types'
    <2>1. r \in Clients /\ NewProcessor(r, "open") /\ client[r] = "idle"
        BY <1>1 DEF Request, Clients
    <2>2. /\ T!TypeOK' /\ start' \in [Clients -> Nat]
          /\ number' \in [Clients -> T!Numbers \cup {null}]
          /\ client' \in [Clients -> {"idle", "greeted", "open", "over"}]
          /\ reused' \in BOOLEAN /\ T!NextSeq \in T!Numbers
        BY <2>1, NewTypes
    <2>3. CurrConn \in Devices /\ Send(CurrConn, Frame("http", T!NextSeq, r))
        BY <1>1, CurrConnType DEF Request
    <2>4. downlink' \in [Devices -> Seq(Downs)]
        BY <2>1, <2>2, <2>3, FrameTypes, SendTypes
    <2> QED
        BY <1>1, <2>2, <2>4 DEF Types, TypeOK, Request, NewProcessor
<1>2. ASSUME NEW r \in Requests, RequestRejected(r) PROVE Types'
    <2>1. client' \in [Clients -> {"idle", "greeted", "open", "over"}]
        BY <1>2 DEF Types, TypeOK, RequestRejected
    <2> QED
        BY <1>2, <2>1 DEF Types, TypeOK, T!TypeOK, RequestRejected
<1>3. ASSUME NEW f \in Forwards, Hello(f) PROVE Types'
    <2>1. f \in Clients /\ NewProcessor(f, "greeted") /\ client[f] = "idle"
        BY <1>3 DEF Hello, Clients
    <2>2. /\ T!TypeOK' /\ start' \in [Clients -> Nat]
          /\ number' \in [Clients -> T!Numbers \cup {null}]
          /\ client' \in [Clients -> {"idle", "greeted", "open", "over"}]
          /\ reused' \in BOOLEAN
        BY <2>1, NewTypes
    <2>3. session' \in [Forwards -> chosen \cup {null}]
        BY <1>3 DEF Types, TypeOK, Hello
    <2> QED
        BY <1>3, <2>2, <2>3 DEF Types, TypeOK, Hello, NewProcessor
<1>4. ASSUME NEW f \in Forwards, HelloThrows(f) PROVE Types'
    BY <1>4 DEF Types, TypeOK, T!TypeOK, HelloThrows
<1>5. ASSUME NEW f \in Forwards, Openning(f) PROVE Types'
    <2>1. client' \in [Clients -> {"idle", "greeted", "open", "over"}]
        BY <1>5 DEF Types, TypeOK, Openning
    <2>2. f \in Clients /\ number[f] \in T!Numbers
        BY <1>5 DEF Openning, Numbered, Clients
    <2>3. downlink' \in [Devices -> Seq(Downs)]
        BY <1>5, <2>2, CurrConnType, FrameTypes, SendTypes DEF Openning, Types
    <2> QED
        BY <1>5, <2>1, <2>3 DEF Types, TypeOK, T!TypeOK, Openning
<1>6. ASSUME NEW f \in Forwards, BrowserSends(f) PROVE Types'
    <2>1. f \in Clients /\ number[f] \in T!Numbers
        BY <1>6 DEF BrowserSends, Numbered, Clients
    <2>2. sent[f].down + 1 \in Nat /\ sent' \in [Forwards -> [up : Nat, down : Nat]]
        <3>1. sent \in [Forwards -> [up : Nat, down : Nat]]
            BY DEF Types
        <3>2. sent[f].down + 1 \in Nat
            BY <3>1
        <3>3. sent' = [sent EXCEPT ![f].down = @ + 1]
            BY <1>6 DEF BrowserSends
        <3> QED
            BY <3>1, <3>2, <3>3
    <2>3. DataFrame(number[f], Piece(f, sent[f].down + 1)) \in Downs
        BY <2>1, <2>2, FrameTypes
    <2>4. downlink' \in [Devices -> Seq(Downs)]
        BY <1>6, <2>3, CurrConnType, SendTypes DEF BrowserSends, Types
    <2> QED
        BY <1>6, <2>2, <2>4 DEF Types, TypeOK, T!TypeOK, BrowserSends
<1>7. ASSUME NEW f \in Forwards, HangUp(f) PROVE Types'
    <2> DEFINE d == connections[session[f]]
    <2>1. f \in Clients /\ number[f] \in T!Numbers /\ session[f] \in Names
        BY <1>7 DEF HangUp, Numbered, Clients, Types, TypeOK
    <2>2. d \in Devices \cup {null}
        BY <2>1 DEF Types, TypeOK
    <2>3. client' \in [Clients -> {"idle", "greeted", "open", "over"}]
        BY <1>7 DEF Types, TypeOK, HangUp
    <2>4. downlink' \in [Devices -> Seq(Downs)]
        <3>1. CASE d = null
            BY <1>7, <3>1 DEF HangUp, Types
        <3>2. CASE d # null
            <4>1. d \in Devices /\ Send(d, Frame("close", number[f], f))
                BY <1>7, <2>2, <3>2 DEF HangUp
            <4>2. Frame("close", number[f], f) \in Downs
                BY <2>1, FrameTypes
            <4> QED
                BY <4>1, <4>2, SendTypes
        <3> QED
            BY <3>1, <3>2
    <2>5. T!TypeOK' /\ up' \in BOOLEAN
        <3>1. CASE UNCHANGED <<table, up>>
            BY <3>1 DEF Types, TypeOK, T!TypeOK
        <3>2. CASE curr_seq # null /\ Deleted(curr_seq)
            BY <3>2, DeletedTypes DEF Types, TypeOK
        <3> QED
            BY <1>7, <3>1, <3>2 DEF HangUp
    <2>6. clean' \in BOOLEAN /\ cut' \in {"never", "now", "before", "twice"}
        BY <1>7 DEF HangUp, Types
    <2> QED
        BY <1>7, <2>3, <2>4, <2>5, <2>6 DEF Types, TypeOK, HangUp
<1> QED
    BY <1>1, <1>2, <1>3, <1>4, <1>5, <1>6, <1>7

LEMMA TypesOfMessages ==
    ASSUME Types, NEW d \in Devices,
           \/ Dropped(d)
           \/ \E c \in Clients : ProcessPart(d, c) \/ ResponseEnds(d, c) \/ ForwardPasses(d, c)
    PROVE  Types'
<1> USE DEF table, frame, devices, browsers, links
<1>1. CASE Dropped(d)
    <2>1. Taking(d) /\ FrameOver
        BY <1>1 DEF Dropped
    <2> QED
        BY <1>1, <2>1, TakingTypes, FrameOverTypes
           DEF Types, TypeOK, T!TypeOK, Dropped, Taking
<1>2. ASSUME NEW c \in Clients, ProcessPart(d, c) PROVE Types'
    <2>1. Taking(d) /\ Processing(d, c)
        BY <1>2 DEF ProcessPart, Processing
    <2>2. got' \in [Clients -> Seq(Pieces)] /\ start' \in [Clients -> Nat]
          /\ curr_seq' \in T!Numbers
        BY <1>2, <2>1, ProcessingTypes DEF ProcessPart
    <2>3. curr_total' \in Nat
        BY <1>2, <2>1, TakingTypes DEF ProcessPart
    <2> QED
        BY <1>2, <2>1, <2>2, <2>3, TakingTypes
           DEF Types, TypeOK, T!TypeOK, ProcessPart, Taking
<1>3. ASSUME NEW c \in Clients, ResponseEnds(d, c) PROVE Types'
    <2>1. Taking(d) /\ Processing(d, c) /\ FrameOver
        BY <1>3 DEF ResponseEnds, Processing
    <2>2. FrameSeq(Head(uplink[d])) \in T!Numbers /\ got' \in [Clients -> Seq(Pieces)]
        BY <1>3, <2>1, ProcessingTypes DEF ResponseEnds
    <2>3. T!TypeOK' /\ up' \in BOOLEAN
        BY <1>3, <2>2, DeletedTypes DEF ResponseEnds, Types, TypeOK
    <2>4. client' \in [Clients -> {"idle", "greeted", "open", "over"}]
        BY <1>3 DEF Types, TypeOK, ResponseEnds
    <2> QED
        BY <1>3, <2>1, <2>2, <2>3, <2>4, TakingTypes, FrameOverTypes
           DEF Types, TypeOK, ResponseEnds, Taking
<1>4. ASSUME NEW c \in Clients, ForwardPasses(d, c) PROVE Types'
    <2>1. Taking(d) /\ Processing(d, c) /\ FrameOver
        BY <1>4 DEF ForwardPasses, Processing
    <2>2. got' \in [Clients -> Seq(Pieces)] /\ start' \in [Clients -> Nat]
        BY <1>4, <2>1, ProcessingTypes DEF ForwardPasses, Types
    <2> QED
        BY <1>4, <2>1, <2>2, TakingTypes, FrameOverTypes
           DEF Types, TypeOK, T!TypeOK, ForwardPasses, Taking
<1> QED
    BY <1>1, <1>2, <1>3, <1>4

\* What a device's step leaves to be shown.
LEMMA DeviceTypes ==
    ASSUME Types, NEW d \in Devices, Device(d),
           connections' \in [Names -> Devices \cup {null}],
           name' \in [Devices -> Names \cup {null}],
           clean' \in BOOLEAN, UNCHANGED <<curr_device, chosen>>,
           downlink' \in [Devices -> Seq(Downs)],
           uplink' \in [Devices -> Seq(Ups)],
           serving' \in [Devices -> SUBSET Jobs],
           lan' \in [Forwards -> Seq(Pieces)],
           sent' \in [Forwards -> [up : Nat, down : Nat]]
    PROVE  Types'
<1> USE DEF table, browsers
<1>1. TypeOK'
    BY DEF Types, TypeOK, T!TypeOK, Device
<1> QED
    BY <1>1 DEF Types, Device

LEMMA UplinkAppended ==
    ASSUME Types, NEW d \in Devices, NEW m \in Ups,
           uplink' = [uplink EXCEPT ![d] = Append(@, m)]
    PROVE  uplink' \in [Devices -> Seq(Ups)]
<1>1. uplink[d] \in Seq(Ups)
    BY DEF Types
<1>2. Append(uplink[d], m) \in Seq(Ups)
    BY <1>1
<1> QED
    BY <1>2 DEF Types

LEMMA TypesOfDevices ==
    ASSUME Types, NEW d \in Devices,
           \/ DeviceConnects(d) \/ DeviceLost(d) \/ DeviceTakes(d)
           \/ DeviceAnswers(d) \/ DeviceFails(d) \/ DeviceSends(d)
    PROVE  Types'
<1> USE DEF devices, links
<1>1. CASE DeviceConnects(d)
    <2>1. Device(d)
        BY <1>1 DEF DeviceConnects
    <2>2. connections' \in [Names -> Devices \cup {null}]
          /\ name' \in [Devices -> Names \cup {null}]
        BY <1>1 DEF DeviceConnects, Types, TypeOK
    <2>3. UNCHANGED <<curr_device, chosen, links, clean>>
        BY <1>1 DEF DeviceConnects
    <2> QED
        BY <2>1, <2>2, <2>3, DeviceTypes DEF Types
<1>2. CASE DeviceLost(d)
    <2>1. Device(d) /\ name[d] \in Names
        BY <1>2 DEF DeviceLost, Types, TypeOK
    <2>2. connections' \in [Names -> Devices \cup {null}]
          /\ name' \in [Devices -> Names \cup {null}] /\ clean' \in BOOLEAN
        BY <1>2, <2>1 DEF DeviceLost, Types, TypeOK
    <2>3. downlink' \in [Devices -> Seq(Downs)]
        <3>1. <<>> \in Seq(Downs)
            OBVIOUS
        <3> QED
            BY <1>2, <3>1 DEF DeviceLost, Types
    <2>4. uplink' \in [Devices -> Seq(Ups)]
        <3>1. PICK n \in 0..Len(uplink[d]) :
                 uplink' = [uplink EXCEPT ![d] = SubSeq(@, n + 1, Len(@))]
            BY <1>2 DEF DeviceLost
        <3>2. uplink[d] \in Seq(Ups)
            BY DEF Types
        <3>3. SubSeq(uplink[d], n + 1, Len(uplink[d])) \in Seq(Ups)
            BY <3>2, SplitSeq
        <3> QED
            BY <3>1, <3>3 DEF Types
    <2>5. serving' \in [Devices -> SUBSET Jobs]
        BY <1>2 DEF DeviceLost, Types
    <2> QED
        BY <1>2, <2>1, <2>2, <2>3, <2>4, <2>5, DeviceTypes DEF DeviceLost, Types
<1>3. CASE DeviceTakes(d)
    <2> DEFINE f == Head(downlink[d])
               mine == {j \in serving[d] : j.type = "open" /\ j.seq = f.seq}
    <2>1. downlink[d] \in Seq(Downs) /\ downlink[d] # <<>>
        BY <1>3 DEF DeviceTakes, Types
    <2>2. f \in Downs /\ Tail(downlink[d]) \in Seq(Downs)
        BY <2>1
    <2>3. downlink' \in [Devices -> Seq(Downs)]
        BY <1>3, <2>2 DEF DeviceTakes, Types
    <2>4. Device(d) /\ UNCHANGED <<devices, sent, clean>>
        BY <1>3 DEF DeviceTakes
    <2>5. CASE f.type \in {"http", "open"} /\ serving' = [serving EXCEPT ![d] = @ \cup {f}]
               /\ UNCHANGED <<uplink, lan>>
        <3>1. f \in Jobs
            BY <2>2, <2>5 DEF Jobs
        <3>2. serving' \in [Devices -> SUBSET Jobs]
            BY <2>5, <3>1 DEF Types
        <3> QED
            BY <2>3, <2>4, <2>5, <3>2, DeviceTypes DEF Types, TypeOK
    <2>6. CASE f.type = "data" /\ UNCHANGED <<uplink, serving>>
               /\ lan' = [c \in Forwards |->
                    IF \E j \in mine : j.of = c THEN Append(lan[c], f.data) ELSE lan[c]]
        <3>1. f.data \in Pieces
            BY <2>2, <2>6 DEF Downs
        <3>2. \A c \in Forwards : lan[c] \in Seq(Pieces) /\ Append(lan[c], f.data) \in Seq(Pieces)
            BY <3>1 DEF Types
        <3> HIDE DEF f, mine
        <3>3. lan' \in [Forwards -> Seq(Pieces)]
            BY <2>6, <3>2
        <3> QED
            BY <2>3, <2>4, <2>6, <3>3, DeviceTypes DEF Types, TypeOK
    <2>7. CASE f.type = "close" /\ serving' = [serving EXCEPT ![d] = @ \ mine]
               /\ UNCHANGED lan
               /\ uplink' = IF mine = {} THEN uplink
                            ELSE [uplink EXCEPT ![d] = Append(@,
                                    Header(f.seq, 1, Piece(f.of, sent[f.of].up + 1)))]
        <3>1. f.of \in Forwards /\ f.seq \in T!Numbers /\ f.of \in Clients
            BY <2>2, <2>7 DEF Downs, Clients
        <3>2. sent[f.of].up + 1 \in Nat
            BY <3>1 DEF Types
        <3>3. Header(f.seq, 1, Piece(f.of, sent[f.of].up + 1)) \in Ups
            BY <3>1, <3>2, FrameTypes
        <3>4. uplink' \in [Devices -> Seq(Ups)]
            BY <2>7, <3>3, UplinkAppended DEF Types
        <3>5. serving' \in [Devices -> SUBSET Jobs]
            BY <2>7 DEF Types
        <3> QED
            BY <2>3, <2>4, <2>7, <3>4, <3>5, DeviceTypes DEF Types, TypeOK
    <2> QED
        BY <1>3, <2>5, <2>6, <2>7 DEF DeviceTakes
<1>4. CASE DeviceAnswers(d)
    <2>1. PICK j \in serving[d], n \in 1..MaxPieces :
             /\ serving' = [serving EXCEPT ![d] = @ \ {j}]
             /\ uplink' = [uplink EXCEPT ![d] =
                   @ \o <<Header(j.seq, n, Piece(j.of, 1))>>
                     \o [i \in 1..(n - 1) |-> Body(Piece(j.of, i + 1))]]
        BY <1>4 DEF DeviceAnswers
    <2>2. j \in Downs /\ n \in Nat /\ n > 0 /\ uplink[d] \in Seq(Ups)
        BY ConstantsAssumption DEF Types, Jobs
    <2>3. uplink' = [uplink EXCEPT ![d] = @ \o Answer(j, n)]
        BY <2>1, <2>2, AnswerAppended
    <2>4. uplink[d] \o Answer(j, n) \in Seq(Ups)
        BY <2>2, AnswerIs, ConcatProperties
    <2>5. uplink' \in [Devices -> Seq(Ups)]
        BY <2>3, <2>4 DEF Types
    <2>6. serving' \in [Devices -> SUBSET Jobs]
        BY <2>1 DEF Types
    <2>7. Device(d) /\ UNCHANGED <<devices, downlink, lan, sent, clean>>
        BY <1>4 DEF DeviceAnswers
    <2> QED
        BY <2>5, <2>6, <2>7, DeviceTypes DEF Types, TypeOK
<1>5. CASE DeviceFails(d)
    <2>1. PICK j \in serving[d] :
             /\ serving' = [serving EXCEPT ![d] = @ \ {j}]
             /\ uplink' = [uplink EXCEPT ![d] =
                   Append(@, Header(j.seq, WrongLength, Piece(j.of, 1)))]
        BY <1>5 DEF DeviceFails
    <2>2. j.of \in Clients /\ j.seq \in T!Numbers
        BY DEF Types, Jobs, Downs
    <2>3. Header(j.seq, WrongLength, Piece(j.of, 1)) \in Ups
        BY <2>2, FrameTypes DEF WrongLength
    <2>4. uplink' \in [Devices -> Seq(Ups)]
        BY <2>1, <2>3, UplinkAppended
    <2>5. serving' \in [Devices -> SUBSET Jobs]
        BY <2>1 DEF Types
    <2>6. Device(d) /\ UNCHANGED <<devices, downlink, lan, sent, clean>>
        BY <1>5 DEF DeviceFails
    <2> QED
        BY <2>4, <2>5, <2>6, DeviceTypes DEF Types, TypeOK
<1>6. CASE DeviceSends(d)
    <2>1. PICK j \in serving[d], last \in BOOLEAN :
             /\ j.type = "open"
             /\ sent' = [sent EXCEPT ![j.of].up = @ + 1]
             /\ uplink' = [uplink EXCEPT ![d] =
                   Append(@, Header(j.seq, 1, Piece(j.of, sent[j.of].up + 1)))]
             /\ serving' = [serving EXCEPT ![d] = IF last THEN @ \ {j} ELSE @]
        BY <1>6 DEF DeviceSends
    <2>2. j.of \in Forwards /\ j.of \in Clients /\ j.seq \in T!Numbers
        BY <2>1 DEF Types, Jobs, Downs, Clients
    <2>3. sent \in [Forwards -> [up : Nat, down : Nat]]
        BY DEF Types
    <2>4. sent[j.of].up + 1 \in Nat
        BY <2>2, <2>3
    <2>5. sent' \in [Forwards -> [up : Nat, down : Nat]]
        BY <2>1, <2>2, <2>3, <2>4
    <2>6. Header(j.seq, 1, Piece(j.of, sent[j.of].up + 1)) \in Ups
        BY <2>2, <2>4, FrameTypes
    <2>7. uplink' \in [Devices -> Seq(Ups)]
        BY <2>1, <2>6, UplinkAppended
    <2>8. serving' \in [Devices -> SUBSET Jobs]
        BY <2>1 DEF Types
    <2>9. Device(d) /\ UNCHANGED <<devices, downlink, lan, clean>>
        BY <1>6 DEF DeviceSends
    <2> QED
        BY <2>5, <2>7, <2>8, <2>9, DeviceTypes DEF Types, TypeOK
<1> QED
    BY <1>1, <1>2, <1>3, <1>4, <1>5, <1>6

LEMMA TypesStep == Types /\ Numbered /\ [Next]_vars => Types'
<1> SUFFICES ASSUME Types, Numbered, [Next]_vars PROVE Types'
    OBVIOUS
<1>1. ASSUME NEW n \in Names, ChooseDevice(n) PROVE Types'
    <2>1. chosen' \subseteq Names /\ curr_device' \in Names /\ chosen \subseteq chosen'
        BY <1>1 DEF ChooseDevice, Types, TypeOK
    <2>2. session' \in [Forwards -> chosen' \cup {null}]
        BY <1>1, <2>1 DEF ChooseDevice, browsers, Types, TypeOK
    <2> QED
        BY <1>1, <2>1, <2>2
           DEF ChooseDevice, table, frame, browsers, links, Types, TypeOK, T!TypeOK
<1>2. CASE UNCHANGED vars
    BY <1>2 DEF vars, table, frame, devices, browsers, links, Types, TypeOK, T!TypeOK
<1> QED
    BY <1>1, <1>2, Steps, TypesOfClients, TypesOfMessages, TypesOfDevices

\* Who is numbered changes with a client only.
LEMMA NumberedStep == Types /\ Types' /\ Numbered /\ [Next]_vars => Numbered'
<1> SUFFICES ASSUME Types, Types', Numbered, [Next]_vars PROVE Numbered'
    OBVIOUS
<1> USE DEF table, frame, devices, browsers, links
<1>1. /\ client \in [Clients -> {"idle", "greeted", "open", "over"}]
      /\ number \in [Clients -> T!Numbers \cup {null}]
    BY DEF Types, TypeOK
<1>2. ASSUME NEW r \in Requests, Request(r) \/ RequestRejected(r) PROVE Numbered'
    <2>1. r \in Clients /\ r \notin Forwards /\ client[r] = "idle" /\ UNCHANGED <<session, chosen>>
        BY <1>2, Constants DEF Request, RequestRejected, Clients
    <2>2. CASE NewProcessor(r, "open")
        <3>1. T!NextSeq \in T!Numbers
            BY <2>1, <2>2, NewTypes
        <3>2. \A g \in Clients : /\ client'[g] = IF g = r THEN "open" ELSE client[g]
                                 /\ number'[g] = IF g = r THEN T!NextSeq ELSE number[g]
            BY <1>1, <2>2 DEF NewProcessor
        <3> QED
            BY <2>1, <3>1, <3>2 DEF Numbered, Clients
    <2>3. CASE client' = [client EXCEPT ![r] = "over"] /\ UNCHANGED number
        BY <1>1, <2>1, <2>3 DEF Numbered, Clients
    <2> QED
        BY <1>2, <2>2, <2>3 DEF Request, RequestRejected
<1>3. ASSUME NEW f \in Forwards, Hello(f) PROVE Numbered'
    <2>1. /\ f \in Clients /\ NewProcessor(f, "greeted") /\ client[f] = "idle"
          /\ UNCHANGED chosen
        BY <1>3 DEF Hello, Clients
    <2>2. T!NextSeq \in T!Numbers
        BY <2>1, NewTypes
    <2>3. PICK n \in chosen : session' = [session EXCEPT ![f] = n]
        BY <1>3 DEF Hello
    <2>4. session \in [Forwards -> chosen \cup {null}]
        BY DEF Types, TypeOK
    <2>5. \A g \in Clients : /\ client'[g] = IF g = f THEN "greeted" ELSE client[g]
                             /\ number'[g] = IF g = f THEN T!NextSeq ELSE number[g]
        BY <1>1, <2>1 DEF NewProcessor
    <2>6. \A g \in Forwards : session'[g] = IF g = f THEN n ELSE session[g]
        BY <2>3, <2>4
    <2> QED
        BY <2>1, <2>2, <2>5, <2>6 DEF Numbered, Clients
<1>4. ASSUME NEW f \in Forwards, Openning(f) \/ HangUp(f) PROVE Numbered'
    <2>1. /\ f \in Clients /\ client[f] \in {"greeted", "open"}
          /\ \E st \in {"open", "over"} : client' = [client EXCEPT ![f] = st]
          /\ UNCHANGED <<number, session, chosen>>
        BY <1>4 DEF Openning, HangUp, Clients
    <2> QED
        BY <1>1, <2>1 DEF Numbered, Clients
<1>5. ASSUME NEW d \in Devices, NEW c \in Clients, ResponseEnds(d, c) PROVE Numbered'
    <2>1. /\ c \in Requests /\ c \notin Forwards /\ client' = [client EXCEPT ![c] = "over"]
          /\ UNCHANGED <<number, session, chosen>>
        BY <1>5, Constants DEF ResponseEnds, Processing, Taking
    <2> QED
        BY <1>1, <2>1 DEF Numbered, Clients
<1>6. ASSUME UNCHANGED <<client, number, session>>, chosen \subseteq chosen'
      PROVE  Numbered'
    BY <1>6 DEF Numbered
<1>7. ASSUME NEW f \in Forwards, HelloThrows(f) \/ BrowserSends(f)
      PROVE  UNCHANGED <<client, number, session, chosen>>
    BY <1>7 DEF HelloThrows, BrowserSends
<1>8. ASSUME NEW d \in Devices, Dropped(d)
      PROVE  UNCHANGED <<client, number, session, chosen>>
    BY <1>8 DEF Dropped, Taking
<1>9. ASSUME NEW d \in Devices, NEW c \in Clients, ProcessPart(d, c) \/ ForwardPasses(d, c)
      PROVE  UNCHANGED <<client, number, session, chosen>>
    BY <1>9 DEF ProcessPart, ForwardPasses, Processing, Taking
<1>10. ASSUME NEW d \in Devices, DeviceConnects(d) \/ DeviceLost(d) \/ DeviceTakes(d)
       PROVE  UNCHANGED <<client, number, session, chosen>>
    BY <1>10 DEF DeviceConnects, DeviceLost, DeviceTakes, Device
<1>11. ASSUME NEW d \in Devices, DeviceAnswers(d) \/ DeviceFails(d) \/ DeviceSends(d)
       PROVE  UNCHANGED <<client, number, session, chosen>>
    BY <1>11 DEF DeviceAnswers, DeviceFails, DeviceSends, Device
<1>12. ASSUME NEW n \in Names, ChooseDevice(n)
       PROVE  UNCHANGED <<client, number, session>> /\ chosen \subseteq chosen'
    BY <1>12 DEF ChooseDevice
<1>13. UNCHANGED vars => UNCHANGED <<client, number, session, chosen>>
    BY DEF vars
<1> QED
    BY <1>2, <1>3, <1>4, <1>5, <1>6, <1>7, <1>8, <1>9, <1>10, <1>11, <1>12, <1>13, Steps

-----------------------------------------------------------------------------
(* The table in the server.                                                *)

TableSame == UNCHANGED <<seq, cnt, seq2index, index2obj>>

LEMMA SameTable ==
    ASSUME TableSame
    PROVE  /\ Objs' = Objs /\ T!Taken' = T!Taken
           /\ \A s : T!getBySeq(s)' = T!getBySeq(s)
           /\ (T!Packed <=> T!Packed') /\ (T!EachFound <=> T!EachFound')
<1> USE DEF TableSame
<1>1. Objs' = Objs /\ T!Taken' = T!Taken
    BY DEF Objs, T!Taken
<1>2. \A s : T!getBySeq(s)' = T!getBySeq(s)
    BY DEF T!getBySeq
<1>3. (T!Packed <=> T!Packed') /\ (T!EachFound <=> T!EachFound')
    BY DEF T!Packed, T!EachFound
<1> QED
    BY <1>1, <1>2, <1>3

\* What delSeq does where it finds an object.
LEMMA DeletedIs ==
    ASSUME Sound, up, NEW s \in T!Numbers, seq2index[s] \in 0..(cnt - 1), Deleted(s)
    PROVE  /\ up' /\ Sound' /\ Objs' = Objs \ {index2obj[seq2index[s]]}
BY Removed DEF Deleted

\* An object in the table is the only one of its client.
LEMMA OneEach ==
    ASSUME Sound, \A o \in Objs : o.seq = number[o.who],
           NEW o \in Objs, NEW p \in Objs, o.who = p.who \/ o.seq = p.seq
    PROVE  o = p
<1>1. o.seq = p.seq
    OBVIOUS
<1>2. T!getBySeq(o.seq) = o /\ T!getBySeq(p.seq) = p
    BY Found
<1> QED
    BY <1>1, <1>2

\* Twice is for ever.
LEMMA CutTwice == [Next]_vars /\ cut' # "twice" => cut # "twice"
<1> SUFFICES ASSUME [Next]_vars, cut' # "twice" PROVE cut # "twice"
    OBVIOUS
<1> USE DEF frame
<1>1. ASSUME NEW r \in Requests, Request(r) \/ RequestRejected(r) PROVE cut # "twice"
    BY <1>1 DEF Request, RequestRejected, NewProcessor
<1>2. ASSUME NEW f \in Forwards, Hello(f) \/ HelloThrows(f) \/ Openning(f)
                                  \/ BrowserSends(f)
      PROVE  cut # "twice"
    BY <1>2 DEF Hello, NewProcessor, HelloThrows, Openning, BrowserSends
<1>3. ASSUME NEW f \in Forwards, HangUp(f) PROVE cut # "twice"
    BY <1>3 DEF HangUp
<1>4. ASSUME NEW d \in Devices, Dropped(d) PROVE cut # "twice"
    BY <1>4 DEF Dropped, FrameOver
<1>5. ASSUME NEW d \in Devices, NEW c \in Clients,
             ProcessPart(d, c) \/ ResponseEnds(d, c) \/ ForwardPasses(d, c)
      PROVE  cut # "twice"
    BY <1>5 DEF ProcessPart, ResponseEnds, ForwardPasses, FrameOver
<1>6. ASSUME NEW d \in Devices, \/ DeviceConnects(d) \/ DeviceLost(d) \/ DeviceTakes(d)
                                \/ DeviceAnswers(d) \/ DeviceFails(d) \/ DeviceSends(d)
      PROVE  cut # "twice"
    BY <1>6 DEF DeviceConnects, DeviceLost, DeviceTakes, DeviceAnswers, DeviceFails,
                DeviceSends, Device
<1>7. ASSUME NEW n \in Names, ChooseDevice(n) PROVE cut # "twice"
    BY <1>7 DEF ChooseDevice
<1>8. CASE UNCHANGED vars
    BY <1>8 DEF vars
<1> QED
    BY <1>1, <1>2, <1>3, <1>4, <1>5, <1>6, <1>7, <1>8, Steps

\* The table after a client got a number.
LEMMA NewTabled ==
    ASSUME Types, Numbered, Running, cut # "twice", Tabled, NEW c \in Clients,
           NEW st \in {"greeted", "open"}, c \in Requests => st = "open",
           client[c] = "idle", NewProcessor(c, st), Running'
    PROVE  /\ Tabled' /\ Sound /\ Sound' /\ T!NextSeq \in T!Numbers
           /\ T!NextSeq \notin T!Taken
           /\ Objs' = Objs \cup {[who |-> c, seq |-> T!NextSeq]}
           /\ \A o \in Objs : o.who # c
<1>1. /\ Sound /\ T!newSeq(c) /\ T!NextSeq \notin T!Taken
    BY DEF Types, TypeOK, Sound, Tabled, NewProcessor, Running
<1>2. /\ Sound' /\ T!NextSeq \in T!Numbers
      /\ Objs' = Objs \cup {[who |-> c, seq |-> T!NextSeq]}
    BY <1>1, Added
<1>3. \A g \in Clients : /\ client'[g] = IF g = c THEN st ELSE client[g]
                         /\ number'[g] = IF g = c THEN T!NextSeq ELSE number[g]
    BY DEF NewProcessor, Types, TypeOK
<1>4. \A o \in Objs : o \in T!Objects /\ o.seq = number[o.who]
                      /\ (o.who \in Requests => client[o.who] = "open")
    BY <1>1, Found DEF Tabled
<1>5. \A o \in Objs : o.who \in Clients /\ o.seq # null /\ o.who # c
    BY <1>4, Constants DEF T!Objects, Numbered
<1>6. ASSUME NEW o \in Objs'
      PROVE  o.seq = number'[o.who] /\ (o.who \in Requests => client'[o.who] = "open")
    <2>1. CASE o \in Objs
        BY <2>1, <1>3, <1>4, <1>5
    <2>2. CASE o = [who |-> c, seq |-> T!NextSeq]
        BY <2>2, <1>3
    <2> QED
        BY <1>2, <2>1, <2>2
<1>7. curr_seq # null /\ cut # "now" => seq2index'[curr_seq] \in 0..(cnt' - 1)
    <2>1. /\ seq2index' = [seq2index EXCEPT ![T!NextSeq] = cnt] /\ cnt' = cnt + 1
          /\ cnt \in 0..UserMgrMax /\ curr_seq \in T!Numbers \cup {null}
          /\ seq2index \in [T!Numbers -> T!Numbers \cup {null}]
        BY <1>1 DEF T!newSeq, Sound, T!TypeOK, Types, TypeOK
    <2>2. curr_seq # null /\ cut # "now" => seq2index[curr_seq] \in 0..(cnt - 1)
        BY DEF Tabled
    <2> QED
        BY <2>1, <2>2, ConstantsAssumption
<1>8. UNCHANGED <<curr_seq, cut>> /\ (cut = "now" => curr_seq # null)
    BY DEF NewProcessor, Tabled
<1>9. Tabled'
    BY <1>2, <1>6, <1>7, <1>8 DEF Tabled, Sound
<1> QED
    BY <1>1, <1>2, <1>5, <1>9

\* The table after a delSeq that finds an object; other clients keep theirs.
LEMMA DeletedTabled ==
    ASSUME Types, Running, cut # "twice", Tabled, NEW s \in T!Numbers,
           seq2index[s] \in 0..(cnt - 1), Deleted(s)
    PROVE  /\ up' /\ Sound /\ Sound' /\ index2obj[seq2index[s]] \in Objs
           /\ Objs' = Objs \ {index2obj[seq2index[s]]}
           /\ \A o \in Objs' : /\ o \in Objs /\ o.seq = number[o.who]
                               /\ o.who \in Requests => client[o.who] = "open"
                               /\ o.who # index2obj[seq2index[s]].who
<1>1. Sound /\ up /\ \A o \in Objs : o.seq = number[o.who]
    BY DEF Types, TypeOK, Sound, Tabled, Running
<1>2. index2obj[seq2index[s]] \in Objs
    BY DEF Objs
<1>3. up' /\ Sound' /\ Objs' = Objs \ {index2obj[seq2index[s]]}
    BY <1>1, DeletedIs
<1>4. \A o \in Objs' : o \in Objs /\ o # index2obj[seq2index[s]]
    BY <1>3
<1>5. \A o \in Objs' : o.who # index2obj[seq2index[s]].who
    BY <1>1, <1>2, <1>4, OneEach
<1>6. \A o \in Objs : o.who \in Requests => client[o.who] = "open"
    BY DEF Tabled
<1> QED
    BY <1>1, <1>2, <1>3, <1>4, <1>5, <1>6

\* The message that a processor takes, and where its object is.
LEMMA ProcessingFinds ==
    ASSUME Types, Running, cut # "twice", Tabled,
           NEW d \in Devices, NEW c \in Clients, Processing(d, c)
    PROVE  /\ Sound /\ FrameSeq(Head(uplink[d])) \in T!Numbers
           /\ seq2index[FrameSeq(Head(uplink[d]))] \in 0..(cnt - 1)
           /\ T!getBySeq(FrameSeq(Head(uplink[d]))) \in Objs
           /\ T!getBySeq(FrameSeq(Head(uplink[d]))) =
                 index2obj[seq2index[FrameSeq(Head(uplink[d]))]]
           /\ T!getBySeq(FrameSeq(Head(uplink[d]))).who = c
<1>1. Sound
    BY DEF Types, TypeOK, Sound, Tabled
<1>2. FrameSeq(Head(uplink[d])) \in T!Numbers
    BY ProcessingTypes
<1>3. /\ T!getBySeq(FrameSeq(Head(uplink[d]))) # null
      /\ T!getBySeq(FrameSeq(Head(uplink[d]))).who = c
    BY DEF Processing
<1> QED
    BY <1>1, <1>2, <1>3, Lookup

\* A step that leaves the table, the frame and those in the table alone.
LEMMA TabledSame ==
    ASSUME Types, Numbered, Tabled, Running, cut # "twice",
           TableSame, UNCHANGED <<number, curr_seq, cut>>,
           \A c \in Clients : client'[c] = client[c] \/ c \in Forwards \/ client[c] = "idle"
    PROVE  Tabled'
<1>1. Sound /\ Objs' = Objs /\ T!Packed' /\ T!EachFound'
    BY SameTable DEF Types, TypeOK, Sound, Tabled
<1>2. /\ curr_seq' # null /\ cut' # "now" => seq2index'[curr_seq'] \in 0..(cnt' - 1)
      /\ cut' = "now" => curr_seq' # null
    BY DEF Tabled, TableSame
<1>3. ASSUME NEW o \in Objs
      PROVE  o.seq = number'[o.who] /\ (o.who \in Requests => client'[o.who] = "open")
    <2>1. o \in T!Objects /\ o.seq = number[o.who]
          /\ (o.who \in Requests => client[o.who] = "open")
        BY <1>1, Found DEF Tabled
    <2>2. o.who \in Clients /\ o.seq # null /\ client[o.who] # "idle"
        BY <2>1, Constants DEF T!Objects, Numbered
    <2> QED
        BY <2>1, <2>2, Constants
<1> QED
    BY <1>1, <1>2, <1>3 DEF Tabled

LEMMA TabledStep == Types /\ Numbered /\ Tabled /\ [Next]_vars => Tabled'
<1> SUFFICES ASSUME Types, Numbered, Tabled, [Next]_vars, Running', cut' # "twice"
             PROVE  Tabled'
    BY DEF Tabled
<1>0. cut # "twice"
    BY CutTwice
<1> USE DEF table, frame, devices, browsers, links
<1>1. ASSUME NEW r \in Requests, Request(r) PROVE Tabled'
    <2>1. r \in Clients /\ client[r] = "idle" /\ Running /\ NewProcessor(r, "open")
        BY <1>1 DEF Request, Clients
    <2> QED
        BY <1>0, <2>1, NewTabled
<1>2. ASSUME NEW f \in Forwards, Hello(f) PROVE Tabled'
    <2>1. f \in Clients /\ f \notin Requests /\ client[f] = "idle" /\ Running
          /\ NewProcessor(f, "greeted")
        BY <1>2, Constants DEF Hello, Clients
    <2> QED
        BY <1>0, <2>1, NewTabled
<1>3. ASSUME NEW f \in Forwards, HangUp(f) PROVE Tabled'
    <2> DEFINE d == connections[session[f]]
    <2>1. /\ Running /\ UNCHANGED <<number, curr_seq>>
          /\ client' = [client EXCEPT ![f] = "over"]
        BY <1>3 DEF HangUp
    <2>2. \A c \in Clients : client'[c] = client[c] \/ c \in Forwards
        BY <2>1 DEF Types, TypeOK
    <2>3. CASE d = null \/ curr_seq = null
        <3>1. TableSame /\ cut' = cut
            BY <1>3, <2>3 DEF HangUp, TableSame
        <3> QED
            BY <1>0, <2>1, <2>2, <3>1, TabledSame
    <2>4. CASE ~(d = null \/ curr_seq = null)
        <3>1. /\ Deleted(curr_seq) /\ cut' = "now" /\ cut \in {"never", "before"}
              /\ curr_seq \in T!Numbers
            BY <1>3, <2>4 DEF HangUp, Types, TypeOK
        <3>2. seq2index[curr_seq] \in 0..(cnt - 1)
            BY <1>0, <2>1, <2>4, <3>1 DEF Tabled
        <3>3. /\ Sound'
              /\ \A o \in Objs' : /\ o.seq = number[o.who]
                                  /\ o.who \in Requests => client[o.who] = "open"
            BY <1>0, <2>1, <3>1, <3>2, DeletedTabled
        <3>4. Sound /\ \A o \in Objs' : o \in T!Objects
            <4>1. Sound /\ Objs' \subseteq Objs
                BY <1>0, <2>1, <3>1, <3>2, DeletedTabled
            <4> QED
                BY <4>1, Found
        <3>5. \A o \in Objs' : o.who \in Requests => client'[o.who] = "open"
            BY <2>2, <3>3, <3>4, Constants DEF T!Objects
        <3> QED
            BY <2>1, <2>4, <3>1, <3>3, <3>5 DEF Tabled, Sound
    <2> QED
        BY <2>3, <2>4
<1>4. ASSUME NEW d \in Devices, Dropped(d) PROVE Tabled'
    <2>1. Running /\ TableSame /\ UNCHANGED <<number, client>> /\ curr_seq' = null
          /\ cut' # "now"
        BY <1>4 DEF Dropped, Taking, TableSame, FrameOver
    <2>2. Objs' = Objs /\ T!Packed' /\ T!EachFound'
        BY <1>0, <2>1, SameTable DEF Tabled
    <2> QED
        BY <1>0, <2>1, <2>2 DEF Tabled
<1>5. ASSUME NEW d \in Devices, NEW c \in Clients, ProcessPart(d, c) PROVE Tabled'
    <2>1. /\ Processing(d, c) /\ Running /\ TableSame /\ UNCHANGED <<number, client, cut>>
          /\ curr_seq' = FrameSeq(Head(uplink[d]))
        BY <1>5 DEF ProcessPart, Processing, Taking, TableSame
    <2>2. /\ curr_seq' \in T!Numbers /\ seq2index[curr_seq'] \in 0..(cnt - 1)
        BY <1>0, <2>1, ProcessingFinds
    <2>3. Objs' = Objs /\ T!Packed' /\ T!EachFound'
        BY <1>0, <2>1, SameTable DEF Tabled
    <2> QED
        BY <1>0, <2>1, <2>2, <2>3, Constants DEF Tabled, TableSame
<1>6. ASSUME NEW d \in Devices, NEW c \in Clients, ResponseEnds(d, c) PROVE Tabled'
    <2> DEFINE s == FrameSeq(Head(uplink[d]))
    <2>1. /\ c \in Requests /\ Processing(d, c) /\ Running /\ Deleted(s)
          /\ UNCHANGED number /\ client' = [client EXCEPT ![c] = "over"]
          /\ curr_seq' = null /\ cut' # "now"
        BY <1>6 DEF ResponseEnds, Processing, Taking, FrameOver
    <2>2. /\ s \in T!Numbers /\ seq2index[s] \in 0..(cnt - 1)
          /\ index2obj[seq2index[s]].who = c
        BY <1>0, <2>1, ProcessingFinds
    <2>3. Sound' /\ \A o \in Objs' : /\ o.seq = number[o.who] /\ o.who # c
                                     /\ o.who \in Requests => client[o.who] = "open"
        BY <1>0, <2>1, <2>2, DeletedTabled
    <2>4. \A g \in Clients : g # c => client'[g] = client[g]
        BY <2>1 DEF Types, TypeOK
    <2>5. \A o \in Objs' : o.who \in Requests => client'[o.who] = "open"
        BY <2>3, <2>4 DEF Clients
    <2> QED
        BY <2>1, <2>3, <2>5 DEF Tabled, Sound
<1>7. ASSUME NEW d \in Devices, NEW c \in Clients, ForwardPasses(d, c) PROVE Tabled'
    <2>1. Running /\ TableSame /\ UNCHANGED <<number, client>> /\ curr_seq' = null
          /\ cut' # "now"
        BY <1>7 DEF ForwardPasses, Processing, Taking, TableSame, FrameOver
    <2>2. Objs' = Objs /\ T!Packed' /\ T!EachFound'
        BY <1>0, <2>1, SameTable DEF Tabled
    <2> QED
        BY <1>0, <2>1, <2>2 DEF Tabled
<1>8. ASSUME NEW r \in Requests, RequestRejected(r) PROVE Tabled'
    <2>1. Running /\ TableSame /\ UNCHANGED <<number, curr_seq, cut>>
        BY <1>8 DEF RequestRejected, TableSame
    <2>2. \A c \in Clients : client'[c] = client[c] \/ client[c] = "idle"
        BY <1>8 DEF RequestRejected, Types, TypeOK
    <2> QED
        BY <1>0, <2>1, <2>2, TabledSame
<1>9. ASSUME NEW f \in Forwards, Openning(f) PROVE Tabled'
    <2>1. Running /\ TableSame /\ UNCHANGED <<number, curr_seq, cut>>
        BY <1>9 DEF Openning, TableSame
    <2>2. \A c \in Clients : client'[c] = client[c] \/ c \in Forwards
        BY <1>9 DEF Openning, Types, TypeOK
    <2> QED
        BY <1>0, <2>1, <2>2, TabledSame
<1>10. ASSUME Running, TableSame, UNCHANGED <<number, client, curr_seq, cut>>
       PROVE  Tabled'
    BY <1>0, <1>10, TabledSame
<1>11. ASSUME NEW f \in Forwards, HelloThrows(f) \/ BrowserSends(f) PROVE Tabled'
    <2>1. TableSame /\ UNCHANGED <<number, client, curr_seq, cut>> /\ Running
        BY <1>11 DEF HelloThrows, BrowserSends, TableSame
    <2> QED
        BY <2>1, <1>10
<1>12. ASSUME NEW d \in Devices, \/ DeviceConnects(d) \/ DeviceLost(d) \/ DeviceTakes(d)
                                 \/ DeviceAnswers(d) \/ DeviceFails(d) \/ DeviceSends(d)
       PROVE  Tabled'
    <2>1. Device(d)
        BY <1>12 DEF DeviceConnects, DeviceLost, DeviceTakes, DeviceAnswers, DeviceFails,
                     DeviceSends
    <2>2. TableSame /\ UNCHANGED <<number, client, curr_seq, cut>> /\ Running
        BY <2>1 DEF Device, TableSame
    <2> QED
        BY <2>2, <1>10
<1>13. ASSUME NEW n \in Names, ChooseDevice(n) PROVE Tabled'
    <2>1. TableSame /\ UNCHANGED <<number, client, curr_seq, cut>> /\ Running
        BY <1>13 DEF ChooseDevice, TableSame
    <2> QED
        BY <2>1, <1>10
<1>14. CASE UNCHANGED vars
    <2>1. TableSame /\ UNCHANGED <<number, client, curr_seq, cut>> /\ Running
        BY <1>14 DEF vars, TableSame, Running
    <2> QED
        BY <2>1, <1>10
<1> QED
    BY <1>1, <1>2, <1>3, <1>4, <1>5, <1>6, <1>7, <1>8, <1>9, <1>11, <1>12, <1>13, <1>14, Steps

\* A step after which nothing was ever cut short.
LEMMA CutNever ==
    ASSUME [Next]_vars, cut' = "never"
    PROVE  cut = "never" /\ \A f \in Forwards : HangUp(f) => TableSame
<1> USE DEF table, frame
<1>1. ASSUME NEW r \in Requests, Request(r) \/ RequestRejected(r) PROVE cut = "never"
    BY <1>1 DEF Request, RequestRejected, NewProcessor
<1>2. ASSUME NEW f \in Forwards, Hello(f) \/ HelloThrows(f) \/ Openning(f)
                                  \/ BrowserSends(f)
      PROVE  cut = "never"
    BY <1>2 DEF Hello, NewProcessor, HelloThrows, Openning, BrowserSends
<1>3. ASSUME NEW f \in Forwards, HangUp(f) PROVE cut = "never" /\ TableSame
    BY <1>3 DEF HangUp, TableSame
<1>4. ASSUME NEW d \in Devices, Dropped(d) PROVE cut = "never"
    BY <1>4 DEF Dropped, FrameOver
<1>5. ASSUME NEW d \in Devices, NEW c \in Clients,
             ProcessPart(d, c) \/ ResponseEnds(d, c) \/ ForwardPasses(d, c)
      PROVE  cut = "never"
    BY <1>5 DEF ProcessPart, ResponseEnds, ForwardPasses, FrameOver
<1>6. ASSUME NEW d \in Devices, \/ DeviceConnects(d) \/ DeviceLost(d) \/ DeviceTakes(d)
                                \/ DeviceAnswers(d) \/ DeviceFails(d) \/ DeviceSends(d)
      PROVE  cut = "never"
    BY <1>6 DEF DeviceConnects, DeviceLost, DeviceTakes, DeviceAnswers, DeviceFails,
                DeviceSends, Device
<1>7. ASSUME NEW n \in Names, ChooseDevice(n) PROVE cut = "never"
    BY <1>7 DEF ChooseDevice
<1>8. UNCHANGED vars => cut = "never"
    BY DEF vars
<1> QED
    BY <1>1, <1>2, <1>3, <1>4, <1>5, <1>6, <1>7, <1>8, Steps

\* A step that leaves the table alone and needs no object that was not needed.
LEMMA PresentSame ==
    ASSUME Present, Running, cut = "never", TableSame, UNCHANGED number,
           \A c \in Clients : Needs(c)' => Needs(c)
    PROVE  Present'
<1>1. Objs' = Objs /\ \A c \in Clients : ObjectOf(c)' = ObjectOf(c)
    BY SameTable DEF ObjectOf
<1> QED
    BY <1>1 DEF Present

LEMMA PresentStep == Types /\ Numbered /\ Tabled /\ Present /\ [Next]_vars => Present'
<1> SUFFICES ASSUME Types, Numbered, Tabled, Present, [Next]_vars, Running', cut' = "never"
             PROVE  Present'
    BY DEF Present
<1>0. cut = "never" /\ cut # "twice" /\ \A f \in Forwards : HangUp(f) => TableSame
    BY CutNever
<1> USE DEF table, frame, devices, browsers, links
<1>1. ASSUME NEW c \in Clients, NEW st \in {"greeted", "open"}, c \in Requests => st = "open",
             client[c] = "idle", Running, NewProcessor(c, st)
      PROVE  Present'
    <2>1. Objs' = Objs \cup {[who |-> c, seq |-> T!NextSeq]}
        BY <1>0, <1>1, NewTabled
    <2>2. \A g \in Clients : /\ client'[g] = IF g = c THEN st ELSE client[g]
                             /\ number'[g] = IF g = c THEN T!NextSeq ELSE number[g]
        BY <1>1 DEF NewProcessor, Types, TypeOK
    <2>3. ASSUME NEW g \in Clients, Needs(g)' PROVE ObjectOf(g)' \in Objs'
        <3>1. CASE g = c
            BY <3>1, <2>1, <2>2 DEF ObjectOf
        <3>2. CASE g # c
            <4>1. Needs(g) /\ ObjectOf(g)' = ObjectOf(g)
                BY <2>2, <2>3, <3>2 DEF Needs, ObjectOf
            <4> QED
                BY <1>0, <1>1, <2>1, <4>1 DEF Present
        <3> QED
            BY <3>1, <3>2
    <2> QED
        BY <2>3 DEF Present
<1>2. ASSUME NEW r \in Requests, Request(r) PROVE Present'
    <2>1. r \in Clients /\ client[r] = "idle" /\ Running /\ NewProcessor(r, "open")
        BY <1>2 DEF Request, Clients
    <2> QED
        BY <2>1, <1>1
<1>3. ASSUME NEW f \in Forwards, Hello(f) PROVE Present'
    <2>1. f \in Clients /\ f \notin Requests /\ client[f] = "idle" /\ Running
          /\ NewProcessor(f, "greeted")
        BY <1>3, Constants DEF Hello, Clients
    <2> QED
        BY <2>1, <1>1
<1>4. ASSUME NEW f \in Forwards, HangUp(f) \/ Openning(f) PROVE Present'
    <2>1. /\ Running /\ UNCHANGED number /\ f \in Clients
          /\ client[f] \in {"greeted", "open"}
          /\ \E st \in {"open", "over"} : client' = [client EXCEPT ![f] = st]
        BY <1>4 DEF HangUp, Openning, Clients
    <2>2. TableSame
        BY <1>0, <1>4 DEF Openning, TableSame
    <2>3. \A c \in Clients : Needs(c)' => Needs(c)
        BY <2>1 DEF Types, TypeOK, Needs
    <2> QED
        BY <1>0, <2>1, <2>2, <2>3, PresentSame
<1>5. ASSUME NEW d \in Devices, NEW c \in Clients, ResponseEnds(d, c) PROVE Present'
    <2> DEFINE s == FrameSeq(Head(uplink[d]))
    <2>1. /\ c \in Requests /\ Processing(d, c) /\ Running /\ Deleted(s)
          /\ UNCHANGED number /\ client' = [client EXCEPT ![c] = "over"]
        BY <1>5 DEF ResponseEnds, Processing, Taking
    <2>2. /\ s \in T!Numbers /\ seq2index[s] \in 0..(cnt - 1)
          /\ index2obj[seq2index[s]].who = c
        BY <1>0, <2>1, ProcessingFinds
    <2>3. Objs' = Objs \ {index2obj[seq2index[s]]}
        BY <1>0, <2>1, <2>2, DeletedTabled
    <2>4. \A g \in Clients : Needs(g)' => Needs(g) /\ g # c
        BY <2>1, Constants DEF Types, TypeOK, Needs
    <2>5. ASSUME NEW g \in Clients, g # c
          PROVE  ObjectOf(g)' = ObjectOf(g) /\ ObjectOf(g) # index2obj[seq2index[s]]
        <3>1. ObjectOf(g).who = g
            BY DEF ObjectOf
        <3> QED
            BY <2>1, <2>2, <2>5, <3>1 DEF ObjectOf
    <2> HIDE DEF s
    <2>6. \A g \in Clients : Needs(g)' => ObjectOf(g)' \in Objs'
        BY <1>0, <2>1, <2>3, <2>4, <2>5 DEF Present
    <2> QED
        BY <2>6 DEF Present
<1>6. ASSUME NEW r \in Requests, RequestRejected(r) PROVE Present'
    <2>1. Running /\ TableSame /\ UNCHANGED number
        BY <1>6 DEF RequestRejected, TableSame
    <2>2. \A c \in Clients : Needs(c)' => Needs(c)
        BY <1>6, Constants DEF RequestRejected, Types, TypeOK, Needs
    <2> QED
        BY <1>0, <2>1, <2>2, PresentSame
<1>7. ASSUME Running, TableSame, UNCHANGED <<number, client>> PROVE Present'
    BY <1>0, <1>7, PresentSame DEF Needs
<1>8. ASSUME NEW f \in Forwards, HelloThrows(f) \/ BrowserSends(f) PROVE Present'
    <2>1. TableSame /\ UNCHANGED <<number, client>> /\ Running
        BY <1>8 DEF HelloThrows, BrowserSends, TableSame
    <2> QED
        BY <2>1, <1>7
<1>9. ASSUME NEW d \in Devices, NEW c \in Clients, ProcessPart(d, c) \/ ForwardPasses(d, c)
      PROVE  Present'
    <2>1. TableSame /\ UNCHANGED <<number, client>> /\ Running
        BY <1>9 DEF ProcessPart, ForwardPasses, Processing, Taking, TableSame
    <2> QED
        BY <2>1, <1>7
<1>10. ASSUME NEW d \in Devices, \/ DeviceConnects(d) \/ DeviceLost(d) \/ DeviceTakes(d)
                                 \/ DeviceAnswers(d) \/ DeviceFails(d) \/ DeviceSends(d)
       PROVE  Present'
    <2>1. Device(d)
        BY <1>10 DEF DeviceConnects, DeviceLost, DeviceTakes, DeviceAnswers, DeviceFails,
                     DeviceSends
    <2>2. TableSame /\ UNCHANGED <<number, client>> /\ Running
        BY <2>1 DEF Device, TableSame
    <2> QED
        BY <2>2, <1>7
<1>11. ASSUME NEW n \in Names, ChooseDevice(n) PROVE Present'
    <2>1. TableSame /\ UNCHANGED <<number, client>> /\ Running
        BY <1>11 DEF ChooseDevice, TableSame
    <2> QED
        BY <2>1, <1>7
<1>12. CASE UNCHANGED vars
    <2>1. TableSame /\ UNCHANGED <<number, client>> /\ Running
        BY <1>12 DEF vars, TableSame, Running
    <2> QED
        BY <2>1, <1>7
<1>13. ASSUME NEW d \in Devices, Dropped(d) PROVE Present'
    <2>1. TableSame /\ UNCHANGED <<number, client>> /\ Running
        BY <1>13 DEF Dropped, Taking, TableSame
    <2> QED
        BY <2>1, <1>7
<1> QED
    BY <1>2, <1>3, <1>4, <1>5, <1>6, <1>8, <1>9, <1>10, <1>11, <1>12, <1>13, Steps

\* A step that throws is a hello into a full table, or the second hang-up in
\* one frame.
LEMMA ThrowStep ==
    ASSUME Types, Tabled, [Next]_vars, ~up'
    PROVE  ~up \/ T!Full \/ cut' = "twice"
<1> SUFFICES ASSUME up, cut' # "twice" PROVE T!Full
    OBVIOUS
<1>0. cut # "twice"
    BY CutTwice
<1> USE DEF table, frame, devices, browsers, links
<1>1. ASSUME NEW f \in Forwards, HangUp(f) PROVE FALSE
    <2>1. Running /\ curr_seq \in T!Numbers /\ Deleted(curr_seq) /\ cut # "now"
          /\ curr_seq # null
        BY <1>1 DEF HangUp, Types, TypeOK
    <2>2. seq2index[curr_seq] \in 0..(cnt - 1)
        BY <1>0, <2>1 DEF Tabled
    <2> QED
        BY <1>0, <2>1, <2>2, DeletedTabled
<1>2. ASSUME NEW d \in Devices, NEW c \in Clients, ResponseEnds(d, c) PROVE FALSE
    <2> DEFINE s == FrameSeq(Head(uplink[d]))
    <2>1. Processing(d, c) /\ Running /\ Deleted(s)
        BY <1>2 DEF ResponseEnds, Processing, Taking
    <2>2. s \in T!Numbers /\ seq2index[s] \in 0..(cnt - 1)
        BY <1>0, <2>1, ProcessingFinds
    <2> QED
        BY <1>0, <2>1, <2>2, DeletedTabled
<1>3. ASSUME NEW r \in Requests PROVE ~Request(r) /\ ~RequestRejected(r)
    BY DEF Request, RequestRejected
<1>4. ASSUME NEW f \in Forwards
      PROVE  ~Hello(f) /\ ~Openning(f) /\ ~BrowserSends(f) /\ (HelloThrows(f) => T!Full)
    BY DEF Hello, Openning, BrowserSends, HelloThrows
<1>5. ASSUME NEW d \in Devices, NEW c \in Clients
      PROVE  ~ProcessPart(d, c) /\ ~ForwardPasses(d, c)
    BY DEF ProcessPart, ForwardPasses
<1>6. ASSUME NEW d \in Devices
      PROVE  ~Dropped(d) /\ ~Device(d)
    BY DEF Dropped, Device
<1>7. ASSUME NEW d \in Devices
      PROVE  ~ (\/ DeviceConnects(d) \/ DeviceLost(d) \/ DeviceTakes(d)
                \/ DeviceAnswers(d) \/ DeviceFails(d) \/ DeviceSends(d))
    BY <1>6 DEF DeviceConnects, DeviceLost, DeviceTakes, DeviceAnswers, DeviceFails,
                DeviceSends
<1>8. ASSUME NEW n \in Names PROVE ~ChooseDevice(n)
    BY DEF ChooseDevice
<1>9. ~UNCHANGED vars
    BY DEF vars
<1> QED
    BY <1>1, <1>2, <1>3, <1>4, <1>5, <1>6, <1>7, <1>8, <1>9, Steps

-----------------------------------------------------------------------------
(* What is under way.                                                      *)

\* The ways a link changes: one message more at the end of it, several, and
\* the first of it gone.
Longer(t, s, m) ==
    /\ Len(t) = Len(s) + 1 /\ t[Len(s) + 1] = m
    /\ \A i \in 1..Len(s) : t[i] = s[i]
Extended(t, s, ms) ==
    /\ Len(t) = Len(s) + Len(ms)
    /\ \A i \in 1..Len(s) : t[i] = s[i]
    /\ \A i \in 1..Len(ms) : t[Len(s) + i] = ms[i]
Shifted(t, s, n) ==
    /\ n \in 0..Len(s) /\ Len(t) = Len(s) - n
    /\ \A i \in 1..Len(t) : t[i] = s[i + n]

LEMMA AppendLonger ==
    ASSUME NEW S, NEW s \in Seq(S), NEW m \in S
    PROVE  Longer(Append(s, m), s, m)
BY DEF Longer

LEMMA ConcatExtended ==
    ASSUME NEW S, NEW s \in Seq(S), NEW ms \in Seq(S)
    PROVE  Extended(s \o ms, s, ms)
<1>1. /\ Len(s \o ms) = Len(s) + Len(ms)
      /\ \A i \in 1..(Len(s) + Len(ms)) :
            (s \o ms)[i] = IF i <= Len(s) THEN s[i] ELSE ms[i - Len(s)]
    BY ConcatProperties
<1>2. Len(s) \in Nat /\ Len(ms) \in Nat
    OBVIOUS
<1>3. \A i \in 1..Len(s) : (s \o ms)[i] = s[i]
    BY <1>1, <1>2
<1>4. ASSUME NEW i \in 1..Len(ms) PROVE (s \o ms)[Len(s) + i] = ms[i]
    <2>1. /\ Len(s) + i \in 1..(Len(s) + Len(ms)) /\ ~(Len(s) + i <= Len(s))
          /\ (Len(s) + i) - Len(s) = i
        BY <1>2
    <2> QED
        BY <1>1, <2>1
<1> QED
    BY <1>1, <1>3, <1>4 DEF Extended

LEMMA NewElements ==
    ASSUME NEW s, NEW t, NEW ms, Len(s) \in Nat, Len(ms) \in Nat, Extended(t, s, ms)
    PROVE  \A i \in 1..Len(t) : \/ \E k \in 1..Len(s) : i = k /\ t[i] = s[k]
                                \/ \E k \in 1..Len(ms) : i = Len(s) + k /\ t[i] = ms[k]
<1> SUFFICES ASSUME NEW i \in 1..Len(t), ~(i \in 1..Len(s))
             PROVE  \E k \in 1..Len(ms) : i = Len(s) + k /\ t[i] = ms[k]
    BY DEF Extended
<1>1. i - Len(s) \in 1..Len(ms) /\ Len(s) + (i - Len(s)) = i
    BY DEF Extended
<1> QED
    BY <1>1 DEF Extended

LEMMA ShiftedElements ==
    ASSUME NEW s, NEW t, NEW n, Len(s) \in Nat, Shifted(t, s, n)
    PROVE  /\ n \in Nat /\ Len(t) \in Nat
           /\ \A i \in 1..Len(t) : i + n \in 1..Len(s) /\ t[i] = s[i + n]
BY DEF Shifted

LEMMA TailShifted ==
    ASSUME NEW S, NEW s \in Seq(S), s # <<>>
    PROVE  Shifted(Tail(s), s, 1) /\ Head(s) = s[1] /\ Len(s) \in Nat \ {0}
<1>1. Len(s) \in Nat \ {0} /\ Head(s) = s[1] /\ Len(Tail(s)) = Len(s) - 1
    OBVIOUS
<1>2. \A i \in 1..Len(Tail(s)) : Tail(s)[i] = s[i + 1]
    BY <1>1
<1> QED
    BY <1>1, <1>2 DEF Shifted

LEMMA SubSeqShifted ==
    ASSUME NEW S, NEW s \in Seq(S), NEW n \in 0..Len(s)
    PROVE  Shifted(SubSeq(s, n + 1, Len(s)), s, n)
<1>1. Len(s) \in Nat
    OBVIOUS
<1>2. Len(SubSeq(s, n + 1, Len(s))) = Len(s) - n
    BY <1>1
<1>3. \A i \in 1..(Len(s) - n) : SubSeq(s, n + 1, Len(s))[i] = s[i + n]
    BY <1>1
<1> QED
    BY <1>2, <1>3 DEF Shifted

LEMMA EmptyShifted ==
    ASSUME NEW S, NEW s \in Seq(S)
    PROVE  Shifted(<<>>, s, Len(s)) /\ Shifted(s, s, 0)
BY DEF Shifted

\* What each step does to the links.
LEMMA SendIs ==
    ASSUME Types, NEW d \in Devices, NEW f \in Downs, Send(d, f)
    PROVE  Longer(downlink'[d], downlink[d], f)
           /\ \A e \in Devices : e # d => downlink'[e] = downlink[e]
<1>1. downlink[d] \in Seq(Downs)
    BY DEF Types
<1> QED
    BY <1>1, AppendLonger DEF Types, Send

LEMMA DownTaken ==
    ASSUME Types, NEW d \in Devices, downlink[d] # <<>>,
           downlink' = [downlink EXCEPT ![d] = Tail(@)]
    PROVE  /\ Shifted(downlink'[d], downlink[d], 1)
           /\ \A e \in Devices : e # d => downlink'[e] = downlink[e]
           /\ Head(downlink[d]) = downlink[d][1] /\ Len(downlink[d]) \in Nat \ {0}
<1>1. downlink[d] \in Seq(Downs)
    BY DEF Types
<1> QED
    BY <1>1, TailShifted DEF Types

LEMMA UpTaken ==
    ASSUME Types, NEW d \in Devices, Taking(d)
    PROVE  /\ Shifted(uplink'[d], uplink[d], 1)
           /\ \A e \in Devices : e # d => uplink'[e] = uplink[e]
           /\ Head(uplink[d]) = uplink[d][1] /\ Len(uplink[d]) \in Nat \ {0}
<1>1. uplink[d] \in Seq(Ups)
    BY DEF Types
<1> QED
    BY <1>1, TailShifted DEF Types, Taking

LEMMA LinksLost ==
    ASSUME Types, NEW d \in Devices, DeviceLost(d)
    PROVE  /\ downlink'[d] = <<>>
           /\ \E n \in 0..Len(uplink[d]) : Shifted(uplink'[d], uplink[d], n)
           /\ \A e \in Devices :
                 e # d => downlink'[e] = downlink[e] /\ uplink'[e] = uplink[e]
           /\ \A e \in Devices : serving'[e] \subseteq serving[e]
           /\ \A j \in serving'[d] : j.type = "open"
<1>1. uplink[d] \in Seq(Ups)
    BY DEF Types
<1>2. PICK n \in 0..Len(uplink[d]) :
         uplink' = [uplink EXCEPT ![d] = SubSeq(@, n + 1, Len(@))]
    BY DEF DeviceLost
<1>3. Shifted(uplink'[d], uplink[d], n)
    BY <1>1, <1>2, SubSeqShifted DEF Types
<1> QED
    BY <1>2, <1>3 DEF Types, DeviceLost

LEMMA UpAppended ==
    ASSUME Types, NEW d \in Devices, NEW m \in Ups,
           uplink' = [uplink EXCEPT ![d] = Append(@, m)]
    PROVE  /\ Longer(uplink'[d], uplink[d], m)
           /\ \A e \in Devices : e # d => uplink'[e] = uplink[e]
<1>1. uplink[d] \in Seq(Ups)
    BY DEF Types
<1> QED
    BY <1>1, AppendLonger DEF Types

\* A context of a request ends with a response or an error.
AnswersWith(d, j, ms) ==
    /\ j \in serving[d] /\ j \in Jobs /\ j.type = "http" /\ j.of \in Requests
    /\ serving'[d] = serving[d] \ {j}
    /\ \A e \in Devices : e # d => serving'[e] = serving[e] /\ uplink'[e] = uplink[e]
    /\ Extended(uplink'[d], uplink[d], ms)
    /\ Len(ms) >= 1 /\ ms[1] = Header(j.seq, ms[1].total, Piece(j.of, 1))
    /\ \A k \in 1..(Len(ms) - 1) : ms[k + 1] = Body(Piece(j.of, k + 1))
    /\ j.of \in Refusable \/ ms[1].total = Len(ms)

\* The other messages of an answer are not heads.
LEMMA AnswerBodies ==
    ASSUME NEW ms \in Seq(Ups), NEW k,
           \A i \in 1..(Len(ms) - 1) : ms[i + 1] = Body(Piece(k, i + 1))
    PROVE  \A i \in 1..Len(ms) : i = 1 \/ ~ms[i].head
<1> SUFFICES ASSUME NEW i \in 1..Len(ms), i # 1 PROVE ~ms[i].head
    OBVIOUS
<1>1. i - 1 \in 1..(Len(ms) - 1) /\ (i - 1) + 1 = i
    OBVIOUS
<1>2. ms[(i - 1) + 1] = Body(Piece(k, (i - 1) + 1))
    BY <1>1
<1> QED
    BY <1>1, <1>2 DEF Body

LEMMA AnswersIs ==
    ASSUME Types, NEW d \in Devices, DeviceAnswers(d) \/ DeviceFails(d)
    PROVE  \E j \in serving[d], ms \in Seq(Ups) : AnswersWith(d, j, ms)
<1>1. uplink[d] \in Seq(Ups)
    BY DEF Types
<1>2. CASE DeviceAnswers(d)
    <2>1. PICK j \in serving[d], n \in 1..MaxPieces :
             /\ j.type = "http"
             /\ serving' = [serving EXCEPT ![d] = @ \ {j}]
             /\ uplink' = [uplink EXCEPT ![d] =
                   @ \o <<Header(j.seq, n, Piece(j.of, 1))>>
                     \o [i \in 1..(n - 1) |-> Body(Piece(j.of, i + 1))]]
        BY <1>2 DEF DeviceAnswers
    <2>2. j \in Jobs /\ j \in Downs /\ j.of \in Requests /\ n \in Nat /\ n > 0
        BY <2>1, ConstantsAssumption DEF Types, Jobs, Downs
    <2> DEFINE ms == Answer(j, n)
    <2>3. uplink'[d] = uplink[d] \o ms
        BY <1>1, <2>1, <2>2, AnswerAppended DEF Types
    <2>4. /\ ms \in Seq(Ups) /\ Len(ms) = n
          /\ ms[1] = Header(j.seq, n, Piece(j.of, 1))
          /\ \A k \in 1..(n - 1) : ms[k + 1] = Body(Piece(j.of, k + 1))
        BY <2>2, AnswerIs
    <2> HIDE DEF ms
    <2>5. Extended(uplink'[d], uplink[d], ms)
        BY <1>1, <2>3, <2>4, ConcatExtended
    <2>6. ms[1].total = n
        BY <2>4 DEF Header
    <2>7. /\ serving'[d] = serving[d] \ {j}
          /\ \A e \in Devices : e # d => serving'[e] = serving[e] /\ uplink'[e] = uplink[e]
        BY <2>1 DEF Types
    <2>8. AnswersWith(d, j, ms)
        BY <2>1, <2>2, <2>4, <2>5, <2>6, <2>7 DEF AnswersWith
    <2> QED
        BY <2>4, <2>8
<1>3. CASE DeviceFails(d)
    <2>1. PICK j \in serving[d] :
             /\ j.type = "http" /\ j.of \in Refusable
             /\ serving' = [serving EXCEPT ![d] = @ \ {j}]
             /\ uplink' = [uplink EXCEPT ![d] =
                   Append(@, Header(j.seq, WrongLength, Piece(j.of, 1)))]
        BY <1>3 DEF DeviceFails
    <2>2. j \in Jobs /\ j \in Downs /\ j.of \in Requests
        BY <2>1 DEF Types, Jobs, Downs
    <2> DEFINE m  == Header(j.seq, WrongLength, Piece(j.of, 1))
               ms == <<m>>
    <2>3. m \in Ups
        BY <2>2, FrameTypes DEF WrongLength, Downs
    <2>4. Longer(uplink'[d], uplink[d], m)
          /\ \A e \in Devices : e # d => uplink'[e] = uplink[e]
        BY <2>1, <2>3, UpAppended
    <2>5. ms \in Seq(Ups) /\ Len(ms) = 1 /\ ms[1] = m
        BY <2>3
    <2>6. m.total = WrongLength
        BY DEF Header
    <2> HIDE DEF ms
    <2>7. Extended(uplink'[d], uplink[d], ms)
        BY <2>4, <2>5 DEF Longer, Extended
    <2>8. /\ serving'[d] = serving[d] \ {j}
          /\ \A e \in Devices : e # d => serving'[e] = serving[e]
        BY <2>1 DEF Types
    <2>9. \A k \in 1..(Len(ms) - 1) : ms[k + 1] = Body(Piece(j.of, k + 1))
        BY <2>5
    <2>10. AnswersWith(d, j, ms)
        BY <2>1, <2>2, <2>4, <2>5, <2>6, <2>7, <2>8, <2>9 DEF AnswersWith
    <2> QED
        BY <2>5, <2>10
<1> QED
    BY <1>2, <1>3

\* A forward's socket has been read, for the last time perhaps.
SendsOf(d, j) ==
    /\ j \in serving[d] /\ j \in Jobs /\ j.type = "open" /\ j.of \in Forwards
    /\ serving'[d] \subseteq serving[d]
    /\ \A e \in Devices : e # d => serving'[e] = serving[e] /\ uplink'[e] = uplink[e]
    /\ Longer(uplink'[d], uplink[d], Header(j.seq, 1, Piece(j.of, sent[j.of].up + 1)))
    /\ sent'[j.of].up = sent[j.of].up + 1
    /\ \A f \in Forwards : /\ sent'[f].down = sent[f].down
                           /\ f # j.of => sent'[f].up = sent[f].up

LEMMA SendsIs ==
    ASSUME Types, NEW d \in Devices, DeviceSends(d)
    PROVE  \E j \in serving[d] : SendsOf(d, j)
<1>1. PICK j \in serving[d], last \in BOOLEAN :
         /\ j.type = "open"
         /\ sent' = [sent EXCEPT ![j.of].up = @ + 1]
         /\ uplink' = [uplink EXCEPT ![d] =
               Append(@, Header(j.seq, 1, Piece(j.of, sent[j.of].up + 1)))]
         /\ serving' = [serving EXCEPT ![d] = IF last THEN @ \ {j} ELSE @]
    BY DEF DeviceSends
<1>2. j \in Jobs /\ j.of \in Forwards /\ j.of \in Clients /\ j.seq \in T!Numbers
    BY <1>1 DEF Types, Jobs, Downs, Clients
<1>3. sent \in [Forwards -> [up : Nat, down : Nat]]
    BY DEF Types
<1>4. sent[j.of].up + 1 \in Nat
    BY <1>2, <1>3
<1>5. Header(j.seq, 1, Piece(j.of, sent[j.of].up + 1)) \in Ups
    BY <1>2, <1>4, FrameTypes
<1>6. /\ Longer(uplink'[d], uplink[d], Header(j.seq, 1, Piece(j.of, sent[j.of].up + 1)))
      /\ \A e \in Devices : e # d => uplink'[e] = uplink[e]
    BY <1>1, <1>5, UpAppended
<1>7. /\ sent'[j.of].up = sent[j.of].up + 1
      /\ \A f \in Forwards : /\ sent'[f].down = sent[f].down
                             /\ f # j.of => sent'[f].up = sent[f].up
    BY <1>1, <1>2, <1>3
<1>8. /\ serving'[d] \subseteq serving[d]
      /\ \A e \in Devices : e # d => serving'[e] = serving[e]
    BY <1>1 DEF Types
<1> QED
    BY <1>1, <1>2, <1>6, <1>7, <1>8 DEF SendsOf

\* What a device does with a frame: an order becomes a job, data goes to the
\* forwards it is for, and a close ends them.
TakesOrder(d) ==
    LET f == downlink[d][1]
    IN  /\ f.type \in {"http", "open"} /\ UNCHANGED <<uplink, lan>>
        /\ serving'[d] = serving[d] \cup {f}
        /\ \A e \in Devices : e # d => serving'[e] = serving[e]
TakesData(d) ==
    LET f == downlink[d][1]
    IN  /\ f.type = "data" /\ f.of \in Forwards /\ UNCHANGED <<uplink, serving>>
        /\ \A c \in Forwards :
              lan'[c] = IF \E j \in serving[d] : j.type = "open" /\ j.seq = f.seq /\ j.of = c
                        THEN Append(lan[c], f.data) ELSE lan[c]
TakesClose(d) ==
    LET f == downlink[d][1]
    IN  /\ f.type = "close" /\ f.of \in Forwards /\ UNCHANGED lan
        /\ \A j \in serving'[d] : j \in serving[d] /\ ~(j.type = "open" /\ j.seq = f.seq)
        /\ \A e \in Devices : e # d => serving'[e] = serving[e] /\ uplink'[e] = uplink[e]
        /\ \/ UNCHANGED uplink
           \/ /\ \E j \in serving[d] : j.type = "open" /\ j.seq = f.seq
              /\ Longer(uplink'[d], uplink[d],
                        Header(f.seq, 1, Piece(f.of, sent[f.of].up + 1)))

LEMMA TakesIs ==
    ASSUME Types, NEW d \in Devices, DeviceTakes(d)
    PROVE  /\ downlink[d][1] \in Downs /\ downlink[d] # <<>>
           /\ downlink' = [downlink EXCEPT ![d] = Tail(@)]
           /\ TakesOrder(d) \/ TakesData(d) \/ TakesClose(d)
           /\ UNCHANGED sent
<1> DEFINE f == Head(downlink[d])
           mine == {j \in serving[d] : j.type = "open" /\ j.seq = f.seq}
<1>1. downlink[d] \in Seq(Downs) /\ downlink[d] # <<>>
    BY DEF DeviceTakes, Types
<1>2. f \in Downs /\ f = downlink[d][1]
    BY <1>1
<1>3. ASSUME f.type \in {"http", "open"} /\ serving' = [serving EXCEPT ![d] = @ \cup {f}]
             /\ UNCHANGED <<uplink, lan>>
      PROVE  TakesOrder(d)
    BY <1>2, <1>3 DEF TakesOrder, Types
<1>4. ASSUME f.type = "data" /\ UNCHANGED <<uplink, serving>>
             /\ lan' = [c \in Forwards |->
                  IF \E j \in mine : j.of = c THEN Append(lan[c], f.data) ELSE lan[c]]
      PROVE  TakesData(d)
    <2>1. f.of \in Forwards
        BY <1>2, <1>4 DEF Downs, Clients
    <2>2. \A c \in Forwards : (\E j \in mine : j.of = c) <=>
              \E j \in serving[d] : j.type = "open" /\ j.seq = f.seq /\ j.of = c
        OBVIOUS
    <2> HIDE DEF f, mine
    <2> QED
        BY <1>2, <1>4, <2>1, <2>2 DEF TakesData
<1>5. ASSUME f.type = "close" /\ serving' = [serving EXCEPT ![d] = @ \ mine]
             /\ UNCHANGED lan
             /\ uplink' = IF mine = {} THEN uplink
                          ELSE [uplink EXCEPT ![d] = Append(@,
                                  Header(f.seq, 1, Piece(f.of, sent[f.of].up + 1)))]
      PROVE  TakesClose(d)
    <2>1. f.of \in Forwards /\ f.seq \in T!Numbers /\ f.of \in Clients
        BY <1>2, <1>5 DEF Downs, Clients
    <2>2. sent[f.of].up + 1 \in Nat
        BY <2>1 DEF Types
    <2>3. Header(f.seq, 1, Piece(f.of, sent[f.of].up + 1)) \in Ups
        BY <2>1, <2>2, FrameTypes
    <2>4. /\ serving'[d] = serving[d] \ mine
          /\ \A e \in Devices : e # d => serving'[e] = serving[e]
        BY <1>5 DEF Types
    <2>5. CASE mine = {}
        BY <1>2, <1>5, <2>1, <2>4, <2>5 DEF TakesClose
    <2>6. CASE mine # {}
        <3>1. /\ Longer(uplink'[d], uplink[d],
                        Header(f.seq, 1, Piece(f.of, sent[f.of].up + 1)))
              /\ \A e \in Devices : e # d => uplink'[e] = uplink[e]
            BY <1>5, <2>3, <2>6, UpAppended
        <3>2. \E j \in serving[d] : j.type = "open" /\ j.seq = f.seq
            BY <2>6
        <3>3. \A j \in serving'[d] : j \in serving[d] /\ ~(j.type = "open" /\ j.seq = f.seq)
            BY <2>4
        <3>4. f.type = "close" /\ UNCHANGED lan /\ f = downlink[d][1]
            BY <1>2, <1>5
        <3> QED
            BY <2>1, <2>4, <3>1, <3>2, <3>3, <3>4 DEF TakesClose
    <2> QED
        BY <2>5, <2>6
<1> QED
    BY <1>1, <1>2, <1>3, <1>4, <1>5 DEF DeviceTakes

\* What the server puts on a link, and for whom: an order for one who had
\* none, or something more for a forward that is past that.
Puts(d, f) ==
    /\ f \in Downs /\ f.seq = number'[f.of]
    /\ Longer(downlink'[d], downlink[d], f)
    /\ \A e \in Devices : e # d => downlink'[e] = downlink[e]
    /\ \/ /\ f.type = "http" /\ client[f.of] = "idle" /\ client'[f.of] = "open"
          /\ UNCHANGED sent
       \/ /\ f.type = "open" /\ client[f.of] = "greeted" /\ client'[f.of] = "open"
          /\ UNCHANGED sent
       \/ /\ f.type = "data" /\ client[f.of] = "open" /\ UNCHANGED client
          /\ f.data.n = sent[f.of].down + 1 /\ sent'[f.of].down = f.data.n
       \/ f.type = "close" /\ UNCHANGED sent

\* The steps of the browsers' side.
Serves ==
    \/ \E r \in Requests : Request(r) \/ RequestRejected(r)
    \/ \E f \in Forwards : Hello(f) \/ HelloThrows(f) \/ Openning(f)
    \/ \E f \in Forwards : BrowserSends(f) \/ HangUp(f)

LEMMA ServesIs ==
    ASSUME Types, Numbered, Serves
    PROVE  /\ UNCHANGED <<uplink, serving, lan>>
           /\ UNCHANGED downlink \/ \E d \in Devices, f \in Downs : Puts(d, f)
           /\ \A c \in Clients : number'[c] = number[c] \/ number[c] = null
           /\ \A c \in Clients : \/ client'[c] = client[c] \/ client[c] = "idle"
                                 \/ client'[c] \notin {"idle", "greeted"}
           /\ \A f \in Forwards :
                 /\ sent'[f].up = sent[f].up
                 /\ sent'[f].down = sent[f].down
                    \/ (BrowserSends(f) /\ sent'[f].down = sent[f].down + 1)
<1> DEFINE Goal ==
           /\ UNCHANGED <<uplink, serving, lan>>
           /\ UNCHANGED downlink \/ \E d \in Devices, f \in Downs : Puts(d, f)
           /\ \A c \in Clients : number'[c] = number[c] \/ number[c] = null
           /\ \A c \in Clients : \/ client'[c] = client[c] \/ client[c] = "idle"
                                 \/ client'[c] \notin {"idle", "greeted"}
           /\ \A f \in Forwards :
                 /\ sent'[f].up = sent[f].up
                 /\ sent'[f].down = sent[f].down
                    \/ (BrowserSends(f) /\ sent'[f].down = sent[f].down + 1)
<1> USE DEF devices, browsers, links
<1>0. /\ client \in [Clients -> {"idle", "greeted", "open", "over"}]
      /\ number \in [Clients -> T!Numbers \cup {null}]
      /\ sent \in [Forwards -> [up : Nat, down : Nat]]
    BY DEF Types, TypeOK
<1>1. ASSUME NEW r \in Requests, Request(r) PROVE Goal
    <2> DEFINE f == Frame("http", T!NextSeq, r)
    <2>1. /\ r \in Clients /\ client[r] = "idle" /\ NewProcessor(r, "open")
          /\ UNCHANGED <<uplink, serving, lan, sent>>
        BY <1>1 DEF Request, Clients
    <2>2. T!NextSeq \in T!Numbers
        BY <2>1, NewTypes
    <2>3. f \in Downs /\ f.type = "http" /\ f.of = r /\ f.seq = T!NextSeq
        BY <2>1, <2>2, FrameTypes DEF Frame
    <2>4. /\ number' = [number EXCEPT ![r] = T!NextSeq]
          /\ client' = [client EXCEPT ![r] = "open"]
        BY <2>1 DEF NewProcessor
    <2>5. CurrConn \in Devices /\ Send(CurrConn, f)
        BY <1>1, CurrConnType DEF Request
    <2>6. number[r] = null
        BY <2>1 DEF Numbered
    <2> HIDE DEF f
    <2>7. Longer(downlink'[CurrConn], downlink[CurrConn], f)
          /\ \A e \in Devices : e # CurrConn => downlink'[e] = downlink[e]
        BY <2>3, <2>5, SendIs
    <2>8. Puts(CurrConn, f)
        BY <1>0, <2>1, <2>3, <2>4, <2>7 DEF Puts
    <2>9. \E d \in Devices, g \in Downs : Puts(d, g)
        BY <2>3, <2>5, <2>8
    <2> QED
        BY <1>0, <2>1, <2>4, <2>6, <2>9
<1>2. ASSUME NEW r \in Requests, RequestRejected(r) PROVE Goal
    BY <1>0, <1>2 DEF RequestRejected
<1>3. ASSUME NEW f \in Forwards, Hello(f) PROVE Goal
    <2>1. f \in Clients /\ client[f] = "idle" /\ NewProcessor(f, "greeted")
          /\ UNCHANGED <<links>>
        BY <1>3 DEF Hello, Clients
    <2>2. number[f] = null
        BY <2>1 DEF Numbered
    <2>3. /\ number' = [number EXCEPT ![f] = T!NextSeq]
          /\ client' = [client EXCEPT ![f] = "greeted"]
        BY <2>1 DEF NewProcessor
    <2> QED
        BY <1>0, <2>1, <2>2, <2>3
<1>4. ASSUME NEW f \in Forwards, HelloThrows(f) PROVE Goal
    BY <1>4 DEF HelloThrows
<1>5. ASSUME NEW f \in Forwards, Openning(f) PROVE Goal
    <2> DEFINE g == Frame("open", number[f], f)
    <2>1. /\ f \in Clients /\ client[f] = "greeted" /\ number[f] \in T!Numbers
          /\ client' = [client EXCEPT ![f] = "open"]
          /\ UNCHANGED <<number, uplink, serving, lan, sent>>
        BY <1>5 DEF Openning, Clients, Numbered
    <2>2. g \in Downs /\ g.type = "open" /\ g.of = f /\ g.seq = number[f]
        BY <2>1, FrameTypes DEF Frame
    <2>3. UNCHANGED downlink \/ (CurrConn \in Devices /\ Send(CurrConn, g))
        BY <1>5, CurrConnType DEF Openning
    <2> HIDE DEF g
    <2>4. ASSUME CurrConn \in Devices, Send(CurrConn, g) PROVE Puts(CurrConn, g)
        <3>1. Longer(downlink'[CurrConn], downlink[CurrConn], g)
              /\ \A e \in Devices : e # CurrConn => downlink'[e] = downlink[e]
            BY <2>2, <2>4, SendIs
        <3> QED
            BY <1>0, <2>1, <2>2, <3>1 DEF Puts
    <2>5. UNCHANGED downlink \/ \E d \in Devices, h \in Downs : Puts(d, h)
        BY <2>2, <2>3, <2>4
    <2> QED
        BY <1>0, <2>1, <2>5
<1>6. ASSUME NEW f \in Forwards, BrowserSends(f) PROVE Goal
    <2> DEFINE n == sent[f].down + 1
               g == DataFrame(number[f], Piece(f, n))
    <2>1. /\ f \in Clients /\ client[f] = "open" /\ number[f] \in T!Numbers
          /\ UNCHANGED <<client, number, uplink, serving, lan>>
          /\ sent' = [sent EXCEPT ![f].down = n] /\ n \in Nat
        BY <1>0, <1>6 DEF BrowserSends, Clients, Numbered
    <2>2. g \in Downs /\ g.type = "data" /\ g.of = f /\ g.seq = number[f] /\ g.data.n = n
        BY <2>1, FrameTypes DEF DataFrame, Frame, Piece
    <2>3. UNCHANGED downlink \/ (CurrConn \in Devices /\ Send(CurrConn, g))
        BY <1>6, CurrConnType DEF BrowserSends
    <2> HIDE DEF g
    <2>4. ASSUME CurrConn \in Devices, Send(CurrConn, g) PROVE Puts(CurrConn, g)
        <3>1. Longer(downlink'[CurrConn], downlink[CurrConn], g)
              /\ \A e \in Devices : e # CurrConn => downlink'[e] = downlink[e]
            BY <2>2, <2>4, SendIs
        <3> QED
            BY <1>0, <2>1, <2>2, <3>1 DEF Puts
    <2>5. UNCHANGED downlink \/ \E d \in Devices, h \in Downs : Puts(d, h)
        BY <2>2, <2>3, <2>4
    <2>6. \A h \in Forwards :
                 /\ sent'[h].up = sent[h].up
                 /\ sent'[h].down = sent[h].down
                    \/ (BrowserSends(h) /\ sent'[h].down = sent[h].down + 1)
        BY <1>0, <1>6, <2>1
    <2> QED
        BY <1>0, <2>1, <2>5, <2>6
<1>7. ASSUME NEW f \in Forwards, HangUp(f) PROVE Goal
    <2> DEFINE d == connections[session[f]]
               g == Frame("close", number[f], f)
    <2>1. /\ f \in Clients /\ number[f] \in T!Numbers /\ session[f] \in Names
          /\ client' = [client EXCEPT ![f] = "over"]
          /\ UNCHANGED <<number, uplink, serving, lan, sent>>
        BY <1>7 DEF HangUp, Clients, Numbered, Types, TypeOK
    <2>2. g \in Downs /\ g.type = "close" /\ g.of = f /\ g.seq = number[f]
        BY <2>1, FrameTypes DEF Frame
    <2>3. UNCHANGED downlink \/ (d \in Devices /\ Send(d, g))
        BY <1>7, <2>1 DEF HangUp, Types, TypeOK
    <2> HIDE DEF g, d
    <2>4. ASSUME d \in Devices, Send(d, g) PROVE Puts(d, g)
        <3>1. Longer(downlink'[d], downlink[d], g)
              /\ \A e \in Devices : e # d => downlink'[e] = downlink[e]
            BY <2>2, <2>4, SendIs
        <3> QED
            BY <1>0, <2>1, <2>2, <3>1 DEF Puts
    <2>5. UNCHANGED downlink \/ \E e \in Devices, h \in Downs : Puts(e, h)
        BY <2>2, <2>3, <2>4
    <2> QED
        BY <1>0, <2>1, <2>5
<1> QED
    BY <1>1, <1>2, <1>3, <1>4, <1>5, <1>6, <1>7 DEF Serves

-----------------------------------------------------------------------------
(* What numbers are worth.                                                 *)

\* The part of the invariant that is about the table.
Base == Types /\ Numbered /\ Tabled /\ Present

LEMMA BaseInit == Init => Base
<1> SUFFICES ASSUME Init PROVE Base
    OBVIOUS
<1>1. TP!Init
    BY DEF Init, T!Init, TP!Init, T!Numbers, TP!Numbers
<1>2. TP!NullAssumption /\ TP!SizeAssumption
    BY Constants
<1>3. TP!IndInv /\ TP!InTable = {}
    BY <1>1, <1>2, TP!InitIndInv DEF TP!InTable, TP!Init
<1>4. Sound /\ Objs = {}
    BY <1>3, SoundIs
<1>5. TypeOK
    BY <1>4 DEF Init, TypeOK, Sound
<1>6. /\ got \in [Clients -> Seq(Pieces)]
      /\ downlink \in [Devices -> Seq(Downs)] /\ uplink \in [Devices -> Seq(Ups)]
      /\ serving \in [Devices -> SUBSET Jobs] /\ lan \in [Forwards -> Seq(Pieces)]
      /\ sent \in [Forwards -> [up : Nat, down : Nat]]
    BY DEF Init
<1>7. Types
    BY <1>5, <1>6 DEF Init, Types
<1>8. Numbered
    BY DEF Init, Numbered, Clients
<1>9. Tabled
    BY <1>4 DEF Init, Tabled, Sound
<1>10. Present
    BY DEF Init, Present, Needs
<1> QED
    BY <1>7, <1>8, <1>9, <1>10 DEF Base

LEMMA BaseStep == Base /\ [Next]_vars => Base'
BY TypesStep, NumberedStep, TabledStep, PresentStep DEF Base

LEMMA BaseInvariant == Spec => []Base
<1>1. Init => Base
    BY BaseInit
<1>2. Base /\ [Next]_vars => Base'
    BY BaseStep
<1> QED
    BY <1>1, <1>2, PTL DEF Spec

\* Every variable has its type, the sequence numbers that are in use are in
\* the table's range, and a forward's session is a name that was chosen.
THEOREM TypeCorrect == Spec => []TypeOK
<1>1. Base => TypeOK
    BY DEF Base, Types
<1> QED
    BY <1>1, BaseInvariant, PTL

\* UserMgmr calls delSeq for curr_seq, whatever it is by then, and yet keeps
\* its table as one object at a time: packed, and each found under its number
\* (as long as no two hang-ups give back the number of one frame).
THEOREM TableIsKept == Spec => []TableKept
<1>1. Base => TableKept
    BY DEF Base, Tabled, TableKept
<1> QED
    BY <1>1, BaseInvariant, PTL

\* getBySeq finds the processor of every request being served and of every
\* forward that is open, whatever numbers are given out and back.
THEOREM WaitingFound == Spec => []WaitingIsFound
<1>1. Base => WaitingIsFound
    <2> SUFFICES ASSUME Base, NEW c \in Clients, Running, cut = "never",
                        client[c] \in {"greeted", "open"}
                 PROVE  /\ number[c] \in T!Taken
                        /\ T!getBySeq(number[c]) = [who |-> c, seq |-> number[c]]
        BY DEF WaitingIsFound
    <2>1. Sound /\ ObjectOf(c) \in Objs
        BY DEF Base, Types, TypeOK, Tabled, Present, Sound, Needs
    <2>2. ObjectOf(c).seq = number[c]
        BY DEF ObjectOf
    <2> QED
        BY <2>1, <2>2, Found DEF ObjectOf
<1> QED
    BY <1>1, BaseInvariant, PTL

\* The delSeq at the end of HttpProcessor.processBuffer deletes the processor
\* of that request, and no processor of a request is left behind.
THEOREM RequestsGone == Spec => []RequestsForgotten
<1>1. Base => RequestsForgotten
    BY DEF Base, Tabled, RequestsForgotten, Objs
<1> QED
    BY <1>1, BaseInvariant, PTL

\* delSeq never writes through an index that is not there: what ends the
\* process is the hello that finds the table full, or the second hang-up in
\* one frame.
THEOREM HelloThrowsOnly == Spec => OnlyHelloThrows
<1>1. Base /\ [Next]_vars => [up' \/ T!Full \/ cut' = "twice"]_up
    <2> SUFFICES ASSUME Base, [Next]_vars, ~up' PROVE up' = up \/ T!Full \/ cut' = "twice"
        OBVIOUS
    <2>1. ~up \/ T!Full \/ cut' = "twice"
        BY ThrowStep DEF Base
    <2>2. up \in BOOLEAN /\ up' \in BOOLEAN
        BY BaseStep DEF Base, Types
    <2> QED
        BY <2>1, <2>2, Zenon
<1> QED
    BY <1>1, BaseInvariant, PTL DEF Spec, OnlyHelloThrows

-----------------------------------------------------------------------------
(* What is under way carries the number of its client.                     *)

\* Everything a device does.
DeviceActs(d) ==
    \/ DeviceLost(d) \/ DeviceTakes(d) \/ DeviceAnswers(d) \/ DeviceFails(d) \/ DeviceSends(d)

\* What no property of the links is about.
Still == UNCHANGED <<table, frame, browsers, links, up, reused>>

\* The steps, by what they do to the links.
LEMMA Moves ==
    ASSUME [Next]_vars
    PROVE  \/ Serves
           \/ \E d \in Devices : Dropped(d)
           \/ \E d \in Devices, c \in Clients :
                 ProcessPart(d, c) \/ ResponseEnds(d, c) \/ ForwardPasses(d, c)
           \/ \E d \in Devices : DeviceActs(d)
           \/ Still
<1>1. ASSUME NEW d \in Devices, DeviceConnects(d) PROVE Still
    BY <1>1 DEF DeviceConnects, Device, Still, frame, links
<1>2. ASSUME NEW n \in Names, ChooseDevice(n) PROVE Still
    BY <1>2 DEF ChooseDevice, Still
<1>3. ASSUME UNCHANGED vars PROVE Still
    BY <1>3 DEF vars, Still
<1> QED
    BY <1>1, <1>2, <1>3, Steps DEF Serves, DeviceActs

\* A device acts on its own links and nothing else.
LEMMA ActsIs ==
    ASSUME NEW d \in Devices, DeviceActs(d)
    PROVE  Device(d) /\ Running /\ UNCHANGED <<client, number, session, got, start>>
           /\ UNCHANGED <<curr_seq, curr_total, from, cut, up, reused>>
<1>1. Device(d)
    BY DEF DeviceActs, DeviceLost, DeviceTakes, DeviceAnswers, DeviceFails, DeviceSends
<1> QED
    BY <1>1 DEF Device, browsers

\* A message that the server takes is gone, and a request may be over.
Received(d) ==
    \/ Dropped(d)
    \/ \E c \in Clients : ProcessPart(d, c) \/ ResponseEnds(d, c) \/ ForwardPasses(d, c)

LEMMA ReceivedIs ==
    ASSUME Types, NEW d \in Devices, Received(d)
    PROVE  /\ Taking(d) /\ Running
           /\ UNCHANGED <<number, session, downlink, serving, lan, sent, reused>>
           /\ \A c \in Clients : client'[c] = client[c] \/ client'[c] = "over"
           /\ \A f \in Forwards : client'[f] = client[f]
<1>1. Taking(d)
    BY DEF Received, Dropped, ProcessPart, ResponseEnds, ForwardPasses, Processing
<1>2. UNCHANGED client \/ \E r \in Requests : client' = [client EXCEPT ![r] = "over"]
    BY DEF Received, Dropped, ProcessPart, ResponseEnds, ForwardPasses
<1>3. client \in [Clients -> {"idle", "greeted", "open", "over"}]
    BY DEF Types, TypeOK
<1> QED
    BY <1>1, <1>2, <1>3, Constants DEF Taking, Clients

\* Where what is under way comes from.
ForClose(d, m) ==
    LET f == downlink[d][1]
    IN  /\ DeviceTakes(d) /\ f.of \in Forwards
        /\ \E j \in serving[d] : j.type = "open" /\ j.seq = f.seq
        /\ m.seq = f.seq /\ m.piece.of = f.of /\ m.piece.n = sent[f.of].up + 1

Origins ==
    /\ \A c \in Clients : number'[c] = number[c] \/ number[c] = null
    /\ \A d \in Devices : \A i \in 1..Len(downlink'[d]) :
          LET m == downlink'[d][i]
          IN  \/ \E k \in 1..Len(downlink[d]) : m = downlink[d][k]
              \/ /\ m.seq = number'[m.of]
                 /\ m.type \in {"http", "open"} => client[m.of] \in {"idle", "greeted"}
    /\ \A d \in Devices : \A j \in serving'[d] :
          j \in serving[d] \/ \E k \in 1..Len(downlink[d]) : j = downlink[d][k]
    /\ \A d \in Devices : \A i \in 1..Len(uplink'[d]) :
          LET m == uplink'[d][i]
          IN  \/ \E k \in 1..Len(uplink[d]) : m = uplink[d][k]
              \/ ~m.head
              \/ \E j \in serving[d] :
                    /\ m.seq = j.seq /\ m.piece.of = j.of
                    /\ j.of \in Forwards => m.piece.n = sent[j.of].up + 1
              \/ ForClose(d, m)

LEMMA LengthTypes ==
    ASSUME Types, NEW d \in Devices
    PROVE  /\ Len(downlink[d]) \in Nat /\ Len(uplink[d]) \in Nat
           /\ \A i \in 1..Len(downlink[d]) : downlink[d][i] \in Downs
           /\ \A i \in 1..Len(uplink[d]) : uplink[d][i] \in Ups /\ uplink[d][i].piece \in Pieces
           /\ \A j \in serving[d] : j \in Jobs /\ j \in Downs
<1>1. downlink[d] \in Seq(Downs) /\ uplink[d] \in Seq(Ups) /\ serving[d] \subseteq Jobs
    BY DEF Types
<1>2. \A m \in Ups : m.piece \in Pieces
    BY DEF Ups
<1> QED
    BY <1>1, <1>2 DEF Jobs

LEMMA OriginsStep ==
    ASSUME Types, Numbered, [Next]_vars
    PROVE  Origins
<1>0. \A d \in Devices : Len(downlink[d]) \in Nat /\ Len(uplink[d]) \in Nat
    BY LengthTypes
<1>1. CASE Serves
    <2>1. /\ UNCHANGED <<uplink, serving>>
          /\ \A c \in Clients : number'[c] = number[c] \/ number[c] = null
        BY <1>1, ServesIs
    <2>2. CASE UNCHANGED downlink
        BY <2>1, <2>2 DEF Origins
    <2>3. ASSUME NEW d \in Devices, NEW f \in Downs, Puts(d, f) PROVE Origins
        <3>1. /\ f.seq = number'[f.of] /\ Longer(downlink'[d], downlink[d], f)
              /\ f.type \in {"http", "open"} => client[f.of] \in {"idle", "greeted"}
              /\ \A e \in Devices : e # d => downlink'[e] = downlink[e]
            BY <2>3 DEF Puts
        <3>2. \A i \in 1..Len(downlink'[d]) :
                \/ \E k \in 1..Len(downlink[d]) : downlink'[d][i] = downlink[d][k]
                \/ downlink'[d][i] = f
            BY <1>0, <3>1 DEF Longer
        <3> QED
            BY <2>1, <3>1, <3>2 DEF Origins
    <2> QED
        BY <1>1, <2>2, <2>3, ServesIs
<1>2. ASSUME NEW d \in Devices, Received(d) PROVE Origins
    <2>1. UNCHANGED <<number, downlink, serving>> /\ Taking(d)
        BY <1>2, ReceivedIs
    <2>2. /\ Shifted(uplink'[d], uplink[d], 1)
          /\ \A e \in Devices : e # d => uplink'[e] = uplink[e]
        BY <2>1, UpTaken
    <2>3. \A i \in 1..Len(uplink'[d]) :
              \E k \in 1..Len(uplink[d]) : uplink'[d][i] = uplink[d][k]
        BY <1>0, <2>2 DEF Shifted
    <2> QED
        BY <2>1, <2>2, <2>3 DEF Origins
<1>3. ASSUME NEW d \in Devices, DeviceActs(d) PROVE Origins
    <2>0. UNCHANGED number
        BY <1>3, ActsIs
    <2>1. CASE DeviceLost(d)
        <3>1. PICK n \in 0..Len(uplink[d]) : Shifted(uplink'[d], uplink[d], n)
            BY <2>1, LinksLost
        <3>2. /\ downlink'[d] = <<>>
              /\ \A e \in Devices :
                    e # d => downlink'[e] = downlink[e] /\ uplink'[e] = uplink[e]
              /\ \A e \in Devices : serving'[e] \subseteq serving[e]
            BY <2>1, LinksLost
        <3>3. \A i \in 1..Len(uplink'[d]) :
                  \E k \in 1..Len(uplink[d]) : uplink'[d][i] = uplink[d][k]
            <4>1. Len(uplink[d]) \in Nat /\ Shifted(uplink'[d], uplink[d], n)
                BY <1>0, <3>1
            <4>2. \A i \in 1..Len(uplink'[d]) :
                      i + n \in 1..Len(uplink[d]) /\ uplink'[d][i] = uplink[d][i + n]
                BY <4>1, ShiftedElements
            <4> QED
                BY <4>2
        <3> QED
            BY <2>0, <3>2, <3>3 DEF Origins
    <2>2. CASE DeviceTakes(d)
        <3>1. /\ Shifted(downlink'[d], downlink[d], 1) /\ 1 \in 1..Len(downlink[d])
              /\ \A e \in Devices : e # d => downlink'[e] = downlink[e]
            BY <2>2, TakesIs, DownTaken
        <3>2. \A i \in 1..Len(downlink'[d]) :
                  \E k \in 1..Len(downlink[d]) : downlink'[d][i] = downlink[d][k]
            BY <1>0, <3>1 DEF Shifted
        <3>3. CASE TakesOrder(d)
            BY <2>0, <3>1, <3>2, <3>3 DEF TakesOrder, Origins
        <3>4. CASE TakesData(d)
            BY <2>0, <3>1, <3>2, <3>4 DEF TakesData, Origins
        <3>5. CASE TakesClose(d)
            <4> DEFINE f == downlink[d][1]
                       m == Header(f.seq, 1, Piece(f.of, sent[f.of].up + 1))
            <4>1. \A e \in Devices : serving'[e] \subseteq serving[e]
                BY <3>5 DEF TakesClose
            <4>2. /\ \A e \in Devices : e # d => uplink'[e] = uplink[e]
                  /\ UNCHANGED uplink \/ Longer(uplink'[d], uplink[d], m)
                BY <3>5 DEF TakesClose
            <4>3. UNCHANGED uplink \/ ForClose(d, m)
                BY <2>2, <3>5 DEF TakesClose, ForClose, Header, Piece
            <4> HIDE DEF m
            <4>4. \A i \in 1..Len(uplink'[d]) :
                    \/ \E k \in 1..Len(uplink[d]) : uplink'[d][i] = uplink[d][k]
                    \/ uplink'[d][i] = m
                BY <1>0, <4>2 DEF Longer
            <4> QED
                BY <2>0, <3>1, <3>2, <4>1, <4>2, <4>3, <4>4 DEF Origins
        <3> QED
            BY <2>2, <3>3, <3>4, <3>5, TakesIs
    <2>3. CASE DeviceAnswers(d) \/ DeviceFails(d)
        <3>1. PICK j \in serving[d], ms \in Seq(Ups) : AnswersWith(d, j, ms)
            BY <2>3, AnswersIs
        <3>2. UNCHANGED downlink /\ \A e \in Devices : serving'[e] \subseteq serving[e]
            BY <2>3, <3>1 DEF AnswersWith, DeviceAnswers, DeviceFails
        <3>3. /\ \A e \in Devices : e # d => uplink'[e] = uplink[e]
              /\ Extended(uplink'[d], uplink[d], ms) /\ Len(ms) >= 1
              /\ ms[1] = Header(j.seq, ms[1].total, Piece(j.of, 1))
              /\ \A k \in 1..(Len(ms) - 1) : ms[k + 1] = Body(Piece(j.of, k + 1))
            BY <3>1 DEF AnswersWith
        <3>4. ms[1].seq = j.seq /\ ms[1].piece.of = j.of /\ j.of \notin Forwards
            BY <3>1, <3>3, Constants DEF AnswersWith, Header, Piece
        <3>5. \A i \in 1..Len(uplink'[d]) :
                \/ \E k \in 1..Len(uplink[d]) : uplink'[d][i] = uplink[d][k]
                \/ \E k \in 1..Len(ms) : uplink'[d][i] = ms[k]
            <4>0. Len(uplink[d]) \in Nat /\ Len(ms) \in Nat
                BY <1>0
            <4>1. ASSUME NEW i \in 1..Len(uplink'[d]), ~(i \in 1..Len(uplink[d]))
                  PROVE  \E k \in 1..Len(ms) : uplink'[d][i] = ms[k]
                <5>1. /\ i - Len(uplink[d]) \in 1..Len(ms)
                      /\ Len(uplink[d]) + (i - Len(uplink[d])) = i
                    BY <3>3, <4>0, <4>1 DEF Extended
                <5>2. uplink'[d][Len(uplink[d]) + (i - Len(uplink[d]))]
                        = ms[i - Len(uplink[d])]
                    BY <3>3, <5>1 DEF Extended
                <5> QED
                    BY <5>1, <5>2
            <4>2. \A i \in 1..Len(uplink[d]) : uplink'[d][i] = uplink[d][i]
                BY <3>3 DEF Extended
            <4> QED
                BY <4>1, <4>2
        <3>6. \A k \in 1..Len(ms) : k = 1 \/ ~ms[k].head
            BY <3>3, AnswerBodies
        <3>7. ASSUME NEW i \in 1..Len(uplink'[d])
              PROVE  \/ \E k \in 1..Len(uplink[d]) : uplink'[d][i] = uplink[d][k]
                     \/ ~uplink'[d][i].head
                     \/ uplink'[d][i].seq = j.seq /\ uplink'[d][i].piece.of = j.of
            BY <3>4, <3>5, <3>6
        <3>8. j \in serving[d]
            BY <3>1
        <3> QED
            <4>1. \A e \in Devices : \A i \in 1..Len(uplink'[e]) :
                    \/ \E k \in 1..Len(uplink[e]) : uplink'[e][i] = uplink[e][k]
                    \/ ~uplink'[e][i].head
                    \/ \E o \in serving[e] :
                          /\ uplink'[e][i].seq = o.seq /\ uplink'[e][i].piece.of = o.of
                          /\ o.of \in Forwards => uplink'[e][i].piece.n = sent[o.of].up + 1
                BY <3>3, <3>4, <3>7, <3>8
            <4> QED
                BY <2>0, <3>2, <4>1 DEF Origins
    <2>4. CASE DeviceSends(d)
        <3>1. PICK j \in serving[d] : SendsOf(d, j)
            BY <2>4, SendsIs
        <3> DEFINE m == Header(j.seq, 1, Piece(j.of, sent[j.of].up + 1))
        <3>2. UNCHANGED downlink /\ (\A e \in Devices : serving'[e] \subseteq serving[e])
              /\ (\A e \in Devices : e # d => uplink'[e] = uplink[e])
              /\ Longer(uplink'[d], uplink[d], m)
            BY <2>4, <3>1 DEF SendsOf, DeviceSends
        <3>3. m.seq = j.seq /\ m.piece.of = j.of /\ m.piece.n = sent[j.of].up + 1
            BY DEF Header, Piece
        <3> HIDE DEF m
        <3>4. \A i \in 1..Len(uplink'[d]) :
                \/ \E k \in 1..Len(uplink[d]) : uplink'[d][i] = uplink[d][k]
                \/ uplink'[d][i] = m
            BY <1>0, <3>2 DEF Longer
        <3> QED
            BY <2>0, <3>2, <3>3, <3>4 DEF Origins
    <2> QED
        BY <1>3, <2>1, <2>2, <2>3, <2>4 DEF DeviceActs
<1>4. CASE Still
    BY <1>4 DEF Still, links, browsers, Origins
<1> QED
    BY <1>1, <1>2, <1>3, <1>4, Moves DEF Received

LEMMA OwnedStep == Types /\ Types' /\ Numbered /\ Owned /\ [Next]_vars => Owned'
<1> SUFFICES ASSUME Types, Types', Numbered, Owned, [Next]_vars PROVE Owned'
    OBVIOUS
<1>1. Origins
    BY OriginsStep
<1>2. \A c \in Clients : number[c] # null => number'[c] = number[c]
    BY <1>1 DEF Origins
<1>3. \A f \in Downs : f.of \in Clients /\ f.seq # null
    BY Constants DEF Downs
<1>4. \A m \in Ups : m.piece.of \in Clients /\ (m.head => m.seq # null)
    BY Constants DEF Ups, Pieces
<1>5. ASSUME NEW d \in Devices, NEW i \in 1..Len(downlink[d])
      PROVE  downlink[d][i].seq = number'[downlink[d][i].of]
    BY <1>2, <1>3, LengthTypes DEF Owned
<1>6. ASSUME NEW d \in Devices, NEW j \in serving[d] PROVE j.seq = number'[j.of]
    BY <1>2, <1>3, LengthTypes DEF Owned
<1>7. ASSUME NEW d \in Devices, NEW i \in 1..Len(uplink[d]), uplink[d][i].head
      PROVE  uplink[d][i].seq = number'[uplink[d][i].piece.of]
    BY <1>2, <1>4, <1>7, LengthTypes DEF Owned
<1>8. ASSUME NEW d \in Devices, NEW i \in 1..Len(downlink'[d])
      PROVE  downlink'[d][i].seq = number'[downlink'[d][i].of]
    BY <1>1, <1>5 DEF Origins
<1>9. ASSUME NEW d \in Devices, NEW j \in serving'[d] PROVE j.seq = number'[j.of]
    BY <1>1, <1>5, <1>6 DEF Origins
<1>10. ASSUME NEW d \in Devices, NEW i \in 1..Len(uplink'[d]), uplink'[d][i].head
       PROVE  uplink'[d][i].seq = number'[uplink'[d][i].piece.of]
    <2> DEFINE m == uplink'[d][i]
    <2>1. \/ \E k \in 1..Len(uplink[d]) : m = uplink[d][k]
          \/ \E j \in serving[d] : m.seq = j.seq /\ m.piece.of = j.of
          \/ ForClose(d, m)
        BY <1>1, <1>10 DEF Origins
    <2> HIDE DEF m
    <2>2. ASSUME NEW k \in 1..Len(uplink[d]), m = uplink[d][k] PROVE m.seq = number'[m.piece.of]
        BY <1>7, <1>10, <2>2 DEF m
    <2>3. ASSUME NEW j \in serving[d], m.seq = j.seq, m.piece.of = j.of
          PROVE  m.seq = number'[m.piece.of]
        BY <1>6, <2>3
    <2>4. ASSUME ForClose(d, m) PROVE m.seq = number'[m.piece.of]
        <3>1. DeviceTakes(d) /\ m.seq = downlink[d][1].seq /\ m.piece.of = downlink[d][1].of
            BY <2>4 DEF ForClose
        <3>2. 1 \in 1..Len(downlink[d])
            BY <3>1, TakesIs, DownTaken
        <3> QED
            BY <1>5, <3>1, <3>2
    <2> QED
        BY <2>1, <2>2, <2>3, <2>4 DEF m
<1> QED
    BY <1>8, <1>9, <1>10 DEF Owned

\* A hang-up in the middle of a frame is not clean.
LEMMA CuttingStep == Cutting /\ [Next]_vars => Cutting'
<1> SUFFICES ASSUME Cutting, [Next]_vars, clean' PROVE cut' = "never"
    BY DEF Cutting
<1> USE DEF frame
<1>1. ASSUME NEW r \in Requests, Request(r) \/ RequestRejected(r) PROVE cut' = "never"
    BY <1>1 DEF Request, RequestRejected, NewProcessor, Cutting
<1>2. ASSUME NEW f \in Forwards, Hello(f) \/ HelloThrows(f) \/ Openning(f) PROVE cut' = "never"
    BY <1>2 DEF Hello, HelloThrows, Openning, NewProcessor, Cutting
<1>3. ASSUME NEW f \in Forwards, BrowserSends(f) \/ HangUp(f) PROVE cut' = "never"
    BY <1>3 DEF BrowserSends, HangUp, Cutting
<1>4. ASSUME NEW d \in Devices, Dropped(d) PROVE cut' = "never"
    BY <1>4 DEF Dropped, Taking, FrameOver, Cutting
<1>5. ASSUME NEW d \in Devices, NEW c \in Clients,
             ProcessPart(d, c) \/ ResponseEnds(d, c) \/ ForwardPasses(d, c)
      PROVE  cut' = "never"
    BY <1>5 DEF ProcessPart, ResponseEnds, ForwardPasses, Processing, Taking, FrameOver,
                Cutting
<1>6. ASSUME NEW d \in Devices, DeviceActs(d) PROVE cut' = "never"
    <2>1. UNCHANGED cut
        BY <1>6, ActsIs
    <2>2. clean
        BY <1>6 DEF DeviceActs, DeviceLost, DeviceTakes, DeviceAnswers, DeviceFails,
                    DeviceSends
    <2> QED
        BY <2>1, <2>2 DEF Cutting
<1>7. CASE Still
    BY <1>7 DEF Still, Cutting
<1> QED
    BY <1>1, <1>2, <1>3, <1>4, <1>5, <1>6, <1>7, Moves DEF Serves

-----------------------------------------------------------------------------
(* One order for each client.                                              *)

\* What is found on a link that has changed was found on it before, or is new.
LEMMA FoundShifted ==
    ASSUME NEW s, NEW t, NEW n, Len(s) \in Nat, Shifted(t, s, n)
    PROVE  \A c : /\ \A i \in OrdersIn(t, c) : i + n \in OrdersIn(s, c)
                  /\ \A i \in HeadsIn(t, c) : i + n \in HeadsIn(s, c)
                  /\ \A i \in DataIn(t, c) : i + n \in DataIn(s, c)
<1>1. \A i \in 1..Len(t) : i + n \in 1..Len(s) /\ t[i] = s[i + n]
    BY ShiftedElements
<1> QED
    BY <1>1 DEF OrdersIn, HeadsIn, DataIn

LEMMA FoundLonger ==
    ASSUME NEW s, NEW t, NEW m, Len(s) \in Nat, Longer(t, s, m)
    PROVE  \A c :
        /\ \A i \in OrdersIn(t, c) :
              \/ i \in OrdersIn(s, c)
              \/ i = Len(s) + 1 /\ m.of = c /\ m.type \in {"http", "open"}
        /\ \A i \in HeadsIn(t, c) :
              i \in HeadsIn(s, c) \/ (i = Len(s) + 1 /\ m.head /\ m.piece.of = c)
        /\ \A i \in DataIn(t, c) :
              i \in DataIn(s, c) \/ (i = Len(s) + 1 /\ m.of = c /\ m.type = "data")
        /\ DataIn(s, c) \subseteq DataIn(t, c)
<1>1. \A i \in 1..Len(t) : \/ i \in 1..Len(s) /\ t[i] = s[i]
                           \/ i = Len(s) + 1 /\ t[i] = m
    BY DEF Longer
<1>2. \A i \in 1..Len(s) : i \in 1..Len(t) /\ t[i] = s[i]
    BY DEF Longer
<1> QED
    BY <1>1, <1>2 DEF OrdersIn, HeadsIn, DataIn

LEMMA FoundExtended ==
    ASSUME NEW s, NEW t, NEW ms, Len(s) \in Nat, Len(ms) \in Nat, Extended(t, s, ms),
           \A k \in 1..Len(ms) : k = 1 \/ ~ms[k].head
    PROVE  \A c : \A i \in HeadsIn(t, c) :
              i \in HeadsIn(s, c) \/ (i = Len(s) + 1 /\ ms[1].piece.of = c)
<1>1. \A i \in 1..Len(t) : \/ \E k \in 1..Len(s) : i = k /\ t[i] = s[k]
                           \/ \E k \in 1..Len(ms) : i = Len(s) + k /\ t[i] = ms[k]
    BY NewElements
<1> QED
    BY <1>1 DEF HeadsIn

\* A device has no more for a client than it had.
Less(d, c) ==
    /\ \E n \in Nat : \A i \in Orders(d, c)' : i + n \in Orders(d, c)
    /\ JobsOf(d, c)' \subseteq JobsOf(d, c)
    /\ \E n \in Nat : \A i \in Heads(d, c)' : i + n \in Heads(d, c)

\* The order that a step puts on a link, if any, is for a client that had none.
Opens(d, c) == client[c] \in {"idle", "greeted"} /\ client'[c] = "open"
                  /\ JobsOf(d, c)' = {} /\ Heads(d, c)' = {}
Spreads(e) ==
    \A d \in Devices, c \in Clients :
        PlacedAt(d, c)' /\ (At(d, c)' => At(d, c) \/ (d = e /\ Opens(d, c)))

\* Nobody goes back to where no order has been given.
LEMMA NoWayBack ==
    ASSUME Types, Numbered, [Next]_vars
    PROVE  \A c \in Clients : client'[c] \in {"idle", "greeted"} => client[c] \in {"idle", "greeted"}
<1>1. CASE Serves
    BY <1>1, ServesIs
<1>2. ASSUME NEW d \in Devices, Received(d)
      PROVE  \A c \in Clients : client'[c] = client[c] \/ client'[c] = "over"
    BY <1>2, ReceivedIs
<1>3. ASSUME NEW d \in Devices, DeviceActs(d) PROVE client' = client
    BY <1>3, ActsIs
<1>4. CASE Still
    BY <1>4 DEF Still, browsers
<1> QED
    BY <1>1, <1>2, <1>3, <1>4, Moves DEF Received

LEMMA LessPlaced ==
    ASSUME NEW d \in Devices, NEW c \in Clients, PlacedAt(d, c), Less(d, c),
           client'[c] \in {"idle", "greeted"} => client[c] \in {"idle", "greeted"}
    PROVE  PlacedAt(d, c)' /\ (At(d, c)' => At(d, c))
<1>1. PICK n \in Nat : \A i \in Orders(d, c)' : i + n \in Orders(d, c)
    BY DEF Less
<1>2. PICK m \in Nat : \A i \in Heads(d, c)' : i + m \in Heads(d, c)
    BY DEF Less
<1>3. \A i \in Orders(d, c)' \cup Heads(d, c)' : i \in Nat
    BY <1>1, <1>2 DEF Orders, Heads, OrdersIn, HeadsIn
<1>4. /\ Orders(d, c)' # {} => Orders(d, c) # {}
      /\ Heads(d, c)' # {} => Heads(d, c) # {}
      /\ JobsOf(d, c)' \subseteq JobsOf(d, c)
    BY <1>1, <1>2 DEF Less
<1>5. At(d, c)' => At(d, c)
    BY <1>4 DEF At
<1>6. \A i, j \in Orders(d, c)' : i = j
    BY <1>1, <1>3 DEF PlacedAt
<1>7. c \in Requests => \A i, j \in Heads(d, c)' : i = j
    BY <1>2, <1>3 DEF PlacedAt
<1>8. /\ At(d, c)' => client'[c] \notin {"idle", "greeted"}
      /\ Orders(d, c)' # {} => JobsOf(d, c)' = {} /\ Heads(d, c)' = {}
      /\ \A i, j \in JobsOf(d, c)' : i = j
      /\ c \in Requests => (JobsOf(d, c)' # {} => Heads(d, c)' = {})
    BY <1>4, <1>5 DEF PlacedAt
<1> QED
    BY <1>5, <1>6, <1>7, <1>8 DEF PlacedAt

\* All but one device and one client.
LEMMA OneSpreads ==
    ASSUME Types, Numbered, [Next]_vars, NEW d \in Devices, NEW k,
           \A e \in Devices, c \in Clients : PlacedAt(e, c) /\ (e # d \/ c # k => Less(e, c)),
           k \in Clients => PlacedAt(d, k)' /\ (At(d, k)' => At(d, k) \/ Opens(d, k))
    PROVE  Spreads(d)
<1> SUFFICES ASSUME NEW e \in Devices, NEW c \in Clients
             PROVE  PlacedAt(e, c)' /\ (At(e, c)' => At(e, c) \/ (e = d /\ Opens(e, c)))
    BY DEF Spreads
<1>1. CASE e = d /\ c = k
    BY <1>1
<1>2. CASE e # d \/ c # k
    BY <1>2, LessPlaced, NoWayBack
<1> QED
    BY <1>1, <1>2

\* No client has more.
LEMMA NoneSpreads ==
    ASSUME Types, Numbered, [Next]_vars, NEW d,
           \A e \in Devices, c \in Clients : PlacedAt(e, c) /\ Less(e, c)
    PROVE  Spreads(d)
BY LessPlaced, NoWayBack DEF Spreads

LEMMA OrdersLess ==
    ASSUME Types, NEW d \in Devices,
           downlink'[d] = downlink[d] \/ downlink'[d] = <<>>
             \/ \E n \in 0..Len(downlink[d]) : Shifted(downlink'[d], downlink[d], n)
    PROVE  \A c : \E n \in Nat : \A i \in Orders(d, c)' : i + n \in Orders(d, c)
<1>1. \A c : Orders(d, c) = OrdersIn(downlink[d], c) /\ Orders(d, c)' = OrdersIn(downlink'[d], c)
    BY DEF Orders, OrdersIn
<1>2. ASSUME downlink'[d] = downlink[d], NEW c
      PROVE  \A i \in Orders(d, c)' : i + 0 \in Orders(d, c)
    BY <1>1, <1>2 DEF OrdersIn
<1>3. ASSUME downlink'[d] = <<>>, NEW c PROVE Orders(d, c)' = {}
    BY <1>1, <1>3 DEF OrdersIn
<1>4. ASSUME NEW n \in 0..Len(downlink[d]), Shifted(downlink'[d], downlink[d], n), NEW c
      PROVE  n \in Nat /\ \A i \in Orders(d, c)' : i + n \in Orders(d, c)
    BY <1>1, <1>4, FoundShifted, LengthTypes
<1> QED
    BY <1>2, <1>3, <1>4

LEMMA HeadsLess ==
    ASSUME Types, NEW d \in Devices,
           uplink'[d] = uplink[d]
             \/ \E n \in 0..Len(uplink[d]) : Shifted(uplink'[d], uplink[d], n)
    PROVE  \A c : \E n \in Nat : \A i \in Heads(d, c)' : i + n \in Heads(d, c)
<1>1. \A c : Heads(d, c) = HeadsIn(uplink[d], c) /\ Heads(d, c)' = HeadsIn(uplink'[d], c)
    BY DEF Heads, HeadsIn
<1>2. ASSUME uplink'[d] = uplink[d], NEW c
      PROVE  \A i \in Heads(d, c)' : i + 0 \in Heads(d, c)
    BY <1>1, <1>2 DEF HeadsIn
<1>3. ASSUME NEW n \in 0..Len(uplink[d]), Shifted(uplink'[d], uplink[d], n), NEW c
      PROVE  n \in Nat /\ \A i \in Heads(d, c)' : i + n \in Heads(d, c)
    BY <1>1, <1>3, FoundShifted, LengthTypes
<1> QED
    BY <1>2, <1>3

LEMMA JobsLess ==
    ASSUME NEW d \in Devices, serving'[d] \subseteq serving[d]
    PROVE  \A c : JobsOf(d, c)' \subseteq JobsOf(d, c)
BY DEF JobsOf

LEMMA SameLess ==
    ASSUME Types, NEW d \in Devices, downlink'[d] = downlink[d], uplink'[d] = uplink[d],
           serving'[d] = serving[d]
    PROVE  \A c \in Clients : Less(d, c)
BY OrdersLess, HeadsLess, JobsLess DEF Less

\* No two clients that need one have the same number.
LEMMA OneNumber ==
    ASSUME Base, Live, NEW b \in Clients, NEW c \in Clients, Needs(b), Needs(c),
           number[b] = number[c]
    PROVE  b = c
<1>1. Sound /\ (\A o \in Objs : o.seq = number[o.who])
      /\ ObjectOf(b) \in Objs /\ ObjectOf(c) \in Objs
    BY DEF Base, Live, Types, TypeOK, Tabled, Present, Sound
<1>2. ObjectOf(b).seq = ObjectOf(c).seq
    BY DEF ObjectOf
<1>3. ObjectOf(b) = ObjectOf(c)
    BY <1>1, <1>2, OneEach
<1> QED
    BY <1>3 DEF ObjectOf

\* A forward with a number is not idle.
LEMMA NumberedNeeds ==
    ASSUME Base, NEW f \in Forwards, number[f] \in T!Numbers
    PROVE  f \in Clients /\ Needs(f)
BY Constants DEF Base, Numbered, Needs, Clients

\* The job that a close is for is that of its own forward.
LEMMA CloseIsFor ==
    ASSUME Base, Live, Owned, NEW d \in Devices, DeviceTakes(d),
           NEW j \in serving[d], j.type = "open", j.seq = downlink[d][1].seq,
           downlink[d][1].of \in Forwards
    PROVE  j.of = downlink[d][1].of
<1> DEFINE f == downlink[d][1]
<1>1. f \in Downs /\ 1 \in 1..Len(downlink[d]) /\ j \in Downs
    BY TakesIs, DownTaken, LengthTypes DEF Base
<1>2. /\ f.seq = number[f.of] /\ j.seq = number[j.of]
      /\ f.seq \in T!Numbers /\ f.of \in Forwards /\ j.of \in Forwards
    BY <1>1 DEF Owned, Downs, Clients
<1> HIDE DEF f
<1>3. /\ Needs(f.of) /\ Needs(j.of) /\ number[f.of] = number[j.of]
      /\ f.of \in Clients /\ j.of \in Clients
    BY <1>2, NumberedNeeds DEF f
<1> QED
    BY <1>3, OneNumber DEF f

LEMMA SpreadsServing ==
    ASSUME Types, Numbered, [Next]_vars, Serves,
           \A d \in Devices, c \in Clients : PlacedAt(d, c)
    PROVE  \E e \in Devices \cup {null} : Spreads(e)
<1>0. UNCHANGED <<uplink, serving>>
    BY ServesIs
<1>1. CASE UNCHANGED downlink
    <2>1. \A d \in Devices, c \in Clients : Less(d, c)
        BY <1>0, <1>1, SameLess
    <2> QED
        BY <2>1, NoneSpreads
<1>2. ASSUME NEW d \in Devices, NEW f \in Downs, Puts(d, f) PROVE Spreads(d)
    <2> DEFINE k == f.of
    <2>1. /\ Longer(downlink'[d], downlink[d], f)
          /\ \A e \in Devices : e # d => downlink'[e] = downlink[e]
        BY <1>2 DEF Puts
    <2>2. \A e \in Devices : e # d => \A c \in Clients : Less(e, c)
        BY <1>0, <2>1, SameLess
    <2>3. \A c : \A i \in Orders(d, c)' :
              \/ i \in Orders(d, c)
              \/ i = Len(downlink[d]) + 1 /\ f.of = c /\ f.type \in {"http", "open"}
        BY <2>1, FoundLonger, LengthTypes DEF Orders
    <2>4. \A c : Orders(d, c) \subseteq Nat
        BY DEF Orders, OrdersIn
    <2>5. \A c : /\ \A i \in Heads(d, c)' : i + 0 \in Heads(d, c)
                 /\ JobsOf(d, c)' = JobsOf(d, c) /\ Heads(d, c)' = Heads(d, c)
        BY <1>0 DEF Heads, HeadsIn, JobsOf
    <2>6. ASSUME NEW c \in Clients, c # k \/ f.type \notin {"http", "open"} PROVE Less(d, c)
        <3>1. \A i \in Orders(d, c)' : i + 0 \in Orders(d, c)
            BY <2>3, <2>4, <2>6
        <3> QED
            BY <2>5, <3>1 DEF Less
    <2>7. k \in Clients
        BY DEF Downs
    <2>8. CASE f.type \notin {"http", "open"}
        <3>1. \A e \in Devices, c \in Clients : Less(e, c)
            BY <2>2, <2>6, <2>8
        <3> QED
            BY <3>1, NoneSpreads
    <2>9. CASE f.type \in {"http", "open"}
        <3>1. client[k] \in {"idle", "greeted"} /\ client'[k] = "open"
            BY <1>2, <2>9 DEF Puts
        <3>2. Orders(d, k) = {} /\ JobsOf(d, k) = {} /\ Heads(d, k) = {}
            BY <2>7, <3>1 DEF PlacedAt, At
        <3>3. \A i, j \in Orders(d, k)' : i = j
            BY <2>3, <3>2
        <3> HIDE DEF k
        <3>4. JobsOf(d, k)' = {} /\ Heads(d, k)' = {}
            BY <2>5, <3>2
        <3>5. PlacedAt(d, k)'
            BY <3>1, <3>3, <3>4 DEF PlacedAt
        <3>6. Opens(d, k)
            BY <3>1, <3>4 DEF Opens
        <3> QED
            BY <2>2, <2>6, <3>5, <3>6, OneSpreads
    <2> QED
        BY <2>8, <2>9
<1> QED
    BY <1>1, <1>2, ServesIs

LEMMA SpreadsTaking ==
    ASSUME Base, Owned, Live, [Next]_vars, NEW d \in Devices, DeviceTakes(d),
           \A e \in Devices, c \in Clients : PlacedAt(e, c)
    PROVE  Spreads(d)
<1>0. Types /\ Numbered
    BY DEF Base
<1>f. PICK f \in Downs : f = downlink[d][1]
    BY <1>0, TakesIs
<1>k. PICK k \in Clients : k = f.of
    BY DEF Downs
<1>1. /\ 1 \in 1..Len(downlink[d])
      /\ Shifted(downlink'[d], downlink[d], 1) /\ UNCHANGED client
      /\ \A e \in Devices : e # d => downlink'[e] = downlink[e]
    BY <1>0, TakesIs, DownTaken, ActsIs DEF DeviceActs
<1>2. \A c : \A i \in Orders(d, c)' : i + 1 \in Orders(d, c) /\ i \in Nat \ {0}
    <2>1. \A c : \A i \in Orders(d, c)' : i + 1 \in Orders(d, c)
        BY <1>0, <1>1, FoundShifted, LengthTypes DEF Orders
    <2>2. \A c : \A i \in Orders(d, c)' : i \in Nat \ {0}
        BY DEF Orders, OrdersIn
    <2> QED
        BY <2>1, <2>2
<1>3. CASE TakesOrder(d)
    <2>1. /\ f.type \in {"http", "open"} /\ UNCHANGED uplink
          /\ serving'[d] = serving[d] \cup {f}
          /\ \A e \in Devices : e # d => serving'[e] = serving[e]
        BY <1>3, <1>f DEF TakesOrder
    <2>2. \A e \in Devices : e # d => \A c \in Clients : Less(e, c)
        BY <1>0, <1>1, <2>1, SameLess
    <2>3. \A c : \E n \in Nat : \A i \in Heads(d, c)' : i + n \in Heads(d, c)
        BY <1>0, <2>1, HeadsLess
    <2>4. \A c : c # k => JobsOf(d, c)' \subseteq JobsOf(d, c)
        BY <2>1, <1>k DEF JobsOf
    <2>5. \A c \in Clients : c # k => Less(d, c)
        BY <1>2, <2>3, <2>4 DEF Less
    <2>6. 1 \in Orders(d, k)
        BY <1>1, <2>1, <1>f, <1>k DEF Orders, OrdersIn
    <2>7. Orders(d, k)' = {}
        BY <1>1, <1>2, <2>6 DEF PlacedAt
    <2>8. JobsOf(d, k) = {} /\ Heads(d, k) = {} /\ At(d, k)
        BY <1>1, <2>6 DEF PlacedAt, At
    <2>9. JobsOf(d, k)' \subseteq {f} /\ Heads(d, k)' = {}
        BY <2>1, <2>3, <2>8 DEF JobsOf
    <2>10. PlacedAt(d, k)'
        BY <1>1, <2>7, <2>8, <2>9 DEF PlacedAt
    <2> QED
        BY <1>0, <2>2, <2>5, <2>8, <2>10, OneSpreads
<1>4. CASE TakesData(d)
    <2>1. UNCHANGED <<uplink, serving>>
        BY <1>4 DEF TakesData
    <2>2. \A e \in Devices : e # d => \A c \in Clients : Less(e, c)
        BY <1>0, <1>1, <2>1, SameLess
    <2>3. \A c \in Clients : Less(d, c)
        BY <1>0, <1>2, <2>1, HeadsLess, JobsLess DEF Less
    <2> QED
        BY <1>0, <2>2, <2>3, NoneSpreads
<1>5. CASE TakesClose(d)
    <2>1. /\ k \in Forwards
          /\ \A e \in Devices : e # d => serving'[e] = serving[e] /\ uplink'[e] = uplink[e]
          /\ serving'[d] \subseteq serving[d]
        BY <1>5, <1>f, <1>k DEF TakesClose
    <2>2. \A e \in Devices : e # d => \A c \in Clients : Less(e, c)
        BY <1>0, <1>1, <2>1, SameLess
    <2>3. CASE UNCHANGED uplink
        <3>1. \A c \in Clients : Less(d, c)
            BY <1>0, <1>2, <2>1, <2>3, HeadsLess, JobsLess DEF Less
        <3> QED
            BY <1>0, <2>2, <3>1, NoneSpreads
    <2>4. CASE ~UNCHANGED uplink
        <3>1. /\ Longer(uplink'[d], uplink[d], Header(f.seq, 1, Piece(k, sent[k].up + 1)))
              /\ \E j \in serving[d] : j.type = "open" /\ j.seq = f.seq
            BY <1>5, <2>4, <1>f, <1>k DEF TakesClose
        <3>2. JobsOf(d, k) # {}
            BY <1>f, <1>k, <2>1, <3>1, CloseIsFor DEF JobsOf
        <3>3. \A c \in Clients : \A i \in Heads(d, c)' :
                  i \in Heads(d, c) \/ (i = Len(uplink[d]) + 1 /\ k = c)
            <4> DEFINE m == Header(f.seq, 1, Piece(k, sent[k].up + 1))
            <4>1. m.piece.of = k
                BY DEF Header, Piece
            <4> HIDE DEF m
            <4>2. \A c : \A i \in HeadsIn(uplink'[d], c) :
                     i \in HeadsIn(uplink[d], c) \/ (i = Len(uplink[d]) + 1 /\ m.piece.of = c)
                BY <1>0, <3>1, FoundLonger, LengthTypes DEF m
            <4> QED
                BY <4>1, <4>2 DEF Heads
        <3>4. \A c \in Clients : Heads(d, c) \subseteq Nat
            BY DEF Heads, HeadsIn
        <3>5. \A c \in Clients : c # k => \A i \in Heads(d, c)' : i + 0 \in Heads(d, c)
            BY <3>3, <3>4
        <3>6. \A c \in Clients : c # k => Less(d, c)
            BY <1>2, <2>1, <3>5, JobsLess DEF Less
        <3>7. At(d, k) /\ Orders(d, k) = {}
            BY <1>1, <3>2 DEF At, PlacedAt
        <3>8. Orders(d, k)' = {} /\ JobsOf(d, k)' \subseteq JobsOf(d, k)
            BY <1>2, <2>1, <3>7, JobsLess
        <3>9. k \notin Requests
            BY <2>1, Constants
        <3>10. PlacedAt(d, k)'
            BY <1>1, <3>7, <3>8, <3>9 DEF PlacedAt
        <3> QED
            BY <1>0, <2>2, <3>6, <3>7, <3>10, OneSpreads
    <2> QED
        BY <2>3, <2>4
<1> QED
    BY <1>0, <1>3, <1>4, <1>5, TakesIs

LEMMA SpreadsAnswering ==
    ASSUME Types, Numbered, [Next]_vars, NEW d \in Devices, DeviceAnswers(d) \/ DeviceFails(d),
           \A e \in Devices, c \in Clients : PlacedAt(e, c)
    PROVE  Spreads(d)
<1>1. PICK j \in serving[d], ms \in Seq(Ups) : AnswersWith(d, j, ms)
    BY AnswersIs
<1>2. PICK k \in Requests : k = j.of
    BY <1>1 DEF AnswersWith
<1>3. /\ UNCHANGED <<downlink, client>> /\ k \in Clients
      /\ serving'[d] = serving[d] \ {j}
      /\ \A e \in Devices : e # d => serving'[e] = serving[e] /\ uplink'[e] = uplink[e]
      /\ Extended(uplink'[d], uplink[d], ms)
      /\ Len(ms) >= 1 /\ ms[1] = Header(j.seq, ms[1].total, Piece(k, 1))
      /\ \A i \in 1..(Len(ms) - 1) : ms[i + 1] = Body(Piece(k, i + 1))
    BY <1>1, <1>2, ActsIs DEF AnswersWith, DeviceAnswers, DeviceFails, DeviceActs, Clients
<1>4. \A i \in 1..Len(ms) : i = 1 \/ ~ms[i].head
    BY <1>3, AnswerBodies
<1>5. \A e \in Devices : e # d => \A c \in Clients : Less(e, c)
    BY <1>3, SameLess
<1>6. \A c : \A i \in Heads(d, c)' :
          i \in Heads(d, c) \/ (i = Len(uplink[d]) + 1 /\ k = c)
    <2>1. ms[1].piece.of = k /\ Len(uplink[d]) \in Nat /\ Len(ms) \in Nat
        BY <1>3, LengthTypes DEF Header, Piece
    <2>2. \A c : \A i \in HeadsIn(uplink'[d], c) :
              i \in HeadsIn(uplink[d], c) \/ (i = Len(uplink[d]) + 1 /\ ms[1].piece.of = c)
        BY <1>3, <1>4, <2>1, FoundExtended
    <2> QED
        BY <2>1, <2>2 DEF Heads
<1>7. /\ \A c : Heads(d, c) \subseteq Nat /\ JobsOf(d, c)' \subseteq JobsOf(d, c)
      /\ \A c : \E n \in Nat : \A i \in Orders(d, c)' : i + n \in Orders(d, c)
    BY <1>3, JobsLess, OrdersLess DEF Heads, HeadsIn
<1>8. \A c \in Clients : c # k => Less(d, c)
    <2>1. \A c \in Clients : c # k => \A i \in Heads(d, c)' : i + 0 \in Heads(d, c)
        BY <1>6, <1>7
    <2> QED
        BY <1>7, <2>1 DEF Less
<1>9. /\ j \in JobsOf(d, k) /\ At(d, k) /\ Orders(d, k) = {} /\ Heads(d, k) = {}
    BY <1>2, <1>3 DEF JobsOf, At, PlacedAt
<1>10. JobsOf(d, k)' = {}
    BY <1>2, <1>3, <1>9 DEF JobsOf, PlacedAt
<1>11. Orders(d, k)' = {} /\ \A i, l \in Heads(d, k)' : i = l
    BY <1>6, <1>7, <1>9
<1>12. PlacedAt(d, k)'
    BY <1>3, <1>9, <1>10, <1>11 DEF PlacedAt
<1> QED
    BY <1>5, <1>8, <1>9, <1>12, OneSpreads

LEMMA SpreadsSending ==
    ASSUME Types, Numbered, [Next]_vars, NEW d \in Devices, DeviceSends(d),
           \A e \in Devices, c \in Clients : PlacedAt(e, c)
    PROVE  Spreads(d)
<1>1. PICK j \in serving[d] : SendsOf(d, j)
    BY SendsIs
<1>2. PICK k \in Forwards : k = j.of
    BY <1>1 DEF SendsOf
<1>3. /\ UNCHANGED <<downlink, client>> /\ k \in Clients /\ k \notin Requests
      /\ serving'[d] \subseteq serving[d]
      /\ \A e \in Devices : e # d => serving'[e] = serving[e] /\ uplink'[e] = uplink[e]
      /\ Longer(uplink'[d], uplink[d], Header(j.seq, 1, Piece(k, sent[k].up + 1)))
    BY <1>1, <1>2, ActsIs, Constants DEF SendsOf, DeviceSends, DeviceActs, Clients
<1>4. \A e \in Devices : e # d => \A c \in Clients : Less(e, c)
    BY <1>3, SameLess
<1>5. \A c : \A i \in Heads(d, c)' :
          i \in Heads(d, c) \/ (i = Len(uplink[d]) + 1 /\ k = c)
    <2> DEFINE m == Header(j.seq, 1, Piece(k, sent[k].up + 1))
    <2>1. m.piece.of = k
        BY DEF Header, Piece
    <2> HIDE DEF m
    <2>2. \A c : \A i \in HeadsIn(uplink'[d], c) :
             i \in HeadsIn(uplink[d], c) \/ (i = Len(uplink[d]) + 1 /\ m.piece.of = c)
        BY <1>3, FoundLonger, LengthTypes DEF m
    <2> QED
        BY <2>1, <2>2 DEF Heads
<1>6. /\ \A c : Heads(d, c) \subseteq Nat /\ JobsOf(d, c)' \subseteq JobsOf(d, c)
      /\ \A c : \E n \in Nat : \A i \in Orders(d, c)' : i + n \in Orders(d, c)
    BY <1>3, JobsLess, OrdersLess DEF Heads, HeadsIn
<1>7. \A c \in Clients : c # k => Less(d, c)
    <2>1. \A c \in Clients : c # k => \A i \in Heads(d, c)' : i + 0 \in Heads(d, c)
        BY <1>5, <1>6
    <2> QED
        BY <1>6, <2>1 DEF Less
<1>8. /\ At(d, k) /\ Orders(d, k) = {}
    BY <1>2, <1>3 DEF JobsOf, At, PlacedAt
<1>9. Orders(d, k)' = {}
    BY <1>6, <1>8
<1>10. PlacedAt(d, k)'
    BY <1>3, <1>6, <1>8, <1>9 DEF PlacedAt
<1> QED
    BY <1>4, <1>7, <1>8, <1>10, OneSpreads

\* Every step leaves each client's order where it is or takes it a step on.
LEMMA SpreadsStep ==
    ASSUME Base, Owned, Placed, Live, [Next]_vars
    PROVE  \E e \in Devices \cup {null} : Spreads(e)
<1>0. /\ \A d \in Devices, c \in Clients : PlacedAt(d, c)
      /\ Types /\ Numbered
    BY DEF Placed, Base
<1>1. CASE Serves
    BY <1>0, <1>1, SpreadsServing
<1>2. ASSUME NEW d \in Devices, Received(d) PROVE Spreads(d)
    <2>1. Taking(d) /\ UNCHANGED <<downlink, serving>>
        BY <1>0, <1>2, ReceivedIs
    <2>2. /\ Shifted(uplink'[d], uplink[d], 1) /\ 1 \in 0..Len(uplink[d])
          /\ \A e \in Devices : e # d => uplink'[e] = uplink[e]
        BY <1>0, <2>1, UpTaken
    <2>3. \A e \in Devices, c \in Clients : Less(e, c)
        BY <1>0, <2>1, <2>2, OrdersLess, HeadsLess, JobsLess DEF Less
    <2> QED
        BY <1>0, <2>3, NoneSpreads
<1>3. ASSUME NEW d \in Devices, DeviceActs(d) PROVE Spreads(d)
    <2>1. CASE DeviceLost(d)
        <3>1. \A e \in Devices :
                 /\ downlink'[e] = downlink[e] \/ downlink'[e] = <<>>
                 /\ uplink'[e] = uplink[e]
                      \/ \E n \in 0..Len(uplink[e]) : Shifted(uplink'[e], uplink[e], n)
                 /\ serving'[e] \subseteq serving[e]
            BY <1>0, <2>1, LinksLost
        <3>2. \A e \in Devices, c \in Clients : Less(e, c)
            BY <1>0, <3>1, OrdersLess, HeadsLess, JobsLess DEF Less
        <3> QED
            BY <1>0, <3>2, NoneSpreads
    <2>2. CASE DeviceTakes(d)
        BY <1>0, <2>2, SpreadsTaking
    <2>3. CASE DeviceAnswers(d) \/ DeviceFails(d)
        BY <1>0, <2>3, SpreadsAnswering
    <2>4. CASE DeviceSends(d)
        BY <1>0, <2>4, SpreadsSending
    <2> QED
        BY <1>3, <2>1, <2>2, <2>3, <2>4 DEF DeviceActs
<1>4. CASE Still
    <2>1. \A d \in Devices, c \in Clients : Less(d, c)
        BY <1>0, <1>4, SameLess DEF Still, links
    <2> QED
        BY <1>0, <2>1, NoneSpreads
<1> QED
    BY <1>1, <1>2, <1>3, <1>4, Moves DEF Received

LEMMA RunningBefore == [Next]_vars /\ Running' => Running
<1> SUFFICES ASSUME [Next]_vars, Running' PROVE Running
    OBVIOUS
<1>1. \A r \in Requests : Request(r) \/ RequestRejected(r) => Running
    BY DEF Request, RequestRejected
<1>2. \A f \in Forwards : Hello(f) \/ HelloThrows(f) \/ Openning(f) => Running
    BY DEF Hello, HelloThrows, Openning
<1>3. \A f \in Forwards : BrowserSends(f) \/ HangUp(f) => Running
    BY DEF BrowserSends, HangUp
<1>4. \A d \in Devices : Taking(d) \/ Device(d) => Running
    BY DEF Taking, Device
<1>5. \A d \in Devices : Dropped(d) => Taking(d)
    BY DEF Dropped
<1>6. \A d \in Devices, c \in Clients :
         ProcessPart(d, c) \/ ResponseEnds(d, c) \/ ForwardPasses(d, c) => Taking(d)
    BY DEF ProcessPart, ResponseEnds, ForwardPasses, Processing
<1>7. \A d \in Devices : DeviceActs(d) => Device(d)
    BY ActsIs
<1>8. Still => Running
    BY DEF Still, Running
<1> QED
    BY <1>1, <1>2, <1>3, <1>4, <1>5, <1>6, <1>7, <1>8, Moves DEF Serves

LEMMA LiveBefore == [Next]_vars /\ Live' => Live
BY RunningBefore, CutNever DEF Live

LEMMA PlacedStep == Base /\ Owned /\ Placed /\ [Next]_vars => Placed'
<1> SUFFICES ASSUME Base, Owned, Placed, [Next]_vars, Live' PROVE Placed'
    BY DEF Placed
<1>1. Live
    BY LiveBefore
<1>2. PICK a \in Devices \cup {null} : Spreads(a)
    BY <1>1, SpreadsStep
<1>3. ASSUME NEW c \in Clients, NEW d \in Devices, NEW e \in Devices, At(d, c)', At(e, c)'
      PROVE  d = e
    <2>1. /\ At(d, c) \/ (d = a /\ Opens(d, c))
          /\ At(e, c) \/ (e = a /\ Opens(e, c))
        BY <1>2, <1>3 DEF Spreads
    <2>2. \A b \in Devices : At(b, c) => client[c] \notin {"idle", "greeted"}
        BY <1>1 DEF Placed, PlacedAt
    <2>3. At(d, c) /\ At(e, c) => d = e
        BY <1>1 DEF Placed
    <2> QED
        BY <2>1, <2>2, <2>3 DEF Opens
<1> QED
    BY <1>2, <1>3 DEF Placed, Spreads

-----------------------------------------------------------------------------
(* Frames arrive as they were sent.                                        *)

LEMMA FramedShifted ==
    ASSUME NEW s \in Seq(Ups), NEW t, NEW n, Shifted(t, s, n), FramedIn(s)
    PROVE  FramedIn(t)
<1>1. /\ n \in Nat /\ Len(t) \in Nat /\ Len(t) = Len(s) - n /\ Len(s) \in Nat
      /\ \A i \in 1..Len(t) : i + n \in 1..Len(s) /\ t[i] = s[i + n]
    BY ShiftedElements DEF Shifted
<1> SUFFICES ASSUME NEW i \in 1..Len(t), t[i].head
             PROVE  /\ t[i].piece.of \in Forwards => t[i].total = 1
                    /\ t[i].piece.of \in Requests \ Refusable =>
                         /\ t[i].total >= 1 /\ i + t[i].total - 1 <= Len(t)
                         /\ t[i].piece.n = 1
                         /\ \A k \in 1..(t[i].total - 1) :
                               t[i + k] = Body(Piece(t[i].piece.of, k + 1))
    BY DEF FramedIn
<1>2. i + n \in 1..Len(s) /\ t[i] = s[i + n] /\ s[i + n] \in Ups
    BY <1>1
<1> DEFINE m == s[i + n]
<1>3. /\ m.total \in Nat
      /\ m.piece.of \in Forwards => m.total = 1
      /\ m.piece.of \in Requests \ Refusable =>
            /\ m.total >= 1 /\ (i + n) + m.total - 1 <= Len(s)
            /\ m.piece.n = 1
            /\ \A k \in 1..(m.total - 1) : s[(i + n) + k] = Body(Piece(m.piece.of, k + 1))
    BY <1>2 DEF FramedIn, Ups
<1> HIDE DEF m
<1>4. ASSUME m.piece.of \in Requests \ Refusable, NEW k \in 1..(m.total - 1)
      PROVE  t[i + k] = s[(i + n) + k]
    <2>1. i + k \in 1..Len(t) /\ (i + k) + n = (i + n) + k
        BY <1>1, <1>2, <1>3, <1>4
    <2> QED
        BY <1>1, <2>1
<1>5. m.piece.of \in Requests \ Refusable => i + m.total - 1 <= Len(t)
    BY <1>1, <1>3
<1> QED
    BY <1>2, <1>3, <1>4, <1>5 DEF m

LEMMA FramedLonger ==
    ASSUME NEW s \in Seq(Ups), NEW t, NEW m, Longer(t, s, m), FramedIn(s),
           m.piece.of \in Forwards, m.total = 1
    PROVE  FramedIn(t)
<1>1. /\ Len(s) \in Nat /\ Len(t) = Len(s) + 1 /\ t[Len(s) + 1] = m
      /\ \A i \in 1..Len(s) : t[i] = s[i] /\ s[i].total \in Nat
    BY DEF Longer, Ups
<1>2. m.piece.of \notin Requests
    BY Constants
<1> SUFFICES ASSUME NEW i \in 1..Len(t), t[i].head
             PROVE  /\ t[i].piece.of \in Forwards => t[i].total = 1
                    /\ t[i].piece.of \in Requests \ Refusable =>
                         /\ t[i].total >= 1 /\ i + t[i].total - 1 <= Len(t)
                         /\ t[i].piece.n = 1
                         /\ \A k \in 1..(t[i].total - 1) :
                               t[i + k] = Body(Piece(t[i].piece.of, k + 1))
    BY DEF FramedIn
<1>3. CASE i = Len(s) + 1
    BY <1>1, <1>2, <1>3
<1>4. CASE i \in 1..Len(s)
    <2>1. t[i] = s[i] /\ s[i].total \in Nat
        BY <1>1, <1>4
    <2>2. /\ s[i].piece.of \in Forwards => s[i].total = 1
          /\ s[i].piece.of \in Requests \ Refusable =>
                /\ s[i].total >= 1 /\ i + s[i].total - 1 <= Len(s)
                /\ s[i].piece.n = 1
                /\ \A k \in 1..(s[i].total - 1) :
                       s[i + k] = Body(Piece(s[i].piece.of, k + 1))
        BY <1>4, <2>1 DEF FramedIn
    <2>3. ASSUME s[i].piece.of \in Requests \ Refusable, NEW k \in 1..(s[i].total - 1)
          PROVE  t[i + k] = s[i + k]
        <3>1. s[i].total \in Nat /\ i + s[i].total - 1 <= Len(s) /\ k \in 1..(s[i].total - 1)
            BY <2>1, <2>2, <2>3
        <3>2. i + k \in 1..Len(s)
            BY <1>1, <1>4, <3>1
        <3> QED
            BY <1>1, <3>2
    <2>4. s[i].piece.of \in Requests \ Refusable => i + s[i].total - 1 <= Len(t)
        BY <1>1, <2>1, <2>2
    <2> QED
        BY <2>1, <2>2, <2>3, <2>4
<1> QED
    BY <1>1, <1>3, <1>4

LEMMA FramedAnswer ==
    ASSUME NEW s \in Seq(Ups), NEW t, NEW ms \in Seq(Ups), Extended(t, s, ms), FramedIn(s),
           NEW r \in Requests, NEW q,
           Len(ms) >= 1, ms[1] = Header(q, ms[1].total, Piece(r, 1)),
           \A k \in 1..(Len(ms) - 1) : ms[k + 1] = Body(Piece(r, k + 1)),
           r \in Refusable \/ ms[1].total = Len(ms)
    PROVE  FramedIn(t)
<1>1. /\ Len(s) \in Nat /\ Len(ms) \in Nat /\ Len(t) = Len(s) + Len(ms)
      /\ \A i \in 1..Len(s) : t[i] = s[i] /\ s[i].total \in Nat
      /\ \A i \in 1..Len(ms) : t[Len(s) + i] = ms[i]
    BY DEF Extended, Ups
<1>2. ms[1].piece.of = r /\ ms[1].piece.n = 1 /\ r \notin Forwards
    BY Constants DEF Header, Piece
<1>3. \A i \in 1..Len(ms) : i = 1 \/ ~ms[i].head
    BY AnswerBodies
<1> SUFFICES ASSUME NEW i \in 1..Len(t), t[i].head
             PROVE  /\ t[i].piece.of \in Forwards => t[i].total = 1
                    /\ t[i].piece.of \in Requests \ Refusable =>
                         /\ t[i].total >= 1 /\ i + t[i].total - 1 <= Len(t)
                         /\ t[i].piece.n = 1
                         /\ \A k \in 1..(t[i].total - 1) :
                               t[i + k] = Body(Piece(t[i].piece.of, k + 1))
    BY DEF FramedIn
<1>4. CASE i \in 1..Len(s)
    <2>1. t[i] = s[i] /\ s[i].total \in Nat
        BY <1>1, <1>4
    <2>2. /\ s[i].piece.of \in Forwards => s[i].total = 1
          /\ s[i].piece.of \in Requests \ Refusable =>
                /\ s[i].total >= 1 /\ i + s[i].total - 1 <= Len(s)
                /\ s[i].piece.n = 1
                /\ \A k \in 1..(s[i].total - 1) :
                       s[i + k] = Body(Piece(s[i].piece.of, k + 1))
        BY <1>4, <2>1 DEF FramedIn
    <2>3. ASSUME s[i].piece.of \in Requests \ Refusable, NEW k \in 1..(s[i].total - 1)
          PROVE  t[i + k] = s[i + k]
        <3>1. s[i].total \in Nat /\ i + s[i].total - 1 <= Len(s) /\ k \in 1..(s[i].total - 1)
            BY <2>1, <2>2, <2>3
        <3>2. i + k \in 1..Len(s)
            BY <1>1, <1>4, <3>1
        <3> QED
            BY <1>1, <3>2
    <2>4. s[i].piece.of \in Requests \ Refusable => i + s[i].total - 1 <= Len(t)
        BY <1>1, <2>1, <2>2
    <2> QED
        BY <2>1, <2>2, <2>3, <2>4
<1>5. CASE i \notin 1..Len(s)
    <2>1. \E k \in 1..Len(ms) : i = Len(s) + k /\ t[i] = ms[k]
        <3>1. i - Len(s) \in 1..Len(ms) /\ i = Len(s) + (i - Len(s))
            BY <1>1, <1>5
        <3> QED
            BY <1>1, <3>1
    <2>2. i = Len(s) + 1 /\ t[i] = ms[1]
        BY <1>3, <2>1
    <2>3. ASSUME ms[1].total = Len(ms), NEW k \in 1..(ms[1].total - 1)
          PROVE  t[i + k] = Body(Piece(r, k + 1))
        <3>1. k + 1 \in 1..Len(ms) /\ i + k = Len(s) + (k + 1) /\ k \in 1..(Len(ms) - 1)
            BY <1>1, <2>2, <2>3
        <3> QED
            BY <1>1, <3>1
    <2>4. ms[1].total = Len(ms) => ms[1].total >= 1 /\ i + ms[1].total - 1 <= Len(t)
        BY <1>1, <2>2
    <2> QED
        BY <1>2, <2>2, <2>3, <2>4
<1> QED
    BY <1>4, <1>5

LEMMA FramedStep == Types /\ Numbered /\ Framed /\ [Next]_vars => Framed'
<1> SUFFICES ASSUME Types, Numbered, Framed, [Next]_vars, NEW e \in Devices
             PROVE  FramedIn(uplink'[e])
    BY DEF Framed, FramedIn
<1>0. uplink[e] \in Seq(Ups) /\ FramedIn(uplink[e])
    BY DEF Framed, Types
<1>1. ASSUME uplink'[e] = uplink[e] PROVE FramedIn(uplink'[e])
    BY <1>0, <1>1
<1>2. CASE Serves
    BY <1>1, <1>2, ServesIs
<1>3. ASSUME NEW d \in Devices, Received(d) PROVE FramedIn(uplink'[e])
    <2>1. /\ Shifted(uplink'[d], uplink[d], 1)
          /\ \A a \in Devices : a # d => uplink'[a] = uplink[a]
        BY <1>3, ReceivedIs, UpTaken
    <2> QED
        BY <1>0, <1>1, <2>1, FramedShifted
<1>4. ASSUME NEW d \in Devices, DeviceActs(d) PROVE FramedIn(uplink'[e])
    <2>1. CASE DeviceLost(d)
        BY <1>0, <1>1, <2>1, LinksLost, FramedShifted
    <2>2. CASE DeviceTakes(d)
        <3>1. CASE TakesOrder(d) \/ TakesData(d)
            BY <1>1, <3>1 DEF TakesOrder, TakesData
        <3>2. CASE TakesClose(d)
            <4> DEFINE f == downlink[d][1]
                       m == Header(f.seq, 1, Piece(f.of, sent[f.of].up + 1))
            <4>1. m.piece.of \in Forwards /\ m.total = 1
                BY <3>2 DEF TakesClose, Header, Piece
            <4>2. /\ \A a \in Devices : a # d => uplink'[a] = uplink[a]
                  /\ UNCHANGED uplink \/ Longer(uplink'[d], uplink[d], m)
                BY <3>2 DEF TakesClose
            <4> HIDE DEF m
            <4> QED
                BY <1>0, <1>1, <4>1, <4>2, FramedLonger
        <3> QED
            BY <2>2, <3>1, <3>2, TakesIs
    <2>3. CASE DeviceAnswers(d) \/ DeviceFails(d)
        <3>1. PICK j \in serving[d], ms \in Seq(Ups) : AnswersWith(d, j, ms)
            BY <2>3, AnswersIs
        <3>2. PICK r \in Requests : r = j.of
            BY <3>1 DEF AnswersWith
        <3>3. /\ \A a \in Devices : a # d => uplink'[a] = uplink[a]
              /\ Extended(uplink'[d], uplink[d], ms)
              /\ Len(ms) >= 1 /\ ms[1] = Header(j.seq, ms[1].total, Piece(r, 1))
              /\ \A k \in 1..(Len(ms) - 1) : ms[k + 1] = Body(Piece(r, k + 1))
              /\ r \in Refusable \/ ms[1].total = Len(ms)
            BY <3>1, <3>2 DEF AnswersWith
        <3> QED
            BY <1>0, <1>1, <3>3, FramedAnswer
    <2>4. CASE DeviceSends(d)
        <3>1. PICK j \in serving[d] : SendsOf(d, j)
            BY <2>4, SendsIs
        <3> DEFINE m == Header(j.seq, 1, Piece(j.of, sent[j.of].up + 1))
        <3>2. /\ \A a \in Devices : a # d => uplink'[a] = uplink[a]
              /\ Longer(uplink'[d], uplink[d], m)
            BY <3>1 DEF SendsOf
        <3>3. m.piece.of \in Forwards /\ m.total = 1
            BY <3>1 DEF SendsOf, Header, Piece
        <3> HIDE DEF m
        <3> QED
            BY <1>0, <1>1, <3>2, <3>3, FramedLonger
    <2> QED
        BY <1>4, <2>1, <2>2, <2>3, <2>4 DEF DeviceActs
<1>5. CASE Still
    BY <1>1, <1>5 DEF Still, links
<1> QED
    BY <1>2, <1>3, <1>4, <1>5, Moves DEF Received

-----------------------------------------------------------------------------
(* What a device sends for a forward is numbered as it is sent.            *)

\* The heads on a device's link are some it had, where they were in it.
HeadsKept(d, c) ==
    \E n \in Nat : \A i \in Heads(d, c)' :
        i \in Nat /\ i + n \in Heads(d, c) /\ uplink'[d][i] = uplink[d][i + n]

LEMMA HeadsKeep ==
    ASSUME Types, NEW d \in Devices,
           uplink'[d] = uplink[d]
             \/ \E n \in 0..Len(uplink[d]) : Shifted(uplink'[d], uplink[d], n)
    PROVE  \A c : HeadsKept(d, c)
<1>1. \A c : Heads(d, c) = HeadsIn(uplink[d], c) /\ Heads(d, c)' = HeadsIn(uplink'[d], c)
    BY DEF Heads, HeadsIn
<1>2. ASSUME uplink'[d] = uplink[d], NEW c
      PROVE  \A i \in Heads(d, c)' :
                i \in Nat /\ i + 0 \in Heads(d, c) /\ uplink'[d][i] = uplink[d][i + 0]
    BY <1>1, <1>2 DEF HeadsIn
<1>3. ASSUME NEW n \in 0..Len(uplink[d]), Shifted(uplink'[d], uplink[d], n), NEW c
      PROVE  n \in Nat /\ \A i \in Heads(d, c)' :
                i \in Nat /\ i + n \in Heads(d, c) /\ uplink'[d][i] = uplink[d][i + n]
    <2>1. \A i \in HeadsIn(uplink'[d], c) : i \in 1..Len(uplink'[d])
        BY DEF HeadsIn
    <2>2. Len(uplink[d]) \in Nat /\ Shifted(uplink'[d], uplink[d], n)
        BY <1>3, LengthTypes
    <2>3. \A i \in HeadsIn(uplink'[d], c) : i + n \in HeadsIn(uplink[d], c)
        BY <2>2, FoundShifted
    <2>4. \A i \in 1..Len(uplink'[d]) : uplink'[d][i] = uplink[d][i + n]
        BY <2>2 DEF Shifted
    <2>5. n \in Nat
        BY <2>2
    <2>6. ASSUME NEW i \in HeadsIn(uplink'[d], c)
          PROVE  i \in Nat /\ i + n \in HeadsIn(uplink[d], c) /\ uplink'[d][i] = uplink[d][i + n]
        <3>1. i \in 1..Len(uplink'[d])
            BY <2>1, Zenon
        <3>2. i \in Nat
            BY <3>1
        <3>3. i + n \in HeadsIn(uplink[d], c)
            BY <2>3, Zenon
        <3>4. uplink'[d][i] = uplink[d][i + n]
            BY <2>4, <3>1, Zenon
        <3> QED
            BY <3>2, <3>3, <3>4, Zenon
    <2> QED
        BY <1>1, <2>5, <2>6, Zenon
<1> QED
    BY <1>2, <1>3 DEF HeadsKept

LEMMA CountedKept ==
    ASSUME Types, NEW d \in Devices, NEW f \in Forwards, CountedAt(d, f), HeadsKept(d, f),
           JobsOf(d, f)' \subseteq JobsOf(d, f), sent'[f].up = sent[f].up
    PROVE  CountedAt(d, f)'
<1>1. PICK n \in Nat : \A i \in Heads(d, f)' :
         i \in Nat /\ i + n \in Heads(d, f) /\ uplink'[d][i] = uplink[d][i + n]
    BY DEF HeadsKept
<1>2. \A i, j \in Heads(d, f)' : i < j => i + n < j + n
    BY <1>1
<1>3. \A i, j \in Heads(d, f)' : i < j => uplink'[d][i].piece.n < uplink'[d][j].piece.n
    BY <1>1, <1>2 DEF CountedAt
<1>4. JobsOf(d, f)' # {} => \A i \in Heads(d, f)' : uplink'[d][i].piece.n <= sent'[f].up
    BY <1>1 DEF CountedAt
<1> QED
    BY <1>3, <1>4 DEF CountedAt

LEMMA CountedAppended ==
    ASSUME Types, NEW d \in Devices, NEW f \in Forwards, CountedAt(d, f), JobsOf(d, f) # {},
           NEW m, Longer(uplink'[d], uplink[d], m), m.piece.n = sent[f].up + 1
    PROVE  /\ \A i, j \in Heads(d, f)' : i < j => uplink'[d][i].piece.n < uplink'[d][j].piece.n
           /\ \A i \in Heads(d, f)' : uplink'[d][i].piece.n <= sent[f].up + 1
<1>1. /\ Len(uplink[d]) \in Nat /\ sent[f].up \in Nat
      /\ \A i \in 1..Len(uplink[d]) : uplink[d][i].piece.n \in Nat
    BY LengthTypes DEF Types, Pieces
<1>2. \A i \in Heads(d, f)' :
         \/ i \in Heads(d, f) /\ i \in 1..Len(uplink[d]) /\ uplink'[d][i] = uplink[d][i]
         \/ i = Len(uplink[d]) + 1 /\ uplink'[d][i] = m
    <2>1. \A i \in HeadsIn(uplink'[d], f) : i \in HeadsIn(uplink[d], f) \/ i = Len(uplink[d]) + 1
        BY <1>1, FoundLonger
    <2>2. \A i \in HeadsIn(uplink[d], f) : i \in 1..Len(uplink[d])
        BY DEF HeadsIn
    <2> QED
        BY <2>1, <2>2 DEF Heads, Longer
<1>3. \A i \in Heads(d, f) : uplink[d][i].piece.n <= sent[f].up
    BY DEF CountedAt
<1>4. \A i, j \in Heads(d, f) : i < j => uplink[d][i].piece.n < uplink[d][j].piece.n
    BY DEF CountedAt
<1>5. ASSUME NEW i \in Heads(d, f)', NEW j \in Heads(d, f)', i < j
      PROVE  uplink'[d][i].piece.n < uplink'[d][j].piece.n
    <2>1. i \in Heads(d, f) /\ i \in 1..Len(uplink[d]) /\ uplink'[d][i] = uplink[d][i]
        BY <1>1, <1>2, <1>5
    <2>2. CASE j \in Heads(d, f) /\ uplink'[d][j] = uplink[d][j]
        BY <1>4, <1>5, <2>1, <2>2
    <2>3. CASE uplink'[d][j] = m
        <3>1. uplink[d][i].piece.n <= sent[f].up /\ uplink[d][i].piece.n \in Nat
            BY <1>1, <1>3, <2>1
        <3> QED
            BY <1>1, <2>1, <2>3, <3>1
    <2> QED
        BY <1>2, <2>2, <2>3
<1>6. ASSUME NEW i \in Heads(d, f)' PROVE uplink'[d][i].piece.n <= sent[f].up + 1
    <2>1. CASE i \in 1..Len(uplink[d]) /\ i \in Heads(d, f) /\ uplink'[d][i] = uplink[d][i]
        <3>1. uplink[d][i].piece.n <= sent[f].up /\ uplink[d][i].piece.n \in Nat
            BY <1>1, <1>3, <2>1
        <3> QED
            BY <1>1, <2>1, <3>1
    <2>2. CASE uplink'[d][i] = m
        BY <1>1, <2>2
    <2> QED
        BY <1>2, <2>1, <2>2
<1> QED
    BY <1>5, <1>6

\* A close ends every job of its forward at the device that takes it.
LEMMA CloseEnds ==
    ASSUME Types, Owned, NEW d \in Devices, DeviceTakes(d), TakesClose(d),
           NEW k \in Forwards, k = downlink[d][1].of
    PROVE  JobsOf(d, k)' = {}
<1>1. PICK f \in Downs : f = downlink[d][1] /\ 1 \in 1..Len(downlink[d])
    BY TakesIs, DownTaken
<1>2. \A j \in serving'[d] : j \in serving[d] /\ ~(j.type = "open" /\ j.seq = f.seq)
    BY <1>1 DEF TakesClose
<1>3. f.seq = number[k]
    BY <1>1 DEF Owned
<1>4. \A j \in serving[d] : j.seq = number[j.of] /\ (j.of \in Forwards => j.type = "open")
    BY LengthTypes, Constants DEF Owned, Jobs, Downs
<1> QED
    BY <1>2, <1>3, <1>4 DEF JobsOf

LEMMA CountedStep == Base /\ Owned /\ Placed /\ Counted /\ [Next]_vars => Counted'
<1> SUFFICES ASSUME Base, Owned, Placed, Counted, [Next]_vars, Live',
                    NEW c \in Forwards, NEW e \in Devices
             PROVE  CountedAt(e, c)'
    BY DEF Counted
<1>0. /\ Live /\ Types /\ Numbered /\ c \in Clients /\ c \notin Requests
      /\ CountedAt(e, c) /\ PlacedAt(e, c)
    BY LiveBefore, Constants DEF Base, Placed, Counted, Clients
<1>1. ASSUME uplink'[e] = uplink[e], serving'[e] \subseteq serving[e],
             sent'[c].up = sent[c].up
      PROVE  CountedAt(e, c)'
    BY <1>0, <1>1, HeadsKeep, JobsLess, CountedKept
<1>2. CASE Serves
    BY <1>0, <1>1, <1>2, ServesIs
<1>3. ASSUME NEW d \in Devices, Received(d) PROVE CountedAt(e, c)'
    <2>1. Taking(d) /\ UNCHANGED <<serving, sent>>
        BY <1>0, <1>3, ReceivedIs
    <2>2. uplink'[e] = uplink[e]
             \/ \E n \in 0..Len(uplink[e]) : Shifted(uplink'[e], uplink[e], n)
        <3>1. /\ Shifted(uplink'[d], uplink[d], 1) /\ 1 \in 0..Len(uplink[d])
              /\ \A a \in Devices : a # d => uplink'[a] = uplink[a]
            BY <1>0, <2>1, UpTaken
        <3> QED
            BY <3>1
    <2> QED
        BY <1>0, <2>1, <2>2, HeadsKeep, JobsLess, CountedKept
<1>4. ASSUME NEW d \in Devices, DeviceActs(d) PROVE CountedAt(e, c)'
    <2>1. CASE DeviceLost(d)
        <3>1. /\ uplink'[e] = uplink[e]
                   \/ \E n \in 0..Len(uplink[e]) : Shifted(uplink'[e], uplink[e], n)
              /\ serving'[e] \subseteq serving[e] /\ UNCHANGED sent
            BY <1>0, <2>1, LinksLost DEF DeviceLost
        <3> QED
            BY <1>0, <3>1, HeadsKeep, JobsLess, CountedKept
    <2>2. CASE DeviceTakes(d)
        <3>0. UNCHANGED sent
            BY <1>0, <2>2, TakesIs
        <3>1. CASE TakesOrder(d)
            <4>1. PICK f \in Downs : f = downlink[d][1] /\ 1 \in 1..Len(downlink[d])
                BY <1>0, <2>2, TakesIs, DownTaken
            <4>2. /\ f.type \in {"http", "open"} /\ UNCHANGED uplink
                  /\ serving'[d] = serving[d] \cup {f}
                  /\ \A a \in Devices : a # d => serving'[a] = serving[a]
                BY <3>1, <4>1 DEF TakesOrder
            <4>3. CASE e = d /\ f.of = c
                <5>1. 1 \in Orders(e, c)
                    BY <4>1, <4>2, <4>3 DEF Orders, OrdersIn
                <5>2. Heads(e, c) = {}
                    BY <1>0, <5>1 DEF PlacedAt
                <5>3. Heads(e, c)' = {}
                    BY <4>2, <5>2 DEF Heads, HeadsIn
                <5> QED
                    BY <5>3 DEF CountedAt
            <4>4. CASE ~(e = d /\ f.of = c)
                <5>1. JobsOf(e, c)' \subseteq JobsOf(e, c)
                    BY <4>2, <4>4 DEF JobsOf
                <5> QED
                    BY <1>0, <3>0, <4>2, <5>1, HeadsKeep, CountedKept
            <4> QED
                BY <4>3, <4>4
        <3>2. CASE TakesData(d)
            BY <1>0, <1>1, <3>0, <3>2 DEF TakesData
        <3>3. CASE TakesClose(d)
            <4>1. PICK f \in Downs : f = downlink[d][1]
                BY <1>0, <2>2, TakesIs
            <4>2. PICK k \in Forwards : k = f.of
                BY <3>3, <4>1 DEF TakesClose
            <4>3. /\ \A a \in Devices : a # d => serving'[a] = serving[a] /\ uplink'[a] = uplink[a]
                  /\ serving'[d] \subseteq serving[d]
                BY <3>3 DEF TakesClose
            <4>4. CASE UNCHANGED uplink \/ e # d
                BY <1>1, <3>0, <4>3, <4>4
            <4>5. CASE ~UNCHANGED uplink /\ e = d
                <5> DEFINE m == Header(f.seq, 1, Piece(k, sent[k].up + 1))
                <5>1. /\ Longer(uplink'[d], uplink[d], m)
                      /\ \E j \in serving[d] : j.type = "open" /\ j.seq = f.seq
                    BY <3>3, <4>1, <4>2, <4>5 DEF TakesClose
                <5>2. m.piece.of = k /\ m.piece.n = sent[k].up + 1
                    BY DEF Header, Piece
                <5>3. JobsOf(d, k) # {}
                    BY <1>0, <2>2, <4>1, <4>2, <5>1, CloseIsFor DEF JobsOf
                <5>4. JobsOf(d, k)' = {}
                    BY <1>0, <2>2, <3>3, <4>1, <4>2, CloseEnds
                <5> HIDE DEF m
                <5>5. CASE c = k
                    <6>1. \A i, j \in Heads(d, k)' :
                             i < j => uplink'[d][i].piece.n < uplink'[d][j].piece.n
                        BY <1>0, <4>5, <5>1, <5>2, <5>3, <5>5, CountedAppended
                    <6> QED
                        BY <4>5, <5>4, <5>5, <6>1 DEF CountedAt
                <5>6. CASE c # k
                    <6>1. \A i \in HeadsIn(uplink'[d], c) : i \in HeadsIn(uplink[d], c)
                        BY <1>0, <5>1, <5>2, <5>6, FoundLonger, LengthTypes
                    <6>2. \A i \in HeadsIn(uplink[d], c) :
                              i \in Nat /\ i + 0 = i /\ uplink'[d][i] = uplink[d][i]
                        BY <5>1 DEF HeadsIn, Longer
                    <6>3. HeadsKept(d, c)
                        BY <6>1, <6>2 DEF HeadsKept, Heads
                    <6> QED
                        BY <1>0, <3>0, <4>3, <4>5, <6>3, JobsLess, CountedKept
                <5> QED
                    BY <5>5, <5>6
            <4> QED
                BY <4>4, <4>5
        <3> QED
            BY <1>0, <2>2, <3>1, <3>2, <3>3, TakesIs
    <2>3. CASE DeviceAnswers(d) \/ DeviceFails(d)
        <3>1. PICK j \in serving[d], ms \in Seq(Ups) : AnswersWith(d, j, ms)
            BY <1>0, <2>3, AnswersIs
        <3>2. PICK r \in Requests : r = j.of
            BY <3>1 DEF AnswersWith
        <3>3. /\ serving'[d] = serving[d] \ {j} /\ UNCHANGED sent
              /\ \A a \in Devices : a # d => serving'[a] = serving[a] /\ uplink'[a] = uplink[a]
              /\ Extended(uplink'[d], uplink[d], ms)
              /\ Len(ms) >= 1 /\ ms[1] = Header(j.seq, ms[1].total, Piece(r, 1))
              /\ \A i \in 1..(Len(ms) - 1) : ms[i + 1] = Body(Piece(r, i + 1))
            BY <2>3, <3>1, <3>2 DEF AnswersWith, DeviceAnswers, DeviceFails
        <3>4. CASE e # d
            BY <1>1, <3>3, <3>4
        <3>5. CASE e = d
            <4>0. ms[1].piece.of = r
                BY <3>3 DEF Header, Piece
            <4>1. ms[1].piece.of # c /\ \A i \in 1..Len(ms) : i = 1 \/ ~ms[i].head
                BY <1>0, <3>2, <3>3, <4>0, AnswerBodies
            <4>2. \A i \in HeadsIn(uplink'[d], c) : i \in HeadsIn(uplink[d], c)
                BY <1>0, <3>3, <4>1, FoundExtended, LengthTypes
            <4>3. \A i \in HeadsIn(uplink[d], c) :
                      i \in Nat /\ i + 0 = i /\ uplink'[d][i] = uplink[d][i]
                BY <3>3 DEF HeadsIn, Extended
            <4>4. HeadsKept(d, c)
                BY <4>2, <4>3 DEF HeadsKept, Heads
            <4> QED
                BY <1>0, <3>3, <3>5, <4>4, JobsLess, CountedKept
        <3> QED
            BY <3>4, <3>5
    <2>4. CASE DeviceSends(d)
        <3>1. PICK j \in serving[d] : SendsOf(d, j)
            BY <1>0, <2>4, SendsIs
        <3>2. PICK k \in Forwards : k = j.of
            BY <3>1 DEF SendsOf
        <3> DEFINE m == Header(j.seq, 1, Piece(k, sent[k].up + 1))
        <3>3. /\ serving'[d] \subseteq serving[d] /\ j \in serving[d]
              /\ \A a \in Devices : a # d => serving'[a] = serving[a] /\ uplink'[a] = uplink[a]
              /\ Longer(uplink'[d], uplink[d], m)
              /\ sent'[k].up = sent[k].up + 1
              /\ \A f \in Forwards : f # k => sent'[f].up = sent[f].up
            BY <3>1, <3>2 DEF SendsOf
        <3>4. m.piece.of = k /\ m.piece.n = sent[k].up + 1 /\ JobsOf(d, k) # {}
            BY <3>2, <3>3 DEF Header, Piece, JobsOf
        <3> HIDE DEF m
        <3>5. CASE e = d /\ c = k
            <4>1. /\ \A i, l \in Heads(d, k)' :
                         i < l => uplink'[d][i].piece.n < uplink'[d][l].piece.n
                  /\ \A i \in Heads(d, k)' : uplink'[d][i].piece.n <= sent'[k].up
                BY <1>0, <3>3, <3>4, <3>5, CountedAppended
            <4> QED
                BY <3>5, <4>1 DEF CountedAt
        <3>6. CASE e = d /\ c # k
            <4>1. \A i \in HeadsIn(uplink'[d], c) : i \in HeadsIn(uplink[d], c)
                BY <1>0, <3>3, <3>4, <3>6, FoundLonger, LengthTypes
            <4>2. \A i \in HeadsIn(uplink[d], c) :
                      i \in Nat /\ i + 0 = i /\ uplink'[d][i] = uplink[d][i]
                BY <3>3 DEF HeadsIn, Longer
            <4>3. HeadsKept(d, c)
                BY <4>1, <4>2 DEF HeadsKept, Heads
            <4> QED
                BY <1>0, <3>3, <3>6, <4>3, JobsLess, CountedKept
        <3>7. CASE e # d
            <4>1. JobsOf(e, k) = {} /\ JobsOf(e, k)' = {}
                <5>1. At(d, k) /\ (JobsOf(e, k) # {} => At(e, k)) /\ k \in Clients
                    BY <3>4 DEF At, Clients
                <5>2. JobsOf(e, k) = {}
                    BY <1>0, <3>7, <5>1 DEF Placed
                <5> QED
                    BY <3>3, <3>7, <5>2 DEF JobsOf
            <4>2. CASE c # k
                BY <1>1, <3>3, <3>7, <4>2
            <4>3. CASE c = k
                <5>1. CountedAt(e, c)' <=> CountedAt(e, c)
                    BY <3>3, <3>7, <4>1, <4>3 DEF CountedAt, Heads, HeadsIn
                <5> QED
                    BY <1>0, <5>1
            <4> QED
                BY <4>2, <4>3
        <3> QED
            BY <3>5, <3>6, <3>7
    <2> QED
        BY <1>4, <2>1, <2>2, <2>3, <2>4 DEF DeviceActs
<1>5. CASE Still
    BY <1>1, <1>5 DEF Still, links
<1> QED
    BY <1>2, <1>3, <1>4, <1>5, Moves DEF Received

-----------------------------------------------------------------------------
(* What the server receives.                                               *)

LEMMA CleanBefore == Types /\ [Next]_vars /\ clean' => clean
<1> SUFFICES ASSUME Types, [Next]_vars, clean' PROVE clean
    OBVIOUS
<1> USE DEF frame
<1>1. ASSUME NEW r \in Requests, Request(r) \/ RequestRejected(r) PROVE clean
    BY <1>1 DEF Request, RequestRejected, NewProcessor
<1>2. ASSUME NEW f \in Forwards, Hello(f) \/ HelloThrows(f) \/ Openning(f) PROVE clean
    BY <1>2 DEF Hello, HelloThrows, Openning, NewProcessor
<1>3. ASSUME NEW f \in Forwards, BrowserSends(f) \/ HangUp(f) PROVE clean
    BY <1>3 DEF BrowserSends, HangUp
<1>4. ASSUME NEW d \in Devices, Received(d) PROVE clean
    BY <1>4, ReceivedIs DEF Taking
<1>5. ASSUME NEW d \in Devices, DeviceActs(d) PROVE clean
    BY <1>5 DEF DeviceActs, DeviceLost, DeviceTakes, DeviceAnswers, DeviceFails, DeviceSends
<1>6. CASE Still
    BY <1>6 DEF Still
<1> QED
    BY <1>1, <1>2, <1>3, <1>4, <1>5, <1>6, Moves DEF Serves, Received

\* A step that receives nothing.
TakesNothing ==
    /\ UNCHANGED <<got, curr_seq, curr_total, from>>
    /\ \A c \in Clients : start'[c] = start[c] \/ (client[c] = "idle" /\ start'[c] = 0)
    /\ \A c \in Clients : number'[c] = number[c] \/ client[c] = "idle"
    /\ \A r \in Requests : client'[r] = client[r] \/ client[r] = "idle"
    /\ \A d \in Devices :
          \/ curr_seq # null /\ from = d /\ ~clean'
          \/ curr_seq = null \/ from # d
          \/ /\ Len(uplink'[d]) >= Len(uplink[d])
             /\ \A k \in 1..Len(uplink[d]) : uplink'[d][k] = uplink[d][k]

LEMMA TakesNothingIs ==
    ASSUME Types, Numbered, [Next]_vars
    PROVE  TakesNothing \/ \E d \in Devices : Received(d)
<1>0. /\ client \in [Clients -> {"idle", "greeted", "open", "over"}]
      /\ start \in [Clients -> Nat] /\ number \in [Clients -> T!Numbers \cup {null}]
      /\ \A d \in Devices : Len(uplink[d]) \in Nat
    BY LengthTypes DEF Types, TypeOK
<1> USE DEF frame, devices, browsers, links
<1>1. ASSUME NEW c \in Clients, NEW st, client[c] = "idle", NewProcessor(c, st),
             UNCHANGED <<got, uplink>>
      PROVE  TakesNothing
    <2>1. /\ start' = [start EXCEPT ![c] = 0]
          /\ number' = [number EXCEPT ![c] = T!NextSeq]
          /\ client' = [client EXCEPT ![c] = st]
          /\ UNCHANGED <<curr_seq, curr_total, from, got, uplink>>
        BY <1>1 DEF NewProcessor
    <2>2. /\ \A k \in Clients : start'[k] = start[k] \/ (client[k] = "idle" /\ start'[k] = 0)
          /\ \A k \in Clients : number'[k] = number[k] \/ client[k] = "idle"
          /\ \A k \in Clients : client'[k] = client[k] \/ client[k] = "idle"
        BY <1>0, <1>1, <2>1
    <2> QED
        BY <1>0, <2>1, <2>2 DEF TakesNothing, Clients
<1>2. ASSUME UNCHANGED <<got, curr_seq, curr_total, from, start, number, uplink>>,
             \A r \in Requests : client'[r] = client[r] \/ client[r] = "idle"
      PROVE  TakesNothing
    BY <1>0, <1>2 DEF TakesNothing
<1>3. ASSUME NEW r \in Requests, Request(r) PROVE TakesNothing
    BY <1>1, <1>3 DEF Request, Clients
<1>4. ASSUME NEW r \in Requests, RequestRejected(r) PROVE TakesNothing
    <2>1. \A k \in Requests : client'[k] = client[k] \/ client[k] = "idle"
        BY <1>0, <1>4 DEF RequestRejected, Clients
    <2> QED
        BY <1>2, <1>4, <2>1 DEF RequestRejected
<1>5. ASSUME NEW f \in Forwards, Hello(f) PROVE TakesNothing
    BY <1>1, <1>5 DEF Hello, Clients
<1>6. ASSUME NEW f \in Forwards, HelloThrows(f) \/ Openning(f) \/ BrowserSends(f) \/ HangUp(f)
      PROVE  TakesNothing
    <2>1. /\ UNCHANGED <<got, curr_seq, curr_total, from, start, number, uplink>>
          /\ UNCHANGED client \/ \E st : client' = [client EXCEPT ![f] = st]
        BY <1>6 DEF HelloThrows, Openning, BrowserSends, HangUp
    <2>2. \A k \in Requests : client'[k] = client[k]
        BY <1>0, <2>1, Constants DEF Clients
    <2> QED
        BY <1>2, <2>1, <2>2
<1>7. ASSUME NEW d \in Devices, DeviceActs(d) PROVE TakesNothing
    <2>0. /\ UNCHANGED <<got, curr_seq, curr_total, from, start, number, client>>
          /\ d \in Devices
        BY <1>7, ActsIs
    <2>1. CASE DeviceLost(d)
        <3>1. /\ curr_seq # null /\ from = d => ~clean'
              /\ \A e \in Devices : e # d => uplink'[e] = uplink[e]
            BY <2>1, LinksLost DEF DeviceLost
        <3> QED
            BY <1>0, <2>0, <3>1 DEF TakesNothing
    <2>2. ASSUME NEW m, Longer(uplink'[d], uplink[d], m),
                 \A e \in Devices : e # d => uplink'[e] = uplink[e]
          PROVE  TakesNothing
        BY <1>0, <2>0, <2>2 DEF TakesNothing, Longer
    <2>3. CASE DeviceTakes(d)
        <3>1. UNCHANGED uplink \/ \E m : /\ Longer(uplink'[d], uplink[d], m)
                                        /\ \A e \in Devices : e # d => uplink'[e] = uplink[e]
            BY <2>3, TakesIs DEF TakesOrder, TakesData, TakesClose
        <3> QED
            BY <1>2, <2>0, <2>2, <3>1
    <2>4. CASE DeviceAnswers(d) \/ DeviceFails(d)
        <3>1. PICK j \in serving[d], ms \in Seq(Ups) : AnswersWith(d, j, ms)
            BY <2>4, AnswersIs
        <3>2. /\ Extended(uplink'[d], uplink[d], ms) /\ Len(ms) \in Nat
              /\ \A e \in Devices : e # d => uplink'[e] = uplink[e]
            BY <3>1 DEF AnswersWith
        <3>3. /\ Len(uplink'[d]) >= Len(uplink[d])
              /\ \A k \in 1..Len(uplink[d]) : uplink'[d][k] = uplink[d][k]
            BY <1>0, <3>2 DEF Extended
        <3> QED
            BY <1>0, <2>0, <3>2, <3>3 DEF TakesNothing
    <2>5. CASE DeviceSends(d)
        <3>1. \E m : /\ Longer(uplink'[d], uplink[d], m)
                     /\ \A e \in Devices : e # d => uplink'[e] = uplink[e]
            BY <2>5, SendsIs DEF SendsOf
        <3> QED
            BY <2>2, <3>1
    <2> QED
        BY <1>7, <2>1, <2>3, <2>4, <2>5 DEF DeviceActs
<1>8. CASE Still
    BY <1>2, <1>8 DEF Still
<1> QED
    BY <1>3, <1>4, <1>5, <1>6, <1>7, <1>8, Moves DEF Serves, Received

LEMMA AtBefore ==
    ASSUME Base, Owned, Placed, Live, [Next]_vars
    PROVE  \A d \in Devices, c \in Clients :
              At(d, c)' => At(d, c) \/ (client[c] \in {"idle", "greeted"} /\ client'[c] = "open")
BY SpreadsStep DEF Spreads, Opens

LEMMA RestGrows ==
    ASSUME NEW s, NEW t, NEW r, NEW n \in Nat, NEW m \in Int, RestIn(s, r, n, m),
           Len(s) \in Nat, Len(t) \in Nat, Len(t) >= Len(s), \A k \in 1..Len(s) : t[k] = s[k]
    PROVE  RestIn(t, r, n, m)
<1>1. m <= Len(s) /\ \A k \in 1..m : s[k] = Body(Piece(r, n + k))
    BY DEF RestIn
<1>2. m <= Len(t) /\ \A k \in 1..m : k \in 1..Len(s)
    BY <1>1
<1>3. \A k \in 1..m : t[k] = Body(Piece(r, n + k))
    BY <1>1, <1>2, Zenon
<1> QED
    BY <1>2, <1>3 DEF RestIn

LEMMA ReceivingKept ==
    ASSUME Base, Types', Owned, Cutting, Placed, Receiving, Running, clean, clean', [Next]_vars,
           TakesNothing
    PROVE  Receiving'
<1>0. Live /\ Types /\ Numbered
    BY DEF Base, Cutting, Live
<1>1. \A d \in Devices, c \in Clients :
          At(d, c)' => At(d, c) \/ (client[c] \in {"idle", "greeted"} /\ client'[c] = "open")
    BY <1>0, AtBefore
<1>2. \A f \in Forwards : start'[f] = 0
    BY DEF TakesNothing, Receiving, Clients
<1>3. ASSUME NEW r \in Requests, NEW d \in Devices, At(d, r)' PROVE client'[r] = "open"
    BY <1>1, <1>3 DEF TakesNothing, Receiving, Clients
<1>4. ASSUME NEW r \in Requests,
             client'[r] \in {"idle", "greeted"} \/ \E d \in Devices : At(d, r)'
      PROVE  got'[r] = <<>> /\ start'[r] = 0
    <2>1. client[r] \in {"idle", "greeted"} \/ \E d \in Devices : At(d, r)
        BY <1>0, <1>1, <1>4, NoWayBack DEF Clients
    <2>2. got[r] = <<>> /\ start[r] = 0
        BY <2>1 DEF Receiving
    <2> QED
        BY <2>2 DEF TakesNothing, Clients
<1>5. ASSUME curr_seq' # null
      PROVE  /\ from' \in Devices
             /\ \E r \in Requests :
                    /\ curr_seq' = number'[r] /\ client'[r] = "open"
                    /\ \A d \in Devices : ~At(d, r)'
                    /\ r \notin Refusable => Rest(r)'
    <2>1. /\ UNCHANGED <<got, curr_seq, curr_total, from>> /\ curr_seq # null
          /\ from \in Devices
        BY <1>5 DEF TakesNothing, Receiving
    <2>2. PICK r \in Requests :
             /\ curr_seq = number[r] /\ client[r] = "open"
             /\ \A d \in Devices : ~At(d, r)
             /\ r \notin Refusable => Rest(r)
        BY <2>1 DEF Receiving
    <2>3. /\ number'[r] = number[r] /\ client'[r] = "open" /\ start'[r] = start[r]
          /\ r \in Clients
        BY <2>2 DEF TakesNothing, Clients
    <2>4. \A d \in Devices : ~At(d, r)'
        BY <1>1, <2>2, <2>3
    <2>5. /\ Len(uplink'[from]) >= Len(uplink[from])
          /\ \A k \in 1..Len(uplink[from]) : uplink'[from][k] = uplink[from][k]
        BY <2>1 DEF TakesNothing
    <2>6. start[r] \in Nat /\ curr_total \in Nat /\ Len(uplink[from]) \in Nat
          /\ Len(uplink'[from]) \in Nat
        BY <1>0, <2>1, <2>3 DEF Types
    <2>7. ASSUME Rest(r) PROVE Rest(r)'
        <3>1. /\ start[r] = Len(got[r]) /\ start[r] < curr_total
              /\ RestIn(uplink[from], r, start[r], curr_total - start[r])
            BY <2>7 DEF Rest
        <3>2. RestIn(uplink'[from], r, start[r], curr_total - start[r])
            BY <2>5, <2>6, <3>1, RestGrows
        <3>3. RestIn(uplink'[from'], r, start'[r], curr_total' - start'[r])
            BY <2>1, <2>3, <3>2
        <3>4. start'[r] = Len(got'[r]) /\ start'[r] < curr_total'
            BY <2>1, <2>3, <3>1
        <3> QED
            BY <3>3, <3>4, Zenon DEF Rest
    <2> QED
        BY <2>1, <2>2, <2>3, <2>4, <2>7
<1> QED
    BY <1>2, <1>3, <1>4, <1>5 DEF Receiving

\* The first message of a frame goes to the client that the frame is for.
LEMMA FirstPiece ==
    ASSUME Base, Owned, Placed, Receiving, Live, clean, NEW d \in Devices, NEW c \in Clients,
           Processing(d, c), curr_seq = null
    PROVE  /\ uplink[d][1].head /\ uplink[d][1].piece.of = c /\ uplink[d][1] \in Ups
           /\ uplink[d][1].seq = number[c] /\ 1 \in Heads(d, c)
           /\ FrameSeq(Head(uplink[d])) = number[c]
<1>0. Types /\ Numbered /\ Running /\ cut # "twice" /\ Taking(d)
    BY DEF Base, Live, Processing
<1>1. PICK m \in Ups : m = Head(uplink[d]) /\ m = uplink[d][1] /\ 1 \in 1..Len(uplink[d])
    BY <1>0, TakingTypes
<1>2. m.head /\ T!getBySeq(m.seq) # null /\ T!getBySeq(m.seq).who = c
    BY <1>1 DEF Processing, FrameSeq
<1>3. PICK o \in Clients : o = m.piece.of
    BY DEF Ups, Pieces
<1>4. 1 \in Heads(d, o) /\ m.seq = number[o]
    BY <1>1, <1>2, <1>3 DEF Heads, HeadsIn, Owned
<1>5. At(d, o)
    BY <1>4 DEF At
<1>6. client[o] \notin {"idle", "greeted"}
    BY <1>5 DEF Placed, PlacedAt
<1>7. Needs(o)
    BY <1>0, <1>5, <1>6 DEF Receiving, Needs, Clients
<1>8. Sound /\ ObjectOf(o) \in Objs
    BY <1>0, <1>7 DEF Base, Types, TypeOK, Tabled, Present, Live, Sound
<1>9. T!getBySeq(m.seq) = ObjectOf(o)
    <2>1. ObjectOf(o).seq = m.seq
        BY <1>4 DEF ObjectOf
    <2> QED
        BY <1>8, <2>1, Found
<1>10. o = c
    BY <1>2, <1>9 DEF ObjectOf
<1> QED
    BY <1>1, <1>2, <1>3, <1>4, <1>10 DEF FrameSeq

\* The next message goes to the request whose response it is a part of.
NextFor(r, d) ==
    /\ from = d /\ curr_seq = number[r] /\ client[r] = "open" /\ \A e \in Devices : ~At(e, r)
    /\ r \notin Refusable => Rest(r)
    /\ T!getBySeq(curr_seq) # null /\ T!getBySeq(curr_seq).who = r

LEMMA NextPiece ==
    ASSUME Base, Receiving, Live, clean, clean', NEW d \in Devices, Taking(d), curr_seq # null
    PROVE  \E r \in Requests : NextFor(r, d)
<1>0. Types /\ Numbered /\ Running /\ from = d
    BY DEF Base, Live, Taking
<1>1. PICK r \in Requests :
         /\ curr_seq = number[r] /\ client[r] = "open" /\ \A e \in Devices : ~At(e, r)
         /\ r \notin Refusable => Rest(r)
    BY <1>0 DEF Receiving
<1>2. Needs(r) /\ r \in Clients
    BY <1>1 DEF Needs, Clients
<1>3. Sound /\ ObjectOf(r) \in Objs
    BY <1>0, <1>2 DEF Base, Types, TypeOK, Tabled, Present, Live, Sound
<1>4. T!getBySeq(curr_seq) = ObjectOf(r)
    <2>1. ObjectOf(r).seq = curr_seq
        BY <1>1 DEF ObjectOf
    <2> QED
        BY <1>3, <2>1, Found
<1>5. ObjectOf(r) # null
    BY <1>3, Found, Constants
<1>6. T!getBySeq(curr_seq).who = r
    BY <1>4 DEF ObjectOf
<1> QED
    BY <1>0, <1>1, <1>4, <1>5, <1>6 DEF NextFor

LEMMA RestBegins ==
    ASSUME NEW s \in Seq(Ups), NEW t, Shifted(t, s, 1), FramedIn(s), s # <<>>, s[1].head,
           NEW r \in Requests \ Refusable, s[1].piece.of = r
    PROVE  s[1].piece = Piece(r, 1) /\ s[1].total >= 1 /\ RestIn(t, r, 1, s[1].total - 1)
<1>1. 1 \in 1..Len(s) /\ Len(s) \in Nat /\ s[1] \in Ups
    OBVIOUS
<1>2. PICK m \in Ups : m = s[1]
    BY <1>1
<1>3. m.total \in Nat /\ m.piece \in Pieces /\ m.head /\ m.piece.of \in Requests \ Refusable
    BY <1>2 DEF Ups
<1>4. /\ m.total >= 1 /\ 1 + m.total - 1 <= Len(s) /\ m.piece.n = 1
      /\ \A k \in 1..(m.total - 1) : s[1 + k] = Body(Piece(r, k + 1))
    BY <1>1, <1>2, <1>3 DEF FramedIn
<1>5. m.piece = Piece(r, 1)
    BY <1>2, <1>3, <1>4 DEF Pieces, Piece
<1>6. Len(t) = Len(s) - 1 /\ \A i \in 1..Len(t) : t[i] = s[i + 1]
    BY DEF Shifted
<1>7. m.total - 1 <= Len(t)
    BY <1>1, <1>3, <1>4, <1>6
<1>8. ASSUME NEW k \in 1..(m.total - 1) PROVE t[k] = Body(Piece(r, 1 + k))
    <2>1. k \in 1..Len(t) /\ 1 + k = k + 1
        BY <1>1, <1>3, <1>6, <1>7
    <2> QED
        BY <1>4, <1>6, <2>1
<1> QED
    BY <1>2, <1>4, <1>5, <1>7, <1>8 DEF RestIn

LEMMA RestGoes ==
    ASSUME NEW s \in Seq(Ups), NEW t, Shifted(t, s, 1), NEW r, NEW n \in Nat, NEW m \in Int,
           m >= 1, RestIn(s, r, n, m)
    PROVE  s[1] = Body(Piece(r, n + 1)) /\ RestIn(t, r, n + 1, m - 1)
<1>1. /\ Len(s) \in Nat /\ Len(t) = Len(s) - 1 /\ \A i \in 1..Len(t) : t[i] = s[i + 1]
      /\ m <= Len(s) /\ \A k \in 1..m : s[k] = Body(Piece(r, n + k))
    BY DEF Shifted, RestIn
<1>2. ASSUME NEW k \in 1..(m - 1) PROVE t[k] = Body(Piece(r, (n + 1) + k))
    <2>1. k \in 1..Len(t) /\ k + 1 \in 1..m /\ n + (k + 1) = (n + 1) + k
        BY <1>1
    <2> QED
        BY <1>1, <2>1
<1>3. 1 \in 1..m /\ m - 1 <= Len(t)
    BY <1>1
<1> QED
    BY <1>1, <1>2, <1>3 DEF RestIn

\* The head of a response that is taken was all there was of its request.
LEMMA HeadTaken ==
    ASSUME Types, Placed, Live, NEW d \in Devices, Taking(d), NEW r \in Requests, 1 \in Heads(d, r)
    PROVE  \A e \in Devices : ~At(e, r)'
<1>1. /\ Shifted(uplink'[d], uplink[d], 1) /\ UNCHANGED <<downlink, serving>>
      /\ \A e \in Devices : e # d => uplink'[e] = uplink[e]
    BY UpTaken DEF Taking
<1>2. r \in Clients /\ At(d, r)
    BY DEF At, Clients
<1>3. /\ Orders(d, r) = {} /\ JobsOf(d, r) = {} /\ \A i, j \in Heads(d, r) : i = j
      /\ \A e \in Devices : At(e, r) => e = d
    BY <1>2 DEF Placed, PlacedAt
<1>4. \A i \in Heads(d, r)' : i + 1 \in Heads(d, r) /\ i \in Nat \ {0}
    <2>1. \A i \in HeadsIn(uplink'[d], r) : i + 1 \in HeadsIn(uplink[d], r)
        BY <1>1, FoundShifted, LengthTypes
    <2>2. \A i \in HeadsIn(uplink'[d], r) : i \in Nat \ {0}
        BY DEF HeadsIn
    <2> QED
        BY <2>1, <2>2 DEF Heads
<1>5. Heads(d, r)' = {}
    BY <1>3, <1>4
<1>6. ~At(d, r)'
    BY <1>1, <1>3, <1>5 DEF At, Orders, OrdersIn, JobsOf
<1>7. ASSUME NEW e \in Devices, e # d PROVE ~At(e, r)'
    <2>1. ~At(e, r)
        BY <1>3, <1>7
    <2> QED
        BY <1>1, <1>7, <2>1 DEF At, Orders, OrdersIn, JobsOf, Heads, HeadsIn
<1> QED
    BY <1>6, <1>7

\* A client k, if any, has been given something.
LEMMA ReceivingGiven ==
    ASSUME Base, Owned, Placed, Receiving, Live, clean, [Next]_vars,
           NEW d \in Devices, Received(d), NEW k,
           \A c \in Clients : c # k => got'[c] = got[c] /\ start'[c] = start[c] /\ client'[c] = client[c],
           k \in Requests => (\A e \in Devices : ~At(e, k)') /\ client'[k] \notin {"idle", "greeted"},
           k \in Forwards => start'[k] = 0,
           curr_seq' # null =>
              /\ from' \in Devices
              /\ \E r \in Requests :
                    /\ curr_seq' = number'[r] /\ client'[r] = "open"
                    /\ \A e \in Devices : ~At(e, r)'
                    /\ r \notin Refusable => Rest(r)'
    PROVE  Receiving'
<1>0. Running /\ Types /\ Numbered
    BY DEF Base, Live
<1>1. \A e \in Devices, c \in Clients : At(e, c)' => At(e, c)
    BY <1>0, AtBefore, ReceivedIs
<1>2. \A f \in Forwards : start'[f] = 0
    BY <1>0 DEF Receiving, Clients
<1>3. ASSUME NEW r \in Requests, NEW e \in Devices, At(e, r)' PROVE client'[r] = "open"
    BY <1>0, <1>1, <1>3 DEF Receiving, Clients
<1>4. ASSUME NEW r \in Requests,
             client'[r] \in {"idle", "greeted"} \/ \E e \in Devices : At(e, r)'
      PROVE  got'[r] = <<>> /\ start'[r] = 0
    <2>1. r # k /\ r \in Clients
        BY <1>4 DEF Clients
    <2>2. client[r] \in {"idle", "greeted"} \/ \E e \in Devices : At(e, r)
        BY <1>1, <1>4, <2>1
    <2> QED
        BY <1>0, <2>1, <2>2 DEF Receiving
<1> QED
    BY <1>2, <1>3, <1>4 DEF Receiving

\* What a request's browser is given is the next piece of its response.
Given(c, p) ==
    /\ \A b \in Clients : b # c => got'[b] = got[b]
    /\ got'[c] = Append(got[c], p)
GivenNext(c) == \E p \in Pieces : Given(c, p) /\ (c \notin Refusable => p = Piece(c, Len(got[c]) + 1))

LEMMA PieceTaken ==
    ASSUME Base, Owned, Placed, Framed, Receiving, Live, clean, clean',
           NEW d \in Devices, NEW c \in Requests, Processing(d, c),
           got' = [got EXCEPT ![c] = Append(@, Head(uplink[d]).piece)]
    PROVE  /\ GivenNext(c) /\ client[c] = "open" /\ \A e \in Devices : ~At(e, c)'
           /\ FrameSeq(Head(uplink[d])) = number[c]
           /\ c \notin Refusable =>
                /\ start[c] = Len(got[c]) /\ LenOf(Head(uplink[d])) = 1
                /\ start[c] < TotalOf(Head(uplink[d])) /\ TotalOf(Head(uplink[d])) \in Nat
                /\ RestIn(uplink'[d], c, start[c] + 1, TotalOf(Head(uplink[d])) - (start[c] + 1))
<1>0. /\ Types /\ Numbered /\ Running /\ Taking(d) /\ c \in Clients
      /\ uplink[d] \in Seq(Ups) /\ uplink[d] # <<>> /\ FramedIn(uplink[d])
      /\ start[c] \in Nat /\ curr_total \in Nat
    BY DEF Base, Live, Processing, Taking, Types, Framed, Clients
<1>1. PICK m \in Ups : m = Head(uplink[d]) /\ m = uplink[d][1] /\ m.piece \in Pieces
    BY <1>0, TakingTypes
<1>2. Given(c, m.piece)
    BY <1>0, <1>1 DEF Given, Types
<1>3. Shifted(uplink'[d], uplink[d], 1)
    BY <1>0, UpTaken
<1>4. CASE curr_seq = null
    <2>1. m.head /\ m.piece.of = c /\ 1 \in Heads(d, c) /\ FrameSeq(Head(uplink[d])) = number[c]
        BY <1>0, <1>1, <1>4, FirstPiece
    <2>2. client[c] = "open" /\ got[c] = <<>> /\ start[c] = 0
        BY <1>0, <2>1 DEF Receiving, At
    <2>3. \A e \in Devices : ~At(e, c)'
        BY <1>0, <2>1, HeadTaken
    <2>4. ASSUME c \notin Refusable
          PROVE  m.piece = Piece(c, 1) /\ m.total >= 1 /\ RestIn(uplink'[d], c, 1, m.total - 1)
        BY <1>0, <1>1, <1>3, <2>1, <2>4, RestBegins
    <2>5. LenOf(m) = 1 /\ TotalOf(m) = m.total /\ m.total \in Nat
        BY <1>4 DEF LenOf, TotalOf, Ups
    <2>6. Len(got[c]) = 0 /\ start[c] + 1 = 1
        BY <2>2
    <2>7. GivenNext(c)
        BY <1>1, <1>2, <2>4, <2>6 DEF GivenNext
    <2> QED
        BY <1>1, <2>1, <2>2, <2>3, <2>4, <2>5, <2>6, <2>7
<1>5. CASE curr_seq # null
    <2>1. PICK r \in Requests : NextFor(r, d)
        BY <1>0, <1>5, NextPiece
    <2>2. r = c
        BY <1>1, <1>5, <2>1 DEF NextFor, Processing, FrameSeq
    <2>3. /\ client[c] = "open" /\ \A e \in Devices : ~At(e, c)
          /\ FrameSeq(m) = number[c] /\ TotalOf(m) = curr_total
          /\ from = d /\ (c \notin Refusable => Rest(c))
        BY <1>5, <2>1, <2>2 DEF NextFor, FrameSeq, TotalOf
    <2>4. \A e \in Devices : ~At(e, c)'
        <3>1. /\ UNCHANGED <<downlink, serving>> /\ Shifted(uplink'[d], uplink[d], 1)
              /\ \A e \in Devices : e # d => uplink'[e] = uplink[e]
            BY <1>0, <1>3, UpTaken DEF Taking
        <3>2. \A i \in HeadsIn(uplink'[d], c) : i + 1 \in HeadsIn(uplink[d], c)
            BY <1>0, <3>1, FoundShifted
        <3>3. ASSUME NEW e \in Devices PROVE Heads(e, c)' # {} => Heads(e, c) # {}
            BY <3>1, <3>2 DEF Heads, HeadsIn
        <3> QED
            BY <2>3, <3>1, <3>3 DEF At, Orders, OrdersIn, JobsOf
    <2>5. ASSUME c \notin Refusable
          PROVE  /\ start[c] = Len(got[c]) /\ start[c] < curr_total
                 /\ m = Body(Piece(c, start[c] + 1))
                 /\ RestIn(uplink'[d], c, start[c] + 1, curr_total - (start[c] + 1))
        <3>1. /\ start[c] = Len(got[c]) /\ start[c] < curr_total
              /\ RestIn(uplink[d], c, start[c], curr_total - start[c])
            BY <2>3, <2>5 DEF Rest
        <3>2. curr_total - start[c] \in Int /\ curr_total - start[c] >= 1
            BY <1>0, <3>1
        <3>3. /\ uplink[d][1] = Body(Piece(c, start[c] + 1))
              /\ RestIn(uplink'[d], c, start[c] + 1, (curr_total - start[c]) - 1)
            BY <1>0, <1>3, <3>1, <3>2, RestGoes
        <3>4. (curr_total - start[c]) - 1 = curr_total - (start[c] + 1)
            BY <1>0
        <3> QED
            BY <1>1, <3>1, <3>3, <3>4
    <2>6. ASSUME c \notin Refusable PROVE LenOf(m) = 1 /\ m.piece = Piece(c, Len(got[c]) + 1)
        BY <2>5, <2>6 DEF LenOf, Body
    <2>7. GivenNext(c)
        BY <1>1, <1>2, <2>6 DEF GivenNext
    <2> QED
        BY <1>0, <1>1, <2>3, <2>4, <2>5, <2>6, <2>7
<1> QED
    BY <1>4, <1>5

LEMMA PartReceived ==
    ASSUME Base, Types', Owned, Placed, Framed, Receiving, Live, clean, clean', [Next]_vars,
           NEW d \in Devices, NEW c \in Clients, ProcessPart(d, c)
    PROVE  c \in Requests /\ GivenNext(c) /\ Receiving'
<1> DEFINE n == LenOf(Head(uplink[d]))
           total == TotalOf(Head(uplink[d]))
<1>0. /\ Types /\ Numbered /\ Running /\ Processing(d, c) /\ ~Reaches(d, c) /\ Taking(d)
      /\ got' = [got EXCEPT ![c] = Append(@, Head(uplink[d]).piece)]
      /\ start' = [start EXCEPT ![c] = @ + n]
      /\ curr_seq' = FrameSeq(Head(uplink[d])) /\ curr_total' = total
      /\ UNCHANGED <<client, number>> /\ Received(d)
    BY DEF Base, Live, ProcessPart, Processing, Taking, Received
<1>1. PICK m \in Ups : m = Head(uplink[d]) /\ m = uplink[d][1]
    BY <1>0, TakingTypes
<1>2. c \in Requests
    <2> SUFFICES ASSUME c \in Forwards PROVE FALSE
        BY DEF Clients
    <2>1. curr_seq = null
        <3> SUFFICES ASSUME curr_seq # null PROVE FALSE
            OBVIOUS
        <3>1. PICK r \in Requests : NextFor(r, d)
            BY <1>0, NextPiece
        <3>2. r = c
            BY <1>0, <1>1, <3>1 DEF NextFor, Processing, FrameSeq
        <3> QED
            BY <3>2, Constants
    <2>2. m.head /\ m.piece.of = c /\ start[c] = 0
        BY <1>0, <1>1, <2>1, FirstPiece DEF Receiving
    <2>3. 1 \in 1..Len(uplink[d])
        BY <1>0, UpTaken
    <2>4. m.total = 1
        BY <1>1, <2>2, <2>3 DEF Framed, FramedIn
    <2>5. LenOf(m) = 1 /\ TotalOf(m) = 1
        BY <2>1, <2>4 DEF LenOf, TotalOf
    <2> QED
        BY <1>0, <1>1, <2>2, <2>5 DEF Reaches
<1>3. /\ GivenNext(c) /\ client[c] = "open" /\ \A e \in Devices : ~At(e, c)'
      /\ FrameSeq(Head(uplink[d])) = number[c]
      /\ c \notin Refusable =>
           /\ start[c] = Len(got[c]) /\ n = 1
           /\ start[c] < total /\ total \in Nat
           /\ RestIn(uplink'[d], c, start[c] + 1, total - (start[c] + 1))
    BY <1>0, <1>2, PieceTaken
<1>4. from' = d
    <2>1. curr_seq # null => from = d
        BY <1>0, NextPiece DEF NextFor
    <2> QED
        BY <1>0, <2>1 DEF Taking
<1>5. start[c] \in Nat /\ start'[c] = start[c] + n /\ got[c] \in Seq(Pieces)
    BY <1>0 DEF Types
<1> HIDE DEF n, total
<1>6. ASSUME c \notin Refusable PROVE Rest(c)'
    <2>1. ~(start[c] + 1 >= total)
        BY <1>0, <1>3, <1>6 DEF Reaches, n, total
    <2>2. start'[c] = start[c] + 1 /\ curr_total' = total
        BY <1>0, <1>3, <1>5, <1>6
    <2>3. Len(got'[c]) = Len(got[c]) + 1
        <3>1. PICK p \in Pieces : Given(c, p)
            BY <1>3 DEF GivenNext
        <3> QED
            BY <1>5, <3>1 DEF Given
    <2>4. start'[c] = Len(got'[c]) /\ start'[c] < curr_total'
        BY <1>3, <1>5, <1>6, <2>1, <2>2, <2>3
    <2>5. RestIn(uplink'[from'], c, start'[c], curr_total' - start'[c])
        BY <1>3, <1>4, <1>6, <2>2
    <2> QED
        BY <2>4, <2>5, Zenon DEF Rest
<1>7. \A b \in Clients : b # c => got'[b] = got[b] /\ start'[b] = start[b] /\ client'[b] = client[b]
    BY <1>0 DEF Types
<1>8. /\ from' \in Devices
      /\ curr_seq' = number'[c] /\ client'[c] = "open"
    BY <1>0, <1>3, <1>4
<1>9. c \notin Forwards
    BY <1>2, Constants
<1>10. Receiving'
    BY <1>0, <1>2, <1>3, <1>6, <1>7, <1>8, <1>9, ReceivingGiven
<1> QED
    BY <1>2, <1>3, <1>10

LEMMA EndReceived ==
    ASSUME Base, Types', Owned, Placed, Framed, Receiving, Live, clean, clean', [Next]_vars,
           NEW d \in Devices, NEW c \in Requests, ResponseEnds(d, c)
    PROVE  GivenNext(c) /\ Receiving'
<1>0. /\ Types /\ Numbered /\ Running /\ Processing(d, c) /\ Taking(d) /\ c \in Clients
      /\ got' = [got EXCEPT ![c] = Append(@, Head(uplink[d]).piece)]
      /\ client' = [client EXCEPT ![c] = "over"]
      /\ curr_seq' = null /\ UNCHANGED start /\ Received(d)
    BY DEF Base, Live, ResponseEnds, Processing, Taking, FrameOver, Received, Clients
<1>1. GivenNext(c) /\ \A e \in Devices : ~At(e, c)'
    BY <1>0, PieceTaken
<1>2. /\ \A b \in Clients : b # c => got'[b] = got[b] /\ start'[b] = start[b]
                                     /\ client'[b] = client[b]
      /\ client'[c] = "over"
    BY <1>0 DEF Types, TypeOK
<1>3. c \notin Forwards
    BY Constants
<1>4. Receiving'
    BY <1>0, <1>1, <1>2, <1>3, ReceivingGiven
<1> QED
    BY <1>1, <1>4

LEMMA PassReceived ==
    ASSUME Base, Types', Owned, Placed, Framed, Receiving, Live, clean, clean', [Next]_vars,
           NEW d \in Devices, NEW c \in Forwards, ForwardPasses(d, c)
    PROVE  /\ 1 \in Heads(d, c) /\ Given(c, uplink[d][1].piece) /\ uplink[d][1].piece.of = c
           /\ Receiving'
<1>0. /\ Types /\ Numbered /\ Running /\ Processing(d, c) /\ Taking(d) /\ c \in Clients
      /\ got' = [got EXCEPT ![c] = Append(@, Head(uplink[d]).piece)]
      /\ start' = [start EXCEPT ![c] = 0]
      /\ curr_seq' = null /\ UNCHANGED client /\ Received(d)
    BY DEF Base, Live, ForwardPasses, Processing, Taking, FrameOver, Received, Clients
<1>1. curr_seq = null
    <2> SUFFICES ASSUME curr_seq # null PROVE FALSE
        OBVIOUS
    <2>1. PICK r \in Requests : NextFor(r, d)
        BY <1>0, NextPiece
    <2>2. r = c
        BY <1>0, <2>1 DEF NextFor, Processing, FrameSeq
    <2> QED
        BY <2>2, Constants
<1>2. 1 \in Heads(d, c) /\ uplink[d][1].piece.of = c
    BY <1>0, <1>1, FirstPiece
<1>3. Given(c, uplink[d][1].piece)
    BY <1>0, TakingTypes DEF Given, Types
<1>4. /\ \A b \in Clients : b # c => got'[b] = got[b] /\ start'[b] = start[b]
                                     /\ client'[b] = client[b]
      /\ start'[c] = 0 /\ c \notin Requests
    BY <1>0, Constants DEF Types
<1>5. Receiving'
    BY <1>0, <1>4, ReceivingGiven
<1> QED
    BY <1>2, <1>3, <1>5

LEMMA DropReceived ==
    ASSUME Base, Types', Owned, Placed, Receiving, Live, clean, [Next]_vars,
           NEW d \in Devices, Dropped(d)
    PROVE  UNCHANGED got /\ Receiving'
<1>0. UNCHANGED <<got, start, client>> /\ curr_seq' = null /\ Received(d)
    BY DEF Dropped, FrameOver, Received
<1>1. null \notin Requests /\ null \notin Forwards
    BY Constants DEF Clients
<1>2. Receiving'
    BY <1>0, <1>1, ReceivingGiven
<1> QED
    BY <1>0, <1>2

LEMMA ReceivingStep ==
    Base /\ Types' /\ Owned /\ Cutting /\ Placed /\ Framed /\ Receiving /\ [Next]_vars => Receiving'
<1> SUFFICES ASSUME Base, Types', Owned, Cutting, Placed, Framed, Receiving, [Next]_vars,
                    Running', clean'
             PROVE  Receiving'
    BY DEF Receiving
<1>0. Running /\ clean /\ Live /\ Types /\ Numbered
    BY RunningBefore, CleanBefore DEF Base, Cutting, Live
<1>1. CASE TakesNothing
    BY <1>0, <1>1, ReceivingKept
<1>2. ASSUME NEW d \in Devices, Received(d) PROVE Receiving'
    <2>1. ASSUME NEW c \in Clients, ResponseEnds(d, c) PROVE c \in Requests
        BY <2>1 DEF ResponseEnds
    <2>2. ASSUME NEW c \in Clients, ForwardPasses(d, c) PROVE c \in Forwards
        BY <2>2 DEF ForwardPasses
    <2> QED
        BY <1>0, <1>2, <2>1, <2>2, DropReceived, PartReceived, EndReceived, PassReceived DEF Received
<1> QED
    BY <1>0, <1>1, <1>2, TakesNothingIs

-----------------------------------------------------------------------------
(* What browsers are given.                                                *)

LEMMA StillStands == [Next]_vars /\ ~Running => Still
<1> SUFFICES ASSUME [Next]_vars, ~Running PROVE Still
    OBVIOUS
<1>1. \A r \in Requests : ~Request(r) /\ ~RequestRejected(r)
    BY DEF Request, RequestRejected
<1>2. \A f \in Forwards : ~Hello(f) /\ ~HelloThrows(f) /\ ~Openning(f)
    BY DEF Hello, HelloThrows, Openning
<1>3. \A f \in Forwards : ~BrowserSends(f) /\ ~HangUp(f)
    BY DEF BrowserSends, HangUp
<1>4. \A d \in Devices : ~Dropped(d) /\ ~DeviceActs(d)
    BY ActsIs DEF Dropped, Taking
<1>5. \A d \in Devices, c \in Clients :
         ~ProcessPart(d, c) /\ ~ResponseEnds(d, c) /\ ~ForwardPasses(d, c)
    BY DEF ProcessPart, ResponseEnds, ForwardPasses, Processing, Taking
<1> QED
    BY <1>1, <1>2, <1>3, <1>4, <1>5, Moves DEF Serves

\* What a step gives to browsers, as long as nothing came between.
LEMMA Givings ==
    ASSUME Base, Types', Owned, Cutting, Placed, Framed, Receiving, clean', [Next]_vars
    PROVE  /\ clean /\ cut = "never"
           /\ \/ UNCHANGED got
              \/ \E c \in Requests : Running /\ GivenNext(c)
              \/ \E d \in Devices, c \in Forwards :
                    /\ Running /\ Taking(d) /\ UNCHANGED client
                    /\ 1 \in Heads(d, c) /\ uplink[d][1].piece.of = c
                    /\ Given(c, uplink[d][1].piece)
<1>0. Types /\ Numbered /\ clean /\ cut = "never"
    BY CleanBefore DEF Base, Cutting
<1>1. ASSUME ~Running PROVE UNCHANGED got
    BY <1>1, StillStands DEF Still, browsers
<1>2. CASE TakesNothing
    BY <1>0, <1>2 DEF TakesNothing
<1>3. ASSUME NEW d \in Devices, Received(d), Running
      PROVE  \/ UNCHANGED got
             \/ \E c \in Requests : GivenNext(c)
             \/ \E e \in Devices, c \in Forwards :
                    /\ Taking(e) /\ UNCHANGED client
                    /\ 1 \in Heads(e, c) /\ uplink[e][1].piece.of = c
                    /\ Given(c, uplink[e][1].piece)
    <2>0. Live
        BY <1>0, <1>3 DEF Live
    <2>1. CASE Dropped(d)
        BY <2>1 DEF Dropped
    <2>2. ASSUME NEW c \in Clients, ProcessPart(d, c) PROVE c \in Requests /\ GivenNext(c)
        BY <1>0, <2>0, <2>2, PartReceived
    <2>3. ASSUME NEW c \in Clients, ResponseEnds(d, c) PROVE c \in Requests /\ GivenNext(c)
        <3>1. c \in Requests
            BY <2>3 DEF ResponseEnds
        <3> QED
            BY <1>0, <2>0, <2>3, <3>1, EndReceived
    <2>4. ASSUME NEW c \in Clients, ForwardPasses(d, c)
          PROVE  /\ c \in Forwards /\ Taking(d) /\ UNCHANGED client
                 /\ 1 \in Heads(d, c) /\ uplink[d][1].piece.of = c
                 /\ Given(c, uplink[d][1].piece)
        <3>1. c \in Forwards /\ Taking(d) /\ UNCHANGED client
            BY <2>4 DEF ForwardPasses, Processing
        <3> QED
            BY <1>0, <2>0, <2>4, <3>1, PassReceived
    <2> QED
        BY <1>3, <2>1, <2>2, <2>3, <2>4 DEF Received
<1> QED
    BY <1>0, <1>1, <1>2, <1>3, TakesNothingIs

LEMMA WholeStep ==
    Base /\ Types' /\ Owned /\ Cutting /\ Placed /\ Framed /\ Receiving /\ ResponsesWhole
      /\ [Next]_vars => ResponsesWhole'
<1> SUFFICES ASSUME Base, Types', Owned, Cutting, Placed, Framed, Receiving, ResponsesWhole,
                    [Next]_vars, clean', NEW r \in Requests \ Refusable
             PROVE  \A i \in 1..Len(got'[r]) : got'[r][i] = Piece(r, i)
    BY DEF ResponsesWhole
<1>1. /\ r \in Clients /\ r \notin Forwards /\ got[r] \in Seq(Pieces)
      /\ \A i \in 1..Len(got[r]) : got[r][i] = Piece(r, i)
    BY Givings, Constants DEF ResponsesWhole, Base, Types, Clients
<1>2. CASE got'[r] = got[r]
    BY <1>1, <1>2
<1>3. ASSUME NEW c \in Requests, GivenNext(c)
      PROVE  got'[r] = got[r] \/ got'[r] = Append(got[r], Piece(r, Len(got[r]) + 1))
    BY <1>1, <1>3 DEF GivenNext, Given
<1>4. ASSUME NEW d \in Devices, NEW c \in Forwards, Given(c, uplink[d][1].piece)
      PROVE  got'[r] = got[r]
    BY <1>1, <1>4 DEF Given
<1>5. ASSUME got'[r] = Append(got[r], Piece(r, Len(got[r]) + 1))
      PROVE  \A i \in 1..Len(got'[r]) : got'[r][i] = Piece(r, i)
    <2>1. /\ Len(got'[r]) = Len(got[r]) + 1 /\ Len(got[r]) \in Nat
          /\ got'[r][Len(got[r]) + 1] = Piece(r, Len(got[r]) + 1)
          /\ \A i \in 1..Len(got[r]) : got'[r][i] = got[r][i]
        <3> DEFINE p == Piece(r, Len(got[r]) + 1)
        <3>1. p \in Pieces
            BY <1>1 DEF Piece, Pieces
        <3> HIDE DEF p
        <3> QED
            BY <1>1, <1>5, <3>1 DEF p
    <2> QED
        BY <1>1, <2>1
<1> QED
    BY <1>2, <1>3, <1>4, <1>5, Givings

LEMMA InOrderAppended ==
    ASSUME NEW c, NEW s \in Seq(Pieces), NEW p \in Pieces, InOrderOf(c, s), p.of = c,
           \A i \in 1..Len(s) : s[i].n < p.n
    PROVE  InOrderOf(c, Append(s, p))
<1> DEFINE t == Append(s, p)
<1>1. /\ Len(t) = Len(s) + 1 /\ Len(s) \in Nat /\ t[Len(s) + 1] = p
      /\ \A i \in 1..Len(s) : t[i] = s[i]
    OBVIOUS
<1> HIDE DEF t
<1>2. \A i \in 1..Len(t) : (i \in 1..Len(s) /\ t[i] = s[i]) \/ (i = Len(s) + 1 /\ t[i] = p)
    <2>1. \A i \in 1..Len(t) : i \in 1..Len(s) \/ i = Len(s) + 1
        BY <1>1
    <2> QED
        BY <1>1, <2>1
<1>3. \A i \in 1..Len(t) : t[i].of = c
    BY <1>2 DEF InOrderOf
<1>4. ASSUME NEW i \in 1..Len(t), NEW j \in 1..Len(t), i < j PROVE t[i].n < t[j].n
    <2>1. i \in 1..Len(s) /\ t[i] = s[i]
        BY <1>1, <1>2, <1>4
    <2> QED
        BY <1>2, <1>4, <2>1 DEF InOrderOf
<1> QED
    BY <1>3, <1>4 DEF InOrderOf, t

\* What there is for a forward after a step, and where it comes from.
LEMMA SentGrows ==
    ASSUME Types, Types', Numbered, [Next]_vars, NEW f \in Forwards
    PROVE  /\ sent[f].up <= sent'[f].up /\ sent[f].up \in Nat /\ sent'[f].up \in Nat
           /\ sent[f].down <= sent'[f].down /\ sent[f].down \in Nat /\ sent'[f].down \in Nat
<1>0. /\ sent[f].up \in Nat /\ sent'[f].up \in Nat
      /\ sent[f].down \in Nat /\ sent'[f].down \in Nat
    BY DEF Types
<1>1. CASE Serves
    BY <1>0, <1>1, ServesIs
<1>2. ASSUME NEW d \in Devices, Received(d) PROVE UNCHANGED sent
    BY <1>2, ReceivedIs DEF Taking
<1>3. ASSUME NEW d \in Devices, DeviceActs(d)
      PROVE  sent'[f] = sent[f] \/ (sent'[f].up = sent[f].up + 1 /\ sent'[f].down = sent[f].down)
             \/ (sent'[f].up = sent[f].up /\ sent'[f].down = sent[f].down)
    <2>1. CASE DeviceSends(d)
        <3>1. PICK j \in serving[d] : SendsOf(d, j)
            BY <2>1, SendsIs
        <3> QED
            BY <3>1 DEF SendsOf
    <2>2. CASE ~DeviceSends(d)
        BY <1>3, <2>2 DEF DeviceActs, DeviceConnects, DeviceLost, DeviceTakes, DeviceAnswers,
                          DeviceFails, links
    <2> QED
        BY <2>1, <2>2
<1>4. ASSUME Still PROVE UNCHANGED sent
    BY <1>4 DEF Still, links
<1>5. CASE UNCHANGED sent
    BY <1>0, <1>5
<1>6. ASSUME NEW d \in Devices, DeviceActs(d)
      PROVE  sent[f].up <= sent'[f].up /\ sent[f].down <= sent'[f].down
    BY <1>0, <1>3, <1>6
<1>7. \/ Serves \/ (\E d \in Devices : Received(d)) \/ (\E d \in Devices : DeviceActs(d))
      \/ Still
    BY Moves, Zenon DEF Received
<1>8. Serves \/ UNCHANGED sent \/ \E d \in Devices : DeviceActs(d)
    BY <1>2, <1>4, <1>7, Zenon
<1> QED
    BY <1>0, <1>1, <1>5, <1>6, <1>8

LEMMA Comes ==
    ASSUME Base, Types', Owned, Live, [Next]_vars, NEW f \in Forwards, NEW d \in Devices
    PROVE  /\ Orders(d, f)' # {} => Orders(d, f) # {} \/ client[f] \in {"idle", "greeted"}
           /\ JobsOf(d, f)' # {} => JobsOf(d, f) # {} \/ Orders(d, f) # {}
           /\ \A k \in Heads(d, f)' :
                 \/ \E h \in Heads(d, f) : uplink'[d][k] = uplink[d][h]
                 \/ JobsOf(d, f) # {} /\ uplink'[d][k].piece.n = sent[f].up + 1
<1>0. Types /\ Numbered /\ Origins
    BY OriginsStep DEF Base
<1>1. /\ Orders(d, f)' = OrdersIn(downlink'[d], f) /\ Heads(d, f)' = HeadsIn(uplink'[d], f)
      /\ JobsOf(d, f)' = {j \in serving'[d] : j.of = f}
    BY DEF Orders, OrdersIn, Heads, HeadsIn, JobsOf
<1>2. ASSUME NEW i \in Orders(d, f)'
      PROVE  Orders(d, f) # {} \/ client[f] \in {"idle", "greeted"}
    <2>1. /\ i \in 1..Len(downlink'[d]) /\ downlink'[d][i].of = f
          /\ downlink'[d][i].type \in {"http", "open"}
        BY <1>1, <1>2 DEF OrdersIn
    <2>2. \/ \E k \in 1..Len(downlink[d]) : downlink'[d][i] = downlink[d][k]
          \/ client[f] \in {"idle", "greeted"}
        BY <1>0, <2>1 DEF Origins
    <2> QED
        BY <2>1, <2>2 DEF Orders, OrdersIn
<1>3. ASSUME NEW j \in JobsOf(d, f)' PROVE JobsOf(d, f) # {} \/ Orders(d, f) # {}
    <2>1. j \in serving'[d] /\ j.of = f
        BY <1>1, <1>3
    <2>2. j \in serving[d] \/ \E k \in 1..Len(downlink[d]) : j = downlink[d][k]
        BY <1>0, <2>1 DEF Origins
    <2>3. j.type \in {"http", "open"}
        BY <2>1 DEF Types, Jobs
    <2> QED
        BY <2>1, <2>2, <2>3 DEF JobsOf, Orders, OrdersIn
<1>4. ASSUME NEW k \in Heads(d, f)'
      PROVE  \/ \E h \in Heads(d, f) : uplink'[d][k] = uplink[d][h]
             \/ JobsOf(d, f) # {} /\ uplink'[d][k].piece.n = sent[f].up + 1
    <2>1. k \in 1..Len(uplink'[d]) /\ uplink'[d][k].head /\ uplink'[d][k].piece.of = f
        BY <1>1, <1>4 DEF HeadsIn
    <2> DEFINE m == uplink'[d][k]
    <2>2. \/ \E h \in 1..Len(uplink[d]) : m = uplink[d][h]
          \/ \E j \in serving[d] : /\ m.piece.of = j.of
                                   /\ j.of \in Forwards => m.piece.n = sent[j.of].up + 1
          \/ ForClose(d, m)
        BY <1>0, <2>1 DEF Origins
    <2>3. m.head /\ m.piece.of = f
        BY <2>1
    <2> HIDE DEF m
    <2>4. ASSUME ForClose(d, m) PROVE JobsOf(d, f) # {} /\ m.piece.n = sent[f].up + 1
        <3>1. /\ DeviceTakes(d) /\ downlink[d][1].of = f /\ m.piece.n = sent[f].up + 1
              /\ \E j \in serving[d] : j.type = "open" /\ j.seq = downlink[d][1].seq
            BY <2>3, <2>4 DEF ForClose
        <3>2. PICK j \in serving[d] : j.type = "open" /\ j.seq = downlink[d][1].seq
            BY <3>1
        <3>3. j.of = f
            BY <3>1, <3>2, CloseIsFor
        <3> QED
            BY <3>1, <3>2, <3>3 DEF JobsOf
    <2>5. ASSUME NEW h \in 1..Len(uplink[d]), m = uplink[d][h] PROVE h \in Heads(d, f)
        BY <2>3, <2>5 DEF Heads, HeadsIn
    <2>6. ASSUME NEW j \in serving[d], m.piece.of = j.of,
                 j.of \in Forwards => m.piece.n = sent[j.of].up + 1
          PROVE  JobsOf(d, f) # {} /\ m.piece.n = sent[f].up + 1
        BY <2>3, <2>6 DEF JobsOf
    <2> QED
        BY <2>2, <2>4, <2>5, <2>6 DEF m
<1> QED
    BY <1>2, <1>3, <1>4

\* A forward whose browser is given nothing by a step.
LEMMA PassedKept ==
    ASSUME Base, Types', Owned, [Next]_vars, cut = "never", NEW f \in Forwards,
           PassedAt(f), got'[f] = got[f]
    PROVE  PassedAt(f)'
<1>0. /\ Types /\ Numbered /\ f \in Clients /\ got[f] \in Seq(Pieces)
      /\ \A i \in 1..Len(got[f]) : got[f][i].n \in Nat
    <2>1. Types /\ Numbered /\ f \in Clients
        BY DEF Base, Clients
    <2>2. got[f] \in Seq(Pieces)
        BY <2>1 DEF Types
    <2>3. \A i \in 1..Len(got[f]) : got[f][i] \in Pieces
        BY <2>2
    <2> QED
        BY <2>1, <2>2, <2>3 DEF Pieces
<1>1. InOrderOf(f, got'[f])
    BY DEF PassedAt
<1>2. ASSUME Running' PROVE Running /\ Live
    BY <1>2, RunningBefore DEF Live
<1>3. ASSUME Running', client'[f] \in {"idle", "greeted"} PROVE got'[f] = <<>>
    BY <1>0, <1>2, <1>3, NoWayBack DEF PassedAt
<1>4. ASSUME Running', NEW d \in Devices
      PROVE  /\ Orders(d, f)' # {} => got[f] = <<>>
             /\ JobsOf(d, f)' # {} => \A i \in 1..Len(got[f]) : got[f][i].n <= sent'[f].up
             /\ \A i \in 1..Len(got[f]), k \in Heads(d, f)' :
                   got[f][i].n < uplink'[d][k].piece.n
    <2>0. Running /\ Live
        BY <1>2, <1>4
    <2>1. /\ Orders(d, f) # {} => got[f] = <<>>
          /\ client[f] \in {"idle", "greeted"} => got[f] = <<>>
          /\ JobsOf(d, f) # {} => \A i \in 1..Len(got[f]) : got[f][i].n <= sent[f].up
          /\ \A i \in 1..Len(got[f]), k \in Heads(d, f) :
                got[f][i].n < uplink[d][k].piece.n
        BY <2>0 DEF PassedAt
    <2>2. sent[f].up <= sent'[f].up /\ sent[f].up \in Nat /\ sent'[f].up \in Nat
        BY <1>0, SentGrows
    <2>3. JobsOf(d, f)' # {} => \A i \in 1..Len(got[f]) : got[f][i].n <= sent'[f].up
        <3>1. CASE Orders(d, f) # {}
            BY <2>1, <3>1
        <3>2. CASE JobsOf(d, f) # {}
            BY <1>0, <2>1, <2>2, <3>2
        <3> QED
            BY <2>0, <3>1, <3>2, Comes
    <2>4. ASSUME NEW i \in 1..Len(got[f]), NEW k \in Heads(d, f)'
          PROVE  got[f][i].n < uplink'[d][k].piece.n
        <3>1. CASE \E h \in Heads(d, f) : uplink'[d][k] = uplink[d][h]
            BY <2>1, <3>1
        <3>2. CASE JobsOf(d, f) # {} /\ uplink'[d][k].piece.n = sent[f].up + 1
            BY <1>0, <2>1, <2>2, <3>2
        <3> QED
            BY <2>0, <3>1, <3>2, Comes
    <2> QED
        BY <2>0, <2>1, <2>3, <2>4, Comes
<1> QED
    BY <1>1, <1>3, <1>4 DEF PassedAt

\* The forward whose browser is given the frame at the head of a link.
LEMMA PassedGiven ==
    ASSUME Base, Types', Owned, Placed, Counted, [Next]_vars, Live, NEW f \in Forwards,
           PassedAt(f), NEW d \in Devices, Taking(d), UNCHANGED client,
           1 \in Heads(d, f), uplink[d][1].piece.of = f, Given(f, uplink[d][1].piece)
    PROVE  PassedAt(f)'
<1> DEFINE p == uplink[d][1].piece
<1>0. /\ Types /\ Numbered /\ Running /\ f \in Clients /\ got[f] \in Seq(Pieces)
      /\ 1 \in 1..Len(uplink[d]) /\ UNCHANGED <<sent, downlink, serving>>
    BY DEF Base, Types, Clients, Live, Heads, HeadsIn, Taking
<1>1. p \in Pieces /\ p.of = f /\ p.n \in Nat /\ got'[f] = Append(got[f], p)
      /\ \A i \in 1..Len(got[f]) : got[f][i].n < p.n
    BY <1>0, LengthTypes DEF Given, PassedAt, Pieces
<1>2. CountedAt(d, f) /\ PlacedAt(d, f) /\ \A e \in Devices : At(e, f) => e = d
    BY <1>0 DEF Counted, Placed, At
<1>3. /\ JobsOf(d, f) # {} => p.n <= sent[f].up
      /\ \A k \in Heads(d, f) : 1 < k => p.n < uplink[d][k].piece.n
    BY <1>2 DEF CountedAt
<1>4. Orders(d, f) = {} /\ client[f] \notin {"idle", "greeted"}
    BY <1>2 DEF PlacedAt, At
<1> HIDE DEF p
<1>5. InOrderOf(f, got'[f])
    BY <1>0, <1>1, InOrderAppended DEF PassedAt
<1>6. \A i \in 1..Len(got'[f]) : \/ i \in 1..Len(got[f]) /\ got'[f][i] = got[f][i]
                                 \/ got'[f][i] = p
    <2>1. /\ Len(got'[f]) = Len(got[f]) + 1 /\ Len(got[f]) \in Nat
          /\ got'[f][Len(got[f]) + 1] = p
          /\ \A i \in 1..Len(got[f]) : got'[f][i] = got[f][i]
        BY <1>0, <1>1
    <2>2. \A i \in 1..Len(got'[f]) : i \in 1..Len(got[f]) \/ i = Len(got[f]) + 1
        BY <2>1
    <2> QED
        BY <2>1, <2>2
<1>7. ASSUME NEW e \in Devices
      PROVE  /\ Orders(e, f)' = Orders(e, f) /\ JobsOf(e, f)' = JobsOf(e, f)
             /\ \A k \in Heads(e, f)' : \E h \in Heads(e, f) :
                   uplink'[e][k] = uplink[e][h] /\ (e = d => 1 < h)
    <2>1. /\ Orders(e, f)' = Orders(e, f) /\ JobsOf(e, f)' = JobsOf(e, f)
          /\ Heads(e, f)' = HeadsIn(uplink'[e], f) /\ Heads(e, f) = HeadsIn(uplink[e], f)
        BY <1>0 DEF Orders, OrdersIn, JobsOf, Heads, HeadsIn
    <2>2. CASE e # d
        <3>1. uplink'[e] = uplink[e]
            BY <1>0, <2>2, UpTaken
        <3> QED
            BY <2>1, <2>2, <3>1
    <2>3. CASE e = d
        <3>1. Shifted(uplink'[d], uplink[d], 1) /\ Len(uplink[d]) \in Nat
            BY <1>0, UpTaken
        <3>2. \A k \in HeadsIn(uplink'[d], f) :
                  /\ k \in 1..Len(uplink'[d]) /\ k + 1 \in HeadsIn(uplink[d], f)
                  /\ uplink'[d][k] = uplink[d][k + 1]
            BY <3>1, FoundShifted DEF Shifted, HeadsIn
        <3>3. \A k \in HeadsIn(uplink'[d], f) : 1 < k + 1
            BY <3>2
        <3> QED
            BY <2>1, <2>3, <3>2, <3>3
    <2> QED
        BY <2>2, <2>3
<1>8. ASSUME NEW e \in Devices, Orders(e, f)' # {} PROVE FALSE
    BY <1>2, <1>4, <1>7, <1>8 DEF At
<1>9. ASSUME NEW e \in Devices, JobsOf(e, f)' # {}, NEW i \in 1..Len(got'[f])
      PROVE  got'[f][i].n <= sent'[f].up
    <2>1. JobsOf(e, f) # {} /\ e = d
        BY <1>2, <1>7, <1>9 DEF At
    <2>2. \A k \in 1..Len(got[f]) : got[f][k].n <= sent[f].up
        BY <1>0, <2>1 DEF PassedAt
    <2> QED
        BY <1>0, <1>3, <1>6, <2>1, <2>2
<1>10. ASSUME NEW e \in Devices, NEW i \in 1..Len(got'[f]), NEW k \in Heads(e, f)'
       PROVE  got'[f][i].n < uplink'[e][k].piece.n
    <2>1. PICK h \in Heads(e, f) : uplink'[e][k] = uplink[e][h] /\ (e = d => 1 < h)
        BY <1>7
    <2>2. e = d
        BY <1>2, <2>1 DEF At
    <2>3. p.n < uplink[d][h].piece.n
        BY <1>3, <2>1, <2>2
    <2>4. \A b \in 1..Len(got[f]) : got[f][b].n < uplink[d][h].piece.n
        BY <1>0, <2>1, <2>2 DEF PassedAt
    <2> QED
        BY <1>6, <2>1, <2>2, <2>3, <2>4
<1> QED
    BY <1>4, <1>5, <1>8, <1>9, <1>10 DEF PassedAt

LEMMA PassedStep ==
    Base /\ Types' /\ Owned /\ Cutting /\ Placed /\ Framed /\ Counted /\ Receiving /\ Passed
      /\ [Next]_vars => Passed'
<1> SUFFICES ASSUME Base, Types', Owned, Cutting, Placed, Framed, Counted, Receiving, Passed,
                    [Next]_vars, clean', NEW f \in Forwards
             PROVE  PassedAt(f)'
    BY DEF Passed
<1>1. clean /\ cut = "never" /\ PassedAt(f) /\ f \in Clients /\ f \notin Requests
    BY Givings, Constants DEF Passed, Clients
<1>2. CASE got'[f] = got[f]
    BY <1>1, <1>2, PassedKept
<1>3. ASSUME NEW c \in Requests, GivenNext(c) PROVE got'[f] = got[f]
    BY <1>1, <1>3 DEF GivenNext, Given
<1>4. ASSUME NEW d \in Devices, NEW c \in Forwards, Running, Taking(d), UNCHANGED client,
             1 \in Heads(d, c), uplink[d][1].piece.of = c, Given(c, uplink[d][1].piece)
      PROVE  got'[f] = got[f] \/ PassedAt(f)'
    <2>1. CASE c # f
        BY <1>1, <1>4, <2>1 DEF Given
    <2>2. CASE c = f
        BY <1>1, <1>4, <2>2, PassedGiven DEF Live
    <2> QED
        BY <2>1, <2>2
<1> QED
    BY <1>2, <1>3, <1>4, Givings

\* The part of the invariant that is about what devices send.
Answered == /\ Owned /\ Cutting /\ Placed /\ Framed /\ Counted /\ Receiving
            /\ ResponsesWhole /\ Passed

LEMMA AnsweredInit == Init => Answered
<1> SUFFICES ASSUME Init PROVE Answered
    OBVIOUS
<1>1. /\ \A d \in Devices : /\ downlink[d] = <<>> /\ uplink[d] = <<>> /\ serving[d] = {}
      /\ curr_seq = null /\ cut = "never"
      /\ \A c \in Clients : start[c] = 0 /\ got[c] = <<>>
    BY DEF Init
<1>2. \A d \in Devices, c \in Clients :
         ~At(d, c) /\ Orders(d, c) = {} /\ JobsOf(d, c) = {} /\ Heads(d, c) = {}
    BY <1>1 DEF At, Orders, OrdersIn, JobsOf, Heads, HeadsIn
<1>3. Owned /\ Cutting /\ Framed
    BY <1>1 DEF Owned, Cutting, Framed, FramedIn
<1>4. Placed
    BY <1>2 DEF Placed, PlacedAt
<1>5. Counted
    BY <1>2 DEF Counted, CountedAt, Clients
<1>6. Receiving
    BY <1>1, <1>2 DEF Receiving, Clients
<1>7. ResponsesWhole
    BY <1>1 DEF ResponsesWhole, Clients
<1>8. ASSUME NEW f \in Forwards PROVE PassedAt(f)
    BY <1>1, <1>2 DEF PassedAt, InOrderOf, Clients
<1> QED
    BY <1>3, <1>4, <1>5, <1>6, <1>7, <1>8 DEF Answered, Passed

LEMMA AnsweredStep == Base /\ Base' /\ Answered /\ [Next]_vars => Answered'
<1> SUFFICES ASSUME Base, Base', Answered, [Next]_vars PROVE Answered'
    OBVIOUS
<1>1. /\ Types /\ Types' /\ Numbered /\ Owned /\ Cutting /\ Placed /\ Framed /\ Counted
      /\ Receiving /\ ResponsesWhole /\ Passed
    BY DEF Base, Answered
<1>2. Owned' /\ Cutting' /\ Placed' /\ Framed'
    BY <1>1, OwnedStep, CuttingStep, PlacedStep, FramedStep
<1>3. Counted' /\ Receiving'
    BY <1>1, CountedStep, ReceivingStep
<1>4. ResponsesWhole' /\ Passed'
    BY <1>1, WholeStep, PassedStep
<1> QED
    BY <1>2, <1>3, <1>4 DEF Answered

\* What is under way and what browsers were given, in every state.
LEMMA AnsweredInvariant == Spec => [](Base /\ Answered)
<1>1. Init => Base /\ Answered
    BY BaseInit, AnsweredInit
<1>2. Base /\ Answered /\ [Next]_vars => (Base /\ Answered)'
    BY BaseStep, AnsweredStep
<1> QED
    BY <1>1, <1>2, PTL DEF Spec

\* The pieces of a response are given from the first on, none left out, until
\* something comes into the middle of a frame: processBuffer writes what
\* parseNormalMessage hands it.
THEOREM ResponsesAreWhole == Spec => []ResponsesWhole
<1>1. Answered => ResponsesWhole
    BY DEF Answered
<1> QED
    BY <1>1, AnsweredInvariant, PTL

\* Nobody is given a piece of another's response or forward, or one twice or
\* out of order, until something comes into the middle of a frame: a frame
\* goes to whoever its sequence number is looked up as.
THEOREM OwnPieces == Spec => []OwnPiecesInOrder
<1>1. Base /\ Answered => OwnPiecesInOrder
    <2> SUFFICES ASSUME Base, Answered, clean, NEW c \in Clients \ Refusable
                 PROVE  InOrderOf(c, got[c])
        BY DEF OwnPiecesInOrder
    <2>1. CASE c \in Forwards
        BY <2>1 DEF Answered, Passed, PassedAt
    <2>2. CASE c \in Requests
        <3>1. got[c] \in Seq(Pieces) /\ \A i \in 1..Len(got[c]) : got[c][i] = Piece(c, i)
            BY <2>2 DEF Base, Types, Answered, ResponsesWhole
        <3>2. ASSUME NEW i \in 1..Len(got[c]) PROVE got[c][i].of = c /\ got[c][i].n = i
            <4>1. got[c][i] = Piece(c, i)
                BY <3>1
            <4>2. Piece(c, i).of = c /\ Piece(c, i).n = i
                BY DEF Piece
            <4> QED
                BY <4>1, <4>2
        <3>3. \A i, j \in 1..Len(got[c]) : i < j => got[c][i].n < got[c][j].n
            BY <3>2
        <3> QED
            BY <3>2, <3>3 DEF InOrderOf
    <2> QED
        BY <2>1, <2>2 DEF Clients
<1> QED
    BY <1>1, AnsweredInvariant, PTL

-----------------------------------------------------------------------------
(* What the LAN peers are given.                                           *)

\* What a link carries for a forward, when the link or the count changes.
LEMMA CarriesShifted ==
    ASSUME NEW s, NEW t, NEW k, NEW f, NEW n, Len(s) \in Nat, Shifted(t, s, k),
           CarriesIn(s, f, n)
    PROVE  CarriesIn(t, f, n)
<1>1. /\ \A i \in OrdersIn(t, f) : i + k \in OrdersIn(s, f)
      /\ \A i \in DataIn(t, f) : i + k \in DataIn(s, f)
    BY FoundShifted
<1>2. \A i \in 1..Len(t) : i \in Nat /\ k \in Nat /\ t[i] = s[i + k]
    BY ShiftedElements
<1>3. /\ \A i \in OrdersIn(t, f) : i \in Nat /\ k \in Nat
      /\ \A i \in DataIn(t, f) : i \in Nat /\ k \in Nat /\ t[i] = s[i + k]
    BY <1>2 DEF OrdersIn, DataIn
<1>4. \A i, j \in DataIn(t, f) : i < j => i + k < j + k
    BY <1>3
<1>5. \A i \in OrdersIn(t, f), j \in DataIn(t, f) : i + k < j + k => i < j
    BY <1>3
<1>6. \A i \in DataIn(t, f) : 1 <= t[i].data.n /\ t[i].data.n <= n
    BY <1>1, <1>3 DEF CarriesIn
<1>7. \A i, j \in DataIn(t, f) : i < j => t[i].data.n < t[j].data.n
    BY <1>1, <1>3, <1>4 DEF CarriesIn
<1>8. \A i \in OrdersIn(t, f), j \in DataIn(t, f) : i < j
    BY <1>1, <1>5 DEF CarriesIn
<1> QED
    BY <1>6, <1>7, <1>8 DEF CarriesIn

\* What is data is counted by a natural number.
LEMMA DataTypes ==
    ASSUME NEW s \in Seq(Downs), NEW f
    PROVE  /\ Len(s) \in Nat
           /\ \A i \in DataIn(s, f) :
                i \in 1..Len(s) /\ s[i].data \in Pieces /\ s[i].data.n \in Nat /\ s[i].data.of = f
<1>1. \A i \in 1..Len(s) : s[i] \in Downs
    OBVIOUS
<1>2. ASSUME NEW i \in DataIn(s, f)
      PROVE  i \in 1..Len(s) /\ s[i].data \in Pieces /\ s[i].data.of = f
    BY <1>1 DEF DataIn, Downs
<1>3. \A p \in Pieces : p.n \in Nat
    BY DEF Pieces
<1> QED
    BY <1>2, <1>3

LEMMA CarriesMore ==
    ASSUME NEW s \in Seq(Downs), NEW f, NEW n \in Nat, NEW m \in Nat, n <= m, CarriesIn(s, f, n)
    PROVE  CarriesIn(s, f, m)
<1>1. \A i \in DataIn(s, f) : s[i].data.n <= m
    BY DataTypes DEF CarriesIn
<1> QED
    BY <1>1 DEF CarriesIn

\* Something more at the end of the link.
LEMMA CarriesLonger ==
    ASSUME NEW s \in Seq(Downs), NEW t, NEW g \in Downs, NEW f, NEW n \in Nat, NEW m \in Nat,
           n <= m, CarriesIn(s, f, n), Longer(t, s, g),
           g.of = f /\ g.type \in {"http", "open"} => DataIn(s, f) = {},
           g.of = f /\ g.type = "data" => g.data.n = n + 1 /\ n + 1 <= m
    PROVE  CarriesIn(t, f, m)
<1>1. /\ \A i \in OrdersIn(t, f) :
            \/ i \in OrdersIn(s, f) /\ i \in 1..Len(s)
            \/ i = Len(s) + 1 /\ g.of = f /\ g.type \in {"http", "open"}
      /\ \A i \in DataIn(t, f) :
            \/ i \in DataIn(s, f) /\ i \in 1..Len(s) /\ t[i] = s[i]
            \/ i = Len(s) + 1 /\ g.of = f /\ g.type = "data" /\ t[i] = g
    <2>1. Len(s) \in Nat
        OBVIOUS
    <2>2. /\ \A i \in OrdersIn(t, f) :
                \/ i \in OrdersIn(s, f)
                \/ i = Len(s) + 1 /\ g.of = f /\ g.type \in {"http", "open"}
          /\ \A i \in DataIn(t, f) :
                i \in DataIn(s, f) \/ (i = Len(s) + 1 /\ g.of = f /\ g.type = "data")
        BY <2>1, FoundLonger
    <2>3. /\ \A i \in OrdersIn(s, f) : i \in 1..Len(s)
          /\ \A i \in DataIn(s, f) : i \in 1..Len(s)
        BY DEF OrdersIn, DataIn
    <2> QED
        BY <2>2, <2>3 DEF Longer
<1>2. /\ \A i \in DataIn(s, f) : /\ 1 <= s[i].data.n /\ s[i].data.n <= n
                                 /\ s[i].data.n \in Nat
      /\ Len(s) \in Nat
    BY DataTypes DEF CarriesIn
<1>3. \A i \in DataIn(t, f) : 1 <= t[i].data.n /\ t[i].data.n <= m
    BY <1>1, <1>2
<1>4. ASSUME NEW i \in DataIn(t, f), NEW j \in DataIn(t, f), i < j
      PROVE  t[i].data.n < t[j].data.n
    <2>1. i \in DataIn(s, f) /\ t[i] = s[i]
        BY <1>1, <1>2, <1>4
    <2>2. CASE j \in DataIn(s, f) /\ t[j] = s[j]
        BY <1>4, <2>1, <2>2 DEF CarriesIn
    <2>3. CASE t[j].data.n = n + 1
        BY <1>2, <2>1, <2>3
    <2> QED
        BY <1>1, <2>2, <2>3
<1>5. ASSUME NEW i \in OrdersIn(t, f), NEW j \in DataIn(t, f) PROVE i < j
    <2>1. CASE i \in OrdersIn(s, f) /\ j \in DataIn(s, f)
        BY <2>1 DEF CarriesIn
    <2>2. CASE i \in 1..Len(s) /\ j = Len(s) + 1
        BY <1>2, <2>2
    <2> QED
        BY <1>1, <2>1, <2>2
<1> QED
    BY <1>3, <1>4, <1>5 DEF CarriesIn

\* How a step changes the link to a device.
LinkMoves(d) ==
    \/ downlink'[d] = downlink[d] \/ downlink'[d] = <<>>
    \/ Shifted(downlink'[d], downlink[d], 1)
    \/ \E g \in Downs : Puts(d, g)

LEMMA LinkStep ==
    ASSUME Types, Numbered, [Next]_vars, NEW d \in Devices
    PROVE  LinkMoves(d)
<1>1. CASE Serves
    BY <1>1, ServesIs DEF LinkMoves, Puts
<1>2. ASSUME NEW e \in Devices, Received(e) PROVE LinkMoves(d)
    BY <1>2, ReceivedIs DEF LinkMoves
<1>3. ASSUME NEW e \in Devices, DeviceActs(e) PROVE LinkMoves(d)
    <2>1. CASE DeviceLost(e)
        BY <2>1, LinksLost DEF LinkMoves
    <2>2. CASE DeviceTakes(e)
        BY <2>2, TakesIs, DownTaken DEF LinkMoves
    <2>3. CASE DeviceAnswers(e) \/ DeviceFails(e) \/ DeviceSends(e)
        BY <2>3 DEF DeviceAnswers, DeviceFails, DeviceSends, LinkMoves
    <2> QED
        BY <1>3, <2>1, <2>2, <2>3 DEF DeviceActs
<1>4. CASE Still
    BY <1>4 DEF Still, links, LinkMoves
<1> QED
    BY <1>1, <1>2, <1>3, <1>4, Moves DEF Received

\* The count changes for who sends, and that is open.
LEMMA DownSame ==
    ASSUME Types, Numbered, [Next]_vars, NEW f \in Forwards
    PROVE  sent'[f].down = sent[f].down \/ (BrowserSends(f) /\ sent'[f].down = sent[f].down + 1)
<1>1. CASE Serves
    BY <1>1, ServesIs
<1>2. ASSUME NEW d \in Devices, Received(d) PROVE sent'[f].down = sent[f].down
    BY <1>2, ReceivedIs
<1>3. ASSUME NEW d \in Devices, DeviceActs(d) PROVE sent'[f].down = sent[f].down
    <2>1. CASE DeviceSends(d)
        <3>1. PICK j \in serving[d] : SendsOf(d, j)
            BY <2>1, SendsIs
        <3> QED
            BY <3>1 DEF SendsOf
    <2>2. CASE ~DeviceSends(d)
        BY <1>3, <2>2 DEF DeviceActs, DeviceLost, DeviceTakes, DeviceAnswers, DeviceFails
    <2> QED
        BY <2>1, <2>2
<1>4. ASSUME Still PROVE sent'[f].down = sent[f].down
    BY <1>4 DEF Still, links
<1> QED
    BY <1>1, <1>2, <1>3, <1>4, Moves DEF Received

LEMMA SendingStep == Types /\ Types' /\ Numbered /\ Sending /\ [Next]_vars => Sending'
<1> SUFFICES ASSUME Types, Types', Numbered, Sending, [Next]_vars,
                    NEW f \in Forwards, NEW d \in Devices
             PROVE  SendingAt(d, f)'
    BY DEF Sending
<1> DEFINE n == sent[f].down
           m == sent'[f].down
<1>1. /\ n <= m /\ n \in Nat /\ m \in Nat /\ SendingAt(d, f) /\ f \in Clients
      /\ downlink[d] \in Seq(Downs) /\ Len(downlink[d]) \in Nat /\ CarriesIn(downlink[d], f, n)
    <2>1. n <= m /\ n \in Nat /\ m \in Nat
        BY SentGrows
    <2>2. SendingAt(d, f) /\ f \in Clients
        BY DEF Sending, Clients
    <2>3. downlink[d] \in Seq(Downs) /\ Len(downlink[d]) \in Nat
        BY DEF Types
    <2> QED
        BY <2>1, <2>2, <2>3 DEF SendingAt
<1> HIDE DEF n, m
<1>2. CarriesIn(downlink[d], f, m)
    BY <1>1, CarriesMore
<1>3. /\ Data(d, f)' = DataIn(downlink'[d], f) /\ Data(d, f) = DataIn(downlink[d], f)
    BY DEF Data, DataIn
<1>4. ASSUME client'[f] \in {"idle", "greeted"} PROVE m = 0 /\ Data(d, f) = {}
    <2>1. client[f] \in {"idle", "greeted"} /\ n = 0 /\ Data(d, f) = {}
        BY <1>1, <1>4, NoWayBack DEF SendingAt, n
    <2>2. ~BrowserSends(f)
        BY <2>1 DEF BrowserSends
    <2> QED
        BY <2>1, <2>2, DownSame DEF n, m
<1>5. \/ downlink'[d] = downlink[d] \/ downlink'[d] = <<>>
      \/ Shifted(downlink'[d], downlink[d], 1)
      => CarriesIn(downlink'[d], f, m)
         /\ (Data(d, f) = {} => Data(d, f)' = {})
    <2>1. CASE downlink'[d] = downlink[d]
        BY <1>2, <1>3, <2>1
    <2>2. CASE downlink'[d] = <<>>
        BY <1>3, <2>2 DEF CarriesIn, DataIn
    <2>3. CASE Shifted(downlink'[d], downlink[d], 1)
        <3>1. CarriesIn(downlink'[d], f, m)
            BY <1>1, <1>2, <2>3, CarriesShifted
        <3>2. \A i \in DataIn(downlink'[d], f) : i + 1 \in DataIn(downlink[d], f)
            BY <1>1, <2>3, FoundShifted
        <3> QED
            BY <1>3, <3>1, <3>2
    <2> QED
        BY <2>1, <2>2, <2>3
<1>6. ASSUME NEW g \in Downs, Puts(d, g)
      PROVE  /\ CarriesIn(downlink'[d], f, m)
             /\ client'[f] \in {"idle", "greeted"} => Data(d, f)' = {}
    <2>1. Longer(downlink'[d], downlink[d], g)
        BY <1>6 DEF Puts
    <2>2. g.of = f /\ g.type \in {"http", "open"} => Data(d, f) = {}
        BY <1>1, <1>6 DEF Puts, SendingAt
    <2>3. g.of = f /\ g.type = "data" =>
             g.data.n = n + 1 /\ m = n + 1 /\ client'[f] = "open"
        BY <1>6 DEF Puts, n, m
    <2>4. CarriesIn(downlink'[d], f, m)
        BY <1>1, <1>3, <2>1, <2>2, <2>3, CarriesLonger
    <2>5. ASSUME client'[f] \in {"idle", "greeted"} PROVE Data(d, f)' = {}
        <3>1. ~(g.of = f /\ g.type = "data")
            BY <2>3, <2>5
        <3>2. \A i \in DataIn(downlink'[d], f) : i \in DataIn(downlink[d], f)
            BY <1>1, <2>1, <3>1, FoundLonger
        <3> QED
            BY <1>3, <1>4, <2>5, <3>2
    <2> QED
        BY <2>4, <2>5
<1>7. CarriesIn(downlink'[d], f, m) /\ (client'[f] \in {"idle", "greeted"} => Data(d, f)' = {})
    BY <1>4, <1>5, <1>6, LinkStep DEF LinkMoves
<1> QED
    BY <1>4, <1>7 DEF SendingAt, m

\* The data on a link after a step: what was there, or the next piece sent.
LEMMA DataComes ==
    ASSUME Types, Numbered, [Next]_vars, NEW f \in Forwards, NEW d \in Devices
    PROVE  \A k \in Data(d, f)' :
              \/ \E h \in Data(d, f) : downlink'[d][k] = downlink[d][h]
              \/ downlink'[d][k].data.n = sent[f].down + 1
<1>1. Data(d, f)' = DataIn(downlink'[d], f) /\ Data(d, f) = DataIn(downlink[d], f)
    BY DEF Data, DataIn
<1>2. Len(downlink[d]) \in Nat
    BY LengthTypes
<1>3. CASE downlink'[d] = downlink[d]
    BY <1>1, <1>3
<1>4. CASE downlink'[d] = <<>>
    BY <1>1, <1>4 DEF DataIn
<1>5. CASE Shifted(downlink'[d], downlink[d], 1)
    <2>1. \A k \in DataIn(downlink'[d], f) :
             k + 1 \in DataIn(downlink[d], f) /\ downlink'[d][k] = downlink[d][k + 1]
        BY <1>2, <1>5, FoundShifted DEF Shifted, DataIn
    <2> QED
        BY <1>1, <2>1
<1>6. ASSUME NEW g \in Downs, Puts(d, g), NEW k \in Data(d, f)'
      PROVE  \/ \E h \in Data(d, f) : downlink'[d][k] = downlink[d][h]
             \/ downlink'[d][k].data.n = sent[f].down + 1
    <2>1. Longer(downlink'[d], downlink[d], g)
        BY <1>6 DEF Puts
    <2>2. \/ k \in DataIn(downlink[d], f)
          \/ k = Len(downlink[d]) + 1 /\ g.of = f /\ g.type = "data"
        BY <1>1, <1>2, <1>6, <2>1, FoundLonger
    <2>3. CASE k \in DataIn(downlink[d], f)
        BY <1>1, <2>1, <2>3 DEF Longer, DataIn
    <2>4. CASE k = Len(downlink[d]) + 1 /\ g.of = f /\ g.type = "data"
        BY <1>6, <2>1, <2>4 DEF Longer, Puts
    <2> QED
        BY <2>2, <2>3, <2>4
<1> QED
    BY <1>3, <1>4, <1>5, <1>6, LinkStep DEF LinkMoves

\* Data goes to the LAN peer of the forward it is for, if that is open there.
LEMMA DataReaches ==
    ASSUME Base, Live, Owned, NEW d \in Devices, DeviceTakes(d), TakesData(d), NEW f \in Forwards
    PROVE  lan'[f] = IF f = downlink[d][1].of /\ JobsOf(d, f) # {}
                     THEN Append(lan[f], downlink[d][1].data) ELSE lan[f]
<1> DEFINE g == downlink[d][1]
           OpenHere == \E j \in serving[d] : j.type = "open" /\ j.seq = g.seq /\ j.of = f
<1>1. g \in Downs /\ 1 \in 1..Len(downlink[d]) /\ g.of \in Forwards
    BY TakesIs, DownTaken DEF Base, TakesData
<1>2. lan'[f] = IF OpenHere THEN Append(lan[f], g.data) ELSE lan[f]
    BY DEF TakesData
<1>3. g.seq = number[g.of]
    BY <1>1 DEF Owned
<1>4. \A j \in serving[d] :
         j \in Downs /\ j.seq = number[j.of] /\ (j.of \in Forwards => j.type = "open")
    BY LengthTypes, Constants DEF Owned, Jobs, Downs, Base
<1> HIDE DEF g
<1>5. ASSUME f = g.of, JobsOf(d, f) # {} PROVE OpenHere
    <2>1. PICK j \in serving[d] : j.of = f
        BY <1>5 DEF JobsOf
    <2> QED
        BY <1>3, <1>4, <1>5, <2>1
<1>6. ASSUME OpenHere PROVE f = g.of /\ JobsOf(d, f) # {}
    <2>1. PICK j \in serving[d] : j.type = "open" /\ j.seq = g.seq /\ j.of = f
        BY <1>6
    <2>2. j.of = g.of
        BY <1>1, <2>1, CloseIsFor DEF g
    <2> QED
        BY <2>1, <2>2 DEF JobsOf
<1> QED
    BY <1>2, <1>5, <1>6 DEF g

\* The peers of the other forwards, and of all when no data is taken.
LEMMA LanSame ==
    ASSUME Types, Numbered, [Next]_vars
    PROVE  UNCHANGED lan \/ \E d \in Devices : Running /\ DeviceTakes(d) /\ TakesData(d)
<1>1. CASE Serves
    BY <1>1, ServesIs
<1>2. ASSUME NEW d \in Devices, Received(d) PROVE UNCHANGED lan
    BY <1>2, ReceivedIs
<1>3. ASSUME NEW d \in Devices, DeviceActs(d)
      PROVE  UNCHANGED lan \/ (Running /\ DeviceTakes(d) /\ TakesData(d))
    <2>1. CASE DeviceTakes(d)
        BY <2>1, TakesIs DEF TakesOrder, TakesClose, DeviceTakes, Device
    <2>2. CASE DeviceLost(d) \/ DeviceAnswers(d) \/ DeviceFails(d) \/ DeviceSends(d)
        BY <2>2 DEF DeviceLost, DeviceAnswers, DeviceFails, DeviceSends
    <2> QED
        BY <1>3, <2>1, <2>2 DEF DeviceActs
<1>4. CASE Still
    BY <1>4 DEF Still, links
<1> QED
    BY <1>1, <1>2, <1>3, <1>4, Moves DEF Received

LEMMA ReachedKept ==
    ASSUME Base, Types', Owned, Sending, [Next]_vars, cut = "never", NEW f \in Forwards,
           ReachedAt(f), lan'[f] = lan[f]
    PROVE  ReachedAt(f)'
<1>0. /\ Types /\ Numbered /\ f \in Clients
      /\ \A i \in 1..Len(lan[f]) : lan[f][i].n \in Nat
    <2>1. Types /\ Numbered /\ f \in Clients
        BY DEF Base, Clients
    <2>2. lan[f] \in Seq(Pieces)
        BY <2>1 DEF Types
    <2>3. \A i \in 1..Len(lan[f]) : lan[f][i] \in Pieces
        BY <2>2
    <2> QED
        BY <2>1, <2>3 DEF Pieces
<1>1. sent[f].down <= sent'[f].down /\ sent[f].down \in Nat /\ sent'[f].down \in Nat
    BY <1>0, SentGrows
<1>2. /\ InOrderOf(f, lan'[f])
      /\ \A i \in 1..Len(lan'[f]) : lan'[f][i].n <= sent'[f].down
    BY <1>0, <1>1 DEF ReachedAt
<1>3. ASSUME Running' PROVE Running /\ Live
    BY <1>3, RunningBefore DEF Live
<1>4. ASSUME Running', client'[f] \in {"idle", "greeted"} PROVE lan'[f] = <<>>
    BY <1>0, <1>3, <1>4, NoWayBack DEF ReachedAt
<1>5. ASSUME Running', NEW d \in Devices
      PROVE  /\ Orders(d, f)' # {} => lan[f] = <<>>
             /\ JobsOf(d, f)' # {} =>
                   \A i \in 1..Len(lan[f]), k \in Data(d, f)' :
                      lan[f][i].n < downlink'[d][k].data.n
    <2>0. Running /\ Live
        BY <1>3, <1>5
    <2>1. /\ Orders(d, f) # {} => lan[f] = <<>>
          /\ client[f] \in {"idle", "greeted"} => lan[f] = <<>>
          /\ JobsOf(d, f) # {} =>
                \A i \in 1..Len(lan[f]), k \in Data(d, f) :
                    lan[f][i].n < downlink[d][k].data.n
          /\ \A i \in 1..Len(lan[f]) : lan[f][i].n <= sent[f].down
        BY <2>0 DEF ReachedAt
    <2>2. ASSUME JobsOf(d, f)' # {}, NEW i \in 1..Len(lan[f]), NEW k \in Data(d, f)'
          PROVE  lan[f][i].n < downlink'[d][k].data.n
        <3>1. CASE Orders(d, f) # {}
            BY <2>1, <3>1
        <3>2. CASE JobsOf(d, f) # {} /\ \E h \in Data(d, f) : downlink'[d][k] = downlink[d][h]
            BY <2>1, <3>2
        <3>3. CASE downlink'[d][k].data.n = sent[f].down + 1
            BY <1>0, <1>1, <2>1, <3>3
        <3> QED
            BY <1>0, <2>0, <2>2, <3>1, <3>2, <3>3, Comes, DataComes
    <2> QED
        BY <2>0, <2>1, <2>2, Comes
<1> QED
    BY <1>2, <1>4, <1>5 DEF ReachedAt

\* The forward whose data is taken from a link.
LEMMA ReachedGiven ==
    ASSUME Base, Types', Owned, Placed, Sending, [Next]_vars, Live, NEW d \in Devices,
           DeviceTakes(d), TakesData(d), NEW f \in Forwards, f = downlink[d][1].of,
           JobsOf(d, f) # {}, ReachedAt(f)
    PROVE  ReachedAt(f)'
<1> DEFINE p == downlink[d][1].data
<1>0. /\ Types /\ Numbered /\ Running /\ f \in Clients /\ lan[f] \in Seq(Pieces)
      /\ UNCHANGED <<sent, serving, client>> /\ downlink[d] \in Seq(Downs)
    <2>1. Types /\ Numbered /\ Running /\ f \in Clients
        BY DEF Base, Live, Clients
    <2>2. lan[f] \in Seq(Pieces) /\ downlink[d] \in Seq(Downs)
        BY <2>1 DEF Types
    <2>3. UNCHANGED <<sent, serving, client>>
        BY <2>1, TakesIs DEF TakesData, DeviceTakes, Device, browsers
    <2> QED
        BY <2>1, <2>2, <2>3
<1>1. /\ 1 \in Data(d, f) /\ lan'[f] = Append(lan[f], p)
      /\ \A i \in 1..Len(lan[f]) : lan[f][i].n < p.n
    <2>1. 1 \in 1..Len(downlink[d])
        BY <1>0, TakesIs, DownTaken
    <2>2. 1 \in Data(d, f)
        BY <2>1 DEF TakesData, Data, DataIn
    <2> QED
        BY <1>0, <2>2, DataReaches DEF ReachedAt
<1>2. /\ p \in Pieces /\ p.of = f /\ p.n \in Nat /\ p.n <= sent[f].down
      /\ \A k \in Data(d, f) : 1 < k => p.n < downlink[d][k].data.n
    <2>1. /\ 1 \in 1..Len(downlink[d]) /\ p \in Pieces /\ p.of = f /\ p.n \in Nat
        BY <1>0, <1>1, DataTypes DEF Data
    <2>2. CarriesIn(downlink[d], f, sent[f].down)
        BY DEF Sending, SendingAt
    <2>3. p.n <= sent[f].down
        BY <1>1, <2>2 DEF Data, CarriesIn
    <2>4. \A k \in Data(d, f) : 1 < k => p.n < downlink[d][k].data.n
        BY <1>1, <2>2 DEF Data, CarriesIn
    <2> QED
        BY <2>1, <2>3, <2>4
<1>3. PlacedAt(d, f) /\ \A e \in Devices : At(e, f) => e = d
    BY <1>0 DEF Placed, At
<1>4. Orders(d, f) = {} /\ client[f] \notin {"idle", "greeted"}
    BY <1>3 DEF PlacedAt, At
<1> HIDE DEF p
<1>5. InOrderOf(f, lan'[f])
    BY <1>0, <1>1, <1>2, InOrderAppended DEF ReachedAt
<1>6. \A i \in 1..Len(lan'[f]) : \/ i \in 1..Len(lan[f]) /\ lan'[f][i] = lan[f][i]
                                 \/ lan'[f][i] = p
    <2>1. /\ Len(lan'[f]) = Len(lan[f]) + 1 /\ Len(lan[f]) \in Nat
          /\ lan'[f][Len(lan[f]) + 1] = p
          /\ \A i \in 1..Len(lan[f]) : lan'[f][i] = lan[f][i]
        <3>1. lan[f] \in Seq(Pieces) /\ p \in Pieces /\ lan'[f] = Append(lan[f], p)
            BY <1>0, <1>1, <1>2
        <3>2. Longer(lan'[f], lan[f], p)
            BY <3>1, AppendLonger
        <3> QED
            BY <3>1, <3>2 DEF Longer
    <2>2. \A i \in 1..Len(lan'[f]) : i \in 1..Len(lan[f]) \/ i = Len(lan[f]) + 1
        BY <2>1
    <2> QED
        BY <2>1, <2>2
<1>7. \A i \in 1..Len(lan'[f]) : lan'[f][i].n <= sent'[f].down
    BY <1>0, <1>2, <1>6 DEF ReachedAt
<1>8. ASSUME NEW e \in Devices, Orders(e, f)' # {} PROVE FALSE
    <2>1. Orders(e, f) # {}
        BY <1>0, <1>4, <1>8, Comes
    <2> QED
        BY <1>3, <1>4, <2>1 DEF At
<1>9. ASSUME NEW e \in Devices, JobsOf(e, f)' # {},
             NEW i \in 1..Len(lan'[f]), NEW k \in Data(e, f)'
      PROVE  lan'[f][i].n < downlink'[e][k].data.n
    <2>1. e = d
        BY <1>0, <1>3, <1>9 DEF JobsOf, At
    <2>2. Shifted(downlink'[d], downlink[d], 1) /\ Len(downlink[d]) \in Nat
        BY <1>0, TakesIs, DownTaken
    <2>3. k \in DataIn(downlink'[d], f)
        BY <1>9, <2>1 DEF Data, DataIn
    <2>4. /\ k + 1 \in Data(d, f) /\ 1 < k + 1
          /\ downlink'[d][k] = downlink[d][k + 1]
        <3>1. k + 1 \in Data(d, f)
            BY <2>2, <2>3, FoundShifted DEF Data
        <3>2. k \in 1..Len(downlink'[d])
            BY <2>3 DEF DataIn
        <3>3. 1 < k + 1
            BY <3>2
        <3>4. downlink'[d][k] = downlink[d][k + 1]
            BY <2>2, <3>2 DEF Shifted
        <3> QED
            BY <3>1, <3>3, <3>4
    <2>5. \A b \in 1..Len(lan[f]) : lan[f][b].n < downlink[d][k + 1].data.n
        BY <1>0, <2>4 DEF ReachedAt
    <2>6. p.n < downlink[d][k + 1].data.n
        BY <1>2, <2>4
    <2> QED
        BY <1>6, <2>1, <2>4, <2>5, <2>6
<1> QED
    BY <1>0, <1>4, <1>5, <1>7, <1>8, <1>9 DEF ReachedAt

LEMMA ReachedStep ==
    Base /\ Types' /\ Owned /\ Placed /\ Sending /\ Reached /\ [Next]_vars => Reached'
<1> SUFFICES ASSUME Base, Types', Owned, Placed, Sending, Reached, [Next]_vars, cut' = "never",
                    NEW f \in Forwards
             PROVE  ReachedAt(f)'
    BY DEF Reached
<1>1. Types /\ Numbered /\ cut = "never" /\ ReachedAt(f)
    BY CutNever DEF Base, Reached
<1>2. CASE lan'[f] = lan[f]
    BY <1>1, <1>2, ReachedKept
<1>3. ASSUME NEW d \in Devices, Running, DeviceTakes(d), TakesData(d)
      PROVE  lan'[f] = lan[f] \/ ReachedAt(f)'
    BY <1>1, <1>3, DataReaches, ReachedGiven DEF Live
<1> QED
    BY <1>1, <1>2, <1>3, LanSame

\* With one device that stays, what a browser sends is put on its link.
LEMMA SendsData ==
    ASSUME Types, Numbered, NEW f \in Forwards, BrowserSends(f), CurrConn # null
    PROVE  /\ CurrConn \in Devices
           /\ \E g \in Downs : /\ g.type = "data" /\ g.of = f
                               /\ g.data.n = sent[f].down + 1
                               /\ Longer(downlink'[CurrConn], downlink[CurrConn], g)
<1> DEFINE n == sent[f].down + 1
           g == DataFrame(number[f], Piece(f, n))
<1>1. f \in Clients /\ number[f] \in T!Numbers /\ n \in Nat
    BY DEF BrowserSends, Clients, Numbered, Types
<1>2. g \in Downs /\ g.type = "data" /\ g.of = f /\ g.data.n = n
    BY <1>1, FrameTypes DEF DataFrame, Frame, Piece
<1>3. CurrConn \in Devices /\ Send(CurrConn, g)
    BY CurrConnType DEF BrowserSends
<1> HIDE DEF g
<1>4. Longer(downlink'[CurrConn], downlink[CurrConn], g)
    BY <1>2, <1>3, SendIs
<1> QED
    BY <1>2, <1>3, <1>4

\* The data of f that a step leaves on the link to d: all of it, but what the
\* device takes.
LEMMA DataStays ==
    ASSUME Types, Numbered, [Next]_vars, Unstable = {}, NEW f \in Forwards, NEW d \in Devices
    PROVE  \A h \in Data(d, f) :
              \/ \E k \in Data(d, f)' : downlink'[d][k] = downlink[d][h]
              \/ h = 1 /\ DeviceTakes(d) /\ TakesData(d) /\ downlink[d][1].of = f
<1>1. Data(d, f)' = DataIn(downlink'[d], f) /\ Data(d, f) = DataIn(downlink[d], f)
    BY DEF Data, DataIn
<1>2. Len(downlink[d]) \in Nat
    BY LengthTypes
<1>3. CASE downlink'[d] = downlink[d]
    BY <1>1, <1>3
<1>4. ASSUME NEW g \in Downs, Puts(d, g), NEW h \in Data(d, f)
      PROVE  \E k \in Data(d, f)' : downlink'[d][k] = downlink[d][h]
    <2>1. Longer(downlink'[d], downlink[d], g)
        BY <1>4 DEF Puts
    <2>2. h \in DataIn(downlink'[d], f)
        BY <1>1, <1>2, <1>4, <2>1, FoundLonger
    <2>3. downlink'[d][h] = downlink[d][h]
        BY <1>1, <1>4, <2>1 DEF Longer, DataIn
    <2> QED
        BY <1>1, <2>2, <2>3
<1>5. ASSUME DeviceTakes(d), NEW h \in Data(d, f)
      PROVE  \/ \E k \in Data(d, f)' : downlink'[d][k] = downlink[d][h]
             \/ h = 1 /\ TakesData(d) /\ downlink[d][1].of = f
    <2>1. Shifted(downlink'[d], downlink[d], 1)
        BY <1>5, TakesIs, DownTaken
    <2>2. h \in 1..Len(downlink[d]) /\ downlink[d][h].of = f /\ downlink[d][h].type = "data"
        BY <1>1, <1>5 DEF DataIn
    <2>3. CASE h = 1
        BY <1>5, <2>2, <2>3, TakesIs DEF TakesOrder, TakesClose
    <2>4. CASE h # 1
        <3>1. h - 1 \in 1..Len(downlink'[d]) /\ (h - 1) + 1 = h
            BY <1>2, <2>1, <2>2, <2>4 DEF Shifted
        <3>2. downlink'[d][h - 1] = downlink[d][h]
            BY <2>1, <3>1 DEF Shifted
        <3>3. h - 1 \in DataIn(downlink'[d], f)
            BY <2>2, <3>1, <3>2 DEF DataIn
        <3> QED
            BY <1>1, <3>2, <3>3
    <2> QED
        BY <2>3, <2>4
<1>6. downlink'[d] = downlink[d] \/ DeviceTakes(d) \/ \E g \in Downs : Puts(d, g)
    <2>1. CASE Serves
        BY <2>1, ServesIs DEF Puts
    <2>2. ASSUME NEW e \in Devices, Received(e) PROVE downlink'[d] = downlink[d]
        BY <2>2, ReceivedIs
    <2>3. ASSUME NEW e \in Devices, DeviceActs(e)
          PROVE  downlink'[d] = downlink[d] \/ DeviceTakes(d)
        <3>1. CASE DeviceLost(e)
            BY <3>1 DEF DeviceLost
        <3>2. CASE DeviceTakes(e)
            BY <3>2, TakesIs, DownTaken
        <3>3. CASE DeviceAnswers(e) \/ DeviceFails(e) \/ DeviceSends(e)
            BY <3>3 DEF DeviceAnswers, DeviceFails, DeviceSends
        <3> QED
            BY <2>3, <3>1, <3>2, <3>3 DEF DeviceActs
    <2>4. CASE Still
        BY <2>4 DEF Still, links
    <2> QED
        BY <2>1, <2>2, <2>3, <2>4, Moves DEF Received
<1> QED
    BY <1>3, <1>4, <1>5, <1>6

\* The rest of what was sent is still on the way.
RestSent(d, f) ==
    \A n \in (Len(lan[f]) + 1)..sent[f].down : \E i \in Data(d, f) : downlink[d][i].data.n = n

\* A step after which the peer of f has what it had.
LEMMA StaysKept ==
    ASSUME Base, Base', Owned, Sending, OneDeviceStays, [Next]_vars, Live,
           chosen # {} => CurrConn # null,
           NEW f \in Forwards, ReachedAt(f), StaysAt(f), lan'[f] = lan[f],
           NEW d \in Devices, ~(TakesData(d) /\ DeviceTakes(d) /\ downlink[d][1].of = f
                                /\ JobsOf(d, f) # {}),
           Orders(d, f)' # {} \/ JobsOf(d, f)' # {}
    PROVE  RestSent(d, f)'
<1>0. /\ Types /\ Types' /\ Numbered /\ Numbered' /\ Running /\ f \in Clients
      /\ Len(lan[f]) \in Nat
    <2>1. lan[f] \in Seq(Pieces)
        BY DEF Base, Types
    <2> QED
        BY <2>1 DEF Base, Live, Clients
<1>1. /\ sent[f].down \in Nat /\ sent'[f].down \in Nat
      /\ sent'[f].down = sent[f].down \/ (BrowserSends(f) /\ sent'[f].down = sent[f].down + 1)
    BY <1>0, SentGrows, DownSame
<1>2. CASE Orders(d, f) = {} /\ JobsOf(d, f) = {}
    <2>1. client[f] \in {"idle", "greeted"}
        BY <1>0, <1>2, Comes
    <2>2. lan[f] = <<>> /\ sent[f].down = 0 /\ ~BrowserSends(f)
        BY <1>0, <2>1 DEF ReachedAt, Sending, SendingAt, BrowserSends
    <2>3. Len(lan'[f]) = 0 /\ sent'[f].down = 0
        BY <1>1, <2>2
    <2> QED
        BY <2>3 DEF RestSent
<1>3. CASE Orders(d, f) # {} \/ JobsOf(d, f) # {}
    <2>1. RestSent(d, f)
        BY <1>0, <1>3 DEF StaysAt, RestSent
    <2>2. ~(DeviceTakes(d) /\ TakesData(d) /\ downlink[d][1].of = f)
        <3> SUFFICES ASSUME DeviceTakes(d), TakesData(d), downlink[d][1].of = f PROVE FALSE
            OBVIOUS
        <3>1. 1 \in Data(d, f)
            BY <1>0, TakesIs, DownTaken DEF TakesData, Data, DataIn
        <3>2. Orders(d, f) # {}
            BY <1>3
        <3>3. \A i \in Orders(d, f) : i < 1
            BY <3>1 DEF Sending, SendingAt, CarriesIn, Orders, Data
        <3>4. \A i \in Orders(d, f) : i \in 1..Len(downlink[d])
            BY DEF Orders, OrdersIn
        <3> QED
            BY <3>2, <3>3, <3>4
    <2>3. \A h \in Data(d, f) : \E k \in Data(d, f)' : downlink'[d][k] = downlink[d][h]
        BY <1>0, <2>2, DataStays DEF OneDeviceStays
    <2>4. ASSUME BrowserSends(f)
          PROVE  \E k \in Data(d, f)' : downlink'[d][k].data.n = sent[f].down + 1
        <3>1. CurrConn # null
            BY <1>0, <2>4 DEF BrowserSends, Numbered
        <3>2. CurrConn = d
            BY <1>0, <2>4, <3>1, SendsData DEF OneDeviceStays
        <3>3. PICK g \in Downs : /\ g.type = "data" /\ g.of = f
                                 /\ g.data.n = sent[f].down + 1
                                 /\ Longer(downlink'[d], downlink[d], g)
            BY <1>0, <2>4, <3>1, <3>2, SendsData
        <3> DEFINE k == Len(downlink[d]) + 1
        <3>4. k \in 1..Len(downlink'[d]) /\ downlink'[d][k] = g
            BY <1>0, <3>3, LengthTypes DEF Longer
        <3> QED
            BY <3>3, <3>4 DEF Data, DataIn
    <2>5. ASSUME NEW n \in (Len(lan'[f]) + 1)..sent'[f].down
          PROVE  \E k \in Data(d, f)' : downlink'[d][k].data.n = n
        <3>1. CASE n \in (Len(lan[f]) + 1)..sent[f].down
            BY <2>1, <2>3, <3>1 DEF RestSent
        <3>2. CASE ~(n \in (Len(lan[f]) + 1)..sent[f].down)
            <4>1. BrowserSends(f) /\ n = sent[f].down + 1
                BY <1>0, <1>1, <2>5, <3>2
            <4> QED
                BY <2>4, <4>1
        <3> QED
            BY <3>1, <3>2
    <2> QED
        BY <2>5 DEF RestSent
<1> QED
    BY <1>2, <1>3

\* A step that gives the peer of f the first of the rest.
LEMMA StaysGiven ==
    ASSUME Base, Base', Owned, Placed, Sending, OneDeviceStays, [Next]_vars, Live,
           NEW f \in Forwards, ReachedAt(f), StaysAt(f), NEW d \in Devices,
           DeviceTakes(d), TakesData(d), f = downlink[d][1].of, JobsOf(d, f) # {}
    PROVE  StaysAt(f)'
<1> DEFINE p == downlink[d][1].data
           n == Len(lan[f])
<1>0. /\ Types /\ Types' /\ Numbered /\ Running /\ f \in Clients
      /\ lan[f] \in Seq(Pieces) /\ downlink[d] \in Seq(Downs)
    <2>1. Types /\ Types' /\ Numbered /\ Running /\ f \in Clients
        BY DEF Base, Live, Clients
    <2> QED
        BY <2>1 DEF Types
<1>1. n \in Nat /\ sent[f].down \in Nat /\ UNCHANGED sent
    BY <1>0, TakesIs, SentGrows
<1>2. 1 \in Data(d, f) /\ lan'[f] = Append(lan[f], p)
    <2>1. 1 \in 1..Len(downlink[d])
        BY <1>0, TakesIs, DownTaken
    <2>2. 1 \in Data(d, f)
        BY <2>1 DEF TakesData, Data, DataIn
    <2> QED
        BY <2>2, DataReaches
<1>3. p \in Pieces /\ p.of = f /\ p.n \in Nat /\ 1 <= p.n /\ p.n <= sent[f].down
    BY <1>0, <1>2, DataTypes DEF Data, Sending, SendingAt, CarriesIn
<1>4. Longer(lan'[f], lan[f], p)
    BY <1>0, <1>2, <1>3, AppendLonger
<1>5. RestSent(d, f)
    BY <1>0 DEF StaysAt, RestSent
<1> HIDE DEF p
<1>6. n < p.n
    <2>1. CASE n = 0
        BY <1>1, <1>3, <2>1
    <2>2. CASE n # 0
        <3>1. n \in 1..Len(lan[f])
            BY <1>1, <2>2
        <3>2. lan[f][n] = Piece(f, n) /\ lan[f][n].n < p.n
            BY <1>0, <1>2, <3>1 DEF StaysAt, ReachedAt, p
        <3> QED
            BY <3>2 DEF Piece
    <2> QED
        BY <2>1, <2>2
<1>7. PICK h \in Data(d, f) : downlink[d][h].data.n = n + 1
    <2>1. n + 1 \in (Len(lan[f]) + 1)..sent[f].down
        BY <1>1, <1>3, <1>6
    <2> QED
        BY <1>5, <2>1 DEF RestSent
<1>8. p.n = n + 1
    <2>1. h \in 1..Len(downlink[d]) /\ Len(downlink[d]) \in Nat
        BY <1>0, <1>7, DataTypes DEF Data
    <2>2. CASE h = 1
        BY <1>7, <2>2 DEF p
    <2>3. CASE 1 < h
        <3>1. p.n < downlink[d][h].data.n
            BY <1>2, <1>7, <2>3 DEF Sending, SendingAt, CarriesIn, Data, p
        <3> QED
            BY <1>1, <1>3, <1>6, <1>7, <3>1
    <2> QED
        BY <2>1, <2>2, <2>3
<1>9. p = Piece(f, n + 1)
    BY <1>3, <1>8 DEF Piece, Pieces
<1>10. Len(lan'[f]) = n + 1
    BY <1>4 DEF Longer
<1>11. ASSUME NEW i \in 1..Len(lan'[f]) PROVE lan'[f][i] = Piece(f, i)
    <2>1. i \in 1..Len(lan[f]) \/ i = Len(lan[f]) + 1
        BY <1>1, <1>10
    <2>2. CASE i \in 1..Len(lan[f])
        BY <1>4, <2>2 DEF Longer, StaysAt
    <2>3. CASE i = Len(lan[f]) + 1
        BY <1>4, <1>9, <2>3 DEF Longer
    <2> QED
        BY <2>1, <2>2, <2>3
<1>12. ASSUME NEW k \in (Len(lan'[f]) + 1)..sent'[f].down
       PROVE  \E i \in Data(d, f)' : downlink'[d][i].data.n = k
    <2>1. k \in (n + 1)..sent[f].down /\ k # n + 1
        BY <1>1, <1>10
    <2>2. PICK i \in Data(d, f) : downlink[d][i].data.n = k
        BY <1>5, <2>1 DEF RestSent
    <2>3. i # 1
        BY <1>8, <2>1, <2>2 DEF p
    <2> QED
        BY <1>0, <2>2, <2>3, DataStays DEF OneDeviceStays
<1>13. \A e \in Devices : e = d
    BY DEF OneDeviceStays
<1> QED
    BY <1>11, <1>12, <1>13 DEF StaysAt

\* Devices come, go and are chosen in actions of their own.
LEMMA DevicesMove ==
    ASSUME [Next]_vars
    PROVE  \/ UNCHANGED devices
           \/ \E d \in Devices : DeviceConnects(d) \/ DeviceLost(d)
           \/ \E n \in Names : ChooseDevice(n)
<1>1. ASSUME NEW r \in Requests, Request(r) \/ RequestRejected(r) PROVE UNCHANGED devices
    BY <1>1 DEF Request, RequestRejected
<1>2. ASSUME NEW f \in Forwards, Hello(f) \/ HelloThrows(f) \/ Openning(f)
                                  \/ BrowserSends(f) \/ HangUp(f)
      PROVE  UNCHANGED devices
    BY <1>2 DEF Hello, HelloThrows, Openning, BrowserSends, HangUp
<1>3. ASSUME NEW d \in Devices, Dropped(d) PROVE UNCHANGED devices
    BY <1>3 DEF Dropped, Taking
<1>4. ASSUME NEW d \in Devices, NEW c \in Clients,
             ProcessPart(d, c) \/ ResponseEnds(d, c) \/ ForwardPasses(d, c)
      PROVE  UNCHANGED devices
    BY <1>4 DEF ProcessPart, ResponseEnds, ForwardPasses, Processing, Taking
<1>5. ASSUME NEW d \in Devices,
             DeviceTakes(d) \/ DeviceAnswers(d) \/ DeviceFails(d) \/ DeviceSends(d)
      PROVE  UNCHANGED devices
    BY <1>5 DEF DeviceTakes, DeviceAnswers, DeviceFails, DeviceSends
<1>6. UNCHANGED vars => UNCHANGED devices
    BY DEF vars
<1> QED
    BY <1>1, <1>2, <1>3, <1>4, <1>5, <1>6, Steps

\* The chosen devices are connected, and browsers are using one of them.
Connected ==
    /\ \A n \in chosen : connections[n] # null
    /\ chosen # {} => curr_device \in chosen

LEMMA ConnectedStep ==
    Types /\ Unstable = {} /\ Connected /\ [Next]_vars => Connected'
<1> SUFFICES ASSUME Types, Unstable = {}, Connected, [Next]_vars PROVE Connected'
    OBVIOUS
<1>0. connections \in [Names -> Devices \cup {null}] /\ chosen \subseteq Names /\ null \notin Devices
    BY Constants DEF Types, TypeOK
<1>1. CASE UNCHANGED devices
    BY <1>1 DEF devices, Connected
<1>2. ASSUME NEW d \in Devices, DeviceConnects(d) PROVE Connected'
    BY <1>0, <1>2 DEF DeviceConnects, Connected
<1>3. ASSUME NEW d \in Devices, DeviceLost(d) PROVE FALSE
    BY <1>3 DEF DeviceLost
<1>4. ASSUME NEW n \in Names, ChooseDevice(n) PROVE Connected'
    BY <1>0, <1>4 DEF ChooseDevice, Connected
<1> QED
    BY <1>1, <1>2, <1>3, <1>4, DevicesMove

LEMMA ConnectedConn ==
    ASSUME Types, Connected, chosen # {}
    PROVE  CurrConn # null
<1>1. curr_device \in chosen /\ curr_device # null /\ connections[curr_device] # null
    BY Constants DEF Connected, Types, TypeOK
<1> QED
    BY <1>1 DEF CurrConn

LEMMA StaysStep ==
    Base /\ Base' /\ Owned /\ Placed /\ Sending /\ Reached /\ Stays /\ [Next]_vars => Stays'
<1> SUFFICES ASSUME Base, Base', Owned, Placed, Sending, Reached, Stays, [Next]_vars,
                    OneDeviceStays
             PROVE  Connected' /\ (cut' = "never" => \A f \in Forwards : StaysAt(f)')
    BY DEF Stays, Connected
<1>1. Types /\ Types' /\ Numbered /\ Connected /\ Connected'
    BY ConnectedStep DEF Base, Stays, Connected, OneDeviceStays
<1>2. chosen # {} => CurrConn # null
    BY <1>1, ConnectedConn
<1> SUFFICES ASSUME cut' = "never", NEW f \in Forwards PROVE StaysAt(f)'
    BY <1>1
<1>3. cut = "never" /\ ReachedAt(f) /\ StaysAt(f)
    BY CutNever DEF Reached, Stays
<1>4. ASSUME NEW d \in Devices, Running, DeviceTakes(d), TakesData(d), f = downlink[d][1].of,
             JobsOf(d, f) # {}
      PROVE  StaysAt(f)'
    BY <1>3, <1>4, StaysGiven DEF Live
<1>5. ASSUME ~ \E d \in Devices : Running /\ DeviceTakes(d) /\ TakesData(d)
                                  /\ f = downlink[d][1].of /\ JobsOf(d, f) # {}
      PROVE  StaysAt(f)'
    <2>1. lan'[f] = lan[f]
        <3>1. ASSUME NEW d \in Devices, Running, DeviceTakes(d), TakesData(d)
              PROVE  lan'[f] = lan[f]
            BY <1>3, <1>5, <3>1, DataReaches DEF Live
        <3> QED
            BY <1>1, <3>1, LanSame
    <2>2. \A i \in 1..Len(lan'[f]) : lan'[f][i] = Piece(f, i)
        BY <1>3, <2>1 DEF StaysAt
    <2>3. ASSUME Running', NEW d \in Devices, Orders(d, f)' # {} \/ JobsOf(d, f)' # {}
          PROVE  RestSent(d, f)'
        <3>1. Running /\ Live
            BY <1>3, <2>3, RunningBefore DEF Live
        <3>2. ~(TakesData(d) /\ DeviceTakes(d) /\ downlink[d][1].of = f /\ JobsOf(d, f) # {})
            BY <1>5, <3>1
        <3> QED
            BY <1>2, <1>3, <2>1, <2>3, <3>1, <3>2, StaysKept
    <2> QED
        BY <2>2, <2>3 DEF StaysAt, RestSent
<1> QED
    BY <1>4, <1>5

\* All of the invariant.
LEMMA DataInit == Init => Sending /\ Reached /\ Stays
<1> SUFFICES ASSUME Init PROVE Sending /\ Reached /\ Stays
    OBVIOUS
<1>1. /\ \A d \in Devices : downlink[d] = <<>> /\ serving[d] = {}
      /\ \A f \in Forwards : lan[f] = <<>> /\ sent[f].down = 0
      /\ chosen = {}
    BY DEF Init
<1>2. \A d \in Devices, f \in Forwards :
         Data(d, f) = {} /\ Orders(d, f) = {} /\ JobsOf(d, f) = {}
    BY <1>1 DEF Data, DataIn, Orders, OrdersIn, JobsOf
<1>3. Sending
    BY <1>1, <1>2 DEF Sending, SendingAt, CarriesIn, Data, Orders
<1>4. Reached
    BY <1>1, <1>2 DEF Reached, ReachedAt, InOrderOf
<1>5. Stays
    BY <1>1, <1>2 DEF Stays, StaysAt
<1> QED
    BY <1>3, <1>4, <1>5

\* The inductive invariant of the server: the table and the numbers in it,
\* what is under way and for whom, the frame being received, and what browsers
\* and LAN peers have been given of what was sent.
THEOREM Invariant == Spec => []IInv
<1>1. Init => IInv
    BY BaseInit, AnsweredInit, DataInit DEF IInv, Base, Answered
<1>2. IInv /\ [Next]_vars => IInv'
    <2> SUFFICES ASSUME IInv, [Next]_vars PROVE IInv'
        OBVIOUS
    <2>1. Base /\ Answered /\ Types /\ Numbered /\ Owned /\ Placed /\ Sending /\ Reached /\ Stays
        BY DEF IInv, Base, Answered
    <2>2. Base' /\ Types' /\ Answered'
        BY <2>1, BaseStep, AnsweredStep DEF Base
    <2>3. Sending' /\ Reached' /\ Stays'
        BY <2>1, <2>2, SendingStep, ReachedStep, StaysStep
    <2> QED
        BY <2>2, <2>3 DEF IInv, Base, Answered
<1> QED
    BY <1>1, <1>2, PTL DEF Spec

\* What a browser sends on its forward reaches the LAN peer of that forward
\* and no other, each piece once and in order, until a hang-up gives back the
\* number of the frame being received; and without gaps when there is one
\* device and it stays: textProcess sends to whatever device is current.
THEOREM BrowserData == Spec => []BrowserDataInOrder
<1>1. IInv => BrowserDataInOrder
    BY DEF IInv, BrowserDataInOrder, Reached, ReachedAt, Stays, StaysAt
<1> QED
    BY <1>1, Invariant, PTL
===============================================================================
