------------------------- MODULE TunnelClient_proofs --------------------------
(***************************************************************************)
(* Proofs about TunnelClient, for every pool, size of buffer, bound and    *)
(* set of frame sizes: no buffer is lost, the handshake is what a          *)
(* connection begins with, the queue to the server is armed, and frames    *)
(* are put together whole and in order.                                    *)
(***************************************************************************)
EXTENDS TunnelClient, TLAPS

\* Only a connection that sent its handshake is known to the server, only a
\* known one gets frames, and a connection that is not answered yet has
\* nothing else on the wire; a new connection begins with nothing of an old
\* one.
HandshakeInv ==
    /\ phase = "sleep" =>
          mode = "none" /\ c2s = <<>> /\ s2c = <<>> /\ prep.of = 0 /\ ~known
    /\ mode \in {"waiting_connect", "waiting_reply"} => ~shakehand /\ c2s = <<>> /\ ~known
    /\ phase # "sleep" /\ shakehand => known
    /\ s2c # <<>> \/ prep.of # 0 => known
    /\ ~shakehand => c2s \in Seq({Hand, Torn})

\* toserver and curr follow the queue, except that a new connection forgets
\* them; an established one that is armed with nothing to send has sent
\* nothing yet, its handshake included.
ArmedInv ==
    /\ IF toserver THEN queue # <<>> /\ curr = Head(queue) ELSE curr = NoPiece
    /\ mode = "client" /\ queue # <<>> => armed
    /\ mode = "client" /\ armed /\ ~toserver => c2s = <<>> /\ ~known

Conserved == free + held + Len(queue) + Held(prep) = NumBufs

IndInv == TypeOK /\ HandshakeInv /\ ArmedInv /\ Conserved

LEMMA InitIndInv == Init => IndInv
<1> SUFFICES ASSUME Init
             PROVE  IndInv
    OBVIOUS
<1> USE DEF Init, W!Init, Idle, Empty
<1>1. TypeOK
    <2>1. W!TypeOK
        BY DEF W!TypeOK
    <2>2. prep \in Prepared
        BY DEF Prepared, NoBuffer
    <2>3. /\ queue \in Seq(Nat) /\ c2s \in Seq(Nat \cup {Torn}) /\ s2c \in Seq(Piece)
          /\ frames \in Seq([total : Nat, conn : Nat, hand : BOOLEAN])
        OBVIOUS
    <2> QED
        BY <2>1, <2>2, <2>3, SizesAssumption DEF TypeOK
<1>2. HandshakeInv /\ ArmedInv
    BY DEF HandshakeInv, ArmedInv
<1>3. Conserved
    BY SizesAssumption DEF Conserved, Held
<1> QED
    BY <1>1, <1>2, <1>3 DEF IndInv

-----------------------------------------------------------------------------
(* Receiving.                                                              *)

\* A buffer that is full joins the others of the frame.
LEMMA SaveKeeps ==
    ASSUME NEW p \in Prepared, p.curr # NoBuffer
    PROVE  /\ save_prepare(p) \in Prepared
           /\ save_prepare(p).of = p.of
           /\ save_prepare(p).curr = NoBuffer
           /\ save_prepare(p).todo = p.todo + 1
<1>1. p.curr \in Nat /\ p.todo \in Nat /\ p.len \in Nat
    BY DEF Prepared
<1>2. p.todo + 1 \in Nat /\ p.len + p.curr \in Nat
    BY <1>1
<1>3. save_prepare(p) =
          [p EXCEPT !.todo = p.todo + 1, !.len = p.len + p.curr, !.curr = NoBuffer]
    BY DEF save_prepare
<1> QED
    BY <1>2, <1>3 DEF Prepared

\* Units go into the buffer being filled, or into a new one.
LEMMA FillKeeps ==
    ASSUME NEW q \in Prepared, NEW us \in Seq(Unit)
    PROVE  /\ Filled(q, us) \in Prepared /\ Filled(q, us).of = q.of
           /\ Filled(q, us).todo = q.todo /\ Filled(q, us).curr \in Nat
           /\ Held(Filled(q, us)) = q.todo + 1
           /\ q.todo \in Nat /\ Held(q) \in Nat
           /\ q.curr = NoBuffer => Held(q) = q.todo
           /\ q.curr # NoBuffer => Held(q) = q.todo + 1
<1> DEFINE start == IF q.curr = NoBuffer THEN 0 ELSE q.curr
<1>1. q.content \o us \in Seq(Unit) /\ Len(us) \in Nat
    BY DEF Prepared
<1>2. start + Len(us) \in Nat /\ q.todo \in Nat
    BY <1>1 DEF Prepared
<1>3. Filled(q, us) = [q EXCEPT !.curr = start + Len(us), !.content = q.content \o us]
    BY DEF Filled
<1> HIDE DEF start
<1>4. /\ Filled(q, us) \in Prepared /\ Filled(q, us).curr = start + Len(us)
      /\ Filled(q, us).of = q.of /\ Filled(q, us).todo = q.todo
    BY <1>1, <1>2, <1>3 DEF Prepared
<1>5. Held(Filled(q, us)) = q.todo + 1
    BY <1>2, <1>4 DEF Held, NoBuffer
<1> QED
    BY <1>2, <1>4, <1>5 DEF Held

LEMMA HeldNat == \A p \in Prepared : Held(p) \in Nat
BY DEF Prepared, Held

\* Nothing is being put together yet.
LEMMA EmptyHolds ==
    ASSUME NEW sync \in BOOLEAN, NEW of \in 0..Len(frames), NEW total \in Nat
    PROVE  /\ Empty(sync, of, total) \in Prepared
           /\ Empty(sync, of, total).of = of
           /\ Held(Empty(sync, of, total)) = 0
<1>1. <<>> \in Seq(Unit)
    OBVIOUS
<1>2. Empty(sync, of, total) \in Prepared
    BY <1>1 DEF Prepared, Empty
<1>3. Empty(sync, of, total).of = of /\ Held(Empty(sync, of, total)) = 0
    BY DEF Empty, Held
<1> QED
    BY <1>2, <1>3

LEMMA IdleHolds ==
    ASSUME TypeOK, NEW sync \in BOOLEAN
    PROVE  /\ Empty(sync, 0, 0) \in Prepared
           /\ Empty(sync, 0, 0).of = 0 /\ Held(Empty(sync, 0, 0)) = 0
<1>1. 0 \in 0..Len(frames) /\ 0 \in Nat
    BY DEF TypeOK
<1> QED
    BY <1>1, EmptyHolds

\* The handler of a frame keeps its buffers or gives them back.
LEMMA ProcessKeeps ==
    ASSUME TypeOK, NEW p, p.of \in Nat, p.todo \in Nat,
           NEW f \in Nat, NEW keep \in BOOLEAN, prepare_process(p, f, keep)
    PROVE  /\ prep' = Idle
           /\ free' \in Nat /\ held' \in Nat /\ free' + held' = f + held + p.todo
           /\ shakehand' \in BOOLEAN /\ (shakehand => shakehand')
           /\ shakehand' => shakehand \/ p.of # 0
<1>1. shakehand' = (shakehand \/ (p.of > 0 /\ frames[p.of].hand))
    BY DEF prepare_process
<1>2. held \in Nat /\ shakehand \in BOOLEAN
    BY DEF TypeOK
<1>3. \/ held' = held + p.todo /\ free' = f
      \/ held' = held /\ free' = f + p.todo
    BY DEF prepare_process
<1>4. free' \in Nat /\ held' \in Nat /\ free' + held' = f + held + p.todo
    BY <1>2, <1>3
<1> QED
    BY <1>1, <1>2, <1>4 DEF prepare_process

\* What is being put together, and what is left in the pool, after a buffer
\* was taken from the pool, filled, and given to the frame's handler or not.
LEMMA StoreKeeps ==
    ASSUME TypeOK,
           NEW p \in Prepared, NEW f \in Nat, NEW us \in Seq(Unit), NEW of,
           Store(p, f, us, of)
    PROVE  /\ prep' \in Prepared /\ free' \in Nat /\ held' \in Nat
           /\ prep'.of \in {0, p.of}
           /\ free' + held' + Held(prep') = f + held + Held(p)
           /\ shakehand' \in BOOLEAN /\ (shakehand => shakehand')
           /\ shakehand' => shakehand \/ p.of # 0
<1> DEFINE full == p.curr # NoBuffer /\ p.curr + Len(us) > BufUnits
           q == IF full THEN save_prepare(p) ELSE p
           new == q.curr = NoBuffer
           filled == Filled(q, us)
           over == filled.curr + filled.len - q.total
           left == IF new THEN f - 1 ELSE f
           whole == [filled EXCEPT !.curr = @ - over,
                                   !.content = SubSeq(@, 1, Len(@) - over)]
<1>1. \/ /\ new /\ f = 0
         /\ prep' = Empty(TRUE, 0, 0) /\ free' = f + Held(q)
         /\ shakehand' = shakehand /\ held' = held
      \/ /\ ~(new /\ f = 0)
         /\ prep' = filled /\ free' = left
         /\ shakehand' = shakehand /\ held' = held
      \/ /\ ~(new /\ f = 0)
         /\ \E keep \in BOOLEAN : prepare_process(save_prepare(whole), left, keep)
    BY DEF Store
<1>2. q \in Prepared /\ q.of = p.of /\ Held(q) = Held(p)
    <2>1. CASE full
        <3>1. Held(p) = p.todo + 1 /\ Held(save_prepare(p)) = p.todo + 1
            BY <2>1, SaveKeeps DEF Held, Prepared
        <3> QED
            BY <2>1, <3>1, SaveKeeps
    <2>2. CASE ~full
        BY <2>2
    <2> QED
        BY <2>1, <2>2
<1> HIDE DEF full, q
<1>3. /\ filled \in Prepared /\ filled.of = q.of /\ filled.todo = q.todo
      /\ filled.curr \in Nat /\ Held(filled) = q.todo + 1
      /\ q.todo \in Nat /\ Held(q) \in Nat
      /\ Held(q) = IF q.curr = NoBuffer THEN q.todo ELSE q.todo + 1
    BY <1>2, FillKeeps
<1>4. save_prepare(whole).of = filled.of /\ save_prepare(whole).todo = filled.todo + 1
    BY <1>3 DEF save_prepare, Prepared
<1>5. ~(new /\ f = 0) => left \in Nat /\ left + q.todo + 1 = f + Held(q)
    BY <1>3
<1>6. held \in Nat /\ p.of \in Nat
    BY DEF TypeOK, Prepared
<1>s. ASSUME shakehand' = shakehand
      PROVE  /\ shakehand' \in BOOLEAN /\ (shakehand => shakehand')
             /\ shakehand' => shakehand \/ p.of # 0
    BY <1>s, Zenon DEF TypeOK
<1> HIDE DEF filled, over, left, whole, new
<1>7. CASE /\ new /\ f = 0
           /\ prep' = Empty(TRUE, 0, 0) /\ free' = f + Held(q)
           /\ shakehand' = shakehand /\ held' = held
    <2>1. prep' \in Prepared /\ prep'.of = 0 /\ Held(prep') = 0
        BY <1>7, IdleHolds
    <2>2. free' \in Nat /\ held' \in Nat /\ free' + held' + Held(prep') = f + held + Held(p)
        <3>1. free' = f + Held(q) /\ held' = held
            BY <1>7, Zenon
        <3>2. Held(q) \in Nat /\ Held(q) = Held(p) /\ held \in Nat
            BY <1>2, <1>3, <1>6
        <3> QED
            BY <2>1, <3>1, <3>2
    <2> QED
        BY <1>7, <2>1, <2>2, <1>s, Zenon
<1>8. CASE /\ ~(new /\ f = 0)
           /\ prep' = filled /\ free' = left
           /\ shakehand' = shakehand /\ held' = held
    <2>1. prep' \in Prepared /\ prep'.of = p.of
        BY <1>8, <1>2, <1>3
    <2>2. free' \in Nat /\ held' \in Nat /\ free' + held' + Held(prep') = f + held + Held(p)
        <3>1. free' = left /\ held' = held /\ prep' = filled /\ ~(new /\ f = 0)
            BY <1>8, Zenon
        <3>2. Held(prep') = q.todo + 1
            BY <3>1, <1>3, Zenon
        <3>3. left \in Nat /\ left + q.todo + 1 = f + Held(p)
            BY <3>1, <1>2, <1>5, Zenon
        <3>4. q.todo \in Nat /\ Held(p) \in Nat /\ held \in Nat
            BY <1>2, <1>3, <1>6, Zenon
        <3> QED
            BY <3>1, <3>2, <3>3, <3>4, SMTT(30)
    <2> QED
        BY <1>8, <2>1, <2>2, <1>s, Zenon
<1>9. ASSUME ~(new /\ f = 0),
             NEW keep \in BOOLEAN, prepare_process(save_prepare(whole), left, keep)
      PROVE  /\ prep' \in Prepared /\ free' \in Nat /\ held' \in Nat
             /\ prep'.of \in {0, p.of}
             /\ free' + held' + Held(prep') = f + held + Held(p)
             /\ shakehand' \in BOOLEAN /\ (shakehand => shakehand')
             /\ shakehand' => shakehand \/ p.of # 0
    <2>1. /\ prep' = Idle
          /\ free' \in Nat /\ held' \in Nat
          /\ free' + held' = left + held + save_prepare(whole).todo
          /\ shakehand' \in BOOLEAN /\ (shakehand => shakehand')
          /\ shakehand' => shakehand \/ save_prepare(whole).of # 0
        <3>1. save_prepare(whole).of \in Nat /\ save_prepare(whole).todo \in Nat /\ left \in Nat
            BY <1>2, <1>3, <1>4, <1>5, <1>6, <1>9
        <3> QED
            BY <3>1, <1>9, ProcessKeeps, Zenon
    <2>2. prep' \in Prepared /\ prep'.of = 0 /\ Held(prep') = 0
        BY <2>1, IdleHolds DEF Idle
    <2>3. free' + held' + Held(prep') = f + held + Held(p)
        <3>1. free' + held' = left + held + (q.todo + 1) /\ Held(prep') = 0
            BY <2>1, <2>2, <1>3, <1>4, Zenon
        <3>2. left \in Nat /\ left + q.todo + 1 = f + Held(p)
            BY <1>2, <1>5, <1>9, Zenon
        <3>3. /\ q.todo \in Nat /\ Held(p) \in Nat /\ held \in Nat
              /\ free' \in Nat /\ held' \in Nat
            BY <2>1, <1>2, <1>3, <1>6, Zenon
        <3>4. left + held + (q.todo + 1) = f + held + Held(p)
            <4> DEFINE t == q.todo
                       h == Held(p)
            <4>1. t \in Nat /\ h \in Nat /\ held \in Nat /\ left \in Nat /\ left + t + 1 = f + h
                BY <3>2, <3>3, Zenon
            <4> HIDE DEF t, h
            <4>2. left + held + (t + 1) = f + held + h
                BY <4>1
            <4> QED
                BY <4>2 DEF t, h
        <3> QED
            BY <3>1, <3>3, <3>4
    <2>4. save_prepare(whole).of = p.of
        BY <1>2, <1>3, <1>4
    <2> QED
        BY <2>1, <2>2, <2>3, <2>4, Zenon
<1> QED
    BY <1>1, <1>7, <1>8, <1>9

-----------------------------------------------------------------------------
(* Steps that leave the queue, the pool and what is on the wire alone.     *)

\* The program's part of what does not change.
Untouched == UNCHANGED <<queue, prep, free, held, c2s, s2c, known, frames, made>>

LEMMA SameFrames == ASSUME frames' = frames PROVE Prepared' = Prepared /\ Piece' = Piece
BY DEF Prepared, Piece

LEMMA UntouchedKeeps ==
    ASSUME IndInv, Untouched,
           W!TypeOK', phase' \in {"loop", "done", "sleep"}, was_closed' \in BOOLEAN,
           shakehand' \in BOOLEAN, toserver' \in BOOLEAN, curr' \in Nat \cup {NoPiece},
           intact' \in BOOLEAN, conn' \in Nat
    PROVE  TypeOK' /\ Conserved'
<1>1. TypeOK'
    <2>1. Prepared' = Prepared /\ Piece' = Piece
        BY SameFrames DEF Untouched
    <2> QED
        BY <2>1 DEF IndInv, TypeOK, Untouched
<1>2. Conserved'
    BY DEF IndInv, Conserved, Untouched, Held
<1> QED
    BY <1>1, <1>2

LEMMA ReconnectKeeps == ASSUME IndInv, Reconnect PROVE IndInv'
<1>1. /\ mode' \in {"none", "waiting_connect", "waiting_reply"} /\ mode = "none"
      /\ W!TypeOK'
    BY DEF Reconnect, W!ConnectPending, W!ConnectAtOnce, W!ConnectUnsent, W!ConnectNull,
           W!Asked, W!TypeOK, W!wsi, IndInv, TypeOK
<1>2. /\ Untouched /\ phase' \in {"loop", "done", "sleep"} /\ was_closed' \in BOOLEAN
      /\ shakehand' \in BOOLEAN /\ toserver' \in BOOLEAN /\ curr' \in Nat \cup {NoPiece}
      /\ intact' \in BOOLEAN /\ conn' \in Nat
    <2>1. Untouched
        BY DEF Reconnect, Quiet, local, server, hist, Untouched
    <2>2. phase' \in {"loop", "done", "sleep"} /\ curr' \in Nat \cup {NoPiece} /\ conn' \in Nat
        BY DEF Reconnect, IndInv, TypeOK, NoPiece
    <2>3. /\ was_closed' \in BOOLEAN /\ shakehand' \in BOOLEAN /\ toserver' \in BOOLEAN
          /\ intact' \in BOOLEAN
        BY Zenon DEF Reconnect, Quiet, IndInv, TypeOK
    <2> QED
        BY <2>1, <2>2, <2>3
<1>2b. TypeOK' /\ Conserved'
    BY <1>1, <1>2, UntouchedKeeps, Zenon
<1>3. HandshakeInv'
    BY <1>1 DEF Reconnect, Quiet, local, server, IndInv, HandshakeInv, Hand, Torn
<1>4. ArmedInv'
    BY <1>1 DEF Reconnect, IndInv, ArmedInv
<1> QED
    BY <1>2b, <1>3, <1>4 DEF IndInv

\* The connection is made, closed or left alone; nothing else happens but that
\* the main loop is told.
LEMMA ConnectionKeeps ==
    ASSUME IndInv, Untouched, UNCHANGED <<shakehand, toserver, curr, conn>>,
           W!TypeOK', phase' \in {"loop", "done", "sleep"}, was_closed' \in BOOLEAN,
           intact' \in BOOLEAN,
           phase' = "sleep" <=> phase = "sleep",
           \/ mode' = mode /\ armed' = armed
           \/ mode' = "none"
           \/ /\ mode \in {"waiting_connect", "waiting_reply"}
              /\ mode' \in {"waiting_reply", "client"}
              /\ mode' = "client" => armed'
    PROVE  IndInv'
<1>1. /\ shakehand' \in BOOLEAN /\ toserver' \in BOOLEAN /\ curr' \in Nat \cup {NoPiece}
      /\ conn' \in Nat
    BY DEF IndInv, TypeOK
<1>2. TypeOK' /\ Conserved'
    BY <1>1, UntouchedKeeps, Zenon
<1>3. HandshakeInv'
    <2>1. c2s' = c2s /\ s2c' = s2c /\ prep' = prep /\ known' = known /\ shakehand' = shakehand
        BY DEF Untouched
    <2>2. phase' = "sleep" => phase = "sleep" /\ mode' = "none"
        BY DEF IndInv, HandshakeInv
    <2>3. mode' \in {"waiting_connect", "waiting_reply"}
             => mode \in {"waiting_connect", "waiting_reply"}
        OBVIOUS
    <2> QED
        BY <2>1, <2>2, <2>3 DEF IndInv, HandshakeInv
<1>4. ArmedInv'
    BY DEF IndInv, ArmedInv, HandshakeInv, Untouched
<1> QED
    BY <1>2, <1>3, <1>4 DEF IndInv

LEMMA ServicesKeep ==
    ASSUME IndInv,
           ServiceConnecting \/ ServiceReply \/ Timeout \/ Watchdog \/ Interrupted
           \/ ServerGone
    PROVE  IndInv'
<1>1. Untouched /\ UNCHANGED <<shakehand, toserver, curr, conn>> /\ intact' = intact
    BY DEF ServiceConnecting, ServiceReply, Timeout, Watchdog, Interrupted, ServerGone,
           Quiet, local, server, hist, link, Untouched
<1>2. phase' \in {"loop", "done", "sleep"} /\ (phase' = "sleep" <=> phase = "sleep")
    BY DEF ServiceConnecting, ServiceReply, Timeout, Watchdog, Interrupted, ServerGone,
           IndInv, TypeOK, Running, Looping
<1>3. was_closed' \in BOOLEAN
    BY DEF ServiceConnecting, ServiceReply, Timeout, Watchdog, Interrupted, ServerGone,
           IndInv, TypeOK
<1>4. /\ W!TypeOK'
      /\ \/ mode' = mode /\ armed' = armed
         \/ mode' = "none"
         \/ /\ mode \in {"waiting_connect", "waiting_reply"}
            /\ mode' \in {"waiting_reply", "client"}
            /\ mode' = "client" => armed'
    BY DEF ServiceConnecting, ServiceReply, Timeout, Watchdog, Interrupted, ServerGone,
           IndInv, TypeOK, W!TypeOK, W!Upgrades, W!Asked, W!UpgradeUnsent,
           W!ConnectRefused, W!ReplyCut, W!ReplyReset, W!ReplyEnded, W!Established,
           W!Refused, W!TimedOut, W!Closes, wsi
<1> QED
    BY <1>1, <1>2, <1>3, <1>4, ConnectionKeeps DEF IndInv, TypeOK

\* The network's and the crashes' steps leave the program's variables alone.
LEMMA OutsideKeeps ==
    ASSUME IndInv, Network \/ NameForgotten \/ HandshakeCrashes \/ NumberReused
    PROVE  IndInv'
<1>1. Untouched /\ UNCHANGED <<shakehand, toserver, curr, conn, phase, was_closed>>
    BY DEF Network, NameForgotten, HandshakeCrashes, NumberReused, Environment,
           local, server, hist, link, Untouched
<1>2. intact' \in BOOLEAN
    BY DEF Network, NameForgotten, HandshakeCrashes, NumberReused, Environment, IndInv, TypeOK
<1>3. W!TypeOK' /\ mode' = mode /\ armed' = armed
    BY DEF Network, NameForgotten, HandshakeCrashes, NumberReused, IndInv, TypeOK, W!TypeOK,
           W!Accepts, W!Rejects, W!HalfClosed, W!Resets, W!Vanishes, W!Answers, W!SockNext, wsi
<1> QED
    BY <1>1, <1>2, <1>3, ConnectionKeeps DEF IndInv, TypeOK

-----------------------------------------------------------------------------
(* The queue.                                                              *)

LEMMA Counts ==
    ASSUME IndInv
    PROVE  /\ free \in Nat /\ held \in Nat /\ Len(queue) \in Nat /\ Held(prep) \in Nat
           /\ free + held + Len(queue) + Held(prep) = NumBufs
BY HeldNat DEF IndInv, TypeOK, Conserved

\* What is under way is lost with its connection; buffers come back.
LEMMA DoneKeeps == ASSUME IndInv, Done PROVE IndInv'
<1>1. /\ phase' = "sleep" /\ mode' = "none" /\ W!TypeOK'
      /\ c2s' = <<>> /\ s2c' = <<>> /\ known' = FALSE /\ prep' = Idle
      /\ UNCHANGED <<shakehand, toserver, curr, queue, frames, made, conn, intact>>
      /\ was_closed' = FALSE
    BY DEF Done, W!Closes, W!TypeOK, link
<1>2. prep' \in Prepared' /\ prep'.of = 0 /\ Held(prep') = 0
    BY <1>1, IdleHolds, SameFrames DEF Idle, IndInv
<1>3. held' \in Nat /\ free' \in Nat /\ free' + held' = free + held + Held(prep)
    <2>1. held' \in 0..held /\ free' = free + Held(prep) + (held - held')
        BY DEF Done
    <2> QED
        BY <2>1, Counts
<1>4. TypeOK'
    <2>1. c2s' \in Seq(Nat \cup {Torn}) /\ s2c' \in Seq(Piece)'
        BY <1>1
    <2> QED
        BY <1>1, <1>2, <1>3, <2>1 DEF IndInv, TypeOK
<1>5. HandshakeInv'
    BY <1>1, <1>2 DEF IndInv, HandshakeInv
<1>6. ArmedInv'
    BY <1>1 DEF IndInv, ArmedInv
<1>7. Conserved'
    <2>1. Len(queue') = Len(queue)
        BY <1>1
    <2> QED
        BY <2>1, <1>2, <1>3, Counts DEF Conserved
<1> QED
    BY <1>4, <1>5, <1>6, <1>7 DEF IndInv

\* A piece joins the queue, whose writing is asked for if nothing was to be
\* written and the connection is there.
LEMMA MakeKeeps == ASSUME IndInv, Make PROVE IndInv'
<1> DEFINE q == Append(queue, made + 1)
<1>1. q \in Seq(Nat) /\ q # <<>> /\ Len(q) = Len(queue) + 1 /\ Head(q) \in Nat
      /\ (queue # <<>> => Head(q) = Head(queue))
    <2>1. queue \in Seq(Nat) /\ made + 1 \in Nat
        BY DEF IndInv, TypeOK
    <2>2. q \in Seq(Nat) /\ Len(q) = Len(queue) + 1 /\ Len(queue) \in Nat
        BY <2>1
    <2>3. \A i \in 1..Len(queue) : q[i] = queue[i]
        BY <2>1
    <2>4. q # <<>> /\ q[1] \in Nat
        BY <2>1, <2>2
    <2> QED
        BY <2>1, <2>2, <2>3, <2>4
<1>2. /\ free' = free - 1 /\ free > 0 /\ made' = made + 1 /\ queue' = q
      /\ UNCHANGED <<phase, was_closed, shakehand, prep, held, c2s, s2c, known, frames,
                     conn, intact>>
    BY DEF Make, http_mgmt_toserver, server
<1>3. \/ /\ toserver /\ UNCHANGED <<toserver, curr, mode, armed, timer, sock, reply>>
      \/ /\ ~toserver /\ toserver' = TRUE /\ curr' = Head(q)
         /\ armed' = (armed \/ mode = "client") /\ UNCHANGED <<mode, timer, sock, reply>>
    BY <1>1 DEF Make, http_mgmt_toserver, W!ArmedNext, wsi
<1> HIDE DEF q
<1>4. W!TypeOK' /\ toserver' \in BOOLEAN /\ curr' \in Nat \cup {NoPiece}
    BY <1>1, <1>3 DEF IndInv, TypeOK, W!TypeOK
<1>5. TypeOK'
    <2>1. Prepared' = Prepared /\ Piece' = Piece
        BY <1>2, SameFrames
    <2>2. queue' \in Seq(Nat) /\ free' \in Nat /\ made' \in Nat
        BY <1>1, <1>2 DEF IndInv, TypeOK
    <2> QED
        BY <1>2, <1>4, <2>1, <2>2 DEF IndInv, TypeOK
<1>6. HandshakeInv'
    BY <1>2, <1>3 DEF IndInv, HandshakeInv
<1>7. ArmedInv'
    <2>1. CASE toserver
        <3>1. toserver' /\ curr' = curr /\ mode' = mode /\ armed' = armed
            BY <2>1, <1>3
        <3>2. queue # <<>> /\ curr = Head(queue) /\ (mode = "client" => armed)
            BY <2>1 DEF IndInv, ArmedInv
        <3> QED
            BY <3>1, <3>2, <1>1, <1>2 DEF ArmedInv
    <2>2. CASE ~toserver
        <3>1. toserver' = TRUE /\ curr' = Head(q) /\ (mode' = "client" => armed')
            BY <2>2, <1>3
        <3> QED
            BY <3>1, <1>1, <1>2 DEF ArmedInv
    <2> QED
        BY <2>1, <2>2
<1>8. Conserved'
    <2>1. Held(prep') = Held(prep) /\ held' = held
        BY <1>2
    <2>2. free' + held' + Len(queue') = free + held + Len(queue)
        <3>1. free' = free - 1 /\ Len(queue') = Len(queue) + 1
            BY <1>1, <1>2, Zenon
        <3> QED
            BY <2>1, <3>1, Counts
    <2> QED
        BY <2>1, <2>2, Counts DEF Conserved
<1> QED
    BY <1>5, <1>6, <1>7, <1>8 DEF IndInv

LEMMA ReleaseKeeps == ASSUME IndInv, Release PROVE IndInv'
<1>1. /\ held' \in 0..(held - 1) /\ free' = free + (held - held')
      /\ UNCHANGED <<mode, armed, timer, sock, reply, phase, was_closed, shakehand,
                     toserver, curr, queue, prep, c2s, s2c, known, frames, made, conn, intact>>
    BY DEF Release, wsi, link, server, hist
<1>2. held' \in Nat /\ free' \in Nat /\ free' + held' = free + held
    <2>1. held' \in 0..(held - 1) /\ free' = free + (held - held')
        BY <1>1
    <2> QED
        BY <2>1, Counts, SMTT(30)
<1>3. TypeOK'
    <2>1. W!TypeOK'
        BY <1>1 DEF IndInv, TypeOK, W!TypeOK
    <2>2. Prepared' = Prepared /\ Piece' = Piece
        BY <1>1, SameFrames
    <2> QED
        BY <1>1, <1>2, <2>1, <2>2 DEF IndInv, TypeOK
<1>4. HandshakeInv' /\ ArmedInv'
    BY <1>1 DEF IndInv, HandshakeInv, ArmedInv
<1>5. Conserved'
    <2>1. Held(prep') = Held(prep) /\ Len(queue') = Len(queue)
        BY <1>1
    <2> QED
        BY <2>1, <1>2, Counts DEF Conserved
<1> QED
    BY <1>3, <1>4, <1>5 DEF IndInv

\* What one call of http_mgmt_writable takes from the queue: the handshake, or
\* the piece at its head, whose buffer is freed.
LEMMA WritableStep ==
    ASSUME IndInv, http_mgmt_writable
    PROVE  /\ queue' \in Seq(Nat) /\ free' \in Nat
           /\ free' + Len(queue') = free + Len(queue)
           /\ Head(ToWrite) \in Nat
           /\ ~shakehand => Head(ToWrite) = Hand
           /\ toserver' \in BOOLEAN /\ (toserver' <=> queue' # <<>>)
           /\ curr' \in Nat \cup {NoPiece}
           /\ curr' = IF queue' = <<>> THEN NoPiece ELSE Head(queue')
           /\ mode = "client" /\ phase = "loop"
           /\ UNCHANGED <<phase, shakehand, prep, held, s2c, known, frames, made, conn, intact>>
<1>1. queue \in Seq(Nat) /\ Len(queue) \in Nat /\ free \in Nat
    BY DEF IndInv, TypeOK
<1>2. /\ queue' = Tail(ToWrite) /\ ToWrite # <<>> /\ (shakehand \/ free > 0)
      /\ free' = (IF shakehand THEN free + 1 ELSE free)
      /\ toserver' = (queue' # <<>>)
      /\ curr' = IF queue' = <<>> THEN NoPiece ELSE Head(queue')
      /\ mode = "client" /\ phase = "loop"
      /\ UNCHANGED <<phase, shakehand, prep, held, s2c, known, frames, made, conn, intact>>
    BY DEF http_mgmt_writable, server, Running
<1>3. /\ queue' \in Seq(Nat) /\ free' \in Nat
      /\ free' + Len(queue') = free + Len(queue)
      /\ Head(ToWrite) \in Nat
      /\ ~shakehand => Head(ToWrite) = Hand
    <2>1. CASE shakehand
        <3>1. ToWrite = queue /\ queue # <<>> /\ queue' = Tail(queue) /\ free' = free + 1
            BY <2>1, <1>2 DEF ToWrite
        <3>2. Len(queue') = Len(queue) - 1 /\ queue' \in Seq(Nat) /\ Head(queue) \in Nat
            BY <3>1, <1>1
        <3>3. free' + Len(queue') = free + Len(queue)
            BY <3>1, <3>2, <1>1
        <3> QED
            BY <3>1, <3>2, <3>3, <1>1, <2>1
    <2>2. CASE ~shakehand
        <3>1. ToWrite = <<Hand>> \o queue /\ free' = free
            BY <2>2, <1>2 DEF ToWrite
        <3>2. Head(ToWrite) = Hand /\ Hand \in Nat
            BY <3>1, <1>1 DEF Hand
        <3>3. queue' = queue
            <4>1. Tail(<<Hand>> \o queue) = queue
                BY <1>1, <3>2
            <4> QED
                BY <4>1, <3>1, <1>2
        <3> QED
            BY <3>1, <3>2, <3>3, <1>1, <2>2
    <2> QED
        BY <2>1, <2>2
<1>4. toserver' \in BOOLEAN /\ (toserver' <=> queue' # <<>>)
    BY <1>2, Zenon
<1>5. curr' \in Nat \cup {NoPiece}
    <2>1. curr' = IF queue' = <<>> THEN NoPiece ELSE Head(queue')
        BY <1>2, Zenon
    <2> QED
        BY <2>1, <1>3
<1> QED
    BY <1>2, <1>3, <1>4, <1>5

LEMMA WriteableKeeps == ASSUME IndInv, Writeable PROVE IndInv'
<1>1. http_mgmt_writable
    BY DEF Writeable, WriteWhole, WritePart, WriteFails
<1>2. /\ UNCHANGED was_closed /\ mode' = mode /\ UNCHANGED <<timer, sock, reply>>
      /\ armed' = (queue' # <<>>)
      /\ c2s' \in {c2s, Append(c2s, Head(ToWrite)), Append(c2s, Torn)}
      \/ /\ was_closed' = TRUE /\ mode' = "none" /\ W!TypeOK' /\ c2s' = c2s
    BY DEF Writeable, WriteWhole, WritePart, WriteFails, Sent, W!ArmedNext, W!Closes, W!TypeOK
<1>3. W!TypeOK' /\ was_closed' \in BOOLEAN
    <2>1. (queue' # <<>>) \in BOOLEAN
        OBVIOUS
    <2> QED
        BY <1>2, <2>1, Zenon DEF IndInv, TypeOK, W!TypeOK
<1>4. c2s' \in Seq(Nat \cup {Torn}) /\ (~shakehand => c2s' \in Seq({Hand, Torn}))
    <2>1. c2s' \in {c2s, Append(c2s, Head(ToWrite)), Append(c2s, Torn)}
        BY <1>2
    <2>2. c2s \in Seq(Nat \cup {Torn}) /\ (~shakehand => c2s \in Seq({Hand, Torn}))
        BY DEF IndInv, TypeOK, HandshakeInv
    <2>3. Head(ToWrite) \in Nat /\ (~shakehand => Head(ToWrite) = Hand)
        BY <1>1, WritableStep
    <2> QED
        BY <2>1, <2>2, <2>3
<1>5. TypeOK'
    <2>1. /\ queue' \in Seq(Nat) /\ free' \in Nat /\ toserver' \in BOOLEAN
          /\ curr' \in Nat \cup {NoPiece}
          /\ UNCHANGED <<phase, shakehand, prep, held, s2c, known, frames, made, conn, intact>>
        BY <1>1, WritableStep, Zenon
    <2>2. Prepared' = Prepared /\ Piece' = Piece
        BY <2>1, SameFrames
    <2> QED
        BY <1>3, <1>4, <2>1, <2>2 DEF IndInv, TypeOK
<1>6. HandshakeInv'
    <2>1. /\ mode = "client" /\ phase = "loop"
          /\ UNCHANGED <<phase, shakehand, prep, s2c, known>>
        BY <1>1, WritableStep, Zenon
    <2>2. mode' \in {"client", "none"}
        BY <1>2, <2>1
    <2> QED
        BY <1>4, <2>1, <2>2 DEF IndInv, HandshakeInv
<1>7. ArmedInv'
    <2>1. (toserver' <=> queue' # <<>>) /\ toserver' \in BOOLEAN
          /\ curr' = IF queue' = <<>> THEN NoPiece ELSE Head(queue')
        BY <1>1, WritableStep, Zenon
    <2>2. mode' = "none" \/ armed' = (queue' # <<>>)
        BY <1>2
    <2> QED
        BY <2>1, <2>2 DEF ArmedInv
<1>8. Conserved'
    <2>1. /\ free' + Len(queue') = free + Len(queue) /\ free' \in Nat /\ queue' \in Seq(Nat)
          /\ held' = held /\ prep' = prep
        BY <1>1, WritableStep, Zenon
    <2>2. Held(prep') = Held(prep) /\ Len(queue') \in Nat
        BY <2>1
    <2>3. free' + held' + Len(queue') = free + held + Len(queue)
        BY <2>1, <2>2, Counts, SMTT(30)
    <2> QED
        BY <2>2, <2>3, Counts DEF Conserved
<1> QED
    BY <1>5, <1>6, <1>7, <1>8 DEF IndInv

-----------------------------------------------------------------------------
(* Frames.                                                                 *)

LEMMA SumKept ==
    ASSUME IndInv, free' \in Nat, held' \in Nat, Held(prep') \in Nat,
           Len(queue') = Len(queue),
           free' + held' + Held(prep') = free + held + Held(prep)
    PROVE  Conserved'
<1>1. free' + held' + Held(prep') + Len(queue') = NumBufs
    BY Counts
<1> QED
    BY <1>1, Counts DEF Conserved

\* What a piece that was received leaves of the rest of the state.
LEMMA ReceivedKeeps ==
    ASSUME IndInv, Receiving, intact' \in BOOLEAN,
           prep' \in Prepared, free' \in Nat, held' \in Nat,
           free' + held' + Held(prep') = free + held + Held(prep),
           shakehand' \in BOOLEAN, shakehand => shakehand'
    PROVE  IndInv'
<1>1. /\ phase = "loop" /\ mode = "client" /\ s2c # <<>> /\ s2c' = Tail(s2c)
      /\ UNCHANGED <<mode, armed, timer, sock, reply, phase, was_closed, toserver, curr,
                     queue, c2s, known, frames, made, conn>>
    BY DEF Receiving, Running, wsi, link, server
<1>2. known
    BY <1>1 DEF IndInv, HandshakeInv
<1>3. TypeOK'
    <2>1. s2c' \in Seq(Piece)
        BY <1>1 DEF IndInv, TypeOK
    <2>2. Prepared' = Prepared /\ Piece' = Piece
        BY <1>1, SameFrames
    <2>3. W!TypeOK'
        BY <1>1 DEF IndInv, TypeOK, W!TypeOK
    <2> QED
        BY <1>1, <2>1, <2>2, <2>3 DEF IndInv, TypeOK
<1>4. HandshakeInv'
    BY <1>1, <1>2 DEF IndInv, HandshakeInv
<1>5. ArmedInv'
    BY <1>1 DEF IndInv, ArmedInv
<1>6. Conserved'
    <2>1. Len(queue') = Len(queue)
        BY <1>1
    <2>2. Held(prep') \in Nat
        BY HeldNat
    <2> QED
        BY <2>1, <2>2, SumKept, Zenon
<1> QED
    BY <1>3, <1>4, <1>5, <1>6 DEF IndInv

LEMMA ElementOf ==
    ASSUME NEW S, NEW s \in Seq(S), NEW i \in 1..Len(s)
    PROVE  s[i] \in S
OBVIOUS

LEMMA PieceTypes ==
    ASSUME TypeOK, s2c # <<>>
    PROVE  /\ Head(s2c) \in Piece
           /\ Head(s2c).units \in Seq(Unit) /\ Payload(Head(s2c)) \in Seq(Unit)
           /\ Headed(Head(s2c)) \in Prepared /\ Held(Headed(Head(s2c))) = 0
           /\ free + Held(prep) \in Nat
<1> DEFINE m == Head(s2c)
<1>1. m \in Piece
    BY DEF TypeOK
<1>2. m.of \in 1..Len(frames) /\ m.units \in Seq(Unit) /\ Len(frames) \in Nat
    <2>1. frames \in Seq([total : Nat, conn : Nat, hand : BOOLEAN])
        BY DEF TypeOK
    <2>2. m.of \in 1..Len(frames) /\ m.units \in Seq(Unit)
        BY <1>1 DEF Piece
    <2> QED
        BY <2>1, <2>2
<1>3. Payload(m) \in Seq(Unit)
    <2>1. <<m.of, 0>> \in Unit
        BY <1>2 DEF Unit
    <2>2. <<<<m.of, 0>>>> \in Seq(Unit)
        BY <2>1
    <2>3. <<<<m.of, 0>>>> \o m.units \in Seq(Unit)
        BY <2>2, <1>2
    <2> QED
        BY <2>3, <1>2 DEF Payload
<1>4. Headed(m) \in Prepared /\ Held(Headed(m)) = 0
    <2>1. frames[m.of].total \in Nat /\ m.of \in 0..Len(frames)
        <3>1. frames \in Seq([total : Nat, conn : Nat, hand : BOOLEAN])
            BY DEF TypeOK
        <3>2. frames[m.of] \in [total : Nat, conn : Nat, hand : BOOLEAN]
            BY <1>2, <3>1, ElementOf, Zenon
        <3> QED
            BY <1>2, <3>2
    <2> QED
        BY <2>1, EmptyHolds DEF Headed
<1>5. free + Held(prep) \in Nat
    BY HeldNat DEF TypeOK
<1> QED
    BY <1>1, <1>2, <1>3, <1>4, <1>5

LEMMA ReceiveKeeps == ASSUME IndInv, Receive PROVE IndInv'
<1>1. TypeOK /\ prep \in Prepared /\ free \in Nat /\ held \in Nat
      /\ shakehand \in BOOLEAN /\ intact \in BOOLEAN
    BY DEF IndInv, TypeOK
<1>2. s2c # <<>> /\ Receiving
    BY DEF Receive, ReceiveMore, ReceiveIgnored, ReceiveHead, Receiving
<1>3. CASE ReceiveMore
    <2>1. Store(prep, free, Payload(Head(s2c)), Head(s2c).of) /\ intact' = intact
        BY <1>3 DEF ReceiveMore
    <2>2. /\ prep' \in Prepared /\ free' \in Nat /\ held' \in Nat
          /\ free' + held' + Held(prep') = free + held + Held(prep)
          /\ shakehand' \in BOOLEAN /\ (shakehand => shakehand')
        BY <2>1, <1>1, <1>2, PieceTypes, StoreKeeps, Zenon
    <2> QED
        BY <2>1, <2>2, <1>1, <1>2, ReceivedKeeps, Zenon
<1>4. CASE ReceiveIgnored
    <2>1. UNCHANGED <<prep, free, held, shakehand, intact>>
        BY <1>4 DEF ReceiveIgnored, local
    <2> QED
        BY <2>1, <1>1, <1>2, ReceivedKeeps, Zenon
<1>5. CASE ReceiveHead
    <2> DEFINE m == Head(s2c)
               f == free + Held(prep)
    <2>1. /\ m.units \in Seq(Unit) /\ Headed(m) \in Prepared /\ Held(Headed(m)) = 0
          /\ f \in Nat /\ Idle \in Prepared /\ Held(Idle) = 0
        BY <1>1, <1>2, PieceTypes, IdleHolds DEF Idle
    <2>2. \/ /\ prep' = Idle \/ prep' = Headed(m)
             /\ free' = f /\ held' = held /\ shakehand' = shakehand /\ intact' = intact
          \/ Store(Headed(m), f, m.units, m.of) /\ intact' = intact
          \/ UNCHANGED <<prep, free, held, shakehand>> /\ intact' = FALSE
        BY <1>5, Zenon DEF ReceiveHead, local
    <2> HIDE DEF m
    <2>3. CASE /\ prep' = Idle \/ prep' = Headed(m)
               /\ free' = f /\ held' = held /\ shakehand' = shakehand /\ intact' = intact
        <3>1. prep' \in Prepared /\ Held(prep') = 0
            BY <2>1, <2>3, Zenon
        <3>2. free' + held' + Held(prep') = free + held + Held(prep)
            <4>1. free' = free + Held(prep) /\ held' = held
                BY <2>3, Zenon
            <4> QED
                BY <4>1, <3>1, Counts
        <3> QED
            BY <2>1, <2>3, <3>1, <3>2, <1>1, <1>2, ReceivedKeeps, Zenon
    <2>4. CASE Store(Headed(m), f, m.units, m.of) /\ intact' = intact
        <3>1. /\ prep' \in Prepared /\ free' \in Nat /\ held' \in Nat
              /\ free' + held' + Held(prep') = f + held + Held(Headed(m))
              /\ shakehand' \in BOOLEAN /\ (shakehand => shakehand')
            BY <2>1, <2>4, <1>1, StoreKeeps, Zenon
        <3>2. f + held + Held(Headed(m)) = free + held + Held(prep)
            BY <2>1, Counts
        <3> QED
            BY <2>4, <3>1, <3>2, <1>1, <1>2, ReceivedKeeps, Zenon
    <2>5. CASE UNCHANGED <<prep, free, held, shakehand>> /\ intact' = FALSE
        BY <2>5, <1>1, <1>2, ReceivedKeeps, Zenon
    <2> QED
        BY <2>2, <2>3, <2>4, <2>5
<1> QED
    BY <1>3, <1>4, <1>5 DEF Receive

LEMMA SyncResetKeeps == ASSUME IndInv, SyncReset PROVE IndInv'
<1>1. /\ prep' = [prep EXCEPT !.sync = FALSE]
      /\ UNCHANGED <<mode, armed, timer, sock, reply, phase, was_closed, shakehand,
                     toserver, curr, queue, free, held, c2s, s2c, known, frames, made,
                     conn, intact>>
    BY DEF SyncReset, wsi, link, server
<1>2. prep' \in Prepared /\ prep'.of = prep.of /\ Held(prep') = Held(prep)
    BY <1>1 DEF IndInv, TypeOK, Prepared, Held
<1>3. TypeOK'
    <2>1. Prepared' = Prepared /\ Piece' = Piece
        BY <1>1, SameFrames
    <2>2. W!TypeOK'
        BY <1>1 DEF IndInv, TypeOK, W!TypeOK
    <2> QED
        BY <1>1, <1>2, <2>1, <2>2 DEF IndInv, TypeOK
<1>4. HandshakeInv' /\ ArmedInv'
    BY <1>1, <1>2 DEF IndInv, HandshakeInv, ArmedInv
<1>5. Conserved'
    <2>1. Len(queue') = Len(queue) /\ free' = free /\ held' = held
        BY <1>1
    <2> QED
        BY <2>1, <1>2, Counts, SumKept
<1> QED
    BY <1>3, <1>4, <1>5 DEF IndInv

\* A frame from the server, on a connection it knows.
LEMMA FrameTypes ==
    ASSUME TypeOK, NEW n \in Nat, NEW h \in BOOLEAN, SendFrame(n, h)
    PROVE  /\ frames' \in Seq([total : Nat, conn : Nat, hand : BOOLEAN])
           /\ Prepared \subseteq Prepared'
           /\ s2c' \in Seq(Piece')
<1> DEFINE f == Len(frames) + 1
<1>1. frames' = Append(frames, [total |-> n, conn |-> conn, hand |-> h])
      /\ s2c' = s2c \o Pieces(f, n)
    BY DEF SendFrame
<1>2. frames \in Seq([total : Nat, conn : Nat, hand : BOOLEAN]) /\ conn \in Nat
      /\ Len(frames) \in Nat
    BY DEF TypeOK
<1>3. frames' \in Seq([total : Nat, conn : Nat, hand : BOOLEAN]) /\ Len(frames') = f
    BY <1>1, <1>2
<1>4. Prepared \subseteq Prepared' /\ Piece \subseteq Piece'
    BY <1>2, <1>3 DEF Prepared, Piece
<1>5. f \in 1..Len(frames') /\ f \in Nat
    BY <1>2, <1>3
<1> HIDE DEF f
<1>6. Pieces(f, n) \in Seq(Piece')
    <2> DEFINE k == IF n = 0 THEN 0 ELSE 1
               r == IF n = 0 THEN 0 ELSE n - 1
               first == [head |-> TRUE, of |-> f, units |-> Units(f, k)]
               rest == [i \in 1..r |->
                          [head |-> FALSE, of |-> f, units |-> <<<<f, i + 1>>>>]]
    <2>1. k \in Nat /\ r \in Nat
        OBVIOUS
    <2>2. Units(f, k) \in Seq(Unit)
        BY <2>1, <1>5 DEF Units, Unit
    <2>3. first \in Piece'
        BY <2>2, <1>5 DEF Piece
    <2>4. \A i \in 1..r : [head |-> FALSE, of |-> f, units |-> <<<<f, i + 1>>>>] \in Piece'
        <3> SUFFICES ASSUME NEW i \in 1..r
                     PROVE  [head |-> FALSE, of |-> f, units |-> <<<<f, i + 1>>>>] \in Piece'
            OBVIOUS
        <3>1. <<f, i + 1>> \in Unit
            BY <2>1, <1>5 DEF Unit
        <3>2. <<<<f, i + 1>>>> \in Seq(Unit)
            BY <3>1
        <3> QED
            BY <3>2, <1>5 DEF Piece
    <2>5. rest \in Seq(Piece')
        BY <2>1, <2>4
    <2>6. <<first>> \in Seq(Piece')
        BY <2>3
    <2>7. Pieces(f, n) = <<first>> \o rest
        BY DEF Pieces
    <2> HIDE DEF first, rest
    <2> QED
        BY <2>5, <2>6, <2>7
<1>7. s2c \in Seq(Piece')
    BY <1>4 DEF TypeOK
<1> QED
    BY <1>1, <1>3, <1>4, <1>6, <1>7

LEMMA TailIn ==
    ASSUME NEW S, NEW s \in Seq(S), s # <<>>
    PROVE  Tail(s) \in Seq(S)
OBVIOUS

\* The server took a message or sent a frame: nothing of the client changes.
LEMMA ServerKeeps ==
    ASSUME IndInv,
           UNCHANGED <<mode, armed, timer, sock, reply, phase, was_closed, shakehand,
                       toserver, curr, queue, prep, free, held, made, conn, intact>>,
           \/ UNCHANGED <<frames, s2c>>
           \/ known' /\ \E n \in Nat, h \in BOOLEAN : SendFrame(n, h),
           \/ c2s' = c2s
           \/ c2s # <<>> /\ c2s' = Tail(c2s),
           known' \in BOOLEAN, known => known',
           known' => known \/ c2s # <<>>
    PROVE  IndInv'
<1>1. /\ frames' \in Seq([total : Nat, conn : Nat, hand : BOOLEAN])
      /\ prep' \in Prepared' /\ s2c' \in Seq(Piece')
    <2>1. TypeOK /\ prep' = prep /\ prep \in Prepared
        BY DEF IndInv, TypeOK
    <2>2. CASE UNCHANGED <<frames, s2c>>
        BY <2>1, <2>2, SameFrames DEF TypeOK
    <2>3. ASSUME NEW n \in Nat, NEW h \in BOOLEAN, SendFrame(n, h)
          PROVE  /\ frames' \in Seq([total : Nat, conn : Nat, hand : BOOLEAN])
                 /\ prep' \in Prepared' /\ s2c' \in Seq(Piece')
        BY <2>1, <2>3, FrameTypes
    <2> QED
        BY <2>2, <2>3
<1>2. TypeOK'
    <2>1. c2s' \in Seq(Nat \cup {Torn})
        <3>1. c2s \in Seq(Nat \cup {Torn})
            BY DEF IndInv, TypeOK
        <3> QED
            BY <3>1, TailIn, Zenon
    <2>2. W!TypeOK'
        BY DEF IndInv, TypeOK, W!TypeOK
    <2> QED
        BY <1>1, <2>1, <2>2 DEF IndInv, TypeOK
<1>3. HandshakeInv'
    <2>1. known' => phase # "sleep" /\ mode \notin {"waiting_connect", "waiting_reply"}
        BY DEF IndInv, HandshakeInv
    <2>2. c2s = <<>> => c2s' = <<>>
        OBVIOUS
    <2>3. ~known' => s2c' = s2c /\ ~known
        OBVIOUS
    <2>4. ~shakehand => c2s' \in Seq({Hand, Torn})
        BY DEF IndInv, HandshakeInv
    <2> QED
        BY <2>1, <2>2, <2>3, <2>4 DEF IndInv, HandshakeInv
<1>4. ArmedInv'
    <2>1. c2s = <<>> => c2s' = <<>> /\ (known' => known)
        OBVIOUS
    <2> QED
        BY <2>1 DEF IndInv, ArmedInv
<1>5. Conserved'
    <2>1. Len(queue') = Len(queue) /\ free' = free /\ held' = held /\ Held(prep') = Held(prep)
        OBVIOUS
    <2>2. free' + held' + Held(prep') = free + held + Held(prep)
        BY <2>1, Zenon
    <2>3. free' \in Nat /\ held' \in Nat /\ Held(prep') \in Nat
        BY <2>1, Counts, Zenon
    <2> QED
        BY <2>1, <2>2, <2>3, SumKept, Zenon
<1> QED
    BY <1>2, <1>3, <1>4, <1>5 DEF IndInv

LEMMA ServerTakesKeeps == ASSUME IndInv, ServerTakes PROVE IndInv'
<1>1. /\ UNCHANGED <<mode, armed, timer, sock, reply, phase, was_closed, shakehand,
                     toserver, curr, queue, prep, free, held, made, conn, intact>>
      /\ c2s # <<>> /\ c2s' = Tail(c2s)
      /\ known' = (known \/ Head(c2s) = Hand)
      /\ IF known \/ Head(c2s) # Hand THEN UNCHANGED <<frames, s2c>> ELSE SendFrame(1, TRUE)
    BY DEF ServerTakes, Environment, wsi, link, local
<1>2. known' \in BOOLEAN /\ (known => known')
    BY <1>1, Zenon
<1>3. \/ UNCHANGED <<frames, s2c>>
      \/ known' /\ \E n \in Nat, h \in BOOLEAN : SendFrame(n, h)
    <2>1. 1 \in Nat /\ TRUE \in BOOLEAN
        OBVIOUS
    <2> QED
        BY <2>1, <1>1, Zenon
<1> QED
    BY <1>1, <1>2, <1>3, ServerKeeps, Zenon

LEMMA ServerSendsKeeps == ASSUME IndInv, ServerSends PROVE IndInv'
<1>1. /\ UNCHANGED <<mode, armed, timer, sock, reply, phase, was_closed, shakehand,
                     toserver, curr, queue, prep, free, held, made, conn, intact>>
      /\ c2s' = c2s /\ known /\ known' = known
      /\ \E n \in Sizes : SendFrame(n, FALSE)
    BY DEF ServerSends, Environment, wsi, link, local
<1>2. known' /\ \E n \in Nat, h \in BOOLEAN : SendFrame(n, h)
    BY <1>1, SizesAssumption, Zenon
<1>3. known' \in BOOLEAN
    BY <1>1, Zenon DEF IndInv, TypeOK
<1> QED
    BY <1>1, <1>2, <1>3, ServerKeeps, Zenon

-----------------------------------------------------------------------------
(* Every step.                                                             *)

LEMMA NextKeepsIndInv == ASSUME IndInv, [Next]_vars PROVE IndInv'
<1>1. CASE Reconnect
    BY <1>1, ReconnectKeeps
<1>2. CASE ServiceConnecting \/ ServiceReply \/ Timeout \/ Watchdog \/ Interrupted
           \/ ServerGone
    BY <1>2, ServicesKeep
<1>3. CASE Network \/ NameForgotten \/ HandshakeCrashes \/ NumberReused
    BY <1>3, OutsideKeeps
<1>4. CASE Done
    BY <1>4, DoneKeeps
<1>5. CASE Make
    BY <1>5, MakeKeeps
<1>6. CASE Release
    BY <1>6, ReleaseKeeps
<1>7. CASE Writeable
    BY <1>7, WriteableKeeps
<1>8. CASE Receive
    BY <1>8, ReceiveKeeps
<1>9. CASE SyncReset
    BY <1>9, SyncResetKeeps
<1>10. CASE ServerTakes
    BY <1>10, ServerTakesKeeps
<1>11. CASE ServerSends
    BY <1>11, ServerSendsKeeps
<1>12. CASE UNCHANGED vars
    <2>1. UNCHANGED <<mode, armed, timer, sock, reply, phase, was_closed, shakehand,
                      toserver, curr, queue, prep, free, held, made, conn, intact,
                      c2s, s2c, known, frames>>
        BY <1>12 DEF vars, wsi, link, local, server, hist
    <2>2. known' \in BOOLEAN /\ (known => known') /\ (known' => known)
        BY <2>1, Zenon DEF IndInv, TypeOK
    <2> QED
        BY <2>1, <2>2, ServerKeeps, Zenon
<1> QED
    BY <1>1, <1>2, <1>3, <1>4, <1>5, <1>6, <1>7, <1>8, <1>9, <1>10, <1>11, <1>12, Zenon
    DEF Next

LEMMA IndInvHolds == Spec => []IndInv
<1>1. Init => IndInv
    BY InitIndInv
<1>2. IndInv /\ [Next]_vars => IndInv'
    BY NextKeepsIndInv
<1> QED
    BY <1>1, <1>2, PTL DEF Spec

-----------------------------------------------------------------------------
(* The order of the pieces, over reconnections.                            *)

\* The pieces of s, leaving marks aside, are in the order they were made in.
Ordered(s) == \A i, j \in 1..Len(s) : i < j /\ s[i] > 0 /\ s[j] > 0 => s[i] < s[j]

\* The pieces of s were made before those of t.
Before(s, t) == \A p \in ToSet(s), q \in ToSet(t) : p > 0 /\ q > 0 => p < q

\* What the server got was made before what is on the wire, and that before
\* what is queued; a piece is in one of them, or was lost with a connection.
OrderInv ==
    /\ got \in Seq(Nat)
    /\ Ordered(got) /\ Ordered(c2s) /\ Ordered(queue)
    /\ Before(got, c2s) /\ Before(got, queue) /\ Before(c2s, queue)
    /\ \A p \in ToSet(got) \cup ToSet(queue) : p \in 1..made
    /\ \A p \in ToSet(c2s) : p <= made
    /\ \A p \in 1..made : p \in ToSet(got) \cup ToSet(c2s) \cup ToSet(queue) \cup dropped

LEMMA AppendOrdered ==
    ASSUME NEW s \in Seq(Int), NEW x \in Int, Ordered(s),
           \A p \in ToSet(s) : p > 0 /\ x > 0 => p < x
    PROVE  /\ Ordered(Append(s, x)) /\ Append(s, x) \in Seq(Int)
           /\ ToSet(Append(s, x)) = ToSet(s) \cup {x}
<1>1. /\ Append(s, x) \in Seq(Int) /\ Len(Append(s, x)) = Len(s) + 1 /\ Len(s) \in Nat
      /\ \A i \in 1..Len(s) : Append(s, x)[i] = s[i] /\ s[i] \in Int
      /\ Append(s, x)[Len(s) + 1] = x
      /\ DOMAIN s = 1..Len(s) /\ DOMAIN Append(s, x) = 1..Len(Append(s, x))
    OBVIOUS
<1>2. ToSet(Append(s, x)) = ToSet(s) \cup {x}
    BY <1>1 DEF ToSet
<1>3. Ordered(Append(s, x))
    <2> SUFFICES ASSUME NEW i \in 1..(Len(s) + 1), NEW j \in 1..(Len(s) + 1), i < j,
                        Append(s, x)[i] > 0, Append(s, x)[j] > 0
                 PROVE  Append(s, x)[i] < Append(s, x)[j]
        BY <1>1 DEF Ordered
    <2>1. i \in 1..Len(s) /\ Append(s, x)[i] = s[i] /\ s[i] \in ToSet(s)
        BY <1>1 DEF ToSet
    <2>2. CASE j = Len(s) + 1
        BY <2>1, <2>2, <1>1
    <2>3. CASE j \in 1..Len(s)
        BY <2>1, <2>3, <1>1 DEF Ordered
    <2> QED
        BY <2>2, <2>3, <1>1
<1> QED
    BY <1>1, <1>2, <1>3

LEMMA TailOrdered ==
    ASSUME NEW s \in Seq(Int), s # <<>>, Ordered(s)
    PROVE  /\ Ordered(Tail(s)) /\ Tail(s) \in Seq(Int) /\ Head(s) \in Int
           /\ ToSet(s) = {Head(s)} \cup ToSet(Tail(s))
           /\ \A p \in ToSet(Tail(s)) : Head(s) > 0 /\ p > 0 => Head(s) < p
<1>1. /\ Tail(s) \in Seq(Int) /\ Len(Tail(s)) = Len(s) - 1 /\ Len(s) \in Nat \ {0}
      /\ \A i \in 1..(Len(s) - 1) : Tail(s)[i] = s[i + 1]
      /\ Head(s) = s[1] /\ Head(s) \in Int
      /\ DOMAIN s = 1..Len(s) /\ DOMAIN Tail(s) = 1..(Len(s) - 1)
    OBVIOUS
<1>2. ToSet(s) = {Head(s)} \cup ToSet(Tail(s))
    <2>1. ASSUME NEW p \in ToSet(s)
          PROVE  p \in {Head(s)} \cup ToSet(Tail(s))
        <3>1. PICK i \in 1..Len(s) : p = s[i]
            BY <2>1, <1>1 DEF ToSet
        <3>2. CASE i = 1
            BY <3>1, <3>2, <1>1
        <3>3. CASE i # 1
            <4>1. i - 1 \in 1..(Len(s) - 1) /\ Tail(s)[i - 1] = s[i]
                BY <3>1, <3>3, <1>1
            <4> QED
                BY <4>1, <3>1, <1>1 DEF ToSet
        <3> QED
            BY <3>2, <3>3
    <2>2. ASSUME NEW p \in ToSet(Tail(s))
          PROVE  p \in ToSet(s)
        <3>1. PICK i \in 1..(Len(s) - 1) : p = Tail(s)[i]
            BY <2>2, <1>1 DEF ToSet
        <3>2. i + 1 \in 1..Len(s) /\ p = s[i + 1]
            BY <3>1, <1>1
        <3> QED
            BY <3>2, <1>1 DEF ToSet
    <2>3. Head(s) \in ToSet(s)
        <3>1. 1 \in 1..Len(s)
            BY <1>1
        <3> QED
            BY <3>1, <1>1 DEF ToSet
    <2> QED
        BY <2>1, <2>2, <2>3
<1>3. Ordered(Tail(s))
    <2> SUFFICES ASSUME NEW i \in 1..(Len(s) - 1), NEW j \in 1..(Len(s) - 1), i < j,
                        Tail(s)[i] > 0, Tail(s)[j] > 0
                 PROVE  Tail(s)[i] < Tail(s)[j]
        BY <1>1 DEF Ordered
    <2>1. /\ Tail(s)[i] = s[i + 1] /\ Tail(s)[j] = s[j + 1]
          /\ i + 1 \in 1..Len(s) /\ j + 1 \in 1..Len(s) /\ i + 1 < j + 1
        BY <1>1
    <2> QED
        BY <2>1 DEF Ordered
<1>4. ASSUME NEW p \in ToSet(Tail(s)), Head(s) > 0, p > 0
      PROVE  Head(s) < p
    <2>1. PICK i \in 1..(Len(s) - 1) : p = Tail(s)[i]
        BY <1>1 DEF ToSet
    <2>2. p = s[i + 1] /\ i + 1 \in 1..Len(s) /\ 1 \in 1..Len(s) /\ 1 < i + 1
        BY <2>1, <1>1
    <2> QED
        BY <2>2, <1>1, <1>4 DEF Ordered
<1> QED
    BY <1>1, <1>2, <1>3, <1>4

LEMMA InitOrderInv == Init => OrderInv
<1>1. ToSet(<<>>) = {}
    BY DEF ToSet
<1> QED
    BY <1>1 DEF Init, OrderInv, Ordered, Before

\* What is on the wire when a connection ends is counted as lost.
LEMMA DoneKeepsOrder == ASSUME IndInv, OrderInv, Done PROVE OrderInv'
<1>1. /\ c2s' = <<>> /\ UNCHANGED <<got, queue, made>>
      /\ dropped' = dropped \cup {p \in ToSet(c2s) : p > 0}
    BY DEF Done, link
<1>2. ToSet(c2s') = {} /\ Ordered(c2s') /\ Before(got', c2s') /\ Before(c2s', queue')
    BY <1>1 DEF ToSet, Ordered, Before
<1>3. \A p \in 1..made : p > 0
    OBVIOUS
<1>4. \A p \in 1..made : p \in ToSet(got) \cup ToSet(queue) \cup dropped'
    BY <1>1, <1>3 DEF OrderInv
<1> QED
    BY <1>1, <1>2, <1>4 DEF OrderInv

\* A new piece is the last one.
LEMMA MakeKeepsOrder == ASSUME IndInv, OrderInv, Make PROVE OrderInv'
<1> DEFINE x == made + 1
<1>1. /\ queue' = Append(queue, x) /\ made' = x
      /\ UNCHANGED <<got, c2s, dropped>>
    BY DEF Make, http_mgmt_toserver, server
<1>2. made \in Nat /\ queue \in Seq(Int) /\ c2s \in Seq(Int)
    BY DEF IndInv, TypeOK, Torn
<1>3. /\ \A p \in ToSet(got) \cup ToSet(queue) : p \in 1..made /\ p < x /\ p \in 1..x
      /\ \A p \in ToSet(c2s) : p <= x
      /\ \A p \in ToSet(c2s) : p < x
    <2>1. \A p \in ToSet(c2s) : p \in Int
        BY <1>2 DEF ToSet
    <2> QED
        BY <1>2, <2>1 DEF OrderInv
<1>4. Ordered(queue') /\ ToSet(queue') = ToSet(queue) \cup {x}
    BY <1>1, <1>2, <1>3, AppendOrdered DEF OrderInv
<1>5. Before(got', queue') /\ Before(c2s', queue')
    BY <1>1, <1>3, <1>4 DEF OrderInv, Before
<1>6. \A p \in 1..made' : p \in 1..made \/ p = x
    BY <1>1, <1>2
<1>7. x \in 1..made'
    BY <1>1, <1>2
<1> QED
    BY <1>1, <1>3, <1>4, <1>5, <1>6, <1>7 DEF OrderInv

\* What http_mgmt_writable takes from the head of the queue is put on the wire,
\* lost, or replaced by a torn part of it.
LEMMA WriteableKeepsOrder == ASSUME IndInv, OrderInv, Writeable PROVE OrderInv'
<1> DEFINE x == Head(ToWrite)
<1>1. queue \in Seq(Int) /\ c2s \in Seq(Int) /\ got \in Seq(Nat) /\ made \in Nat
    BY DEF IndInv, TypeOK, Torn, OrderInv
<1>2. UNCHANGED <<got, made>>
    BY DEF Writeable, WriteWhole, WritePart, WriteFails, http_mgmt_writable, server
<1>3. /\ Ordered(queue') /\ ToSet(queue') \subseteq ToSet(queue)
      /\ ToSet(queue) \subseteq ToSet(queue') \cup {x}
      /\ x \in Int /\ (x = Hand \/ x \in ToSet(queue))
      /\ \A p \in ToSet(queue') : p > 0 /\ x > 0 => x < p
    <2>1. queue' = Tail(ToWrite) /\ ToWrite # <<>>
        BY DEF Writeable, WriteWhole, WritePart, WriteFails, http_mgmt_writable
    <2>2. CASE shakehand
        <3>1. ToWrite = queue
            BY <2>2 DEF ToWrite
        <3> QED
            BY <2>1, <3>1, <1>1, TailOrdered DEF OrderInv
    <2>3. CASE ~shakehand
        <3>1. ToWrite = <<Hand>> \o queue /\ Hand \in Int
            BY <2>3 DEF ToWrite, Hand
        <3>2. Tail(<<Hand>> \o queue) = queue /\ Head(<<Hand>> \o queue) = Hand
            BY <1>1, <3>1
        <3>3. queue' = queue /\ x = Hand /\ ~(Hand > 0)
            BY <2>1, <3>1, <3>2 DEF Hand
        <3> QED
            BY <3>1, <3>3 DEF OrderInv
    <2> QED
        BY <2>2, <2>3
<1>4. \/ c2s' = c2s /\ dropped' = dropped \cup ({x} \ {Hand})
      \/ c2s' = Append(c2s, Torn) /\ dropped' = dropped \cup ({x} \ {Hand})
      \/ c2s' = Append(c2s, x) /\ dropped' = dropped
    BY DEF Writeable, WriteWhole, WritePart, WriteFails, Sent
<1> HIDE DEF x
<1>5. \A p \in ToSet(got) \cup ToSet(queue) \cup ToSet(c2s) : p \in Int
    BY <1>1 DEF ToSet
<1>6. \A p \in ToSet(c2s) : p > 0 /\ x > 0 => p < x
    BY <1>3 DEF OrderInv, Before, Hand
<1>7. /\ Ordered(c2s') /\ ToSet(c2s) \subseteq ToSet(c2s')
      /\ ToSet(c2s') \subseteq ToSet(c2s) \cup {x, Torn}
      /\ x = Hand \/ x \in ToSet(c2s') \/ x \in dropped'
      /\ dropped \subseteq dropped'
    <2>1. CASE c2s' = c2s /\ dropped' = dropped \cup ({x} \ {Hand})
        BY <2>1 DEF OrderInv
    <2>2. CASE c2s' = Append(c2s, Torn) /\ dropped' = dropped \cup ({x} \ {Hand})
        <3>1. Torn \in Int /\ ~(Torn > 0)
            BY DEF Torn
        <3>2. Ordered(c2s') /\ ToSet(c2s') = ToSet(c2s) \cup {Torn}
            BY <2>2, <3>1, <1>1, AppendOrdered DEF OrderInv
        <3> QED
            BY <2>2, <3>2
    <2>3. CASE c2s' = Append(c2s, x) /\ dropped' = dropped
        <3>1. Ordered(c2s') /\ ToSet(c2s') = ToSet(c2s) \cup {x}
            BY <2>3, <1>1, <1>3, <1>6, AppendOrdered DEF OrderInv
        <3> QED
            BY <2>3, <3>1
    <2> QED
        BY <1>4, <2>1, <2>2, <2>3
<1>8. Before(got', c2s') /\ Before(got', queue') /\ Before(c2s', queue')
    <2>1. Before(got', queue')
        BY <1>2, <1>3 DEF OrderInv, Before
    <2>2. Before(got', c2s')
        BY <1>2, <1>3, <1>7 DEF OrderInv, Before, Hand, Torn
    <2>3. Before(c2s', queue')
        BY <1>3, <1>7 DEF OrderInv, Before, Hand, Torn
    <2> QED
        BY <2>1, <2>2, <2>3
<1>9. \A p \in ToSet(c2s') : p <= made'
    <2>1. x <= made
        BY <1>1, <1>3 DEF OrderInv, Hand
    <2>2. Torn <= made
        BY <1>1 DEF Torn
    <2> QED
        BY <2>1, <2>2, <1>2, <1>7 DEF OrderInv
<1>10. \A p \in 1..made' : p \in ToSet(got') \cup ToSet(c2s') \cup ToSet(queue') \cup dropped'
    <2> SUFFICES ASSUME NEW p \in 1..made
                 PROVE  p \in ToSet(got) \cup ToSet(c2s') \cup ToSet(queue') \cup dropped'
        BY <1>2
    <2>1. p # Hand
        BY DEF Hand
    <2>2. p \in ToSet(got) \cup ToSet(c2s) \cup ToSet(queue) \cup dropped
        BY DEF OrderInv
    <2> QED
        BY <2>1, <2>2, <1>3, <1>7
<1> QED
    BY <1>2, <1>3, <1>7, <1>8, <1>9, <1>10 DEF OrderInv

\* The server takes the first of what is on the wire.
LEMMA ServerTakesKeepsOrder == ASSUME IndInv, OrderInv, ServerTakes PROVE OrderInv'
<1> DEFINE x == Head(c2s)
<1>1. queue \in Seq(Int) /\ c2s \in Seq(Nat \cup {Torn}) /\ c2s \in Seq(Int)
      /\ got \in Seq(Nat) /\ got \in Seq(Int) /\ made \in Nat
    BY DEF IndInv, TypeOK, Torn, OrderInv
<1>2. /\ c2s # <<>> /\ x # Torn /\ c2s' = Tail(c2s)
      /\ got' = IF x = Hand THEN got ELSE Append(got, x)
      /\ UNCHANGED <<queue, made, dropped>>
    BY DEF ServerTakes, Environment, link
<1>3. /\ Ordered(c2s') /\ ToSet(c2s) = {x} \cup ToSet(c2s')
      /\ \A p \in ToSet(c2s') : x > 0 /\ p > 0 => x < p
    BY <1>1, <1>2, TailOrdered DEF OrderInv
<1>4. x \in Nat /\ x <= made
    <2>1. x \in Nat \cup {Torn}
        BY <1>1, <1>2
    <2> QED
        BY <2>1, <1>2, <1>3 DEF OrderInv
<1> HIDE DEF x
<1>5. /\ got' \in Seq(Nat) /\ Ordered(got')
      /\ ToSet(got') = IF x = Hand THEN ToSet(got) ELSE ToSet(got) \cup {x}
    <2>1. CASE x = Hand
        BY <2>1, <1>2 DEF OrderInv
    <2>2. CASE x # Hand
        <3>1. \A p \in ToSet(got) : p > 0 /\ x > 0 => p < x
            BY <1>3 DEF OrderInv, Before
        <3>2. Ordered(Append(got, x)) /\ ToSet(Append(got, x)) = ToSet(got) \cup {x}
            BY <3>1, <1>1, <1>4, AppendOrdered DEF OrderInv
        <3>3. Append(got, x) \in Seq(Nat)
            BY <1>1, <1>4
        <3> QED
            BY <2>2, <3>2, <3>3, <1>2
    <2> QED
        BY <2>1, <2>2
<1>6. Before(got', c2s') /\ Before(got', queue') /\ Before(c2s', queue')
    BY <1>2, <1>3, <1>5 DEF OrderInv, Before
<1>7. x # Hand => x \in 1..made
    BY <1>4, <1>1 DEF Hand
<1>8. \A p \in 1..made : p # Hand
    BY DEF Hand
<1> QED
    BY <1>2, <1>3, <1>5, <1>6, <1>7, <1>8 DEF OrderInv

LEMMA NextKeepsOrder == ASSUME IndInv, OrderInv, [Next]_vars PROVE OrderInv'
<1>1. CASE Done
    BY <1>1, DoneKeepsOrder
<1>2. CASE Make
    BY <1>2, MakeKeepsOrder
<1>3. CASE Writeable
    BY <1>3, WriteableKeepsOrder
<1>4. CASE ServerTakes
    BY <1>4, ServerTakesKeepsOrder
<1>5. ASSUME UNCHANGED <<got, c2s, queue, made, dropped>>
      PROVE  OrderInv'
    BY <1>5 DEF OrderInv, Ordered, Before
<1>6. CASE Reconnect \/ ServiceConnecting \/ ServiceReply \/ Timeout \/ Watchdog
           \/ Interrupted \/ NameForgotten \/ HandshakeCrashes \/ NumberReused
    <2>1. UNCHANGED <<got, c2s, queue, made, dropped>>
        BY <1>6 DEF Reconnect, ServiceConnecting, ServiceReply, Timeout, Watchdog,
           Interrupted, NameForgotten, HandshakeCrashes, NumberReused, Quiet,
           server, hist, link
    <2> QED
        BY <2>1, <1>5
<1>7. CASE Release \/ Receive \/ SyncReset \/ ServerGone \/ Network \/ ServerSends
    <2>1. UNCHANGED <<got, c2s, queue, made, dropped>>
        BY <1>7 DEF Release, Receive, ReceiveMore, ReceiveIgnored, ReceiveHead, Receiving,
           SyncReset, ServerGone, Network, ServerSends, Environment, server, hist, link
    <2> QED
        BY <2>1, <1>5
<1>8. CASE UNCHANGED vars
    <2>1. UNCHANGED <<got, c2s, queue, made, dropped>>
        BY <1>8 DEF vars, server, hist, link
    <2> QED
        BY <2>1, <1>5
<1> QED
    BY <1>1, <1>2, <1>3, <1>4, <1>6, <1>7, <1>8, Zenon DEF Next

-----------------------------------------------------------------------------
(* Frames: what is on its way, put together, and handled.                  *)

\* A piece of frame f is known by the last unit in it: 0 or 1 if it is the head.
PieceOf(f, k) ==
    IF k <= 1 THEN [head |-> TRUE, of |-> f, units |-> Units(f, k)]
    ELSE [head |-> FALSE, of |-> f, units |-> <<<<f, k>>>>]
At(m) == IF m.units = <<>> THEN 0 ELSE m.units[1][2]
Total(fs, m) == fs[m.of].total

\* The pieces on their way are of this connection.  A frame's head comes with the
\* rest of it right behind, and after all of the frames before it.
PieceOK(fs, c, m) ==
    /\ m.of \in 1..Len(fs) /\ fs[m.of].conn = c
    /\ At(m) \in 0..Total(fs, m) /\ (At(m) = 0 => Total(fs, m) = 0)
    /\ m = PieceOf(m.of, At(m))
Follows(fs, m, next) ==
    IF At(m) < Total(fs, m) THEN next = PieceOf(m.of, At(m) + 1) ELSE next.head
WireInv ==
    /\ \A i \in 1..Len(s2c) : PieceOK(frames, conn, s2c[i])
    /\ \A i, j \in 1..Len(s2c) : j = i + 1 => Follows(frames, s2c[i], s2c[j])
    /\ \A i, j \in 1..Len(s2c) : i < j /\ s2c[j].head => s2c[i].of < s2c[j].of
    /\ \A i \in 1..Len(s2c) : i = Len(s2c) => At(s2c[i]) = Total(frames, s2c[i])

\* What is put together is counted, and the rest of it comes next, unless it
\* was given up.
Counted(p) == Len(p.content) = p.len + (IF p.curr = NoBuffer THEN 0 ELSE p.curr)
Growing(p) ==
    /\ p.content = Units(p.of, Len(p.content))
    /\ IF p.total = 0
       THEN p.content = <<>> /\ (s2c # <<>> => s2c[1].head)
       ELSE /\ Len(p.content) \in 1..(p.total - 1) /\ s2c # <<>>
            /\ s2c[1] = PieceOf(p.of, Len(p.content) + 1)
Spoilt == {g \in hurt \cap (1..Len(frames)) : frames[g].conn = conn}
PrepInv ==
    /\ Counted(prep)
    /\ prep.total = IF prep.of = 0 THEN 0 ELSE frames[prep.of].total
    /\ prep.of # 0 => frames[prep.of].conn = conn
    /\ prep.of # 0 => IF prep.sync THEN Growing(prep) ELSE prep.of \in hurt
    /\ prep.of = 0 /\ prep.sync =>
          \E g \in Spoilt : \A i \in 1..Len(s2c) : s2c[i].head => g < s2c[i].of
    /\ phase = "sleep" => prep = Idle

\* The frames handled come before the one being put together, and that before
\* those to come; and each frame is to come, being put together, excused or
\* handled.
Coming(f) == \E i \in 1..Len(s2c) : s2c[i].head /\ s2c[i].of = f
WasHandled(f) == \E i \in 1..Len(handled) : handled[i].of = f
PastInv ==
    /\ handled \in Seq([of : 1..Len(frames), content : Seq(Unit)])
    /\ \A i, j \in 1..Len(handled) : i < j => handled[i].of < handled[j].of
    /\ \A i \in 1..Len(handled) :
          handled[i].content = Units(handled[i].of, frames[handled[i].of].total)
    /\ prep.of # 0 => \A i \in 1..Len(handled) : handled[i].of < prep.of
    /\ \A j \in 1..Len(s2c) : s2c[j].head =>
          prep.of < s2c[j].of /\ \A i \in 1..Len(handled) : handled[i].of < s2c[j].of
FateInv ==
    \A f \in 1..Len(frames) :
        Coming(f) \/ (prep.sync /\ prep.of = f) \/ Excused(f) \/ WasHandled(f)

FrameInv == intact => WireInv /\ PrepInv /\ PastInv /\ FateInv

LEMMA Facts ==
    ASSUME TypeOK
    PROVE  /\ Len(frames) \in Nat /\ s2c \in Seq(Piece) /\ Len(s2c) \in Nat
           /\ \A f \in 1..Len(frames) : frames[f].total \in Nat
           /\ prep \in Prepared /\ prep.of \in 0..Len(frames) /\ prep.total \in Nat
           /\ prep.sync \in BOOLEAN /\ prep.content \in Seq(Unit)
<1>1. frames \in Seq([total : Nat, conn : Nat, hand : BOOLEAN])
    BY DEF TypeOK
<1>2. \A f \in 1..Len(frames) : frames[f] \in [total : Nat, conn : Nat, hand : BOOLEAN]
    BY <1>1, ElementOf
<1>3. s2c \in Seq(Piece) /\ prep \in Prepared
    BY DEF TypeOK
<1> QED
    BY <1>1, <1>2, <1>3 DEF Prepared

LEMMA UnitsAre ==
    ASSUME NEW f, NEW k \in Nat
    PROVE  /\ Len(Units(f, k)) = k
           /\ \A i \in 1..k : Units(f, k)[i] = <<f, i>>
           /\ Units(f, k) = <<>> <=> k = 0
BY DEF Units

LEMMA UnitsGrow ==
    ASSUME NEW f, NEW k \in Nat
    PROVE  Units(f, k) \o <<<<f, k + 1>>>> = Units(f, k + 1)
<1> DEFINE u == Units(f, k)
           e == <<f, k + 1>>
           S == {<<f, i>> : i \in Nat}
           v == u \o <<e>>
<1>1. u \in Seq(S) /\ Len(u) = k /\ e \in S
    BY DEF Units
<1>2. \A i \in 1..k : u[i] = <<f, i>>
    BY DEF Units
<1> HIDE DEF u, S
<1>3. v \in Seq(S) /\ Len(v) = k + 1
    BY <1>1
<1>4. \A i \in 1..(k + 1) : v[i] = <<f, i>>
    BY <1>1, <1>2
<1>5. v = [i \in 1..(k + 1) |-> v[i]]
    BY <1>3
<1> HIDE DEF v, e
<1>6. v = [i \in 1..(k + 1) |-> <<f, i>>]
    BY <1>4, <1>5
<1> QED
    BY <1>6 DEF v, e, u, Units

\* A piece and its place in its frame.
LEMMA PieceOfIs ==
    ASSUME NEW f, NEW k \in Nat
    PROVE  /\ At(PieceOf(f, k)) = k /\ PieceOf(f, k).of = f
           /\ k <= 1 => PieceOf(f, k).head = TRUE
           /\ ~(k <= 1) => PieceOf(f, k).head = FALSE
           /\ PieceOf(f, k).units = IF k = 0 THEN <<>> ELSE <<<<f, k>>>>
<1> DEFINE p == PieceOf(f, k)
           u == <<<<f, k>>>>
<1>1. p.of = f
    BY DEF PieceOf
<1>2. (k <= 1 => p.head = TRUE) /\ (~(k <= 1) => p.head = FALSE)
    BY DEF PieceOf
<1>3. p.units = IF k = 0 THEN <<>> ELSE u
    <2>1. Units(f, 0) = <<>> /\ Units(f, 1) = <<<<f, 1>>>>
        BY DEF Units
    <2>2. p.units = IF k <= 1 THEN Units(f, k) ELSE u
        BY DEF PieceOf
    <2> HIDE DEF p
    <2>3. k = 0 \/ k = 1 \/ ~(k <= 1)
        OBVIOUS
    <2> QED
        BY <2>1, <2>2, <2>3
<1>4. u # <<>> /\ u[1][2] = k
    OBVIOUS
<1> HIDE DEF p, u
<1>5. At(p) = k
    BY <1>3, <1>4 DEF At
<1> QED
    BY <1>1, <1>2, <1>3, <1>5 DEF p, u

LEMMA PieceAt ==
    \A f : \A k \in Nat : At(PieceOf(f, k)) = k /\ PieceOf(f, k).of = f
BY PieceOfIs

LEMMA LaterPiece ==
    ASSUME NEW f, NEW k \in Nat, k > 0
    PROVE  /\ PieceOf(f, k + 1).of = f /\ PieceOf(f, k + 1).head = FALSE
           /\ PieceOf(f, k + 1).units = <<<<f, k + 1>>>>
<1>1. k + 1 \in Nat /\ k + 1 # 0 /\ ~(k + 1 <= 1)
    OBVIOUS
<1> QED
    BY <1>1, PieceOfIs

\* A frame as it is sent: its head and the rest of it.
LEMMA PiecesAre ==
    ASSUME NEW f, NEW n \in Nat
    PROVE  LET w == IF n = 0 THEN 1 ELSE n
           IN  /\ Pieces(f, n) = [i \in 1..w |-> PieceOf(f, IF n = 0 THEN 0 ELSE i)]
<1> DEFINE w == IF n = 0 THEN 1 ELSE n
           k == IF n = 0 THEN 0 ELSE 1
           r == IF n = 0 THEN 0 ELSE n - 1
           first == [head |-> TRUE, of |-> f, units |-> Units(f, k)]
           rest == [i \in 1..r |->
                      [head |-> FALSE, of |-> f, units |-> <<<<f, i + 1>>>>]]
           S == {PieceOf(f, i) : i \in Nat}
           p == <<first>> \o rest
<1>1. w \in Nat /\ r \in Nat /\ k \in {0, 1} /\ w = r + 1
    OBVIOUS
<1>2. first = PieceOf(f, k)
    BY DEF PieceOf
<1>3. \A i \in 1..r : rest[i] = PieceOf(f, i + 1)
    BY <1>1 DEF PieceOf
<1>4. p = Pieces(f, n)
    BY DEF Pieces
<1>5. <<first>> \in Seq(S) /\ Len(<<first>>) = 1
    BY <1>1, <1>2
<1>6. rest \in Seq(S) /\ Len(rest) = r
    <2>1. \A i \in 1..r : PieceOf(f, i + 1) \in S
        BY <1>1
    <2>2. \A i \in 1..r : rest[i] \in S
        BY <1>3, <2>1
    <2>3. rest \in [1..r -> S]
        BY <2>2
    <2> QED
        BY <1>1, <2>3
<1> HIDE DEF first, rest, S, r
<1>7. p \in Seq(S) /\ Len(p) = w
    BY <1>1, <1>5, <1>6
<1>8. \A i \in 1..w : p[i] = PieceOf(f, IF n = 0 THEN 0 ELSE i)
    <2> SUFFICES ASSUME NEW i \in 1..w
                 PROVE  p[i] = PieceOf(f, IF n = 0 THEN 0 ELSE i)
        OBVIOUS
    <2>1. CASE i = 1
        BY <1>2, <1>5, <1>6, <2>1
    <2>2. CASE i # 1
        <3>1. n # 0 /\ i - 1 \in 1..r /\ (i - 1) + 1 = i
            BY <1>1, <2>2
        <3>2. p[i] = rest[i - 1]
            BY <1>1, <1>5, <1>6, <3>1
        <3> QED
            BY <1>3, <3>1, <3>2
    <2> QED
        BY <2>1, <2>2
<1> HIDE DEF p
<1>9. p = [i \in 1..w |-> p[i]]
    <2> HIDE DEF w
    <2> QED
        BY <1>7
<1>10. p = [i \in 1..w |-> PieceOf(f, IF n = 0 THEN 0 ELSE i)]
    BY <1>8, <1>9
<1> QED
    BY <1>4, <1>10

-----------------------------------------------------------------------------
(* Steps that leave the frames alone.                                      *)

LEMMA SilentFrames ==
    ASSUME FrameInv, UNCHANGED <<s2c, frames, handled, hurt, prep, conn>>,
           intact' => intact, phase' = "sleep" => phase = "sleep"
    PROVE  FrameInv'
<1> SUFFICES ASSUME intact' PROVE (WireInv /\ PrepInv /\ PastInv /\ FateInv)'
    BY DEF FrameInv
<1>1. WireInv /\ PrepInv /\ PastInv /\ FateInv
    BY DEF FrameInv
<1>2. WireInv'
    BY <1>1 DEF WireInv
<1>3. PrepInv'
    BY <1>1 DEF PrepInv, Counted, Growing, PieceOf, Spoilt
<1>4. PastInv'
    BY <1>1 DEF PastInv
<1>5. FateInv'
    BY <1>1 DEF FateInv, Coming, Excused, WasHandled
<1> QED
    BY <1>2, <1>3, <1>4, <1>5

\* A connection begins with nothing under way.
LEMMA ReconnectFrames == ASSUME IndInv, FrameInv, Reconnect PROVE FrameInv'
<1> SUFFICES ASSUME intact' PROVE (WireInv /\ PrepInv /\ PastInv /\ FateInv)'
    BY DEF FrameInv
<1>1. /\ UNCHANGED <<s2c, frames, handled, hurt, prep>> /\ phase = "sleep" /\ intact
    BY DEF Reconnect, Quiet, local, server, hist
<1>2. WireInv /\ PrepInv /\ PastInv /\ FateInv
    BY <1>1 DEF FrameInv
<1>3. s2c = <<>> /\ prep = Idle
    BY <1>1, <1>2 DEF IndInv, HandshakeInv, PrepInv
<1>4. WireInv'
    BY <1>1, <1>3 DEF WireInv
<1>5. PrepInv'
    <2>1. prep.of = 0 /\ ~prep.sync /\ prep' = prep
        BY <1>1, <1>3 DEF Idle, Empty
    <2>2. Counted(prep) /\ prep.total = 0
        BY <1>2, <2>1 DEF PrepInv
    <2> QED
        BY <1>3, <2>1, <2>2 DEF PrepInv, Counted
<1>6. PastInv'
    BY <1>1, <1>2 DEF PastInv
<1>7. FateInv'
    BY <1>1, <1>2 DEF FateInv, Coming, Excused, WasHandled
<1> QED
    BY <1>4, <1>5, <1>6, <1>7

\* Frames that are excused stay so.
LEMMA StaysExcused ==
    ASSUME frames' = frames, hurt \subseteq hurt', NEW f \in 1..Len(frames), Excused(f)
    PROVE  Excused(f)'
BY DEF Excused

\* 8 s after the header, what is put together is given up.
LEMMA SyncResetFrames == ASSUME IndInv, FrameInv, SyncReset PROVE FrameInv'
<1> SUFFICES ASSUME intact' PROVE (WireInv /\ PrepInv /\ PastInv /\ FateInv)'
    BY DEF FrameInv
<1>1. /\ UNCHANGED <<s2c, frames, handled, conn, phase>> /\ phase = "loop" /\ intact
      /\ prep' = [prep EXCEPT !.sync = FALSE] /\ hurt' = hurt \cup {prep.of}
    BY DEF SyncReset, Looping, Running, server
<1>2. WireInv /\ PrepInv /\ PastInv /\ FateInv
    BY <1>1 DEF FrameInv
<1>3. TypeOK
    BY DEF IndInv
<1>4. /\ prep'.of = prep.of /\ prep'.total = prep.total /\ prep'.sync = FALSE
      /\ prep'.content = prep.content /\ prep'.len = prep.len /\ prep'.curr = prep.curr
    BY <1>1, <1>3, Facts DEF Prepared
<1>5. WireInv'
    BY <1>1, <1>2 DEF WireInv
<1>6. PrepInv'
    BY <1>1, <1>2, <1>4 DEF PrepInv, Counted
<1>7. PastInv'
    BY <1>1, <1>2, <1>4 DEF PastInv
<1>8. FateInv'
    <2> SUFFICES ASSUME NEW f \in 1..Len(frames)
                 PROVE  Coming(f)' \/ Excused(f)' \/ WasHandled(f)'
        BY <1>1 DEF FateInv
    <2>1. CASE Coming(f) \/ WasHandled(f)
        BY <1>1, <2>1 DEF Coming, WasHandled
    <2>2. CASE prep.of = f
        BY <1>1, <2>2 DEF Excused
    <2>3. CASE Excused(f)
        BY <1>1, <2>3, StaysExcused
    <2> QED
        BY <1>2, <2>1, <2>2, <2>3 DEF FateInv
<1> QED
    BY <1>5, <1>6, <1>7, <1>8

\* http_mgmt_release_all: what was under way is lost, and hurt.
LEMMA DoneFrames == ASSUME IndInv, FrameInv, Done PROVE FrameInv'
<1> SUFFICES ASSUME intact' PROVE (WireInv /\ PrepInv /\ PastInv /\ FateInv)'
    BY DEF FrameInv
<1>1. /\ s2c' = <<>> /\ prep' = Idle /\ intact
      /\ hurt' = hurt \cup {m.of : m \in ToSet(s2c)} \cup (IF prep.sync THEN {prep.of} ELSE {})
      /\ UNCHANGED <<frames, handled, conn>>
    BY DEF Done
<1>2. WireInv /\ PrepInv /\ PastInv /\ FateInv
    BY <1>1 DEF FrameInv
<1>3. WireInv'
    BY <1>1 DEF WireInv
<1>4. PrepInv'
    <2>1. prep'.of = 0 /\ ~prep'.sync /\ prep'.total = 0
        BY <1>1 DEF Idle, Empty
    <2>2. Counted(prep')
        BY <1>1 DEF Idle, Empty, Counted, NoBuffer
    <2>3. Idle' = Idle
        BY DEF Idle, Empty, NoBuffer
    <2> QED
        BY <1>1, <2>1, <2>2, <2>3 DEF PrepInv, Counted
<1>5. PastInv'
    <2>1. prep'.of = 0 /\ Len(s2c') = 0
        BY <1>1 DEF Idle, Empty
    <2>2. handled' = handled /\ frames' = frames
        BY <1>1
    <2> QED
        BY <1>2, <2>1, <2>2 DEF PastInv
<1>6. FateInv'
    <2> SUFFICES ASSUME NEW f \in 1..Len(frames)
                 PROVE  Excused(f)' \/ WasHandled(f)'
        BY <1>1 DEF FateInv
    <2>1. CASE WasHandled(f)
        BY <1>1, <2>1 DEF WasHandled
    <2>2. CASE prep.sync /\ prep.of = f
        BY <1>1, <2>2 DEF Excused
    <2>3. CASE Excused(f)
        BY <1>1, <2>3, StaysExcused
    <2>4. CASE Coming(f)
        <3>1. PICK i \in 1..Len(s2c) : s2c[i].of = f
            BY <2>4 DEF Coming
        <3>2. s2c \in Seq(Piece)
            BY Facts DEF IndInv
        <3>3. s2c[i] \in ToSet(s2c)
            BY <3>2 DEF ToSet
        <3>4. f \in hurt'
            BY <1>1, <3>1, <3>3
        <3> QED
            BY <1>1, <3>4 DEF Excused
    <2> QED
        BY <1>2, <2>1, <2>2, <2>3, <2>4 DEF FateInv
<1> QED
    BY <1>3, <1>4, <1>5, <1>6

LEMMA LargerSeq ==
    ASSUME NEW S, NEW T, S \subseteq T, NEW s \in Seq(S)
    PROVE  s \in Seq(T)
OBVIOUS

LEMMA HandledOf ==
    ASSUME PastInv
    PROVE  /\ \A i \in 1..Len(handled) : handled[i].of \in 1..Len(frames)
           /\ Len(handled) \in Nat
<1>1. handled \in Seq([of : 1..Len(frames), content : Seq(Unit)])
    BY DEF PastInv
<1>2. \A i \in 1..Len(handled) : handled[i] \in [of : 1..Len(frames), content : Seq(Unit)]
    BY <1>1, ElementOf
<1> QED
    BY <1>1, <1>2

-----------------------------------------------------------------------------
(* The server sends a frame.                                               *)

LEMMA SendFrames ==
    ASSUME IndInv, FrameInv, NEW n \in Nat, NEW hand \in BOOLEAN, SendFrame(n, hand),
           UNCHANGED <<handled, hurt, prep, conn, phase, intact>>
    PROVE  FrameInv'
<1> SUFFICES ASSUME intact' PROVE (WireInv /\ PrepInv /\ PastInv /\ FateInv)'
    BY DEF FrameInv
<1> DEFINE new == [total |-> n, conn |-> conn, hand |-> hand]
           F == Len(frames) + 1
           w == IF n = 0 THEN 1 ELSE n
           L == Len(s2c)
           K(i) == IF n = 0 THEN 0 ELSE i
<1>1. WireInv /\ PrepInv /\ PastInv /\ FateInv
    BY DEF FrameInv
<1>2. TypeOK
    BY DEF IndInv
<1>3. frames' = Append(frames, new) /\ s2c' = s2c \o Pieces(F, n)
    BY DEF SendFrame
<1>4. /\ Len(frames) \in Nat /\ Len(frames') = F /\ F \in Nat /\ frames'[F] = new
      /\ \A f \in 1..Len(frames) : f \in 1..F /\ f < F /\ frames'[f] = frames[f]
    <2>1. frames \in Seq([total : Nat, conn : Nat, hand : BOOLEAN])
        BY <1>2 DEF TypeOK
    <2> HIDE DEF new
    <2> QED
        BY <1>3, <2>1
<1>5. new.total = n /\ new.conn = conn
    OBVIOUS
<1>6. /\ L \in Nat /\ w \in Nat /\ w > 0 /\ Len(s2c') = L + w
      /\ \A i \in 1..L : s2c'[i] = s2c[i]
      /\ \A i \in 1..w : s2c'[L + i] = PieceOf(F, K(i))
    <2> DEFINE S == {s2c[i] : i \in 1..L} \cup {PieceOf(F, i) : i \in Nat}
               q == [i \in 1..w |-> PieceOf(F, K(i))]
    <2>1. Pieces(F, n) = q
        BY <1>4, PiecesAre
    <2>2. s2c \in Seq(Piece) /\ L \in Nat /\ w \in Nat /\ w > 0
        BY <1>2, Facts
    <2>3. s2c \in Seq(S)
        BY <2>2
    <2>4. \A i \in 1..w : K(i) \in Nat
        BY <2>2
    <2>5. \A i \in 1..w : PieceOf(F, K(i)) \in S
        BY <2>4
    <2>6. q \in [1..w -> S] /\ \A i \in 1..w : q[i] = PieceOf(F, K(i))
        BY <2>5
    <2> HIDE DEF S, q, w
    <2>7. q \in Seq(S) /\ Len(q) = w
        BY <2>2, <2>6
    <2>8. s2c' = s2c \o q
        BY <1>3, <2>1
    <2>9. Len(s2c') = L + w /\ \A i \in 1..L : s2c'[i] = s2c[i]
        <3>1. Len(s2c \o q) = Len(s2c) + Len(q)
            BY <2>3, <2>7
        <3>2. \A i \in 1..Len(s2c) : (s2c \o q)[i] = s2c[i]
            BY <2>3, <2>7
        <3> QED
            BY <2>7, <2>8, <3>1, <3>2
    <2>10. \A i \in 1..w : s2c'[L + i] = q[i]
        BY <2>2, <2>3, <2>7, <2>8
    <2> QED
        BY <2>2, <2>6, <2>9, <2>10
<1>7. \A i \in 1..w : /\ K(i) \in 0..n /\ (K(i) = 0 => n = 0)
                      /\ i = w => K(i) = n
                      /\ i < w => K(i) < n /\ K(i + 1) = K(i) + 1
    OBVIOUS
<1>8. \A i \in 1..Len(s2c') : i \in 1..L \/ (i - L \in 1..w /\ i = L + (i - L))
    <2> HIDE DEF L, w
    <2> QED
        BY <1>6
<1> HIDE DEF new, F, L, w
\* The pieces that are new.
<1>9. \A i \in 1..w : /\ s2c'[L + i].of = F /\ At(s2c'[L + i]) = K(i)
                      /\ s2c'[L + i].head = TRUE => i = 1
                      /\ i = 1 => s2c'[L + i].head = TRUE
    <2> SUFFICES ASSUME NEW i \in 1..w
                 PROVE  /\ s2c'[L + i].of = F /\ At(s2c'[L + i]) = K(i)
                        /\ s2c'[L + i].head = TRUE => i = 1
                        /\ i = 1 => s2c'[L + i].head = TRUE
        OBVIOUS
    <2>1. s2c'[L + i] = PieceOf(F, K(i)) /\ K(i) \in Nat
        BY <1>6, <1>7
    <2>2. i = 1 => K(i) <= 1
        OBVIOUS
    <2>3. i # 1 => ~(K(i) <= 1)
        BY <1>6 DEF w
    <2> HIDE DEF K
    <2>4. /\ At(PieceOf(F, K(i))) = K(i) /\ PieceOf(F, K(i)).of = F
          /\ K(i) <= 1 => PieceOf(F, K(i)).head = TRUE
          /\ ~(K(i) <= 1) => PieceOf(F, K(i)).head = FALSE
        BY <2>1, PieceOfIs
    <2> QED
        BY <2>1, <2>2, <2>3, <2>4
<1>10. \A i \in 1..L : /\ s2c[i].of \in 1..Len(frames)
                       /\ Total(frames', s2c[i]) = Total(frames, s2c[i])
                       /\ PieceOK(frames, conn, s2c[i])
    <2>1. \A i \in 1..L : PieceOK(frames, conn, s2c[i])
        BY <1>1 DEF WireInv, L
    <2>2. \A i \in 1..L : s2c[i].of \in 1..Len(frames)
        BY <2>1 DEF PieceOK
    <2> QED
        BY <1>4, <2>1, <2>2 DEF Total
<1>11. WireInv'
    <2>1. ASSUME NEW i \in 1..Len(s2c')
          PROVE  PieceOK(frames', conn', s2c'[i])
        <3>1. CASE i \in 1..L
            <4>1. /\ PieceOK(frames, conn, s2c[i]) /\ s2c'[i] = s2c[i]
                  /\ Total(frames', s2c[i]) = Total(frames, s2c[i])
                  /\ s2c[i].of \in 1..Len(frames)
                BY <1>6, <1>10, <3>1
            <4>2. /\ frames'[s2c[i].of].conn = frames[s2c[i].of].conn
                  /\ s2c[i].of \in 1..Len(frames')
                BY <1>4, <4>1
            <4> QED
                BY <4>1, <4>2 DEF PieceOK
        <3>2. CASE i \notin 1..L
            <4>1. PICK j \in 1..w : i = L + j
                BY <1>8, <3>2
            <4>2. s2c'[i].of = F /\ At(s2c'[i]) = K(j) /\ s2c'[i] = PieceOf(F, K(j))
                BY <1>6, <1>9, <4>1
            <4>3. F \in 1..Len(frames') /\ frames'[F].conn = conn' /\ frames'[F].total = n
                <5>1. F \in 1..F
                    BY <1>4 DEF F
                <5> QED
                    BY <1>4, <1>5, <5>1
            <4>4. K(j) \in 0..n /\ (K(j) = 0 => n = 0)
                BY <1>7
            <4> HIDE DEF K
            <4> QED
                BY <4>2, <4>3, <4>4 DEF PieceOK, Total
        <3> QED
            BY <3>1, <3>2
    <2>2. ASSUME NEW i \in 1..Len(s2c'), NEW j \in 1..Len(s2c'), j = i + 1
          PROVE  Follows(frames', s2c'[i], s2c'[j])
        <3>1. CASE j \in 1..L
            <4>1. i \in 1..L
                BY <1>6, <2>2, <3>1
            <4>2. Follows(frames, s2c[i], s2c[j])
                BY <1>1, <2>2, <3>1, <4>1 DEF WireInv, L
            <4>3. /\ s2c'[i] = s2c[i] /\ s2c'[j] = s2c[j]
                  /\ Total(frames', s2c[i]) = Total(frames, s2c[i])
                BY <1>6, <1>10, <3>1, <4>1
            <4> QED
                BY <4>2, <4>3 DEF Follows
        <3>2. CASE i \in 1..L /\ j \notin 1..L
            <4>1. i = L /\ j = L + 1 /\ 1 \in 1..w
                BY <1>6, <2>2, <3>2
            <4>2. At(s2c[i]) = Total(frames, s2c[i])
                BY <1>1, <3>2, <4>1 DEF WireInv, L
            <4>3. s2c'[j].head = TRUE
                BY <1>9, <4>1
            <4>4. /\ s2c'[i] = s2c[i] /\ Total(frames', s2c[i]) = Total(frames, s2c[i])
                  /\ Total(frames, s2c[i]) \in Nat
                <5>1. /\ s2c'[i] = s2c[i] /\ s2c[i].of \in 1..Len(frames)
                      /\ Total(frames', s2c[i]) = Total(frames, s2c[i])
                    BY <1>6, <1>10, <3>2
                <5>2. \A f \in 1..Len(frames) : frames[f].total \in Nat
                    BY <1>2, Facts
                <5> QED
                    BY <5>1, <5>2 DEF Total
            <4>5. ~(At(s2c[i]) < Total(frames, s2c[i]))
                BY <4>2, <4>4
            <4> QED
                BY <4>3, <4>4, <4>5 DEF Follows
        <3>3. CASE i \notin 1..L
            <4>1. PICK a \in 1..w : i = L + a
                BY <1>8, <3>3
            <4>2. a + 1 \in 1..w /\ j = L + (a + 1) /\ a < w
                <5>1. L \in Nat /\ w \in Nat /\ j \in 1..(L + w) /\ j = (L + a) + 1
                    BY <1>6, <2>2, <4>1, Zenon
                <5> QED
                    BY <5>1
            <4>3. K(a) < n /\ K(a + 1) = K(a) + 1
                BY <1>7, <4>2
            <4> HIDE DEF K
            <4>4. s2c'[i].of = F /\ At(s2c'[i]) = K(a)
                BY <1>9, <4>1
            <4>5. Total(frames', s2c'[i]) = n
                BY <1>4, <1>5, <4>4 DEF Total
            <4>6. s2c'[j] = PieceOf(F, K(a + 1))
                BY <1>6, <4>2
            <4> QED
                BY <4>3, <4>4, <4>5, <4>6 DEF Follows
        <3> QED
            BY <3>1, <3>2, <3>3
    <2>3. ASSUME NEW i \in 1..Len(s2c'), NEW j \in 1..Len(s2c'), i < j, s2c'[j].head
          PROVE  s2c'[i].of < s2c'[j].of
        <3>1. CASE j \in 1..L
            <4>1. i \in 1..L /\ s2c'[i] = s2c[i] /\ s2c'[j] = s2c[j]
                BY <1>6, <2>3, <3>1
            <4> QED
                BY <1>1, <2>3, <3>1, <4>1 DEF WireInv, L
        <3>2. CASE j \notin 1..L
            <4>1. PICK a \in 1..w : j = L + a
                BY <1>8, <3>2
            <4>2. s2c'[j].of = F /\ a = 1
                BY <1>9, <2>3, <4>1
            <4>3. i \in 1..L /\ s2c'[i] = s2c[i]
                BY <1>6, <2>3, <4>1, <4>2
            <4> QED
                BY <1>4, <1>10, <4>2, <4>3
        <3> QED
            BY <3>1, <3>2
    <2>4. ASSUME NEW i \in 1..Len(s2c'), i = Len(s2c')
          PROVE  At(s2c'[i]) = Total(frames', s2c'[i])
        <3>1. w \in 1..w /\ i = L + w
            BY <1>6, <2>4
        <3>2. s2c'[i].of = F /\ At(s2c'[i]) = K(w) /\ K(w) = n
            BY <1>7, <1>9, <3>1
        <3>3. frames'[F].total = n
            BY <1>4, <1>5
        <3> HIDE DEF K
        <3> QED
            BY <3>2, <3>3 DEF Total
    <2> QED
        BY <2>1, <2>2, <2>3, <2>4 DEF WireInv
<1>12. PrepInv'
    <2>1. prep.of # 0 => frames'[prep.of] = frames[prep.of]
        BY <1>2, <1>4, Facts
    <2>2. ASSUME Growing(prep) PROVE Growing(prep)'
        <3>1. CASE s2c = <<>>
            <4>1. L = 0 /\ s2c'[L + 1].head = TRUE
                BY <1>6, <1>9, <3>1 DEF L
            <4>2. prep.total = 0
                BY <2>2, <3>1 DEF Growing
            <4> QED
                BY <2>2, <4>1, <4>2 DEF Growing
        <3>2. CASE s2c # <<>>
            <4>1. 1 \in 1..L
                BY <1>2, <1>6, <3>2, Facts DEF L
            <4>2. s2c'[1] = s2c[1] /\ s2c' # <<>>
                BY <1>6, <4>1
            <4> QED
                BY <2>2, <3>2, <4>2 DEF Growing, PieceOf
        <3> QED
            BY <3>1, <3>2
    <2>3. ASSUME prep.of = 0, prep.sync
          PROVE  \E g \in Spoilt' : \A i \in 1..Len(s2c') : s2c'[i].head => g < s2c'[i].of
        <3>1. PICK g \in Spoilt : \A i \in 1..L : s2c[i].head => g < s2c[i].of
            BY <1>1, <2>3 DEF PrepInv, L
        <3>2. g \in 1..Len(frames) /\ g \in Spoilt'
            BY <1>4, <3>1 DEF Spoilt
        <3>3. ASSUME NEW i \in 1..Len(s2c'), s2c'[i].head
              PROVE  g < s2c'[i].of
            <4>1. CASE i \in 1..L
                BY <1>6, <3>1, <3>3, <4>1
            <4>2. CASE i \notin 1..L
                BY <1>4, <1>8, <1>9, <3>2, <4>2
            <4> QED
                BY <4>1, <4>2
        <3> QED
            BY <3>2, <3>3
    <2>4. /\ Counted(prep)' /\ prep'.of = prep.of /\ prep'.total = prep.total
          /\ prep'.sync = prep.sync /\ (phase' = "sleep" => prep' = Idle)
        BY <1>1 DEF PrepInv, Counted
    <2>5. prep'.of # 0 => IF prep'.sync THEN Growing(prep)' ELSE prep'.of \in hurt'
        BY <1>1, <2>2, <2>4 DEF PrepInv
    <2> QED
        BY <1>1, <2>1, <2>3, <2>4, <2>5 DEF PrepInv
<1>13. PastInv'
    <2>1. \A i \in 1..Len(handled) : handled[i].of \in 1..Len(frames)
        BY <1>1, HandledOf
    <2>2. \A i \in 1..Len(handled) : frames'[handled[i].of] = frames[handled[i].of]
                                     /\ handled[i].of < F
        BY <1>4, <2>1
    <2>3. handled' \in Seq([of : 1..Len(frames'), content : Seq(Unit)])
        <3>1. [of : 1..Len(frames), content : Seq(Unit)] \subseteq
                  [of : 1..Len(frames'), content : Seq(Unit)]
            BY <1>4
        <3>2. handled \in Seq([of : 1..Len(frames), content : Seq(Unit)])
            BY <1>1 DEF PastInv
        <3>3. handled \in Seq([of : 1..Len(frames'), content : Seq(Unit)])
            BY <3>1, <3>2, LargerSeq
        <3> QED
            BY <3>3
    <2>4. ASSUME NEW j \in 1..Len(s2c'), s2c'[j].head
          PROVE  prep.of < s2c'[j].of /\ \A i \in 1..Len(handled) : handled[i].of < s2c'[j].of
        <3>1. CASE j \in 1..L
            BY <1>1, <1>6, <2>4, <3>1 DEF PastInv, L
        <3>2. CASE j \notin 1..L
            <4>1. s2c'[j].of = F
                BY <1>8, <1>9, <3>2
            <4>2. prep.of < F
                BY <1>2, Facts DEF F
            <4> QED
                BY <2>2, <4>1, <4>2
        <3> QED
            BY <3>1, <3>2
    <2> QED
        BY <1>1, <2>2, <2>3, <2>4 DEF PastInv
<1>14. FateInv'
    <2> SUFFICES ASSUME NEW f \in 1..Len(frames')
                 PROVE  (\/ Coming(f) \/ (prep.sync /\ prep.of = f)
                         \/ Excused(f) \/ WasHandled(f))'
        BY DEF FateInv
    <2>1. CASE f = F
        <3>1. L + 1 \in 1..Len(s2c') /\ s2c'[L + 1].head /\ s2c'[L + 1].of = F
            BY <1>6, <1>9
        <3> QED
            BY <2>1, <3>1 DEF Coming
    <2>2. CASE f # F
        <3>1. f \in 1..Len(frames)
            BY <1>4, <2>2 DEF F
        <3>2. CASE Coming(f)
            <4>1. PICK i \in 1..L : s2c[i].head /\ s2c[i].of = f
                BY <3>2 DEF Coming, L
            <4>2. i \in 1..Len(s2c') /\ s2c'[i] = s2c[i]
                BY <1>6, <4>1
            <4> QED
                BY <4>1, <4>2 DEF Coming
        <3>3. CASE Excused(f)
            <4>1. frames'[f] = frames[f] /\ \A g \in 1..(f - 1) : frames'[g] = frames[g]
                BY <1>4, <3>1
            <4> QED
                BY <3>3, <4>1 DEF Excused
        <3>4. CASE (prep.sync /\ prep.of = f) \/ WasHandled(f)
            BY <3>4 DEF WasHandled
        <3> QED
            BY <1>1, <3>1, <3>2, <3>3, <3>4 DEF FateInv
    <2> QED
        BY <2>1, <2>2
<1> QED
    BY <1>11, <1>12, <1>13, <1>14

LEMMA UnitsType ==
    ASSUME NEW f \in Nat, NEW k \in Nat
    PROVE  Units(f, k) \in Seq(Unit)
BY DEF Units, Unit

-----------------------------------------------------------------------------
(* A piece is received.                                                    *)

\* The next piece is taken, and nothing is sent.
Taken ==
    /\ s2c # <<>> /\ s2c' = Tail(s2c) /\ phase = "loop"
    /\ UNCHANGED <<frames, conn, phase>>
Sound == TypeOK /\ WireInv /\ PrepInv /\ PastInv /\ FateInv

LEMMA TailIs ==
    ASSUME TypeOK, Taken
    PROVE  /\ Len(s2c) \in Nat /\ 1 \in 1..Len(s2c) /\ Head(s2c) = s2c[1]
           /\ Len(s2c') = Len(s2c) - 1
           /\ \A i \in 1..Len(s2c') : i + 1 \in 1..Len(s2c) /\ s2c'[i] = s2c[i + 1]
           /\ \A i \in 1..Len(s2c) : i = 1 \/ (i - 1 \in 1..Len(s2c') /\ s2c'[i - 1] = s2c[i])
<1>1. s2c \in Seq(Piece) /\ s2c # <<>> /\ s2c' = Tail(s2c)
    BY DEF TypeOK, Taken
<1> QED
    BY <1>1

\* What is known of the piece, and of the one behind it.
LEMMA TakenIs ==
    ASSUME Sound, Taken
    PROVE  LET m == s2c[1]
           IN  /\ m.of \in 1..Len(frames) /\ frames[m.of].conn = conn
               /\ frames[m.of].total \in Nat /\ At(m) \in 0..frames[m.of].total
               /\ (At(m) = 0 => frames[m.of].total = 0) /\ m = PieceOf(m.of, At(m))
               /\ s2c' # <<>> /\ At(m) < frames[m.of].total =>
                    s2c'[1] = PieceOf(m.of, At(m) + 1)
               /\ s2c' # <<>> /\ At(m) = frames[m.of].total => s2c'[1].head
               /\ s2c' = <<>> => At(m) = frames[m.of].total
<1> DEFINE m == s2c[1]
           t == frames[m.of].total
<1>1. /\ Len(s2c) \in Nat /\ 1 \in 1..Len(s2c) /\ Len(s2c') = Len(s2c) - 1
      /\ \A i \in 1..Len(s2c') : i + 1 \in 1..Len(s2c) /\ s2c'[i] = s2c[i + 1]
    BY TailIs DEF Sound
<1>2. PieceOK(frames, conn, m)
    BY <1>1 DEF Sound, WireInv
<1>3. /\ m.of \in 1..Len(frames) /\ frames[m.of].conn = conn
      /\ At(m) \in 0..t /\ (At(m) = 0 => t = 0) /\ m = PieceOf(m.of, At(m))
    BY <1>2 DEF PieceOK, Total
<1>4. t \in Nat
    BY <1>3, Facts DEF Sound
<1>5. ASSUME s2c' # <<>>
      PROVE  /\ At(m) < t => s2c'[1] = PieceOf(m.of, At(m) + 1)
             /\ At(m) = t => s2c'[1].head
    <2>1. Len(s2c') \in Nat /\ Len(s2c') > 0
        <3>1. s2c' \in Seq(Piece)
            BY TailIn DEF Sound, TypeOK, Taken
        <3> QED
            BY <1>5, <3>1
    <2>2. 1 \in 1..Len(s2c')
        BY <2>1
    <2>3. 2 \in 1..Len(s2c) /\ s2c'[1] = s2c[2]
        BY <1>1, <2>2
    <2>4. Follows(frames, m, s2c[2])
        BY <1>1, <2>3 DEF Sound, WireInv
    <2> QED
        BY <1>3, <1>4, <2>3, <2>4 DEF Follows, Total
<1>6. s2c' = <<>> => At(m) = t
    <2> SUFFICES ASSUME s2c' = <<>> PROVE At(m) = t
        OBVIOUS
    <2>1. 1 = Len(s2c)
        BY <1>1
    <2> QED
        BY <1>1, <2>1 DEF Sound, WireInv, Total
<1> QED
    BY <1>3, <1>4, <1>5, <1>6

LEMMA TakenWire == ASSUME Sound, Taken PROVE WireInv'
<1>1. /\ \A i \in 1..Len(s2c') : i + 1 \in 1..Len(s2c) /\ s2c'[i] = s2c[i + 1]
      /\ Len(s2c') = Len(s2c) - 1 /\ Len(s2c) \in Nat
    BY TailIs DEF Sound
<1>2. frames' = frames /\ conn' = conn /\ WireInv
    BY DEF Taken, Sound
<1>3. \A i \in 1..Len(s2c') : PieceOK(frames, conn, s2c'[i])
    BY <1>1, <1>2 DEF WireInv
<1>4. ASSUME NEW i \in 1..Len(s2c'), NEW j \in 1..Len(s2c'), j = i + 1
      PROVE  Follows(frames, s2c'[i], s2c'[j])
    <2>1. /\ i + 1 \in 1..Len(s2c) /\ j + 1 \in 1..Len(s2c) /\ j + 1 = (i + 1) + 1
          /\ s2c'[i] = s2c[i + 1] /\ s2c'[j] = s2c[j + 1]
        BY <1>1, <1>4
    <2>2. Follows(frames, s2c[i + 1], s2c[j + 1])
        BY <1>2, <2>1 DEF WireInv
    <2> QED
        BY <2>1, <2>2
<1>5. ASSUME NEW i \in 1..Len(s2c'), NEW j \in 1..Len(s2c'), i < j, s2c'[j].head
      PROVE  s2c'[i].of < s2c'[j].of
    <2>1. /\ i + 1 \in 1..Len(s2c) /\ j + 1 \in 1..Len(s2c) /\ i + 1 < j + 1
          /\ s2c'[i] = s2c[i + 1] /\ s2c'[j] = s2c[j + 1]
        BY <1>1, <1>5
    <2>2. s2c[i + 1].of < s2c[j + 1].of
        BY <1>2, <1>5, <2>1 DEF WireInv
    <2> QED
        BY <2>1, <2>2
<1>6. \A i \in 1..Len(s2c') : i = Len(s2c') => At(s2c'[i]) = Total(frames, s2c'[i])
    BY <1>1, <1>2 DEF WireInv
<1> QED
    BY <1>2, <1>3, <1>4, <1>5, <1>6 DEF WireInv

\* The frame that is put together, before the piece or with it.
LEMMA NextAfter ==
    ASSUME Sound, Taken, NEW x, x # 0,
           x = prep.of \/ (s2c[1].head /\ x = s2c[1].of)
    PROVE  /\ x \in 1..Len(frames) /\ x \in Nat
           /\ \A i \in 1..Len(handled) : handled[i].of < x
           /\ \A j \in 1..Len(s2c') : s2c'[j].head => x < s2c'[j].of
<1>1. /\ 1 \in 1..Len(s2c) /\ Len(s2c) \in Nat
      /\ \A i \in 1..Len(s2c') : i + 1 \in 1..Len(s2c) /\ s2c'[i] = s2c[i + 1]
    BY TailIs DEF Sound
<1>2. prep.of \in 0..Len(frames) /\ Len(frames) \in Nat
    BY Facts DEF Sound
<1>3. s2c[1].of \in 1..Len(frames)
    BY TakenIs
<1>4. x \in 1..Len(frames) /\ x \in Nat
    BY <1>2, <1>3
<1>5. \A i \in 1..Len(handled) : handled[i].of < x
    BY <1>1 DEF Sound, PastInv
<1>6. \A j \in 1..Len(s2c') : s2c'[j].head => x < s2c'[j].of
    <2> SUFFICES ASSUME NEW j \in 1..Len(s2c'), s2c'[j].head PROVE x < s2c'[j].of
        OBVIOUS
    <2>1. j + 1 \in 1..Len(s2c) /\ s2c'[j] = s2c[j + 1] /\ 1 < j + 1
        BY <1>1
    <2>2. prep.of < s2c[j + 1].of
        BY <2>1 DEF Sound, PastInv
    <2>3. s2c[1].of < s2c[j + 1].of
        BY <1>1, <2>1 DEF Sound, WireInv
    <2> QED
        BY <2>1, <2>2, <2>3
<1> QED
    BY <1>4, <1>5, <1>6

\* Nothing was handled.
LEMMA PastKept ==
    ASSUME Sound, Taken, handled' = handled,
           prep'.of = 0 \/ prep'.of = prep.of \/ (s2c[1].head /\ prep'.of = s2c[1].of)
    PROVE  PastInv'
<1>1. /\ 1 \in 1..Len(s2c) /\ Len(s2c) \in Nat
      /\ \A i \in 1..Len(s2c') : i + 1 \in 1..Len(s2c) /\ s2c'[i] = s2c[i + 1]
    BY TailIs DEF Sound
<1>2. frames' = frames /\ PastInv
    BY DEF Taken, Sound
<1>3. \A j \in 1..Len(s2c') : s2c'[j].head =>
          /\ \A i \in 1..Len(handled) : handled[i].of < s2c'[j].of
          /\ 0 < s2c'[j].of
    <2> SUFFICES ASSUME NEW j \in 1..Len(s2c'), s2c'[j].head
                 PROVE  /\ \A i \in 1..Len(handled) : handled[i].of < s2c'[j].of
                        /\ 0 < s2c'[j].of
        OBVIOUS
    <2>1. j + 1 \in 1..Len(s2c) /\ s2c'[j] = s2c[j + 1]
        BY <1>1
    <2>2. PieceOK(frames, conn, s2c[j + 1])
        BY <2>1 DEF Sound, WireInv
    <2>3. 0 < s2c'[j].of
        BY <2>1, <2>2 DEF PieceOK
    <2> QED
        BY <1>2, <2>1, <2>3 DEF PastInv
<1>4. CASE prep'.of = 0
    BY <1>2, <1>3, <1>4 DEF PastInv
<1>5. CASE prep'.of # 0
    <2>1. /\ \A i \in 1..Len(handled) : handled[i].of < prep'.of
          /\ \A j \in 1..Len(s2c') : s2c'[j].head => prep'.of < s2c'[j].of
        BY <1>5, NextAfter
    <2> QED
        BY <1>2, <1>3, <2>1 DEF PastInv
<1> QED
    BY <1>4, <1>5

\* Frame x was handled, with all of its payload.
LEMMA PastMore ==
    ASSUME Sound, Taken, NEW x, x # 0,
           x = prep.of \/ (s2c[1].head /\ x = s2c[1].of),
           prep'.of = 0,
           handled' = Append(handled, [of |-> x, content |-> Units(x, frames[x].total)])
    PROVE  PastInv' /\ WasHandled(x)'
<1> DEFINE h == [of |-> x, content |-> Units(x, frames[x].total)]
           S == [of : 1..Len(frames), content : Seq(Unit)]
           n == Len(handled)
<1>1. /\ x \in 1..Len(frames) /\ x \in Nat
      /\ \A i \in 1..n : handled[i].of < x
      /\ \A j \in 1..Len(s2c') : s2c'[j].head => x < s2c'[j].of
    BY NextAfter
<1>2. frames' = frames /\ PastInv
    BY DEF Taken, Sound
<1>3. handled \in Seq(S) /\ n \in Nat
    BY <1>2 DEF PastInv
<1>4. h \in S /\ h.of = x /\ h.content = Units(x, frames[x].total)
    <2>1. frames[x].total \in Nat
        BY <1>1, Facts DEF Sound
    <2>2. Units(x, frames[x].total) \in Seq(Unit)
        BY <1>1, <2>1, UnitsType
    <2> QED
        BY <1>1, <2>2
<1> HIDE DEF h, S, n
<1>5. /\ handled' \in Seq(S) /\ Len(handled') = n + 1 /\ handled'[n + 1] = h
      /\ \A i \in 1..n : handled'[i] = handled[i]
    <2>1. handled' = Append(handled, h)
        BY DEF h
    <2> QED
        BY <1>3, <1>4, <2>1 DEF n
<1>6. \A i \in 1..(n + 1) : i \in 1..n \/ i = n + 1
    BY <1>3
<1>7. \A i, j \in 1..(n + 1) : i < j => handled'[i].of < handled'[j].of
    <2> SUFFICES ASSUME NEW i \in 1..(n + 1), NEW j \in 1..(n + 1), i < j
                 PROVE  handled'[i].of < handled'[j].of
        OBVIOUS
    <2>1. i \in 1..n
        BY <1>3
    <2>2. CASE j \in 1..n
        BY <1>2, <1>5, <2>1, <2>2 DEF PastInv, n
    <2>3. CASE j = n + 1
        BY <1>1, <1>4, <1>5, <2>1, <2>3
    <2> QED
        BY <1>6, <2>2, <2>3
<1>8. \A i \in 1..(n + 1) :
          handled'[i].content = Units(handled'[i].of, frames[handled'[i].of].total)
    <2> SUFFICES ASSUME NEW i \in 1..(n + 1)
                 PROVE  handled'[i].content =
                            Units(handled'[i].of, frames[handled'[i].of].total)
        OBVIOUS
    <2>1. CASE i \in 1..n
        BY <1>2, <1>5, <2>1 DEF PastInv, n
    <2>2. CASE i = n + 1
        BY <1>4, <1>5, <2>2
    <2> QED
        BY <1>6, <2>1, <2>2
<1>9. \A j \in 1..Len(s2c') : s2c'[j].head =>
          0 < s2c'[j].of /\ \A i \in 1..(n + 1) : handled'[i].of < s2c'[j].of
    <2> SUFFICES ASSUME NEW j \in 1..Len(s2c'), s2c'[j].head
                 PROVE  0 < s2c'[j].of /\ \A i \in 1..(n + 1) : handled'[i].of < s2c'[j].of
        OBVIOUS
    <2>1. x < s2c'[j].of /\ s2c'[j].of \in Nat
        <3>1. j + 1 \in 1..Len(s2c) /\ s2c'[j] = s2c[j + 1]
            BY TailIs DEF Sound
        <3>2. PieceOK(frames, conn, s2c[j + 1]) /\ Len(frames) \in Nat
            BY <3>1, Facts DEF Sound, WireInv
        <3>3. s2c[j + 1].of \in Nat
            BY <3>2 DEF PieceOK
        <3> QED
            BY <1>1, <3>1, <3>3
    <2>2. ASSUME NEW i \in 1..n PROVE handled'[i].of < s2c'[j].of
        <3>1. handled[i].of \in 1..Len(frames) /\ Len(frames) \in Nat
            BY <1>2, HandledOf, Facts DEF n, Sound
        <3> DEFINE a == handled'[i].of
                   b == s2c'[j].of
        <3>2. a = handled[i].of
            BY <1>5
        <3>3. a < x
            BY <1>1, <3>2, Zenon
        <3>4. a \in Nat
            <4> HIDE DEF a
            <4>1. a \in 1..Len(frames) /\ Len(frames) \in Nat
                BY <3>1, <3>2, Zenon
            <4> QED
                BY <4>1
        <3>5. x < b /\ b \in Nat
            BY <2>1
        <3> HIDE DEF a, b
        <3>6. a < b
            BY <1>1, <3>3, <3>4, <3>5
        <3> QED
            BY <3>6 DEF a, b
    <2>3. handled'[n + 1].of < s2c'[j].of
        BY <1>4, <1>5, <2>1
    <2>4. 0 < s2c'[j].of
        <3> DEFINE b == s2c'[j].of
        <3>1. x < b /\ b \in Nat
            BY <2>1
        <3> HIDE DEF b
        <3>2. 0 < b
            BY <1>1, <3>1
        <3> QED
            BY <3>2 DEF b
    <2> QED
        BY <1>6, <2>2, <2>3, <2>4, Zenon
<1>10. PastInv'
    <2>1. handled' \in Seq([of : 1..Len(frames'), content : Seq(Unit)])
        BY <1>2, <1>5 DEF S
    <2> QED
        <3>1. Len(handled') = n + 1 /\ frames' = frames /\ prep'.of = 0
            BY <1>2, <1>5
        <3>2. \A i, j \in 1..Len(handled') : i < j => handled'[i].of < handled'[j].of
            BY <1>7, <3>1, Zenon
        <3>3. \A i \in 1..Len(handled') :
                  handled'[i].content = Units(handled'[i].of, frames'[handled'[i].of].total)
            BY <1>8, <3>1, Zenon
        <3>4. \A j \in 1..Len(s2c') : s2c'[j].head =>
                  /\ prep'.of < s2c'[j].of
                  /\ \A i \in 1..Len(handled') : handled'[i].of < s2c'[j].of
            BY <1>9, <3>1, Zenon
        <3> QED
            BY <2>1, <3>1, <3>2, <3>3, <3>4, Zenon DEF PastInv
<1>11. WasHandled(x)'
    <2>1. n + 1 \in 1..Len(handled')
        BY <1>3, <1>5
    <2> QED
        BY <1>4, <1>5, <2>1 DEF WasHandled
<1> QED
    BY <1>10, <1>11

\* Each frame has its fate if the two that the step is about have theirs.
Seen(f) == (prep.sync /\ prep.of = f) \/ Excused(f) \/ WasHandled(f)

LEMMA FateTaken ==
    ASSUME Sound, Taken, hurt \subseteq hurt',
           \A f \in 1..Len(frames) : WasHandled(f) => WasHandled(f)',
           \A f \in 1..Len(frames) :
              \/ s2c[1].head /\ s2c[1].of = f
              \/ prep.sync /\ prep.of = f
              => Seen(f)'
    PROVE  FateInv'
<1> SUFFICES ASSUME NEW f \in 1..Len(frames)
             PROVE  (Coming(f) \/ Seen(f))'
    BY DEF FateInv, Seen, Taken
<1>1. frames' = frames
    BY DEF Taken
<1>3. CASE Coming(f)
    <2>1. PICK i \in 1..Len(s2c) : s2c[i].head /\ s2c[i].of = f
        BY <1>3 DEF Coming
    <2>2. CASE i = 1
        BY <2>1, <2>2
    <2>3. CASE i # 1
        <3>1. i - 1 \in 1..Len(s2c') /\ s2c'[i - 1] = s2c[i]
            BY <2>3, TailIs DEF Sound
        <3> QED
            BY <2>1, <3>1 DEF Coming
    <2> QED
        BY <2>2, <2>3
<1>4. CASE Excused(f)
    BY <1>1, <1>4, StaysExcused DEF Seen
<1>5. CASE WasHandled(f)
    BY <1>5 DEF Seen
<1>6. CASE prep.sync /\ prep.of = f
    BY <1>6
<1> QED
    BY <1>3, <1>4, <1>5, <1>6 DEF Sound, FateInv

-----------------------------------------------------------------------------
(* The units of a piece are stored.                                        *)

\* What save_prepare and the filling of a buffer do to the length counted.
LEMMA SaveCounts ==
    ASSUME NEW p \in Prepared, p.curr # NoBuffer, Counted(p)
    PROVE  /\ Counted(save_prepare(p)) /\ save_prepare(p).content = p.content
           /\ save_prepare(p).total = p.total /\ save_prepare(p).of = p.of
           /\ save_prepare(p).sync = p.sync
<1>1. p.curr \in Nat /\ p.todo \in Nat /\ p.len \in Nat
    BY DEF Prepared
<1>2. save_prepare(p) =
          [p EXCEPT !.todo = p.todo + 1, !.len = p.len + p.curr, !.curr = NoBuffer]
    BY DEF save_prepare
<1>3. /\ save_prepare(p).content = p.content /\ save_prepare(p).total = p.total
      /\ save_prepare(p).of = p.of /\ save_prepare(p).sync = p.sync
      /\ save_prepare(p).curr = NoBuffer /\ save_prepare(p).len = p.len + p.curr
    BY <1>2 DEF Prepared
<1>4. Len(p.content) = p.len + p.curr
    BY DEF Counted
<1>5. save_prepare(p).len + 0 = p.len + p.curr
    BY <1>1, <1>3
<1> QED
    BY <1>3, <1>4, <1>5 DEF Counted

LEMMA FillCounts ==
    ASSUME NEW q \in Prepared, NEW us \in Seq(Unit), Counted(q)
    PROVE  /\ Counted(Filled(q, us)) /\ Filled(q, us).content = q.content \o us
           /\ Filled(q, us).total = q.total /\ Filled(q, us).of = q.of
           /\ Filled(q, us).sync = q.sync
           /\ Filled(q, us).curr \in Nat /\ Filled(q, us).len \in Nat
           /\ Len(q.content \o us) = Filled(q, us).curr + Filled(q, us).len
           /\ q.content \o us \in Seq(Unit)
<1> DEFINE start == IF q.curr = NoBuffer THEN 0 ELSE q.curr
           n == Len(us)
           f == Filled(q, us)
<1>1. /\ q.content \o us \in Seq(Unit) /\ Len(q.content \o us) = Len(q.content) + n
      /\ n \in Nat
    BY DEF Prepared
<1>2. start \in Nat /\ q.len \in Nat
    BY DEF Prepared
<1>3. f = [q EXCEPT !.curr = start + n, !.content = q.content \o us]
    BY DEF Filled
<1>4. Len(q.content) = q.len + start
    BY DEF Counted
<1> HIDE DEF start, n, f
<1>5. /\ f.curr = start + n /\ f.content = q.content \o us /\ f.len = q.len
      /\ f.total = q.total /\ f.of = q.of /\ f.sync = q.sync
    BY <1>3 DEF Prepared
<1>6. start + n \in Nat /\ Len(q.content \o us) = (start + n) + q.len
    BY <1>1, <1>2, <1>4
<1>7. Counted(f)
    <2>1. f.curr \in Nat /\ f.curr # NoBuffer
        BY <1>5, <1>6 DEF NoBuffer
    <2>2. Len(f.content) = f.len + f.curr
        BY <1>1, <1>2, <1>5, <1>6
    <2> QED
        BY <2>1, <2>2 DEF Counted
<1> QED
    BY <1>1, <1>2, <1>5, <1>6, <1>7 DEF f

\* What Store does with p, the units it has after it being c: no buffer was
\* there, and the frame is given up; or the units are stored; or the frame is
\* whole, and what is beyond its length is cut off.
GivenUp(p, of) ==
    prep' = Empty(TRUE, 0, 0) /\ handled' = handled /\ hurt' = hurt \cup {of, p.of}
Stored(p, c) ==
    /\ Len(c) < p.total /\ prep'.content = c /\ Counted(prep')
    /\ prep'.of = p.of /\ prep'.total = p.total /\ prep'.sync = p.sync
    /\ UNCHANGED <<handled, hurt>>
Processed(p, c) ==
    /\ Len(c) >= p.total /\ prep' = Idle /\ hurt' = hurt
    /\ handled' = IF p.of = 0 THEN handled
                  ELSE Append(handled, [of |-> p.of, content |-> SubSeq(c, 1, p.total)])

LEMMA StoreOutcome ==
    ASSUME NEW p \in Prepared, Counted(p), NEW f, NEW us \in Seq(Unit), NEW of,
           Store(p, f, us, of), NEW c, c = p.content \o us
    PROVE  GivenUp(p, of) \/ Stored(p, c) \/ Processed(p, c)
<1> DEFINE full == p.curr # NoBuffer /\ p.curr + Len(us) > BufUnits
           q == IF full THEN save_prepare(p) ELSE p
           new == q.curr = NoBuffer
           filled == Filled(q, us)
           over == filled.curr + filled.len - q.total
           left == IF new THEN f - 1 ELSE f
           whole == [filled EXCEPT !.curr = @ - over,
                                   !.content = SubSeq(@, 1, Len(@) - over)]
<1>1. \/ GivenUp(p, of)
      \/ over < 0 /\ prep' = filled /\ UNCHANGED <<handled, hurt>>
      \/ over >= 0 /\ \E keep \in BOOLEAN : prepare_process(save_prepare(whole), left, keep)
    BY DEF Store, GivenUp
<1>2. /\ q \in Prepared /\ Counted(q) /\ q.content = p.content /\ q.total = p.total
      /\ q.of = p.of /\ q.sync = p.sync
    BY SaveKeeps, SaveCounts
<1>3. p.total \in Nat /\ p.of \in Nat
    BY DEF Prepared
<1> HIDE DEF full, q
<1>4. /\ Counted(filled) /\ filled.content = q.content \o us /\ filled.total = q.total
      /\ filled.of = q.of /\ filled.sync = q.sync /\ filled.curr \in Nat
      /\ filled.len \in Nat /\ Len(q.content \o us) = filled.curr + filled.len
      /\ filled \in Prepared
    <2>1. filled \in Prepared
        BY <1>2, FillKeeps
    <2>2. /\ Counted(filled) /\ filled.content = q.content \o us /\ filled.total = q.total
          /\ filled.of = q.of /\ filled.sync = q.sync /\ filled.curr \in Nat
          /\ filled.len \in Nat /\ Len(q.content \o us) = filled.curr + filled.len
        BY <1>2, FillCounts, Zenon
    <2> QED
        BY <2>1, <2>2
<1>5. /\ filled.content = c /\ filled.total = p.total /\ filled.of = p.of
      /\ filled.sync = p.sync /\ Len(c) = filled.curr + filled.len
    <2>1. q.content \o us = c
        BY <1>2, Zenon
    <2> HIDE DEF filled
    <2> QED
        BY <1>2, <1>4, <2>1, Zenon
<1> HIDE DEF filled
<1>6. over = Len(c) - p.total /\ Len(c) \in Nat /\ Len(c) - over = p.total
    <2> DEFINE a == filled.curr
               b == filled.len
               n == Len(c)
    <2>1. a \in Nat /\ b \in Nat /\ n = a + b /\ over = a + b - p.total
        BY <1>2, <1>4, <1>5, Zenon
    <2> HIDE DEF a, b, n, over
    <2>2. n - p.total = over /\ n \in Nat /\ n - over = p.total
        BY <1>3, <2>1
    <2> QED
        BY <2>2, Zenon DEF n
<1>7. save_prepare(whole).content = SubSeq(c, 1, p.total) /\ save_prepare(whole).of = p.of
    <2>1. whole.content = SubSeq(c, 1, Len(c) - over) /\ whole.of = p.of
        BY <1>4, <1>5 DEF Prepared
    <2>2. whole.content = SubSeq(c, 1, p.total)
        BY <1>6, <2>1
    <2>3. /\ save_prepare(whole).content = whole.content
          /\ save_prepare(whole).of = whole.of
        BY <1>4 DEF save_prepare, Prepared
    <2> HIDE DEF whole
    <2> QED
        BY <2>1, <2>2, <2>3
<1> HIDE DEF over, whole, left
<1>8. CASE over < 0 /\ prep' = filled /\ UNCHANGED <<handled, hurt>>
    <2>1. Len(c) < p.total
        BY <1>3, <1>6, <1>8
    <2> QED
        BY <1>4, <1>5, <1>8, <2>1 DEF Stored
<1>9. ASSUME over >= 0, NEW keep \in BOOLEAN, prepare_process(save_prepare(whole), left, keep)
      PROVE  Processed(p, c)
    <2>1. Len(c) >= p.total
        BY <1>3, <1>6, <1>9
    <2>2. /\ prep' = Idle /\ hurt' = hurt
          /\ handled' = IF save_prepare(whole).of = 0 THEN handled
                        ELSE Append(handled, [of |-> save_prepare(whole).of,
                                              content |-> save_prepare(whole).content])
        BY <1>9, Zenon DEF prepare_process
    <2> QED
        BY <1>7, <2>1, <2>2, Zenon DEF Processed
<1> QED
    BY <1>1, <1>8, <1>9

-----------------------------------------------------------------------------
(* What a piece does to what is put together.                              *)

\* Nothing is being put together after the step.
LEMMA PrepIdle == ASSUME Taken, prep' = Idle PROVE PrepInv'
<1>1. prep'.of = 0 /\ prep'.sync = FALSE /\ prep'.total = 0
    BY DEF Idle, Empty
<1>2. Counted(prep')
    BY DEF Idle, Empty, Counted, NoBuffer
<1>3. phase' = "loop"
    BY DEF Taken
<1> QED
    BY <1>1, <1>2, <1>3 DEF PrepInv, Counted

\* The bytes to come are taken for a frame that was given up; the frames that
\* are still to come are after one that is hurt.
LEMMA PrepSpoilt ==
    ASSUME Sound, Taken, prep' = Empty(TRUE, 0, 0),
           NEW g \in 1..Len(frames), g \in hurt', frames[g].conn = conn,
           \A j \in 1..Len(s2c') : s2c'[j].head => g < s2c'[j].of
    PROVE  PrepInv'
<1>1. prep'.of = 0 /\ prep'.total = 0
    BY DEF Empty
<1>2. Counted(prep')
    BY DEF Empty, Counted, NoBuffer
<1>3. phase' = "loop" /\ frames' = frames /\ conn' = conn
    BY DEF Taken
<1>4. g \in Spoilt'
    BY <1>3 DEF Spoilt
<1> QED
    BY <1>1, <1>2, <1>3, <1>4 DEF PrepInv, Counted

\* The rest of the frame comes next.
LEMMA PrepGrows ==
    ASSUME Sound, Taken, NEW x \in 1..Len(frames), frames[x].conn = conn,
           NEW k \in Nat, Counted(prep'), prep'.of = x, prep'.sync = TRUE,
           prep'.total = frames[x].total, prep'.content = Units(x, k),
           s2c[1] = PieceOf(x, k), k > 0 => k < frames[x].total,
           k = 0 => frames[x].total = 0
    PROVE  PrepInv'
<1> DEFINE t == frames[x].total
<1>1. phase' = "loop" /\ frames' = frames /\ conn' = conn
    BY DEF Taken
<1>2. At(s2c[1]) = k /\ s2c[1].of = x
    <2>1. At(PieceOf(x, k)) = k /\ PieceOf(x, k).of = x
        BY PieceAt
    <2> QED
        BY <2>1, Zenon
<1>3. /\ t \in Nat
      /\ s2c' # <<>> /\ k < t => s2c'[1] = PieceOf(x, k + 1)
      /\ s2c' # <<>> /\ k = t => s2c'[1].head
      /\ s2c' = <<>> => k = t
    BY <1>2, TakenIs
<1>4. Len(Units(x, k)) = k /\ (Units(x, k) = <<>> <=> k = 0)
    BY UnitsAre
<1>5. Growing(prep)'
    <2>1. prep'.content = Units(prep'.of, Len(prep'.content))
        BY <1>4
    <2>2. CASE k = 0
        <3>1. prep'.total = 0 /\ prep'.content = <<>> /\ (s2c' # <<>> => s2c'[1].head)
            BY <2>2, <1>3, <1>4
        <3> QED
            BY <2>1, <3>1 DEF Growing
    <2>3. CASE k # 0
        <3>1. k < t /\ t # 0 /\ k \in 1..(t - 1)
            BY <2>3, <1>3
        <3>2. s2c' # <<>> /\ s2c'[1] = PieceOf(x, k + 1)
            BY <1>3, <3>1
        <3> QED
            BY <1>4, <2>1, <3>1, <3>2 DEF Growing
    <2> QED
        BY <2>2, <2>3
<1>6. prep'.of # 0
    OBVIOUS
<1> QED
    BY <1>1, <1>5, <1>6 DEF PrepInv, Counted

\* What was handled stays handled.
LEMMA HandledStays ==
    ASSUME Sound, NEW h, handled' = handled \/ handled' = Append(handled, h), NEW f,
           WasHandled(f)
    PROVE  WasHandled(f)'
<1>1. PICK i \in 1..Len(handled) : handled[i].of = f
    BY DEF WasHandled
<1>2. CASE handled' = handled
    BY <1>1, <1>2 DEF WasHandled
<1>3. CASE handled' = Append(handled, h)
    <2> DEFINE S == [of : 1..Len(frames), content : Seq(Unit)]
               T == S \cup {h}
    <2>1. handled \in Seq(S) /\ S \subseteq T /\ h \in T
        BY DEF Sound, PastInv
    <2> HIDE DEF S, T
    <2>2. handled \in Seq(T)
        BY <2>1, LargerSeq
    <2>3. i \in 1..Len(handled') /\ handled'[i] = handled[i]
        BY <1>1, <1>3, <2>1, <2>2
    <2> QED
        BY <1>1, <2>3 DEF WasHandled
<1> QED
    BY <1>2, <1>3

\* Frame x grows by the piece that comes next of it, or is whole with it.
LEMMA StoreFrames ==
    ASSUME Sound, Taken, NEW x \in 1..Len(frames), frames[x].conn = conn,
           x = prep.of \/ (s2c[1].head /\ x = s2c[1].of), prep.sync => prep.of = x,
           NEW k \in Nat, k < frames[x].total, s2c[1] = PieceOf(x, k + 1),
           NEW p \in Prepared, p.of = x, p.sync = TRUE, p.total = frames[x].total,
           p.content = Units(x, k), Counted(p),
           NEW f, NEW us, us = <<<<x, k + 1>>>>, Store(p, f, us, x)
    PROVE  (PrepInv /\ PastInv /\ FateInv)'
<1> DEFINE t == frames[x].total
           c == Units(x, k + 1)
<1>1. /\ x # 0 /\ x \in Nat /\ t \in Nat /\ Len(frames) \in Nat /\ k + 1 \in Nat
      /\ k + 1 <= t /\ k + 1 > 0
    <2>1. Len(frames) \in Nat /\ t \in Nat
        BY Facts DEF Sound
    <2> QED
        BY <2>1
<1>2. us \in Seq(Unit) /\ p.content \o us = c
    <2>1. <<x, k + 1>> \in Unit
        BY <1>1 DEF Unit
    <2>2. us \in Seq(Unit)
        BY <2>1
    <2>3. Units(x, k) \o <<<<x, k + 1>>>> = Units(x, k + 1)
        BY UnitsGrow
    <2> QED
        BY <2>2, <2>3, Zenon
<1>3. Len(c) = k + 1 /\ c \in Seq(Unit)
    BY <1>1, UnitsAre, UnitsType
<1>4. /\ frames' = frames /\ conn' = conn
      /\ \A j \in 1..Len(s2c') : s2c'[j].head => x < s2c'[j].of
    BY <1>1, NextAfter DEF Taken
<1>5. s2c[1].of = x
    <2>1. PieceOf(x, k + 1).of = x
        BY <1>1, PieceAt
    <2> QED
        BY <2>1, Zenon
<1> HIDE DEF c
<1>6. GivenUp(p, x) \/ Stored(p, c) \/ Processed(p, c)
    <2>1. c = p.content \o us
        BY <1>2
    <2> QED
        BY <1>2, <2>1, StoreOutcome
<1>7. CASE GivenUp(p, x)
    <2>1. x \in hurt'
        BY <1>7 DEF GivenUp
    <2>2. PrepInv'
        BY <1>4, <1>7, <2>1, PrepSpoilt DEF GivenUp
    <2>3. PastInv'
        BY <1>7, PastKept DEF Empty, GivenUp
    <2>4. Excused(x)'
        BY <2>1 DEF Excused
    <2>5. FateInv'
        BY <1>5, <1>7, <2>4, FateTaken DEF WasHandled, Seen, GivenUp
    <2> QED
        BY <2>2, <2>3, <2>5
<1>8. CASE Stored(p, c)
    <2>1. k + 1 < t /\ prep'.of = x /\ prep'.total = t /\ prep'.sync = TRUE
        BY <1>3, <1>8 DEF Stored
    <2>2. PrepInv'
        <3>1. prep'.content = Units(x, k + 1)
            BY <1>8 DEF c, Stored
        <3>2. /\ k + 1 > 0 => k + 1 < frames[x].total
              /\ k + 1 = 0 => frames[x].total = 0
            BY <1>1, <2>1
        <3>3. Counted(prep') /\ prep'.total = frames[x].total
            BY <1>8, <2>1 DEF Stored
        <3> HIDE DEF t
        <3> QED
            BY <1>1, <2>1, <3>1, <3>2, <3>3, PrepGrows
    <2>3. PastInv'
        BY <1>8, <2>1, PastKept DEF Stored
    <2>4. FateInv'
        BY <1>5, <1>8, <2>1, FateTaken DEF WasHandled, Seen, Stored
    <2> QED
        BY <2>2, <2>3, <2>4
<1>9. CASE Processed(p, c)
    <2>1. k + 1 = t
        BY <1>1, <1>3, <1>9 DEF Processed
    <2>2. SubSeq(c, 1, t) = Units(x, t)
        <3>1. SubSeq(c, 1, Len(c)) = c
            BY <1>3
        <3> QED
            BY <1>3, <2>1, <3>1 DEF c
    <2>3. handled' = Append(handled, [of |-> x, content |-> Units(x, frames[x].total)])
        BY <1>1, <1>9, <2>2 DEF Processed
    <2>4. PrepInv'
        BY <1>9, PrepIdle DEF Processed
    <2>5. prep'.of = 0
        BY <1>9 DEF Idle, Empty, Processed
    <2>6. PastInv' /\ WasHandled(x)'
        BY <1>1, <2>3, <2>5, PastMore
    <2>7. FateInv'
        <3>1. \A g \in 1..Len(frames) : WasHandled(g) => WasHandled(g)'
            BY <2>3, HandledStays
        <3>2. Seen(x)'
            BY <2>6 DEF Seen
        <3>3. hurt \subseteq hurt'
            BY <1>9 DEF Processed
        <3> QED
            BY <1>5, <3>1, <3>2, <3>3, FateTaken
    <2> QED
        BY <2>4, <2>6, <2>7
<1> QED
    BY <1>6, <1>7, <1>8, <1>9

LEMMA PayloadIs ==
    ASSUME Sound, Taken
    PROVE  /\ Payload(s2c[1]) \in Seq(Unit) /\ s2c[1].units \in Seq(Unit)
           /\ s2c[1].head = FALSE => Payload(s2c[1]) = s2c[1].units
<1> DEFINE m == s2c[1]
<1>1. 1 \in 1..Len(s2c) /\ s2c \in Seq(Piece)
    BY TailIs DEF Sound, TypeOK
<1>2. m \in Piece
    BY <1>1, ElementOf
<1>3. m.units \in Seq(Unit) /\ m.of \in Nat
    <2>1. m.of \in 1..Len(frames) /\ Len(frames) \in Nat
        BY <1>2, Facts DEF Sound, Piece
    <2> QED
        BY <1>2, <2>1 DEF Piece
<1> HIDE DEF m
<1>4. <<<<m.of, 0>>>> \in Seq(Unit)
    BY <1>3 DEF Unit
<1>5. Payload(m) \in Seq(Unit)
    BY <1>3, <1>4 DEF Payload
<1>6. m.head = FALSE => Payload(m) = m.units
    BY DEF Payload
<1> QED
    BY <1>3, <1>5, <1>6 DEF m

\* The bytes of a frame that was given up: the frame before is at fault.
LEMMA GarbageFrames ==
    ASSUME Sound, Taken, prep.sync = TRUE, prep.of = 0,
           Store(prep, free, Payload(s2c[1]), s2c[1].of)
    PROVE  (PrepInv /\ PastInv /\ FateInv)'
<1> DEFINE m == s2c[1]
           c == prep.content \o Payload(m)
<1>1. /\ prep \in Prepared /\ Counted(prep) /\ prep.total = 0
      /\ Payload(m) \in Seq(Unit) /\ c \in Seq(Unit) /\ Len(c) \in Nat
    <2>1. prep \in Prepared /\ prep.content \in Seq(Unit)
        BY Facts DEF Sound
    <2>2. Payload(m) \in Seq(Unit)
        BY PayloadIs
    <2>3. c \in Seq(Unit)
        BY <2>1, <2>2
    <2>4. Counted(prep) /\ prep.total = 0
        BY DEF Sound, PrepInv
    <2> HIDE DEF c
    <2> QED
        BY <2>1, <2>2, <2>3, <2>4
<1>2. GivenUp(prep, m.of) \/ Processed(prep, c)
    <2>1. GivenUp(prep, m.of) \/ Stored(prep, c) \/ Processed(prep, c)
        BY <1>1, StoreOutcome
    <2> HIDE DEF c, m
    <2>2. ~Stored(prep, c)
        BY <1>1 DEF Stored
    <2> QED
        BY <2>1, <2>2
<1>3. PICK g \in Spoilt : \A i \in 1..Len(s2c) : s2c[i].head => g < s2c[i].of
    BY DEF Sound, PrepInv
<1>4. g \in 1..Len(frames) /\ g \in hurt /\ frames[g].conn = conn
    BY <1>3 DEF Spoilt
<1>5. /\ 1 \in 1..Len(s2c) /\ m.of \in 1..Len(frames) /\ frames[m.of].conn = conn
      /\ \A j \in 1..Len(s2c') : j + 1 \in 1..Len(s2c) /\ s2c'[j] = s2c[j + 1]
      /\ frames' = frames /\ Len(frames) \in Nat
    BY TailIs, TakenIs, Facts DEF Sound, Taken
<1>6. handled' = handled /\ hurt \subseteq hurt' /\ prep'.of = 0
    <2>1. CASE GivenUp(prep, m.of)
        BY <2>1 DEF GivenUp, Empty
    <2>2. CASE Processed(prep, c)
        BY <2>2 DEF Processed, Idle, Empty
    <2> QED
        BY <1>2, <2>1, <2>2
<1>7. PastInv'
    BY <1>6, PastKept
<1>8. FateInv'
    <2>1. \A f \in 1..Len(frames) : f # 0
        OBVIOUS
    <2>2. ASSUME m.head, NEW y \in 1..Len(frames), y = m.of
          PROVE  Excused(y)'
        <3>1. g < y /\ g \in 1..(y - 1) /\ frames[y].conn = conn
            BY <1>3, <1>4, <1>5, <2>2
        <3> QED
            BY <1>4, <1>5, <1>6, <3>1 DEF Excused
    <2>3. \A f \in 1..Len(frames) : WasHandled(f) => WasHandled(f)'
        BY <1>6 DEF WasHandled
    <2> QED
        BY <1>6, <2>1, <2>2, <2>3, FateTaken DEF Seen
<1>9. PrepInv'
    <2>1. CASE GivenUp(prep, m.of)
        <3>1. prep' = Empty(TRUE, 0, 0) /\ g \in hurt'
            BY <1>4, <1>6, <2>1 DEF GivenUp
        <3>2. \A j \in 1..Len(s2c') : s2c'[j].head => g < s2c'[j].of
            BY <1>3, <1>5
        <3> QED
            BY <1>4, <3>1, <3>2, PrepSpoilt
    <2>2. CASE Processed(prep, c)
        BY <2>2, PrepIdle DEF Processed
    <2> QED
        BY <1>2, <2>1, <2>2
<1> QED
    BY <1>7, <1>8, <1>9

\* A frame without payload is taken for whole with the next header, which it
\* swallows.
LEMMA SwallowFrames ==
    ASSUME Sound, Taken, prep.sync = TRUE, prep.of # 0, prep.total = 0,
           Store(prep, free, Payload(s2c[1]), s2c[1].of)
    PROVE  (PrepInv /\ PastInv /\ FateInv)'
<1> DEFINE m == s2c[1]
           c == prep.content \o Payload(m)
<1>0. PICK x, y : x = prep.of /\ y = m.of
    OBVIOUS
<1>1. /\ prep \in Prepared /\ Counted(prep) /\ prep.content = <<>>
      /\ Payload(m) \in Seq(Unit) /\ c = Payload(m) /\ Len(c) \in Nat
      /\ frames[x].total = 0 /\ frames[x].conn = conn /\ m.head
    <2>1. prep \in Prepared
        BY Facts DEF Sound
    <2>2. Payload(m) \in Seq(Unit)
        BY PayloadIs
    <2>3. Counted(prep) /\ frames[x].total = 0 /\ frames[x].conn = conn /\ Growing(prep)
        BY <1>0 DEF Sound, PrepInv
    <2>4. prep.content = <<>> /\ m.head
        BY <2>3 DEF Growing, Taken
    <2>5. c = Payload(m)
        BY <2>2, <2>4
    <2> HIDE DEF c
    <2> QED
        BY <2>1, <2>2, <2>3, <2>4, <2>5
<1>2. /\ x \in 1..Len(frames) /\ x \in Nat
      /\ \A j \in 1..Len(s2c') : s2c'[j].head => x < s2c'[j].of
    BY <1>0, NextAfter
<1>3. /\ 1 \in 1..Len(s2c) /\ y \in 1..Len(frames) /\ frames[y].conn = conn
      /\ frames' = frames /\ Len(frames) \in Nat
    BY <1>0, TailIs, TakenIs, Facts DEF Sound, Taken
<1>4. x \in 1..(y - 1)
    <2>1. x < y
        BY <1>0, <1>1, <1>3 DEF Sound, PastInv
    <2> QED
        BY <1>2, <1>3, <2>1
<1>5. Excused(y)'
    BY <1>1, <1>3, <1>4 DEF Excused
<1>6. GivenUp(prep, y) \/ Processed(prep, c)
    <2>1. GivenUp(prep, y) \/ Stored(prep, c) \/ Processed(prep, c)
        BY <1>0, <1>1, StoreOutcome
    <2> HIDE DEF c, m
    <2>2. ~Stored(prep, c)
        BY <1>1 DEF Stored
    <2> QED
        BY <2>1, <2>2
<1>7. CASE GivenUp(prep, y)
    <2>1. x \in hurt' /\ prep' = Empty(TRUE, 0, 0) /\ hurt \subseteq hurt' /\ handled' = handled
        BY <1>0, <1>7 DEF GivenUp
    <2>2. PrepInv'
        BY <1>1, <1>2, <2>1, PrepSpoilt
    <2>3. PastInv'
        BY <2>1, PastKept DEF Empty
    <2>4. Excused(x)'
        BY <2>1 DEF Excused
    <2>5. FateInv'
        <3>1. \A f \in 1..Len(frames) : WasHandled(f) => WasHandled(f)'
            BY <2>1 DEF WasHandled
        <3> QED
            BY <1>0, <1>5, <2>1, <2>4, <3>1, FateTaken DEF Seen
    <2> QED
        BY <2>2, <2>3, <2>5
<1>8. CASE Processed(prep, c)
    <2>1. prep' = Idle /\ hurt \subseteq hurt' /\ prep'.of = 0
        BY <1>8 DEF Processed, Idle, Empty
    <2>2. handled' = Append(handled, [of |-> x, content |-> Units(x, frames[x].total)])
        <3>1. handled' = Append(handled, [of |-> x, content |-> SubSeq(c, 1, 0)])
            BY <1>0, <1>8 DEF Processed
        <3>2. SubSeq(c, 1, 0) = <<>> /\ Units(x, 0) = <<>>
            BY DEF Units
        <3> QED
            BY <1>1, <3>1, <3>2
    <2>3. PrepInv'
        BY <2>1, PrepIdle
    <2>4. PastInv' /\ WasHandled(x)'
        BY <1>0, <2>1, <2>2, PastMore
    <2>5. FateInv'
        <3>1. \A f \in 1..Len(frames) : WasHandled(f) => WasHandled(f)'
            BY <2>2, HandledStays
        <3> QED
            BY <1>0, <1>5, <2>1, <2>4, <3>1, FateTaken DEF Seen
    <2> QED
        BY <2>3, <2>4, <2>5
<1> QED
    BY <1>6, <1>7, <1>8

LEMMA ReceivingTakes ==
    ASSUME IndInv, FrameInv, Receiving
    PROVE  Sound /\ Taken
<1>1. intact /\ Taken
    BY DEF Receiving, Running, Taken, server
<1> QED
    BY <1>1 DEF Sound, IndInv, FrameInv

LEMMA ReceiveMoreFrames ==
    ASSUME Sound, Taken, prep.sync = TRUE,
           Store(prep, free, Payload(s2c[1]), s2c[1].of)
    PROVE  (PrepInv /\ PastInv /\ FateInv)'
<1>1. CASE prep.of = 0
    BY <1>1, GarbageFrames
<1>2. CASE prep.of # 0 /\ prep.total = 0
    BY <1>2, SwallowFrames
<1>3. CASE prep.of # 0 /\ prep.total # 0
    <2> DEFINE m == s2c[1]
               K == Len(prep.content)
    <2>0. PICK x, k : x = prep.of /\ k = K
        OBVIOUS
    <2>1. /\ prep \in Prepared /\ x \in 1..Len(frames) /\ Counted(prep)
          /\ prep.total = frames[x].total /\ frames[x].conn = conn /\ Growing(prep)
        <3>1. prep \in Prepared /\ x \in 0..Len(frames) /\ Len(frames) \in Nat
            BY <2>0, Facts DEF Sound
        <3>2. x \in 1..Len(frames)
            BY <1>3, <2>0, <3>1
        <3> QED
            BY <1>3, <2>0, <3>1, <3>2 DEF Sound, PrepInv
    <2>2. /\ prep.content = Units(x, k) /\ k \in 1..(prep.total - 1)
          /\ m = PieceOf(x, k + 1) /\ prep.total \in Nat
        BY <1>3, <2>0, <2>1, Facts DEF Growing, Sound
    <2>3. k \in Nat /\ k > 0 /\ k < frames[x].total
        BY <2>1, <2>2
    <2>4. m.of = x /\ m.head = FALSE /\ m.units = <<<<x, k + 1>>>>
        <3>1. /\ PieceOf(x, k + 1).of = x /\ PieceOf(x, k + 1).head = FALSE
              /\ PieceOf(x, k + 1).units = <<<<x, k + 1>>>>
            BY <2>3, LaterPiece
        <3> QED
            BY <2>2, <3>1, Zenon
    <2>5. Payload(m) = <<<<x, k + 1>>>>
        BY <2>4, PayloadIs, Zenon
    <2>6. Store(prep, free, <<<<x, k + 1>>>>, x)
        BY <2>4, <2>5, Zenon
    <2> HIDE DEF K
    <2> QED
        BY <2>0, <2>1, <2>2, <2>3, <2>6, StoreFrames
<1> QED
    BY <1>1, <1>2, <1>3

\* A header begins a frame.
LEMMA ReceiveHeadFrames ==
    ASSUME IndInv, FrameInv, ReceiveHead, intact'
    PROVE  (PrepInv /\ PastInv /\ FateInv)'
<1> DEFINE m == s2c[1]
<1>0. PICK x : x = m.of
    OBVIOUS
<1>1. Sound /\ Taken
    BY ReceivingTakes DEF ReceiveHead
<1>2. Head(s2c) = m /\ Len(frames) \in Nat
    BY <1>1, TailIs, Facts DEF Sound
<1>3. /\ x \in 1..Len(frames) /\ frames[x].conn = conn /\ frames[x].total \in Nat
      /\ At(m) \in 0..frames[x].total /\ (At(m) = 0 => frames[x].total = 0)
      /\ m = PieceOf(x, At(m)) /\ x # 0 /\ frames' = frames
    BY <1>0, <1>1, <1>2, TakenIs DEF Taken
<1>4. ~prep.sync /\ m.head /\ prep.sync \in BOOLEAN
    BY <1>1, <1>2, Facts DEF ReceiveHead, Sound
<1>5. \/ /\ frames[x].total > InMax /\ prep' = Idle /\ UNCHANGED <<handled, hurt>>
      \/ m.units = <<>> /\ prep' = Headed(m) /\ UNCHANGED <<handled, hurt>>
      \/ \E f \in Nat : m.units # <<>> /\ Store(Headed(m), f, m.units, x)
    <2>1. free + Held(prep) \in Nat
        <3>1. free \in Nat /\ Held(prep) \in Nat
            BY HeldNat DEF IndInv, TypeOK
        <3> QED
            BY <3>1
    <2> QED
        BY <1>0, <1>2, <2>1 DEF ReceiveHead
<1>6. ASSUME UNCHANGED <<handled, hurt>>
      PROVE  hurt \subseteq hurt' /\ \A f \in 1..Len(frames) : WasHandled(f) => WasHandled(f)'
    BY <1>6 DEF WasHandled
<1>7. /\ Headed(m) = Empty(TRUE, x, frames[x].total)
      /\ Headed(m) \in Prepared /\ Counted(Headed(m))
      /\ Headed(m).of = x /\ Headed(m).sync = TRUE /\ Headed(m).total = frames[x].total
      /\ Headed(m).content = Units(x, 0)
    <2>1. Headed(m) = Empty(TRUE, x, frames[x].total)
        BY <1>0 DEF Headed
    <2>2. x \in 0..Len(frames)
        BY <1>2, <1>3
    <2>3. Empty(TRUE, x, frames[x].total) \in Prepared
        BY <1>3, <2>2, EmptyHolds
    <2>4. Counted(Empty(TRUE, x, frames[x].total))
        BY DEF Empty, Counted, NoBuffer
    <2>5. Units(x, 0) = <<>>
        BY UnitsAre
    <2> QED
        BY <2>1, <2>3, <2>4, <2>5 DEF Empty
<1>8. CASE frames[x].total > InMax /\ prep' = Idle /\ UNCHANGED <<handled, hurt>>
    <2>1. PrepInv'
        BY <1>1, <1>8, PrepIdle
    <2>2. PastInv'
        BY <1>1, <1>8, PastKept DEF Idle, Empty
    <2>3. Excused(x)'
        BY <1>3, <1>8 DEF Excused
    <2>4. FateInv'
        BY <1>0, <1>1, <1>4, <1>6, <1>8, <2>3, FateTaken DEF Seen
    <2> QED
        BY <2>1, <2>2, <2>4
<1>9. CASE m.units = <<>> /\ prep' = Headed(m) /\ UNCHANGED <<handled, hurt>>
    <2>1. At(m) = 0 /\ frames[x].total = 0 /\ m = PieceOf(x, 0)
        BY <1>3, <1>9 DEF At
    <2> HIDE DEF m
    <2>2. PrepInv'
        <3>1. /\ Counted(prep') /\ prep'.of = x /\ prep'.sync = TRUE
              /\ prep'.total = frames[x].total /\ prep'.content = Units(x, 0)
            BY <1>7, <1>9
        <3>2. s2c[1] = PieceOf(x, 0)
            BY <2>1 DEF m
        <3> QED
            BY <1>1, <1>3, <2>1, <3>1, <3>2, PrepGrows
    <2>3. PastInv'
        <3>1. s2c[1].head /\ prep'.of = s2c[1].of
            BY <1>0, <1>4, <1>7, <1>9 DEF m
        <3> QED
            BY <1>1, <1>9, <3>1, PastKept
    <2>4. FateInv'
        <3>1. Seen(x)'
            BY <1>7, <1>9 DEF Seen
        <3> QED
            BY <1>0, <1>1, <1>4, <1>6, <1>9, <3>1, FateTaken DEF m
    <2> QED
        BY <2>2, <2>3, <2>4
<1>10. ASSUME NEW f \in Nat, m.units # <<>>, Store(Headed(m), f, m.units, x)
       PROVE  (PrepInv /\ PastInv /\ FateInv)'
    <2>1. At(m) = 1
        <3> DEFINE k == At(m)
        <3>1. k \in Nat /\ m = PieceOf(x, k)
            BY <1>3
        <3>2. k # 0
            <4>1. PieceOf(x, 0).units = <<>>
                BY PieceOfIs
            <4> QED
                BY <1>10, <3>1, <4>1
        <3>3. k <= 1
            <4>1. ~(k <= 1) => PieceOf(x, k).head = FALSE
                BY <3>1, PieceOfIs
            <4>2. PieceOf(x, k).head
                BY <1>4, <3>1, Zenon
            <4> QED
                BY <4>1, <4>2
        <3> QED
            BY <3>1, <3>2, <3>3
    <2>2. m = PieceOf(x, 0 + 1) /\ m.units = <<<<x, 0 + 1>>>> /\ 0 < frames[x].total
        <3>1. m = PieceOf(x, 1) /\ 0 < frames[x].total
            BY <1>3, <2>1
        <3>2. PieceOf(x, 1).units = <<<<x, 1>>>>
            BY DEF PieceOf, Units
        <3>3. m.units = <<<<x, 1>>>>
            BY <3>1, <3>2, Zenon
        <3> QED
            BY <3>1, <3>3
    <2>3. PICK p \in Prepared : p = Headed(m)
        BY <1>7
    <2>4. /\ Counted(p) /\ p.of = x /\ p.sync = TRUE /\ p.total = frames[x].total
          /\ p.content = Units(x, 0) /\ Store(p, f, <<<<x, 0 + 1>>>>, x)
        BY <1>7, <1>10, <2>2, <2>3
    <2>5. x = prep.of \/ (s2c[1].head /\ x = s2c[1].of)
        BY <1>0, <1>4
    <2>6. prep.sync => prep.of = x
        BY <1>4
    <2> HIDE DEF m
    <2>7. s2c[1] = PieceOf(x, 0 + 1)
        BY <2>2 DEF m
    <2> QED
        BY <1>1, <1>3, <2>2, <2>4, <2>5, <2>6, <2>7, StoreFrames
<1> QED
    BY <1>5, <1>8, <1>9, <1>10

LEMMA ReceiveFrames == ASSUME IndInv, FrameInv, Receive PROVE FrameInv'
<1> SUFFICES ASSUME intact' PROVE (WireInv /\ PrepInv /\ PastInv /\ FateInv)'
    BY DEF FrameInv
<1>1. Sound /\ Taken
    BY ReceivingTakes DEF Receive, ReceiveMore, ReceiveIgnored, ReceiveHead
<1>2. WireInv'
    BY <1>1, TakenWire
<1>3. Head(s2c) = s2c[1] /\ prep.sync \in BOOLEAN
    BY <1>1, TailIs, Facts DEF Sound
<1>4. CASE ReceiveMore
    <2>1. prep.sync = TRUE
        BY <1>3, <1>4 DEF ReceiveMore
    <2>2. Store(prep, free, Payload(s2c[1]), s2c[1].of)
        BY <1>3, <1>4, Zenon DEF ReceiveMore
    <2> QED
        BY <1>1, <1>2, <2>1, <2>2, ReceiveMoreFrames
<1>5. CASE ReceiveIgnored
    <2>1. ~s2c[1].head /\ ~prep.sync /\ UNCHANGED <<handled, hurt, prep>>
        BY <1>3, <1>5 DEF ReceiveIgnored, local
    <2>2. PrepInv'
        <3>1. phase' = "loop" /\ frames' = frames /\ conn' = conn
            BY <1>1 DEF Taken
        <3>2. PrepInv
            BY <1>1 DEF Sound
        <3> QED
            BY <2>1, <3>1, <3>2 DEF PrepInv, Counted
    <2>3. PastInv'
        BY <1>1, <2>1, PastKept
    <2>4. FateInv'
        BY <1>1, <2>1, FateTaken DEF WasHandled
    <2> QED
        BY <1>2, <2>2, <2>3, <2>4
<1>6. CASE ReceiveHead
    BY <1>2, <1>6, ReceiveHeadFrames
<1> QED
    BY <1>4, <1>5, <1>6 DEF Receive

-----------------------------------------------------------------------------
(* All of the steps.                                                       *)

LEMMA InitFrames == Init => FrameInv
<1> SUFFICES ASSUME Init PROVE WireInv /\ PrepInv /\ PastInv /\ FateInv
    BY DEF FrameInv
<1>1. s2c = <<>> /\ prep = Idle /\ frames = <<>> /\ handled = <<>>
    BY DEF Init
<1>2. WireInv /\ FateInv
    BY <1>1 DEF WireInv, FateInv
<1>3. prep.of = 0 /\ prep.sync = FALSE /\ prep.total = 0 /\ Counted(prep)
    BY <1>1 DEF Idle, Empty, Counted, NoBuffer
<1>4. PrepInv
    BY <1>1, <1>3 DEF PrepInv
<1>5. PastInv
    BY <1>1, <1>3 DEF PastInv
<1> QED
    BY <1>2, <1>4, <1>5

LEMMA NextKeepsFrames == ASSUME IndInv, FrameInv, [Next]_vars PROVE FrameInv'
<1>1. CASE Reconnect
    BY <1>1, ReconnectFrames
<1>2. CASE Done
    BY <1>2, DoneFrames
<1>3. CASE SyncReset
    BY <1>3, SyncResetFrames
<1>4. CASE Receive
    BY <1>4, ReceiveFrames
<1>5. CASE NameForgotten \/ HandshakeCrashes \/ NumberReused
    BY <1>5 DEF NameForgotten, HandshakeCrashes, NumberReused, FrameInv
<1>6. CASE ServerSends
    <2>1. PICK n \in Sizes : SendFrame(n, FALSE)
        BY <1>6 DEF ServerSends
    <2>2. n \in Nat /\ UNCHANGED <<handled, hurt, prep, conn, phase, intact>>
        BY <1>6, SizesAssumption DEF ServerSends, Environment, local
    <2> QED
        BY <2>1, <2>2, SendFrames
<1>7. CASE ServerTakes
    <2>1. UNCHANGED <<handled, hurt, prep, conn, phase, intact>>
        BY <1>7 DEF ServerTakes, Environment, local
    <2>2. UNCHANGED <<frames, s2c>> \/ SendFrame(1, TRUE)
        BY <1>7 DEF ServerTakes
    <2>3. CASE UNCHANGED <<frames, s2c>>
        BY <2>1, <2>3, SilentFrames
    <2>4. CASE SendFrame(1, TRUE)
        BY <2>1, <2>4, SendFrames
    <2> QED
        BY <2>2, <2>3, <2>4
<1>8. CASE ServiceConnecting \/ ServiceReply \/ Timeout \/ Watchdog \/ Interrupted
    <2>1. /\ UNCHANGED <<s2c, frames, handled, hurt, prep, conn, intact>>
          /\ phase' \in {phase, "done"}
        BY <1>8 DEF ServiceConnecting, ServiceReply, Timeout, Watchdog, Interrupted, Quiet,
           local, server, hist
    <2> QED
        BY <2>1, SilentFrames
<1>9. CASE Make \/ Release \/ Writeable \/ ServerGone \/ Network \/ UNCHANGED vars
    <2>1. UNCHANGED <<s2c, frames, handled, hurt, prep, conn, intact, phase>>
        BY <1>9 DEF Make, Release, Writeable, WriteWhole, WritePart, WriteFails,
           http_mgmt_writable, ServerGone, Network, Environment, local, server, hist, vars
    <2> QED
        BY <2>1, SilentFrames
<1> QED
    BY <1>1, <1>2, <1>3, <1>4, <1>5, <1>6, <1>7, <1>8, <1>9, Zenon DEF Next

LEMMA FrameInvHolds == Spec => []FrameInv
<1>1. Init => FrameInv
    BY InitFrames
<1>2. IndInv /\ FrameInv /\ [Next]_vars => FrameInv'
    BY NextKeepsFrames
<1> QED
    BY <1>1, <1>2, IndInvHolds, PTL DEF Spec

-----------------------------------------------------------------------------
(* What follows.                                                           *)

\* Every variable holds a value the program can store in it: in particular no
\* count of buffers, of the pool, of a frame or of the others, drops below 0.
THEOREM TypeCorrect == Spec => []TypeOK
<1>1. IndInv => TypeOK
    BY DEF IndInv
<1> QED
    BY <1>1, IndInvHolds, PTL

\* No buffer is lost or given back twice, whatever is interrupted: by
\* http_mgmt_prepare, http_mgmt_writable, http_mgmt_release_all and whoever
\* keeps a frame's buffers.
THEOREM NoBufferLost == Spec => []BuffersConserved
<1>1. IndInv => BuffersConserved
    BY DEF IndInv, Conserved, BuffersConserved
<1> QED
    BY <1>1, IndInvHolds, PTL

\* The handshake that http_mgmt_writable puts first is what the server's
\* connectionParse gets first, over any number of reconnections.
THEOREM HandshakeComesFirst == Spec => []HandshakeFirst
<1>1. ASSUME IndInv
      PROVE  HandshakeFirst
    <2>1. ASSUME ~known, c2s # <<>>
          PROVE  Head(c2s) \in {Hand, Torn}
        <3>1. c2s \in Seq({Hand, Torn})
            BY <1>1, <2>1 DEF IndInv, HandshakeInv
        <3> QED
            BY <2>1, <3>1
    <2>2. ASSUME mode = "client", ~shakehand
          PROVE  \A m \in ToSet(c2s) : m \in {Hand, Torn}
        <3>1. c2s \in Seq({Hand, Torn})
            BY <1>1, <2>2 DEF IndInv, HandshakeInv
        <3> QED
            BY <3>1 DEF ToSet
    <2> QED
        BY <2>1, <2>2 DEF HandshakeFirst
<1> QED
    BY <1>1, IndInvHolds, PTL

\* toserver, curr and POLLOUT follow the queue: the assertions of
\* http_mgmt_toserver and http_mgmt_writable hold, and pieces that wait on an
\* established connection are asked for.
THEOREM QueueIsArmed == Spec => []WriteableArmed
<1>1. ASSUME IndInv
      PROVE  WriteableArmed
    BY <1>1 DEF IndInv, ArmedInv, HandshakeInv, WriteableArmed
<1> QED
    BY <1>1, IndInvHolds, PTL

\* A piece that http_mgmt_toserver queued reaches the server once at most and
\* in order, whatever connections http_mgmt_writable writes it to; only what
\* was written to one that broke disappears.
THEOREM QueueIsKept == Spec => []PiecesInOrder
<1>1. Spec => []OrderInv
    <2>1. Init => OrderInv
        BY InitOrderInv
    <2>2. IndInv /\ OrderInv /\ [Next]_vars => OrderInv'
        BY NextKeepsOrder
    <2> QED
        BY <2>1, <2>2, IndInvHolds, PTL DEF Spec
<1>2. ASSUME OrderInv
      PROVE  PiecesInOrder
    <2>1. ASSUME NEW i \in 1..Len(got), NEW j \in 1..Len(got), i < j
          PROVE  got[i] < got[j]
        <3>1. got[i] \in ToSet(got) /\ got[j] \in ToSet(got)
            BY <1>2 DEF OrderInv, ToSet
        <3>2. got[i] > 0 /\ got[j] > 0
            BY <1>2, <3>1 DEF OrderInv
        <3> QED
            BY <1>2, <2>1, <3>2 DEF OrderInv, Ordered
    <2> QED
        BY <1>2, <2>1 DEF OrderInv, PiecesInOrder
<1> QED
    BY <1>1, <1>2, PTL

\* http_mgmt_prepare puts a frame together and prepare_process hands it on in
\* the order the frames were sent, once, with all of its payload and nothing
\* else, however save_prepare cuts it into buffers, and whatever the 8 s of
\* http_mgmt_run and lost connections make of the others.
THEOREM FramesAreHandled == Spec => []FramesHandled
<1>1. ASSUME TypeOK, FrameInv, intact
      PROVE  FramesHandled
    <2>1. PrepInv /\ PastInv /\ FateInv
        BY <1>1 DEF FrameInv
    <2>2. \A h \in ToSet(handled) : h.content = Units(h.of, frames[h.of].total)
        <3>1. handled \in Seq([of : 1..Len(frames), content : Seq(Unit)])
            BY <2>1 DEF PastInv
        <3>2. \A h \in ToSet(handled) : \E i \in 1..Len(handled) : h = handled[i]
            BY <3>1 DEF ToSet
        <3> QED
            BY <2>1, <3>2 DEF PastInv
    <2>3. ASSUME NEW f \in Complete
          PROVE  Excused(f) \/ \E h \in ToSet(handled) : h.of = f
        <3>1. f \in 1..Len(frames) /\ f # prep.of /\ \A m \in ToSet(s2c) : m.of # f
            BY DEF Complete
        <3>2. ~Coming(f)
            <4>1. s2c \in Seq(Piece)
                BY <1>1 DEF TypeOK
            <4>2. \A i \in 1..Len(s2c) : s2c[i] \in ToSet(s2c)
                BY <4>1 DEF ToSet
            <4> QED
                BY <3>1, <4>2 DEF Coming
        <3>3. Excused(f) \/ WasHandled(f)
            BY <2>1, <3>1, <3>2 DEF FateInv
        <3>4. \A i \in 1..Len(handled) : handled[i] \in ToSet(handled)
            <4>1. handled \in Seq([of : 1..Len(frames), content : Seq(Unit)])
                BY <2>1 DEF PastInv
            <4> QED
                BY <4>1 DEF ToSet
        <3> QED
            BY <3>3, <3>4 DEF WasHandled
    <2>4. \A i, j \in 1..Len(handled) : i < j => handled[i].of < handled[j].of
        BY <2>1 DEF PastInv
    <2> QED
        BY <2>2, <2>3, <2>4 DEF FramesHandled
<1>2. IndInv /\ FrameInv => FramesHandled
    BY <1>1 DEF IndInv, FramesHandled
<1> QED
    BY <1>2, IndInvHolds, FrameInvHolds, PTL
===============================================================================
