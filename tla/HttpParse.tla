----------------------------- MODULE HttpParse -----------------------------
(***************************************************************************)
(* De-chunking of a host's response in the web-tunnel client               *)
(* (http_chunk_check and http_parse of http_client.c).  The response has   *)
(* been read into buffers of HTTP_BUF_SIZE bytes, the last one perhaps     *)
(* shorter; when its head announces chunks, the automaton strips their     *)
(* size lines and compacts the data into buffers of the same size.         *)
(*                                                                         *)
(* A byte is an integer: a hexadecimal digit 0..15, CR, LF, a byte of data *)
(* or the end of a head, whose text and empty line are one mark.           *)
(***************************************************************************)
EXTENDS Integers, Sequences, SequencesExt

CONSTANTS BufSize,   \* HTTP_BUF_SIZE
          ChunkMax   \* HTTP_CHUNK_MAX: the room for the digits of a size line

ASSUME ParseAssumption == BufSize \in Nat \ {0} /\ ChunkMax \in Nat \ {0}

CR          == -1
LF          == -2
PlainHead   == -3   \* a head without Transfer-Encoding: chunked
ChunkedHead == -4   \* a head with it

\* sscanf(chunk_str, "%x", &chunk_size): the value of the hexadecimal digits
\* the line begins with.
Size(line) ==
    LET ends   == {n \in 0..Len(line) : n < Len(line) => line[n + 1] \notin 0..15}
        digits == CHOOSE n \in ends : \A m \in ends : n <= m
        Value[k \in 0..digits] == IF k = 0 THEN 0 ELSE 16 * Value[k - 1] + line[k]
    IN  Value[digits]

\* http_chunk_check: where the head ends in the first buffer (0: it does not
\* end there).
HeadLen(buf) ==
    LET ends == {i \in 1..Len(buf) : buf[i] \in {PlainHead, ChunkedHead}}
    IN  IF ends = {} THEN 0 ELSE CHOOSE i \in ends : \A k \in ends : i <= k
IsChunked(buf) == HeadLen(buf) > 0 /\ buf[HeadLen(buf)] = ChunkedHead

-----------------------------------------------------------------------------
(* http_parse.  Its locals: the state, buf_info (buf) and the offset in    *)
(* it, what is left of buf_read.list_todo (rest), chunk_str, j,            *)
(* chunk_size, the list of finished buffers (plist), what last_buf holds   *)
(* (last_i is its length), new_total, rc and ctx->errcode.  rc is 1 while  *)
(* it runs; Crash stands for the list_del of a NULL buffer.                *)

Crash == -2

ParseStart(bufs) ==
    LET offset == HeadLen(Head(bufs))
    IN  [state |-> "begin", buf |-> Head(bufs), offset |-> offset,
         rest |-> Tail(bufs), chunk_str |-> <<>>, j |-> 0, chunk_size |-> 0,
         plist |-> <<>>, last |-> SubSeq(Head(bufs), 1, offset),
         new_total |-> offset, rc |-> 1, errcode |-> 0]

\* The end of buf_info is reached: take the next buffer, or end with rc.
NextBuffer(s, rc) ==
    IF s.rest = <<>> THEN [s EXCEPT !.rc = rc]
    ELSE [s EXCEPT !.buf = Head(s.rest), !.rest = Tail(s.rest), !.offset = 0]

\* Mutant of ChunkBegin: the size line is forgotten at the end of a buffer.
ChunkBegin_forgets_line(s) ==
    LET crs  == {i \in (s.offset + 1)..Len(s.buf) : s.buf[i] = CR}
        i    == IF crs = {} THEN Len(s.buf)
                ELSE (CHOOSE c \in crs : \A o \in crs : c <= o) - 1
        line == SubSeq(s.buf, s.offset + 1, i)
    IN  IF Len(line) >= ChunkMax THEN [s EXCEPT !.rc = -1, !.errcode = 12]
        ELSE IF i = Len(s.buf)   THEN NextBuffer(s, -1)
        ELSE [s EXCEPT !.chunk_str = line, !.offset = i + 1, !.state = "lrln"]

\* CHUNK_BEGIN: collect the size line up to its CR.
ChunkBegin(s) ==
    LET crs  == {i \in (s.offset + 1)..Len(s.buf) : s.buf[i] = CR}
        i    == IF crs = {} THEN Len(s.buf)
                ELSE (CHOOSE c \in crs : \A o \in crs : c <= o) - 1
        line == s.chunk_str \o SubSeq(s.buf, s.offset + 1, i)
    IN  IF Len(line) >= ChunkMax THEN [s EXCEPT !.rc = -1, !.errcode = 12]
        ELSE IF i = Len(s.buf)   THEN NextBuffer([s EXCEPT !.chunk_str = line], -1)
        ELSE [s EXCEPT !.chunk_str = line, !.offset = i + 1, !.state = "lrln"]

\* The final chunk: what last_buf holds is kept, the rest is ignored.
ChunkLast(s) ==
    [s EXCEPT !.rc = 0,
              !.plist = IF s.last = <<>> THEN @ ELSE Append(@, s.last)]

\* CHUNK_LRLN: the LF of a size line, or of the line that ends a chunk.
ChunkLrln(s) ==
    IF s.offset = Len(s.buf) THEN NextBuffer(s, -1)
    ELSE IF s.buf[s.offset + 1] # LF THEN [s EXCEPT !.rc = -1]
    ELSE LET t == [s EXCEPT !.offset = @ + 1, !.j = 0]
         IN  IF t.chunk_str = <<>> THEN [t EXCEPT !.state = "begin"]
             ELSE IF Size(t.chunk_str) = 0 THEN ChunkLast(t)
             ELSE [t EXCEPT !.state = "get_size", !.chunk_size = Size(t.chunk_str)]

\* Mutant of Compact: new_total counts only what is still in last_buf.
Compact_miscounts(s, data) ==
    LET all  == s.last \o data
        full == Len(all) \div BufSize
    IN  [s EXCEPT
          !.plist = @ \o [b \in 1..full |->
                            SubSeq(all, (b - 1) * BufSize + 1, b * BufSize)],
          !.last = SubSeq(all, full * BufSize + 1, Len(all)),
          !.new_total = @ + Len(data) - full]

\* What last_buf and plist become when data is copied: last_buf is saved and
\* allocated anew each time it is full.  alloc_buf's result is asserted there;
\* there is a buffer, as what is kept stays behind what is read (PacksBehind of
\* HttpContext_proofs).
Compact(s, data) ==
    LET all  == s.last \o data
        full == Len(all) \div BufSize
    IN  [s EXCEPT
          !.plist = @ \o [b \in 1..full |->
                            SubSeq(all, (b - 1) * BufSize + 1, b * BufSize)],
          !.last = SubSeq(all, full * BufSize + 1, Len(all)),
          !.new_total = @ + Len(data)]

\* CHUNK_GET_SIZE: copy what the buffer holds of the chunk.  The end of the
\* buffer is looked at before the end of the chunk, and list_del is called
\* on the next buffer without a test that there is one.
ChunkGetSize(s) ==
    LET left == s.chunk_size - s.j
        n    == IF Len(s.buf) - s.offset < left THEN Len(s.buf) - s.offset ELSE left
        t    == [Compact(s, SubSeq(s.buf, s.offset + 1, s.offset + n))
                   EXCEPT !.offset = @ + n, !.j = @ + n]
    IN  IF t.offset = Len(t.buf) THEN NextBuffer(t, Crash)
        ELSE IF t.j = t.chunk_size
        THEN [t EXCEPT !.state = "begin", !.j = 0, !.chunk_str = <<>>]
        ELSE t

ParseState ==
    [state : {"begin", "lrln", "get_size"}, buf : Seq(Int), offset : Nat,
     rest : Seq(Seq(Int)), chunk_str : Seq(Int), j : Nat, chunk_size : Nat,
     plist : Seq(Seq(Int)), last : Seq(Int), new_total : Nat,
     rc : {0, 1, -1, Crash}, errcode : {0, 12}]

\* A turn of while(rc > 0) switch(state), if there is one.
ParseTurn[s \in ParseState] ==
    CASE s.rc <= 0                       -> s
      [] s.rc > 0 /\ s.state = "begin"    -> ChunkBegin(s)
      [] s.rc > 0 /\ s.state = "lrln"     -> ChunkLrln(s)
      [] s.rc > 0 /\ s.state = "get_size" -> ChunkGetSize(s)

\* The loop: a turn takes a byte or a buffer, or sees that the chunk ended with
\* the buffer before, so it is over after as many turns.
ParseLoop(bufs) ==
    LET turns == Len(FlattenSeq(bufs)) + 2 * Len(bufs)
        Turn[n \in 0..turns] == IF n = 0 THEN ParseStart(bufs) ELSE ParseTurn[Turn[n - 1]]
    IN  Turn[turns]

\* http_parse on the buffers read: rc, errcode, the buffers to send and
\* their total length.  memory is whether alloc_buf has a buffer to give to
\* http_chunk_check.
Parsed(rc, errcode, bufs, len) ==
    [rc |-> rc, errcode |-> errcode, bufs |-> bufs, len |-> len]
http_parse(bufs, memory) ==
    IF bufs = <<>> THEN Parsed(-1, 15, <<>>, 0)
    ELSE IF HeadLen(Head(bufs)) > 0 /\ ~memory THEN Parsed(-1, 11, <<>>, 0)
    ELSE IF ~IsChunked(Head(bufs))
    THEN Parsed(0, 0, bufs, Len(FlattenSeq(bufs)))
    ELSE LET end == ParseLoop(bufs)
         IN  Parsed(end.rc, end.errcode, end.plist, end.new_total)
=============================================================================
