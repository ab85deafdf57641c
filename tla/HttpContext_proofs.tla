----------------------- MODULE HttpContext_proofs -----------------------
(***************************************************************************)
(* Proofs about HTTP requests in the client, for any number of requests,   *)
(* descriptors, contexts and buffers and responses of any length: the      *)
(* ready lists, the pools and the frames sent to the server, whatever the  *)
(* order of events, and that a whole response arrives whole.               *)
(*                                                                         *)
(* First sums and the automaton of http_parse: each turn leaves less to do *)
(* and counts the bytes it keeps, so the loop ends, with new_total right.  *)
(* Then the invariant, a lemma for each thing a step does (the table, the  *)
(* scan, the lists, the pools, the answer), one for each way a handler can *)
(* leave its context, and one for each step of main().  Then what          *)
(* http_parse makes of a whole response, however it is cut into buffers,   *)
(* and, step by step again, that what a host says is held by its context   *)
(* and its socket until it is parsed.  Then that what http_parse keeps     *)
(* stays behind what it reads, and so that the buffers suffice.  Last, the *)
(* theorems.                                                               *)
(***************************************************************************)
EXTENDS HttpContext, SequenceLemmas, FiniteSetTheorems

PTP == INSTANCE PollTable_proofs

-----------------------------------------------------------------------------
(* Sums.                                                                   *)

\* f[1] + ... + f[n].
SumOf(s, f, n) == s = [k \in 0..n |-> IF k = 0 THEN 0 ELSE s[k - 1] + f[k]]
Sums(f, n) == CHOOSE s : SumOf(s, f, n)

LEMMA SumsAre ==
  ASSUME NEW n \in Nat, NEW f, \A k \in 1..n : f[k] \in Int
  PROVE  /\ Total(f, n) = Sums(f, n)[n]
         /\ Sums(f, n) \in [0..n -> Int] /\ SumOf(Sums(f, n), f, n)
<1> DEFINE step == [p \in (1..n) \X Int |-> p[2] + f[p[1]]]
<1>1. step \in [(1..n) \X Int -> Int]
  OBVIOUS
<1>2. \A k \in 1..n : \A x \in Int : step[<<k, x>>] = x + f[k]
  OBVIOUS
<1> HIDE DEF step
<1>3. PICK s \in [0..n -> Int] : IsRecursive(s, n, 0, step)
  <2>1. 0 \in Int
    OBVIOUS
  <2> QED BY <1>1, <2>1, RecursiveExists, Zenon
<1>4. SumOf(s, f, n)
  <2>1. ASSUME NEW k \in 0..n, k # 0 PROVE step[<<k, s[k - 1]>>] = s[k - 1] + f[k]
    <3>1. k \in 1..n /\ k - 1 \in 0..n
      BY <2>1
    <3> QED BY <1>2, <3>1
  <2> QED BY <1>3, <2>1 DEF SumOf, IsRecursive
<1>5. SumOf(Sums(f, n), f, n)
  BY <1>4 DEF Sums
<1>6. Sums(f, n) \in [0..n -> Int]
  <2> DEFINE t == Sums(f, n)
             T == {k \in Nat : k <= n => t[k] \in Int}
  <2>1. DOMAIN t = 0..n /\ t[0] = 0 /\ \A k \in 1..n : t[k] = t[k - 1] + f[k]
    <3> HIDE DEF t
    <3>1. t = [k \in 0..n |-> IF k = 0 THEN 0 ELSE t[k - 1] + f[k]]
      BY <1>5 DEF t, SumOf
    <3> QED BY <3>1
  <2> HIDE DEF t
  <2>2. 0 \in T
    BY <2>1
  <2>3. ASSUME NEW k \in Nat, k \in T PROVE k + 1 \in T
    <3> SUFFICES ASSUME k + 1 <= n PROVE t[k + 1] \in Int
      OBVIOUS
    <3>1. k + 1 \in 1..n /\ (k + 1) - 1 = k /\ t[k] \in Int
      BY <2>3
    <3>2. t[k + 1] = t[k] + f[k + 1] /\ f[k + 1] \in Int
      BY <2>1, <3>1
    <3> QED BY <3>1, <3>2
  <2>4. Nat \subseteq T
    BY <2>2, <2>3, AllNat
  <2>5. \A k \in 0..n : t[k] \in Int
    BY <2>4
  <2>6. t = [k \in 0..n |-> t[k]]
    BY <1>5 DEF t, SumOf
  <2> QED BY <2>5, <2>6 DEF t
<1> QED BY <1>5, <1>6 DEF Total, Sums, SumOf

LEMMA TotalType ==
  ASSUME NEW n \in Nat, NEW f, \A k \in 1..n : f[k] \in Int
  PROVE  Total(f, n) \in Int
BY SumsAre

LEMMA TotalNone ==
  ASSUME NEW f PROVE Total(f, 0) = 0
<1>1. Total(f, 0) = Sums(f, 0)[0] /\ SumOf(Sums(f, 0), f, 0)
  BY SumsAre
<1> HIDE DEF Sums
<1> QED BY <1>1 DEF SumOf

\* The sum up to n is that up to m where both are of the same terms.
LEMMA TotalAgrees ==
  ASSUME NEW m \in Nat, NEW n \in Nat, m <= n, NEW f, NEW g,
         \A k \in 1..n : f[k] \in Int, \A k \in 1..m : g[k] = f[k]
  PROVE  Total(g, m) = Sums(f, n)[m]
<1> DEFINE s == Sums(f, n)
           t == Sums(g, m)
           T == {k \in Nat : k <= m => s[k] = t[k]}
<1>1. /\ Total(g, m) = t[m]
      /\ SumOf(s, f, n) /\ SumOf(t, g, m)
  BY SumsAre
<1> HIDE DEF s, t
<1>2. s[0] = 0 /\ t[0] = 0
  BY <1>1 DEF SumOf
<1>3. \A k \in 1..m : s[k] = s[k - 1] + f[k] /\ t[k] = t[k - 1] + g[k]
  <2>1. \A k \in 1..m : k \in 0..n /\ k \in 0..m /\ k # 0
    OBVIOUS
  <2>2. \A k \in 0..n : k # 0 => s[k] = s[k - 1] + f[k]
    BY <1>1 DEF SumOf
  <2>3. \A k \in 0..m : k # 0 => t[k] = t[k - 1] + g[k]
    BY <1>1 DEF SumOf
  <2> QED BY <2>1, <2>2, <2>3
<1>4. 0 \in T
  BY <1>2
<1>5. ASSUME NEW k \in Nat, k \in T PROVE k + 1 \in T
  <2> SUFFICES ASSUME k + 1 <= m PROVE s[k + 1] = t[k + 1]
    OBVIOUS
  <2>1. k + 1 \in 1..m /\ s[k] = t[k] /\ (k + 1) - 1 = k
    BY <1>5
  <2> QED BY <1>3, <2>1
<1>6. Nat \subseteq T
  BY <1>4, <1>5, AllNat
<1> QED BY <1>1, <1>6 DEF s

LEMMA TotalNext ==
  ASSUME NEW n \in Nat, NEW f, \A k \in 1..(n + 1) : f[k] \in Int
  PROVE  Total(f, n + 1) = Total(f, n) + f[n + 1]
<1> DEFINE s == Sums(f, n + 1)
<1>1. Total(f, n + 1) = s[n + 1] /\ SumOf(s, f, n + 1)
  BY SumsAre
<1>2. Total(f, n) = s[n]
  BY TotalAgrees
<1> HIDE DEF s
<1>3. s[n + 1] = s[n] + f[n + 1]
  <2>1. n + 1 \in 0..(n + 1) /\ n + 1 # 0 /\ (n + 1) - 1 = n
    OBVIOUS
  <2>2. \A k \in 0..(n + 1) : k # 0 => s[k] = s[k - 1] + f[k]
    BY <1>1 DEF SumOf
  <2> QED BY <2>1, <2>2
<1> QED BY <1>1, <1>2, <1>3

\* Sums of the same terms.
LEMMA TotalSame ==
  ASSUME NEW n \in Nat, NEW f, NEW g,
         \A k \in 1..n : f[k] \in Int /\ g[k] = f[k]
  PROVE  Total(g, n) = Total(f, n)
<1>1. Total(g, n) = Sums(f, n)[n]
  BY TotalAgrees
<1>2. Total(f, n) = Sums(f, n)[n]
  BY SumsAre
<1> QED BY <1>1, <1>2

LEMMA TotalZero ==
  ASSUME NEW n \in Nat, NEW f, \A k \in 1..n : f[k] = 0
  PROVE  Total(f, n) = 0
<1> DEFINE T == {k \in Nat : k <= n => Total(f, k) = 0}
<1>1. 0 \in T
  BY TotalNone
<1>2. ASSUME NEW k \in Nat, k \in T PROVE k + 1 \in T
  <2> SUFFICES ASSUME k + 1 <= n PROVE Total(f, k + 1) = 0
    OBVIOUS
  <2>1. \A i \in 1..(k + 1) : f[i] \in Int
    OBVIOUS
  <2>2. Total(f, k + 1) = Total(f, k) + f[k + 1]
    BY <2>1, TotalNext
  <2>3. Total(f, k) = 0 /\ f[k + 1] = 0
    BY <1>2
  <2> QED BY <2>2, <2>3
<1>3. Nat \subseteq T
  BY <1>1, <1>2, AllNat
<1> QED BY <1>3

\* When one term changes the sum changes by as much.
LEMMA TotalChanges ==
  ASSUME NEW n \in Nat, NEW f, NEW g, NEW r \in 1..n,
         \A k \in 1..n : f[k] \in Int /\ g[k] \in Int,
         \A k \in 1..n : k # r => g[k] = f[k]
  PROVE  Total(g, n) = Total(f, n) + g[r] - f[r]
<1> DEFINE T == {k \in Nat : k <= n =>
                    Total(g, k) = Total(f, k) + (IF r <= k THEN g[r] - f[r] ELSE 0)}
<1>1. 0 \in T
  BY TotalNone
<1>2. ASSUME NEW k \in Nat, k \in T PROVE k + 1 \in T
  <2> SUFFICES ASSUME k + 1 <= n
               PROVE  Total(g, k + 1)
                        = Total(f, k + 1) + (IF r <= k + 1 THEN g[r] - f[r] ELSE 0)
    OBVIOUS
  <2>1. \A i \in 1..(k + 1) : f[i] \in Int /\ g[i] \in Int
    OBVIOUS
  <2>2. Total(f, k + 1) = Total(f, k) + f[k + 1] /\ Total(g, k + 1) = Total(g, k) + g[k + 1]
    BY <2>1, TotalNext
  <2>3. Total(f, k) \in Int
    BY <2>1, TotalType
  <2>4. Total(g, k) = Total(f, k) + (IF r <= k THEN g[r] - f[r] ELSE 0)
    BY <1>2
  <2>5. k + 1 # r => g[k + 1] = f[k + 1]
    OBVIOUS
  <2>6. f[k + 1] \in Int /\ g[k + 1] \in Int /\ f[r] \in Int /\ g[r] \in Int
    OBVIOUS
  <2>7. r <= k + 1 <=> r <= k \/ r = k + 1
    OBVIOUS
  <2> HIDE DEF T
  <2> QED BY <2>2, <2>3, <2>4, <2>5, <2>6, <2>7
<1>3. Nat \subseteq T
  BY <1>1, <1>2, AllNat
<1>4. n \in T /\ r <= n
  BY <1>3
<1>5. Total(f, n) \in Int
  BY TotalType
<1> QED BY <1>4, <1>5


-----------------------------------------------------------------------------
(* De-chunking.                                                            *)

\* What holds of http_parse's locals at every turn: it stays inside its buffer
\* and its chunk, and new_total counts the bytes it keeps.
Parsing(s) ==
    /\ s \in ParseState /\ s.offset <= Len(s.buf)
    /\ s.state = "get_size" => s.j <= s.chunk_size
    /\ s.rc # 0 => s.new_total = Len(FlattenSeq(s.plist)) + Len(s.last)
    /\ s.rc = 0 => s.new_total = Len(FlattenSeq(s.plist))

\* The turns it may still take.
Left(s) ==
    (Len(s.buf) - s.offset) + Len(FlattenSeq(s.rest)) + 2 * Len(s.rest)
      + (IF s.state = "get_size" /\ s.j = s.chunk_size THEN 1 ELSE 0)

LEMMA LeftType ==
  ASSUME NEW s, Parsing(s)
  PROVE  Left(s) \in Nat
<1>1. /\ Len(s.buf) \in Nat /\ s.offset \in Nat /\ Len(s.rest) \in Nat
      /\ s.offset <= Len(s.buf) /\ s.rest \in Seq(Bytes)
  BY DEF Parsing, ParseState, Bytes
<1>2. Len(FlattenSeq(s.rest)) \in Nat
  BY <1>1, FlattenLen
<1> QED BY <1>1, <1>2 DEF Left

\* The hexadecimal digits of a line have a value.
LEMMA SizeType ==
  ASSUME NEW line \in Bytes
  PROVE  Size(line) \in Nat
<1> DEFINE ends   == {n \in 0..Len(line) : n < Len(line) => line[n + 1] \notin 0..15}
           digits == CHOOSE n \in ends : \A m \in ends : n <= m
           IsValue(v) == v = [k \in 0..digits |-> IF k = 0 THEN 0 ELSE 16 * v[k - 1] + line[k]]
           Value == CHOOSE v : IsValue(v)
<1>1. Size(line) = Value[digits]
  BY DEF Size
<1>2. Len(line) \in Nat /\ Len(line) \in ends
  BY DEF Bytes
<1>3. ends \subseteq Nat /\ ends # {}
  BY <1>2
<1> HIDE DEF ends
<1>4. \E n \in ends : \A m \in ends : n <= m
  BY <1>3, LeastNat
<1>5. digits \in ends /\ \A m \in ends : digits <= m
  BY <1>4
<1>6. digits \in Nat /\ digits <= Len(line)
  BY <1>2, <1>3, <1>5
<1> HIDE DEF digits
<1>7. ASSUME NEW k \in 1..digits PROVE line[k] \in Nat
  <2>1. k - 1 \notin ends /\ k - 1 \in 0..Len(line) /\ (k - 1) + 1 = k
    BY <1>2, <1>5, <1>6, <1>7
  <2> QED BY <2>1 DEF ends
<1> DEFINE step == [p \in (1..digits) \X Nat |-> 16 * p[2] + line[p[1]]]
<1>8. step \in [(1..digits) \X Nat -> Nat]
  BY <1>7
<1>9. \A k \in 1..digits : \A x \in Nat : step[<<k, x>>] = 16 * x + line[k]
  OBVIOUS
<1> HIDE DEF step
<1>10. PICK f \in [0..digits -> Nat] : IsRecursive(f, digits, 0, step)
  <2>1. 0 \in Nat
    OBVIOUS
  <2> QED BY <1>6, <1>8, <2>1, RecursiveExists, Zenon
<1>11. IsValue(f)
  <2>1. ASSUME NEW k \in 0..digits, k # 0 PROVE step[<<k, f[k - 1]>>] = 16 * f[k - 1] + line[k]
    <3>1. k \in 1..digits /\ k - 1 \in 0..digits
      BY <1>6, <2>1
    <3> QED BY <1>9, <1>10, <3>1
  <2> QED BY <1>10, <2>1 DEF IsRecursive
<1>12. IsValue(Value)
  BY <1>11
<1> HIDE DEF Value
<1>13. Value[0] = 0 /\ \A k \in 1..digits : Value[k] = 16 * Value[k - 1] + line[k]
  <2>1. 0 \in 0..digits /\ \A k \in 1..digits : k \in 0..digits /\ k # 0
    BY <1>6
  <2> QED BY <1>12, <2>1
<1> DEFINE T == {k \in Nat : k <= digits => Value[k] \in Nat}
<1>14. 0 \in T
  BY <1>13
<1>15. ASSUME NEW k \in Nat, k \in T PROVE k + 1 \in T
  <2> SUFFICES ASSUME k + 1 <= digits PROVE Value[k + 1] \in Nat
    OBVIOUS
  <2>1. k + 1 \in 1..digits /\ (k + 1) - 1 = k /\ Value[k] \in Nat
    BY <1>6, <1>15
  <2> QED BY <1>7, <1>13, <2>1
<1>16. Nat \subseteq T
  BY <1>14, <1>15, AllNat
<1> QED BY <1>1, <1>6, <1>16

\* The buffers http_parse fills from the bytes of a chunk.
SlicesOf(all, n) ==
    [b \in 1..n |-> SubSeq(all, (b - 1) * BufSize + 1, b * BufSize)]

LEMMA SlicesLen ==
  ASSUME NEW all \in Bytes, NEW n \in Nat, n * BufSize <= Len(all)
  PROVE  /\ SlicesOf(all, n) \in Seq(Bytes)
         /\ Len(FlattenSeq(SlicesOf(all, n))) = n * BufSize
         /\ FlattenSeq(SlicesOf(all, n)) = Part(all, 0, n * BufSize)
<1> DEFINE T == {m \in Nat : m <= n =>
                   /\ SlicesOf(all, m) \in Seq(Bytes)
                   /\ Len(FlattenSeq(SlicesOf(all, m))) = m * BufSize
                   /\ FlattenSeq(SlicesOf(all, m)) = Part(all, 0, m * BufSize)}
<1>1. BufSize \in Nat /\ Len(all) \in Nat
  BY ParseAssumption DEF Bytes
<1>2. 0 \in T
  <2>1. SlicesOf(all, 0) = <<>>
    BY DEF SlicesOf
  <2>2. 0 * BufSize = 0 /\ <<>> \in Seq(Bytes) /\ Len(<<>>) = 0
    BY <1>1
  <2>3. Part(all, 0, 0) = <<>>
    BY <1>1, PartEmpty
  <2> QED BY <2>1, <2>2, <2>3, FlattenEmpty
<1>3. ASSUME NEW m \in Nat, m \in T PROVE m + 1 \in T
  <2> SUFFICES ASSUME m + 1 <= n
               PROVE  /\ SlicesOf(all, m + 1) \in Seq(Bytes)
                      /\ Len(FlattenSeq(SlicesOf(all, m + 1))) = (m + 1) * BufSize
                      /\ FlattenSeq(SlicesOf(all, m + 1)) = Part(all, 0, (m + 1) * BufSize)
    OBVIOUS
  <2> DEFINE a == m * BufSize
             b == (m + 1) * BufSize
             c == SubSeq(all, a + 1, b)
  <2>1. a \in Nat /\ b \in Nat /\ b = a + BufSize /\ b <= n * BufSize
    <3>1. a \in Nat /\ b = a + BufSize
      BY <1>1
    <3>2. PICK k \in Nat : n = (m + 1) + k
      <4>1. n - (m + 1) \in Nat /\ n = (m + 1) + (n - (m + 1))
        OBVIOUS
      <4> QED BY <4>1
    <3>3. n * BufSize = b + k * BufSize /\ k * BufSize \in Nat
      BY <1>1, <3>2
    <3> QED BY <1>1, <3>1, <3>3
  <2>2. c \in Bytes /\ Len(c) = BufSize
    <3>1. a + 1 \in Nat /\ b <= Len(all)
      BY <1>1, <2>1
    <3> HIDE DEF a, b
    <3>2. c \in Bytes /\ Len(c) = IF a < b THEN b - a ELSE 0
      BY <2>1, <3>1, BytesCut
    <3>3. (IF a < b THEN b - a ELSE 0) = BufSize
      BY <1>1, <2>1, ParseAssumption
    <3> QED BY <3>2, <3>3
  <2>3. /\ SlicesOf(all, m) \in Seq(Bytes) /\ Len(FlattenSeq(SlicesOf(all, m))) = a
        /\ FlattenSeq(SlicesOf(all, m)) = Part(all, 0, a)
    BY <1>3
  <2>4. SlicesOf(all, m + 1) = Append(SlicesOf(all, m), c)
    <3> DEFINE x == SlicesOf(all, m)
               y == SlicesOf(all, m + 1)
    <3>1. /\ x = [i \in 1..m |-> SubSeq(all, (i - 1) * BufSize + 1, i * BufSize)]
          /\ y = [i \in 1..(m + 1) |-> SubSeq(all, (i - 1) * BufSize + 1, i * BufSize)]
      BY DEF SlicesOf
    <3>2. y[m + 1] = c
      <4>1. (m + 1) - 1 = m /\ m + 1 \in 1..(m + 1)
        OBVIOUS
      <4> QED BY <3>1, <4>1
    <3>3. \A i \in 1..m : y[i] = x[i]
      BY <3>1
    <3>4. x \in Seq(Bytes) /\ Len(x) = m
      BY <2>3, <3>1
    <3>5. y = [i \in 1..(m + 1) |-> y[i]]
      BY <3>1
    <3> HIDE DEF c, x, y
    <3> QED BY <2>2, <3>2, <3>3, <3>4, <3>5, AppendIs DEF x, y
  <2>5. Part(all, 0, a) \o c = Part(all, 0, b)
    <3>1. 0 <= a /\ a <= b /\ b <= Len(all) /\ 0 \in Nat
      <4> HIDE DEF a, b
      <4> QED BY <1>1, <2>1
    <3>2. c = Part(all, a, b)
      BY DEF Part
    <3> HIDE DEF a, b, c
    <3>3. Part(all, 0, a) \o Part(all, a, b) = Part(all, 0, b)
      BY <2>1, <3>1, PartJoin, Zenon
    <3> QED BY <3>2, <3>3
  <2> HIDE DEF T, c, a, b
  <2>6. SlicesOf(all, m + 1) \in Seq(Bytes)
    BY <2>2, <2>3, <2>4, AppendIn, Zenon
  <2>7. FlattenSeq(SlicesOf(all, m + 1)) = FlattenSeq(SlicesOf(all, m)) \o c
    BY <2>2, <2>3, <2>4, FlattenAppend DEF Bytes
  <2>8. Len(FlattenSeq(SlicesOf(all, m)) \o c) = a + BufSize
    BY <2>2, <2>3, FlattenLen, ConcatProperties DEF Bytes
  <2>9. FlattenSeq(SlicesOf(all, m + 1)) = Part(all, 0, b)
    BY <2>3, <2>7, <2>5, Zenon
  <2> QED BY <2>1, <2>6, <2>7, <2>8, <2>9 DEF b
<1>4. Nat \subseteq T
  BY <1>2, <1>3, AllNat
<1>5. n \in T /\ n <= n
  BY <1>4
<1> QED BY <1>5

LEMMA JoinAssociates ==
  ASSUME NEW x \in Bytes, NEW y \in Bytes, NEW z \in Bytes
  PROVE  (x \o y) \o z = x \o (y \o z)
BY ConcatAssociative DEF Bytes

\* Copying data into last_buf and on loses none of it.
LEMMA CompactKeeps ==
  ASSUME NEW s \in ParseState, NEW data \in Bytes
  PROVE  LET c == Compact(s, data)
         IN  /\ c.plist \in Seq(Bytes) /\ c.last \in Bytes
             /\ c.new_total = s.new_total + Len(data)
             /\ Len(FlattenSeq(c.plist)) + Len(c.last)
                  = Len(FlattenSeq(s.plist)) + Len(s.last) + Len(data)
             /\ FlattenSeq(c.plist) \o c.last = (FlattenSeq(s.plist) \o s.last) \o data
             /\ c = [s EXCEPT !.plist = c.plist, !.last = c.last, !.new_total = c.new_total]
<1> DEFINE all  == s.last \o data
           full == Len(all) \div BufSize
           c    == Compact(s, data)
           bufs == SlicesOf(all, full)
           tail == SubSeq(all, full * BufSize + 1, Len(all))
<1>1. s.last \in Bytes /\ s.plist \in Seq(Bytes)
  BY DEF ParseState, Bytes
<1>2. /\ all \in Bytes /\ Len(all) = Len(s.last) + Len(data)
      /\ Len(s.last) \in Nat /\ Len(data) \in Nat
  BY <1>1, ConcatProperties DEF Bytes
<1>3. full \in Nat /\ full * BufSize <= Len(all) /\ full * BufSize \in Nat
  <2>1. Len(all) \in Nat /\ BufSize \in Nat \ {0}
    BY <1>2, ParseAssumption
  <2> HIDE DEF all
  <2> QED BY <2>1, Quotient
<1>4. /\ c.plist = s.plist \o bufs /\ c.last = tail
      /\ c.new_total = s.new_total + Len(data)
      /\ c = [s EXCEPT !.plist = c.plist, !.last = c.last, !.new_total = c.new_total]
  BY DEF Compact, SlicesOf, ParseState
<1> HIDE DEF c, full, all
<1>5. /\ bufs \in Seq(Bytes) /\ Len(FlattenSeq(bufs)) = full * BufSize
      /\ FlattenSeq(bufs) = Part(all, 0, full * BufSize)
  BY <1>2, <1>3, SlicesLen
<1>6. tail \in Bytes /\ Len(tail) = Len(all) - full * BufSize
  <2> DEFINE m == full * BufSize
  <2>1. m \in Nat /\ m <= Len(all) /\ Len(all) \in Nat
    BY <1>2, <1>3
  <2> HIDE DEF m
  <2>2. tail \in Bytes /\ Len(tail) = IF m < Len(all) THEN Len(all) - m ELSE 0
    <3>1. tail = SubSeq(all, m + 1, Len(all))
      BY DEF m
    <3>2. Len(all) <= Len(all)
      BY <2>1
    <3> HIDE DEF tail
    <3> QED BY <1>2, <2>1, <3>1, <3>2, BytesCut
  <2> QED BY <2>1, <2>2 DEF m
<1> HIDE DEF bufs, tail
<1>7. FlattenSeq(s.plist \o bufs) = FlattenSeq(s.plist) \o FlattenSeq(bufs)
  BY <1>1, <1>5, FlattenConcat DEF Bytes
<1>8. Len(FlattenSeq(s.plist \o bufs)) = Len(FlattenSeq(s.plist)) + full * BufSize
  <2> DEFINE x == FlattenSeq(s.plist)
             y == FlattenSeq(bufs)
  <2>1. x \in Seq(Int) /\ y \in Seq(Int)
    BY <1>1, <1>5, FlattenLen DEF Bytes
  <2> HIDE DEF x, y
  <2>2. Len(x \o y) = Len(x) + Len(y)
    BY <2>1, ConcatProperties
  <2> QED BY <1>5, <1>7, <2>2 DEF x, y
<1>9. s.plist \o bufs \in Seq(Bytes) /\ Len(FlattenSeq(s.plist)) \in Nat
  BY <1>1, <1>5, FlattenLen, ConcatProperties
<1>10. Len(FlattenSeq(c.plist)) + Len(c.last)
          = Len(FlattenSeq(s.plist)) + Len(s.last) + Len(data)
  <2> DEFINE m == full * BufSize
             k == Len(FlattenSeq(s.plist))
             x == Len(FlattenSeq(c.plist))
             y == Len(c.last)
             p == Len(s.last)
             q == Len(data)
  <2>1. x = k + m /\ y = Len(all) - m /\ Len(all) = p + q
    BY <1>2, <1>4, <1>6, <1>8
  <2>2. m \in Nat /\ k \in Nat /\ p \in Nat /\ q \in Nat
    BY <1>2, <1>3, <1>9
  <2> HIDE DEF m, k, x, y, p, q
  <2>3. x + y = k + p + q
    BY <2>1, <2>2
  <2> QED BY <2>3, Zenon DEF x, y, k, p, q
<1>11. c.plist \in Seq(Bytes) /\ c.last \in Bytes
  BY <1>4, <1>6, <1>9
<1>12. FlattenSeq(c.plist) \o c.last = (FlattenSeq(s.plist) \o s.last) \o data
  <2> DEFINE m == full * BufSize
             x == FlattenSeq(s.plist)
             y == FlattenSeq(bufs)
             n == Len(all)
  <2>1. tail = Part(all, m, n) /\ y = Part(all, 0, m)
    BY <1>5 DEF Part, tail
  <2>2. m \in Nat /\ m <= n /\ n \in Nat /\ 0 \in Nat /\ 0 <= m /\ n <= n
    BY <1>2, <1>3
  <2>3. x \in Bytes /\ y \in Bytes /\ tail \in Bytes /\ s.last \in Bytes /\ data \in Bytes
    BY <1>1, <1>5, <1>6, FlattenLen
  <2>4. FlattenSeq(c.plist) = x \o y
    BY <1>4, <1>7
  <2>5. Part(all, 0, n) = all
    BY <1>2, PartAll
  <2> HIDE DEF m, x, y
  <2>6. Part(all, 0, m) \o Part(all, m, n) = Part(all, 0, n)
    <3>1. n <= Len(all)
      BY <2>2
    <3> HIDE DEF n
    <3> QED BY <1>2, <2>2, <3>1, PartJoin, Zenon
  <2>7. y \o tail = all
    BY <2>1, <2>5, <2>6, Zenon
  <2>8. (x \o y) \o tail = x \o (y \o tail)
    BY <2>3, JoinAssociates, Zenon
  <2>9. (x \o s.last) \o data = x \o (s.last \o data)
    BY <2>3, JoinAssociates, Zenon
  <2> QED BY <1>4, <2>4, <2>7, <2>8, <2>9, Zenon DEF x, all
<1> QED BY <1>4, <1>10, <1>11, <1>12, Zenon DEF c

\* What a turn makes of the locals: the loop ends or comes closer to its end.
Turns(s, t) == Parsing(t) /\ (t.rc = 1 => Left(t) < Left(s))

\* The counts of the locals hold when what they count stays.
LEMMA StillParsing ==
  ASSUME NEW s, Parsing(s), s.rc = 1, NEW t \in ParseState, t.rc # 0,
         t.offset <= Len(t.buf), t.state \in {s.state, "lrln"}, t.j = s.j,
         t.chunk_size = s.chunk_size, t.plist = s.plist, t.last = s.last,
         t.new_total = s.new_total
  PROVE  Parsing(t)
<1>1. s.rc # 0
  OBVIOUS
<1>2. s.new_total = Len(FlattenSeq(s.plist)) + Len(s.last)
  BY <1>1, Zenon DEF Parsing
<1>3. t.new_total = Len(FlattenSeq(t.plist)) + Len(t.last)
  BY <1>2, Zenon
<1>4. t.state = "get_size" => t.j <= t.chunk_size
  <2>1. s.state = "get_size" => s.j <= s.chunk_size
    BY Zenon DEF Parsing
  <2> QED BY <2>1
<1> QED BY <1>3, <1>4, Zenon DEF Parsing

LEMMA NextBufferIs ==
  ASSUME NEW s, Parsing(s), s.rc = 1, NEW e \in {-1, Crash}
  PROVE  Turns(s, NextBuffer(s, e))
<1> DEFINE t == NextBuffer(s, e)
<1>1. s \in ParseState /\ s.rest \in Seq(Bytes) /\ e # 1 /\ e # 0 /\ e \in {0, 1, -1, Crash}
  BY DEF Parsing, ParseState, Bytes, Crash
<1> HIDE DEF t
<1>2. CASE s.rest = <<>>
  <2>1. t = [s EXCEPT !.rc = e]
    BY <1>2 DEF NextBuffer, t
  <2>2. t \in ParseState
    BY <1>1, <2>1 DEF ParseState
  <2>3. /\ t.buf = s.buf /\ t.offset = s.offset /\ t.state = s.state /\ t.j = s.j
        /\ t.chunk_size = s.chunk_size /\ t.plist = s.plist /\ t.last = s.last
        /\ t.new_total = s.new_total /\ t.rc = e
    BY <1>1, <2>1 DEF ParseState
  <2>4. Parsing(t)
    <3>1. s.offset <= Len(s.buf)
      BY DEF Parsing
    <3> QED BY <1>1, <2>2, <2>3, <3>1, StillParsing
  <2> QED BY <1>1, <2>3, <2>4 DEF Turns, t
<1>3. CASE s.rest # <<>>
  <2> DEFINE b == Head(s.rest)
             r == Tail(s.rest)
  <2>1. t = [s EXCEPT !.buf = b, !.rest = r, !.offset = 0]
    BY <1>3 DEF NextBuffer, t
  <2>2. b \in Bytes /\ r \in Seq(Bytes) /\ Len(r) = Len(s.rest) - 1
    BY <1>1, <1>3, HeadTailProperties
  <2>3. Len(FlattenSeq(s.rest)) = Len(b) + Len(FlattenSeq(r))
    <3>1. FlattenSeq(s.rest) = b \o FlattenSeq(r)
      BY <1>1, <1>3, FlattenTail DEF Bytes
    <3>2. FlattenSeq(r) \in Seq(Int) /\ b \in Seq(Int)
      BY <2>2, FlattenLen DEF Bytes
    <3> HIDE DEF b, r
    <3> QED BY <3>1, <3>2, ConcatProperties
  <2>4. Len(b) \in Nat /\ Len(FlattenSeq(r)) \in Nat /\ Len(s.rest) \in Nat
    BY <1>1, <2>2, FlattenLen DEF Bytes
  <2> HIDE DEF b, r
  <2>5. t \in ParseState
    <3>1. b \in Seq(Int) /\ r \in Seq(Seq(Int)) /\ 0 \in Nat
      BY <2>2 DEF Bytes
    <3> QED BY <1>1, <2>1, <3>1 DEF ParseState
  <2>6. /\ t.buf = b /\ t.offset = 0 /\ t.rest = r /\ t.state = s.state /\ t.j = s.j
        /\ t.chunk_size = s.chunk_size /\ t.plist = s.plist /\ t.last = s.last
        /\ t.new_total = s.new_total /\ t.rc = 1
    BY <1>1, <2>1 DEF ParseState
  <2>7. Parsing(t)
    <3>1. t.offset <= Len(t.buf) /\ t.rc # 0
      BY <2>4, <2>6
    <3> QED BY <2>5, <2>6, <3>1, StillParsing
  <2>8. Left(t) < Left(s)
    <3>1. /\ Left(t) = Len(b) + Len(FlattenSeq(r)) + 2 * Len(r)
                         + (IF s.state = "get_size" /\ s.j = s.chunk_size THEN 1 ELSE 0)
          /\ Left(s) = (Len(s.buf) - s.offset) + Len(FlattenSeq(s.rest)) + 2 * Len(s.rest)
                         + (IF s.state = "get_size" /\ s.j = s.chunk_size THEN 1 ELSE 0)
      BY <2>4, <2>6 DEF Left
    <3>2. Len(s.buf) - s.offset \in Nat
      BY <1>1 DEF Parsing, ParseState
    <3> DEFINE z == IF s.state = "get_size" /\ s.j = s.chunk_size THEN 1 ELSE 0
    <3>3. z \in Nat
      OBVIOUS
    <3> DEFINE x == Len(FlattenSeq(r))
               y == Len(b)
               w == Len(s.buf) - s.offset
               l == Len(s.rest)
    <3>4. Left(t) = y + x + 2 * (l - 1) + z /\ Left(s) = w + (y + x) + 2 * l + z
      BY <2>2, <2>3, <3>1
    <3>5. x \in Nat /\ y \in Nat /\ w \in Nat /\ l \in Nat
      BY <2>4, <3>2
    <3> HIDE DEF x, y, z, w, l
    <3> QED BY <3>3, <3>4, <3>5
  <2> QED BY <2>7, <2>8 DEF Turns, t
<1> QED BY <1>2, <1>3

\* Where the size line ends in the buffer.
CrsOf(s) == {i \in (s.offset + 1)..Len(s.buf) : s.buf[i] = CR}
EndOf(s) ==
    IF CrsOf(s) = {} THEN Len(s.buf)
    ELSE (CHOOSE c \in CrsOf(s) : \A o \in CrsOf(s) : c <= o) - 1

LEMMA FirstCR ==
  ASSUME NEW s, Parsing(s)
  PROVE  /\ EndOf(s) \in s.offset..Len(s.buf)
         /\ EndOf(s) # Len(s.buf) => EndOf(s) + 1 <= Len(s.buf)
         /\ SubSeq(s.buf, s.offset + 1, EndOf(s)) \in Bytes
<1> DEFINE crs == CrsOf(s)
           i   == EndOf(s)
<1>1. s.offset \in Nat /\ Len(s.buf) \in Nat /\ s.offset <= Len(s.buf) /\ s.buf \in Bytes
  BY DEF Parsing, ParseState, Bytes
<1>2. crs \subseteq (s.offset + 1)..Len(s.buf) /\ crs \subseteq Nat
  BY <1>1 DEF CrsOf
<1> HIDE DEF crs
<1>3. crs # {} => (CHOOSE c \in crs : \A o \in crs : c <= o) \in crs
  <2>1. crs # {} => \E c \in crs : \A o \in crs : c <= o
    BY <1>2, LeastNat
  <2> QED BY <2>1
<1>4. i \in s.offset..Len(s.buf)
  <2>1. i = IF crs = {} THEN Len(s.buf) ELSE (CHOOSE c \in crs : \A o \in crs : c <= o) - 1
    BY Zenon DEF EndOf, crs
  <2> HIDE DEF i
  <2> DEFINE c == CHOOSE c \in crs : \A o \in crs : c <= o
  <2>2. crs # {} => i = c - 1 /\ c \in (s.offset + 1)..Len(s.buf)
    <3>1. crs # {} => c \in (s.offset + 1)..Len(s.buf)
      BY <1>2, <1>3
    <3> HIDE DEF c
    <3> QED BY <2>1, <3>1, Zenon DEF c
  <2>3. crs = {} => i = Len(s.buf)
    BY <2>1, Zenon
  <2> HIDE DEF c
  <2> QED BY <1>1, <2>2, <2>3
<1> HIDE DEF i
<1>5. SubSeq(s.buf, s.offset + 1, i) \in Bytes
  BY <1>1, <1>4, BytesCut
<1> QED BY <1>1, <1>4, <1>5 DEF i

LEMMA BeginTurns ==
  ASSUME NEW s, Parsing(s), s.rc = 1, s.state = "begin"
  PROVE  Turns(s, ChunkBegin(s))
<1> DEFINE i    == EndOf(s)
           line == s.chunk_str \o SubSeq(s.buf, s.offset + 1, i)
           t    == ChunkBegin(s)
<1>1. t = IF Len(line) >= ChunkMax THEN [s EXCEPT !.rc = -1, !.errcode = 12]
          ELSE IF i = Len(s.buf)   THEN NextBuffer([s EXCEPT !.chunk_str = line], -1)
          ELSE [s EXCEPT !.chunk_str = line, !.offset = i + 1, !.state = "lrln"]
  BY DEF ChunkBegin, EndOf, CrsOf
<1>2. /\ i \in s.offset..Len(s.buf)
      /\ i # Len(s.buf) => i + 1 <= Len(s.buf)
      /\ SubSeq(s.buf, s.offset + 1, i) \in Bytes
  BY FirstCR
<1> HIDE DEF i
<1>3. /\ s \in ParseState /\ s.offset \in Nat /\ Len(s.buf) \in Nat /\ s.chunk_str \in Bytes
      /\ s.rest \in Seq(Bytes)
  BY DEF Parsing, ParseState, Bytes
<1>4. line \in Bytes
  BY <1>2, <1>3, ConcatProperties DEF Bytes
<1> HIDE DEF line, t
<1>5. CASE Len(line) >= ChunkMax
  <2>1. t = [s EXCEPT !.rc = -1, !.errcode = 12]
    BY <1>1, <1>5
  <2>2. t \in ParseState
    BY <1>3, <2>1 DEF ParseState
  <2>3. /\ t.buf = s.buf /\ t.offset = s.offset /\ t.state = s.state /\ t.j = s.j
        /\ t.chunk_size = s.chunk_size /\ t.plist = s.plist /\ t.last = s.last
        /\ t.new_total = s.new_total /\ t.rc = -1
    BY <1>3, <2>1 DEF ParseState
  <2>4. Parsing(t)
    <3>1. s.offset <= Len(s.buf) /\ t.rc # 0
      BY <2>3 DEF Parsing
    <3> QED BY <2>2, <2>3, <3>1, StillParsing
  <2> QED BY <2>3, <2>4 DEF Turns, t
<1>6. CASE ~(Len(line) >= ChunkMax) /\ i = Len(s.buf)
  <2> DEFINE u == [s EXCEPT !.chunk_str = line]
  <2>1. t = NextBuffer(u, -1)
    BY <1>1, <1>6
  <2>2. u \in ParseState
    BY <1>3, <1>4 DEF ParseState, Bytes
  <2>3. /\ u.buf = s.buf /\ u.offset = s.offset /\ u.state = s.state /\ u.j = s.j
        /\ u.chunk_size = s.chunk_size /\ u.plist = s.plist /\ u.last = s.last
        /\ u.new_total = s.new_total /\ u.rc = s.rc /\ u.rest = s.rest
    BY <1>3 DEF ParseState
  <2> HIDE DEF u
  <2>4. Parsing(u)
    BY <2>2, <2>3 DEF Parsing
  <2>5. Turns(u, t)
    BY <2>1, <2>3, <2>4, NextBufferIs
  <2>6. Left(u) = Left(s)
    BY <2>3 DEF Left
  <2> QED BY <2>5, <2>6 DEF Turns, t
<1>7. CASE ~(Len(line) >= ChunkMax) /\ i # Len(s.buf)
  <2>1. t = [s EXCEPT !.chunk_str = line, !.offset = i + 1, !.state = "lrln"]
    BY <1>1, <1>7
  <2>2. i + 1 \in Nat /\ i + 1 <= Len(s.buf)
    BY <1>2, <1>3, <1>7
  <2>3. t \in ParseState
    BY <1>3, <1>4, <2>1, <2>2 DEF ParseState, Bytes
  <2>4. /\ t.buf = s.buf /\ t.offset = i + 1 /\ t.state = "lrln" /\ t.rest = s.rest
        /\ t.plist = s.plist /\ t.last = s.last /\ t.new_total = s.new_total /\ t.rc = 1
    BY <1>3, <2>1 DEF ParseState
  <2>5. Parsing(t)
    BY <2>2, <2>3, <2>4 DEF Parsing
  <2>6. Left(t) < Left(s)
    <3>1. /\ Left(t) = (Len(s.buf) - (i + 1)) + Len(FlattenSeq(s.rest)) + 2 * Len(s.rest) + 0
          /\ Left(s) = (Len(s.buf) - s.offset) + Len(FlattenSeq(s.rest)) + 2 * Len(s.rest) + 0
      BY <2>4 DEF Left
    <3> DEFINE x == Len(FlattenSeq(s.rest))
               l == Len(s.rest)
    <3>2. x \in Nat /\ l \in Nat
      BY <1>3, FlattenLen
    <3> HIDE DEF x, l
    <3> DEFINE n == Len(s.buf)
               o == s.offset
    <3>3. Left(t) = (n - (i + 1)) + x + 2 * l + 0 /\ Left(s) = (n - o) + x + 2 * l + 0
      BY <3>1 DEF x, l
    <3>4. n \in Nat /\ o \in Nat /\ i \in o..n
      BY <1>2, <1>3
    <3> HIDE DEF n, o
    <3> QED BY <3>2, <3>3, <3>4
  <2> QED BY <2>5, <2>6 DEF Turns, t
<1> QED BY <1>5, <1>6, <1>7 DEF t

LEMMA LrlnTurns ==
  ASSUME NEW s, Parsing(s), s.rc = 1, s.state = "lrln"
  PROVE  Turns(s, ChunkLrln(s))
<1> DEFINE t == [s EXCEPT !.offset = @ + 1, !.j = 0]
           u == ChunkLrln(s)
           x == Len(FlattenSeq(s.rest))
           l == Len(s.rest)
           n == Len(s.buf)
<1>1. /\ s \in ParseState /\ s.offset \in Nat /\ n \in Nat /\ s.offset <= n
      /\ s.chunk_str \in Bytes /\ s.rest \in Seq(Bytes) /\ s.plist \in Seq(Bytes)
      /\ s.last \in Bytes
  BY DEF Parsing, ParseState, Bytes
<1>2. x \in Nat /\ l \in Nat
  BY <1>1, FlattenLen
<1>3. CASE s.offset = n
  BY <1>3, NextBufferIs DEF ChunkLrln
<1>4. CASE s.offset # n /\ s.buf[s.offset + 1] # LF
  <2>1. u = [s EXCEPT !.rc = -1]
    BY <1>4 DEF ChunkLrln
  <2> HIDE DEF u
  <2>2. u \in ParseState
    BY <1>1, <2>1 DEF ParseState
  <2>3. /\ u.buf = s.buf /\ u.offset = s.offset /\ u.state = s.state /\ u.j = s.j
        /\ u.chunk_size = s.chunk_size /\ u.plist = s.plist /\ u.last = s.last
        /\ u.new_total = s.new_total /\ u.rc = -1
    BY <1>1, <2>1 DEF ParseState
  <2>4. u.rc # 0 /\ u.rc # 1 /\ s.offset <= Len(s.buf)
    BY <1>1, <2>3
  <2>5. Parsing(u)
    BY <2>2, <2>3, <2>4, StillParsing
  <2> QED BY <2>4, <2>5, Zenon DEF Turns, u
<1>5. CASE s.offset # n /\ s.buf[s.offset + 1] = LF
  <2>1. u = IF t.chunk_str = <<>> THEN [t EXCEPT !.state = "begin"]
            ELSE IF Size(t.chunk_str) = 0 THEN ChunkLast(t)
            ELSE [t EXCEPT !.state = "get_size", !.chunk_size = Size(t.chunk_str)]
    BY <1>5 DEF ChunkLrln
  <2>2. t \in ParseState
    <3>1. s.offset + 1 \in Nat /\ 0 \in Nat
      BY <1>1
    <3> DEFINE k == s.offset + 1
    <3> HIDE DEF k
    <3>2. [s EXCEPT !.offset = k, !.j = 0] \in ParseState
      BY <1>1, <3>1 DEF ParseState, k
    <3> QED BY <3>2 DEF k
  <2>3. /\ t.buf = s.buf /\ t.offset = s.offset + 1 /\ t.state = "lrln" /\ t.j = 0
        /\ t.chunk_str = s.chunk_str /\ t.chunk_size = s.chunk_size /\ t.plist = s.plist
        /\ t.last = s.last /\ t.new_total = s.new_total /\ t.rc = 1 /\ t.rest = s.rest
    BY <1>1 DEF ParseState
  <2> HIDE DEF t, u
  <2>4. t.offset <= Len(t.buf)
    BY <1>1, <1>5, <2>3
  <2>5. t.new_total = Len(FlattenSeq(t.plist)) + Len(t.last)
    <3>1. s.rc # 0
      OBVIOUS
    <3>2. s.new_total = Len(FlattenSeq(s.plist)) + Len(s.last)
      BY <3>1, Zenon DEF Parsing
    <3> QED BY <2>3, <3>2, Zenon
  <2>6. Left(s) = (n - s.offset) + x + 2 * l + 0
    BY DEF Left
  <2>7. CASE t.chunk_str = <<>>
    <3>1. u = [t EXCEPT !.state = "begin"]
      BY <2>1, <2>7
    <3>2. u \in ParseState
      BY <2>2, <3>1 DEF ParseState
    <3>3. /\ u.buf = t.buf /\ u.offset = t.offset /\ u.state = "begin" /\ u.rest = t.rest
          /\ u.plist = t.plist /\ u.last = t.last /\ u.new_total = t.new_total /\ u.rc = 1
      BY <2>2, <2>3, <3>1 DEF ParseState
    <3>4. Parsing(u)
      <4>1. u.offset <= Len(u.buf) /\ u.rc # 0
        BY <2>4, <3>3
      <4>2. u.new_total = Len(FlattenSeq(u.plist)) + Len(u.last)
        BY <2>5, <3>3, Zenon
      <4>3. u.state # "get_size"
        BY <3>3
      <4> QED BY <3>2, <4>1, <4>2, <4>3, Zenon DEF Parsing
    <3>5. Left(u) = (n - (s.offset + 1)) + x + 2 * l + 0
      BY <2>3, <3>3 DEF Left
    <3>6. Left(u) < Left(s)
      <4> HIDE DEF x, l, n
      <4> QED BY <1>1, <1>2, <2>6, <3>5
    <3> QED BY <3>4, <3>6 DEF Turns, u
  <2>8. CASE t.chunk_str # <<>> /\ Size(t.chunk_str) = 0
    <3> DEFINE p == IF t.last = <<>> THEN t.plist ELSE Append(t.plist, t.last)
    <3>1. u = [t EXCEPT !.rc = 0, !.plist = p]
      BY <2>1, <2>8 DEF ChunkLast
    <3>2. p \in Seq(Bytes) /\ Len(FlattenSeq(p)) = Len(FlattenSeq(t.plist)) + Len(t.last)
      <4>1. t.plist \in Seq(Bytes) /\ t.last \in Bytes
        BY <1>1, <2>3
      <4>2. Len(FlattenSeq(t.plist)) \in Nat /\ FlattenSeq(t.plist) \in Seq(Int)
        BY <4>1, FlattenLen DEF Bytes
      <4>3. CASE t.last = <<>>
        <5>1. p = t.plist /\ Len(t.last) = 0
          BY <4>3
        <5> HIDE DEF p
        <5> QED BY <4>1, <4>2, <5>1
      <4>4. CASE t.last # <<>>
        <5>1. p = Append(t.plist, t.last)
          BY <4>4
        <5> HIDE DEF p
        <5>2. p \in Seq(Bytes)
          BY <4>1, <5>1, AppendProperties
        <5>3. FlattenSeq(p) = FlattenSeq(t.plist) \o t.last
          BY <4>1, <5>1, FlattenAppend DEF Bytes
        <5>4. Len(FlattenSeq(t.plist) \o t.last) = Len(FlattenSeq(t.plist)) + Len(t.last)
          BY <4>1, <4>2, ConcatProperties DEF Bytes
        <5> QED BY <5>2, <5>3, <5>4
      <4> QED BY <4>3, <4>4
    <3> HIDE DEF p
    <3>3. u \in ParseState
      BY <2>2, <3>1, <3>2 DEF ParseState, Bytes
    <3>4. /\ u.buf = t.buf /\ u.offset = t.offset /\ u.state = "lrln"
          /\ u.plist = p /\ u.new_total = t.new_total /\ u.rc = 0
      BY <2>2, <2>3, <3>1 DEF ParseState
    <3>5. Parsing(u)
      <4>1. u.new_total = Len(FlattenSeq(u.plist))
        BY <2>5, <3>2, <3>4, Zenon
      <4>2. u.offset <= Len(u.buf) /\ u.state # "get_size"
        BY <2>4, <3>4
      <4> QED BY <3>3, <3>4, <4>1, <4>2, Zenon DEF Parsing
    <3>6. u.rc # 1
      BY <3>4
    <3> QED BY <3>5, <3>6, Zenon DEF Turns, u
  <2>9. CASE t.chunk_str # <<>> /\ Size(t.chunk_str) # 0
    <3> DEFINE z == Size(t.chunk_str)
    <3>1. u = [t EXCEPT !.state = "get_size", !.chunk_size = z]
      BY <2>1, <2>9
    <3>2. z \in Nat /\ z # 0
      BY <1>1, <2>3, <2>9, SizeType
    <3> HIDE DEF z
    <3>3. u \in ParseState
      BY <2>2, <3>1, <3>2 DEF ParseState
    <3>4. /\ u.buf = t.buf /\ u.offset = t.offset /\ u.state = "get_size" /\ u.rest = t.rest
          /\ u.j = 0 /\ u.chunk_size = z /\ u.plist = t.plist /\ u.last = t.last
          /\ u.new_total = t.new_total /\ u.rc = 1
      BY <2>2, <2>3, <3>1 DEF ParseState
    <3>5. Parsing(u)
      <4>1. u.offset <= Len(u.buf) /\ u.rc # 0 /\ u.j <= u.chunk_size
        BY <2>4, <3>2, <3>4
      <4>2. u.new_total = Len(FlattenSeq(u.plist)) + Len(u.last)
        BY <2>5, <3>4, Zenon
      <4> QED BY <3>3, <4>1, <4>2, Zenon DEF Parsing
    <3>6. Left(u) = (n - (s.offset + 1)) + x + 2 * l + 0
      BY <2>3, <3>2, <3>4 DEF Left
    <3>7. Left(u) < Left(s)
      <4> HIDE DEF x, l, n
      <4> QED BY <1>1, <1>2, <2>6, <3>6
    <3> QED BY <3>5, <3>7 DEF Turns, u
  <2> QED BY <2>7, <2>8, <2>9
<1> QED BY <1>3, <1>4, <1>5

LEMMA GetSizeTurns ==
  ASSUME NEW s, Parsing(s), s.rc = 1, s.state = "get_size"
  PROVE  Turns(s, ChunkGetSize(s))
<1> DEFINE left == s.chunk_size - s.j
           room == Len(s.buf) - s.offset
           n    == IF room < left THEN room ELSE left
           data == SubSeq(s.buf, s.offset + 1, s.offset + n)
           c    == Compact(s, data)
           t    == [c EXCEPT !.offset = @ + n, !.j = @ + n]
           u    == ChunkGetSize(s)
           x    == Len(FlattenSeq(s.rest))
           l    == Len(s.rest)
<1>1. /\ s \in ParseState /\ s.offset \in Nat /\ Len(s.buf) \in Nat /\ s.offset <= Len(s.buf)
      /\ s.j \in Nat /\ s.chunk_size \in Nat /\ s.j <= s.chunk_size
      /\ s.rest \in Seq(Bytes) /\ s.buf \in Bytes
      /\ Len(s.last) \in Nat /\ s.plist \in Seq(Bytes) /\ s.rc # 0
  BY DEF Parsing, ParseState, Bytes
<1>2. left \in Nat /\ room \in Nat /\ n \in Nat /\ n <= left /\ n <= room /\ (n = left \/ n = room)
  <2>1. left \in Nat /\ room \in Nat
    <3> DEFINE y == Len(s.buf)
    <3>1. y \in Nat /\ room = y - s.offset /\ s.offset <= y
      BY <1>1
    <3> HIDE DEF y, room
    <3> QED BY <1>1, <3>1
  <2> HIDE DEF left, room
  <2> QED BY <2>1
<1>3. u = IF t.offset = Len(t.buf) THEN NextBuffer(t, Crash)
          ELSE IF t.j = t.chunk_size
          THEN [t EXCEPT !.state = "begin", !.j = 0, !.chunk_str = <<>>]
          ELSE t
  BY Zenon DEF ChunkGetSize
<1>4. left + s.j = s.chunk_size /\ room + s.offset = Len(s.buf)
  BY <1>1
<1> HIDE DEF left, room, n, u
<1>5. data \in Bytes /\ Len(data) = n
  <2>1. s.offset + n \in Nat /\ s.offset + n <= Len(s.buf)
    BY <1>1, <1>2, <1>4
  <2>2. data \in Bytes
        /\ Len(data) = IF s.offset < s.offset + n THEN (s.offset + n) - s.offset ELSE 0
    BY <1>1, <2>1, BytesCut
  <2> HIDE DEF data
  <2> QED BY <1>1, <1>2, <2>2
<1> HIDE DEF data
<1>6. /\ c.plist \in Seq(Bytes) /\ c.last \in Bytes
      /\ c.new_total = s.new_total + n
      /\ Len(FlattenSeq(c.plist)) + Len(c.last) = Len(FlattenSeq(s.plist)) + Len(s.last) + n
      /\ c = [s EXCEPT !.plist = c.plist, !.last = c.last, !.new_total = c.new_total]
  BY <1>1, <1>5, CompactKeeps
<1> HIDE DEF c
<1>7. s.new_total = Len(FlattenSeq(s.plist)) + Len(s.last)
  BY <1>1, Zenon DEF Parsing
<1>8. c.new_total = Len(FlattenSeq(c.plist)) + Len(c.last) /\ c.new_total \in Nat
  <2> DEFINE a == Len(FlattenSeq(c.plist))
             b == Len(c.last)
             d == Len(FlattenSeq(s.plist))
             e == Len(s.last)
             v == c.new_total
             w == s.new_total
  <2>1. w \in Nat
    BY <1>1 DEF ParseState
  <2>2. v = w + n /\ a + b = d + e + n /\ w = d + e
    BY <1>6, <1>7
  <2>3. d \in Nat /\ e \in Nat
    BY <1>1, FlattenLen
  <2> HIDE DEF a, b, d, e, v, w
  <2>4. v = a + b /\ v \in Nat
    BY <1>2, <2>1, <2>2, <2>3
  <2> QED BY <2>4 DEF a, b, v
<1>9. c \in ParseState
  BY <1>1, <1>6, <1>8 DEF ParseState, Bytes
<1>10. /\ c.buf = s.buf /\ c.offset = s.offset /\ c.state = "get_size" /\ c.rest = s.rest
       /\ c.j = s.j /\ c.chunk_size = s.chunk_size /\ c.rc = 1
  BY <1>1, <1>6 DEF ParseState
<1> DEFINE p == s.offset + n
           q == s.j + n
<1>11. t = [c EXCEPT !.offset = p, !.j = q]
  BY <1>10
<1>12. p \in Nat /\ q \in Nat /\ p <= Len(s.buf) /\ q <= s.chunk_size
  <2> DEFINE y == Len(s.buf)
             o == s.offset
             i == s.j
             k == s.chunk_size
  <2>1. y \in Nat /\ o \in Nat /\ i \in Nat /\ k \in Nat
    BY <1>1
  <2>2. left + i = k /\ room + o = y
    BY <1>4
  <2> HIDE DEF y, o, i, k
  <2>3. o + n \in Nat /\ i + n \in Nat /\ o + n <= y /\ i + n <= k
    BY <1>2, <2>1, <2>2
  <2> QED BY <2>3 DEF y, o, i, k
<1> HIDE DEF t, p, q
<1>13. t \in ParseState
  BY <1>9, <1>11, <1>12 DEF ParseState
<1>14. /\ t.buf = s.buf /\ t.offset = p /\ t.state = "get_size" /\ t.rest = s.rest
       /\ t.j = q /\ t.chunk_size = s.chunk_size /\ t.rc = 1
       /\ t.plist = c.plist /\ t.last = c.last /\ t.new_total = c.new_total
  BY <1>9, <1>10, <1>11 DEF ParseState
<1>15. Parsing(t)
  <2>1. t.offset <= Len(t.buf) /\ t.j <= t.chunk_size /\ t.rc # 0
    BY <1>12, <1>14
  <2>2. t.new_total = Len(FlattenSeq(t.plist)) + Len(t.last)
    BY <1>8, <1>14, Zenon
  <2> QED BY <1>13, <2>1, <2>2, Zenon DEF Parsing
<1>16. /\ Left(s) = room + x + 2 * l + (IF s.j = s.chunk_size THEN 1 ELSE 0)
       /\ Left(t) = (Len(s.buf) - p) + x + 2 * l + (IF q = s.chunk_size THEN 1 ELSE 0)
  BY <1>14 DEF Left, room
<1>17. x \in Nat /\ l \in Nat
  BY <1>1, FlattenLen
<1> HIDE DEF x, l
<1>18. CASE t.offset = Len(t.buf)
  <2>1. u = NextBuffer(t, Crash)
    BY <1>3, <1>18
  <2>2. Turns(t, u)
    BY <1>14, <1>15, <2>1, NextBufferIs
  <2>3. Left(t) <= Left(s)
    <3> DEFINE a == Len(s.buf)
               o == s.offset
               i == IF s.j = s.chunk_size THEN 1 ELSE 0
               k == IF q = s.chunk_size THEN 1 ELSE 0
               v == Left(s)
               w == Left(t)
    <3>1. v = room + x + 2 * l + i /\ w = (a - (o + n)) + x + 2 * l + k
      BY <1>16 DEF p
    <3>2. room = a - o /\ a \in Nat /\ o \in Nat /\ n \in Nat
      BY <1>1, <1>2 DEF room
    <3>3. i \in {0, 1} /\ k \in {0, 1} /\ (n = 0 => k = i)
      BY <1>1, <1>2 DEF q
    <3> HIDE DEF a, o, i, k, v, w
    <3> QED BY <1>17, <3>1, <3>2, <3>3 DEF v, w
  <2>4. u.rc = 1 => Left(u) < Left(s)
    <3>1. u.rc = 1 => Left(u) \in Nat /\ Left(u) < Left(t)
      BY <2>2, LeftType DEF Turns
    <3>2. Left(s) \in Nat /\ Left(t) \in Nat
      BY <1>15, LeftType
    <3> QED BY <2>3, <3>1, <3>2
  <2> QED BY <2>2, <2>4 DEF Turns, u
<1>19. CASE t.offset # Len(t.buf)
  <2>1. n = left /\ q = s.chunk_size
    BY <1>1, <1>2, <1>4, <1>14, <1>19 DEF p, q
  <2>2. u = [t EXCEPT !.state = "begin", !.j = 0, !.chunk_str = <<>>]
    BY <1>3, <1>14, <1>19, <2>1
  <2>3. u \in ParseState
    <3>1. <<>> \in Seq(Int) /\ 0 \in Nat
      OBVIOUS
    <3> QED BY <1>13, <2>2, <3>1 DEF ParseState
  <2>4. /\ u.buf = s.buf /\ u.offset = p /\ u.state = "begin" /\ u.rest = s.rest
        /\ u.plist = t.plist /\ u.last = t.last /\ u.new_total = t.new_total /\ u.rc = 1
    BY <1>13, <1>14, <2>2 DEF ParseState
  <2>5. Parsing(u)
    <3>1. u.offset <= Len(u.buf) /\ u.rc # 0 /\ u.state # "get_size"
      BY <1>12, <2>4
    <3>2. u.new_total = Len(FlattenSeq(u.plist)) + Len(u.last)
      BY <1>8, <1>14, <2>4, Zenon
    <3> QED BY <2>3, <3>1, <3>2, Zenon DEF Parsing
  <2>6. Left(u) = (Len(s.buf) - p) + x + 2 * l + 0
    BY <2>4 DEF Left, x, l
  <2>7. Left(u) < Left(s)
    <3> DEFINE a == Len(s.buf)
               o == s.offset
               z == IF s.j = s.chunk_size THEN 1 ELSE 0
    <3>1. /\ Left(s) = room + x + 2 * l + z /\ Left(u) = (a - p) + x + 2 * l + 0
          /\ p = o + n /\ room + o = a /\ a \in Nat /\ o \in Nat
      BY <1>1, <1>4, <1>16, <2>6 DEF p
    <3>2. z \in {0, 1} /\ (z = 0 => n # 0)
      <4>1. left = 0 => s.j = s.chunk_size
        BY <1>1, <1>2, <1>4
      <4> QED BY <2>1, <4>1
    <3> HIDE DEF a, o, z
    <3> QED BY <1>2, <1>17, <3>1, <3>2
  <2> QED BY <2>4, <2>5, <2>7 DEF Turns, u
<1> QED BY <1>18, <1>19

\* Each turn of the loop leaves the locals sound and comes closer to its end.
LEMMA TurnTurns ==
  ASSUME NEW s, Parsing(s)
  PROVE  /\ s.rc # 1 => ParseTurn[s] = s
         /\ s.rc = 1 => Turns(s, ParseTurn[s])
<1>1. s \in ParseState
  BY DEF Parsing
<1>2. ParseTurn[s] =
        CASE s.rc <= 0                       -> s
          [] s.rc > 0 /\ s.state = "begin"    -> ChunkBegin(s)
          [] s.rc > 0 /\ s.state = "lrln"     -> ChunkLrln(s)
          [] s.rc > 0 /\ s.state = "get_size" -> ChunkGetSize(s)
  BY <1>1 DEF ParseTurn
<1>3. s.rc \in {0, 1, -1, -2} /\ s.state \in {"begin", "lrln", "get_size"}
  BY <1>1 DEF ParseState, Crash
<1>4. s.rc # 1 => s.rc <= 0
  BY <1>3
<1>5. s.rc = 1 => s.rc > 0 /\ ~(s.rc <= 0)
  OBVIOUS
<1>6. s.rc # 1 => ParseTurn[s] = s
  BY <1>2, <1>3, <1>4
<1>7. CASE s.rc = 1 /\ s.state = "begin"
  <2>1. ParseTurn[s] = ChunkBegin(s)
    BY <1>2, <1>5, <1>7
  <2> QED BY <1>7, <2>1, BeginTurns
<1>8. CASE s.rc = 1 /\ s.state = "lrln"
  <2>1. ParseTurn[s] = ChunkLrln(s)
    BY <1>2, <1>5, <1>8
  <2> QED BY <1>8, <2>1, LrlnTurns
<1>9. CASE s.rc = 1 /\ s.state = "get_size"
  <2>1. ParseTurn[s] = ChunkGetSize(s)
    BY <1>2, <1>5, <1>9
  <2> QED BY <1>9, <2>1, GetSizeTurns
<1> QED BY <1>3, <1>6, <1>7, <1>8, <1>9

LEMMA HeadLenIs ==
  ASSUME NEW buf \in Bytes
  PROVE  HeadLen(buf) \in 0..Len(buf)
<1> DEFINE ends == {i \in 1..Len(buf) : buf[i] \in {PlainHead, ChunkedHead}}
<1>1. Len(buf) \in Nat
  BY DEF Bytes
<1>2. ends \subseteq 1..Len(buf) /\ ends \subseteq Nat
  BY <1>1
<1>3. HeadLen(buf) = IF ends = {} THEN 0 ELSE CHOOSE i \in ends : \A k \in ends : i <= k
  BY Zenon DEF HeadLen
<1> HIDE DEF ends
<1> DEFINE i == CHOOSE i \in ends : \A k \in ends : i <= k
<1>4. ends # {} => i \in ends
  <2>1. ends # {} => \E e \in ends : \A k \in ends : e <= k
    BY <1>2, LeastNat
  <2> QED BY <2>1
<1> HIDE DEF i
<1> DEFINE h == HeadLen(buf)
           n == Len(buf)
<1>5. h = IF ends = {} THEN 0 ELSE i
  BY <1>3, Zenon DEF i
<1>6. n \in Nat /\ (ends # {} => i \in 1..n)
  BY <1>1, <1>2, <1>4
<1> HIDE DEF h, n
<1>7. h \in 0..n
  BY <1>5, <1>6
<1> QED BY <1>7 DEF h, n

LEMMA StartParsing ==
  ASSUME NEW bufs \in Seq(Bytes), bufs # <<>>
  PROVE  /\ Parsing(ParseStart(bufs)) /\ ParseStart(bufs).rc = 1
         /\ Left(ParseStart(bufs)) < Len(FlattenSeq(bufs)) + 2 * Len(bufs)
<1> DEFINE b == Head(bufs)
           r == Tail(bufs)
           o == HeadLen(b)
           l == SubSeq(b, 1, o)
           s == ParseStart(bufs)
<1>1. b \in Bytes /\ r \in Seq(Bytes) /\ Len(r) = Len(bufs) - 1 /\ Len(bufs) \in Nat
  BY HeadTailProperties
<1>2. o \in 0..Len(b) /\ Len(b) \in Nat
  BY <1>1, HeadLenIs DEF Bytes
<1> HIDE DEF o
<1>3. o \in Nat /\ o <= Len(b)
  BY <1>2
<1>4. l \in Bytes /\ Len(l) = o
  <2>1. SubSeq(b, 0 + 1, o) \in Bytes /\ Len(SubSeq(b, 0 + 1, o)) = IF 0 < o THEN o - 0 ELSE 0
    BY <1>1, <1>3, BytesCut
  <2>2. l = SubSeq(b, 0 + 1, o)
    OBVIOUS
  <2> HIDE DEF l, b
  <2>3. l \in Bytes /\ Len(l) = IF 0 < o THEN o - 0 ELSE 0
    BY <2>1, <2>2, Zenon
  <2> QED BY <1>3, <2>3
<1>5. s = [state |-> "begin", buf |-> b, offset |-> o, rest |-> r, chunk_str |-> <<>>,
           j |-> 0, chunk_size |-> 0, plist |-> <<>>, last |-> l, new_total |-> o,
           rc |-> 1, errcode |-> 0]
  BY Zenon DEF ParseStart, o
<1>6. /\ s.state = "begin" /\ s.buf = b /\ s.offset = o /\ s.rest = r /\ s.plist = <<>>
      /\ s.last = l /\ s.new_total = o /\ s.rc = 1
  <2> HIDE DEF b, r, l, s
  <2> QED BY <1>5
<1> DEFINE x == Len(FlattenSeq(r))
<1>7. Len(FlattenSeq(bufs)) = Len(b) + x
  <2>1. FlattenSeq(bufs) = b \o FlattenSeq(r)
    BY FlattenTail DEF Bytes
  <2>2. FlattenSeq(r) \in Seq(Int) /\ b \in Seq(Int)
    BY <1>1, FlattenLen DEF Bytes
  <2> HIDE DEF b, r
  <2> QED BY <2>1, <2>2, ConcatProperties
<1>8. x \in Nat
  BY <1>1, FlattenLen
<1> HIDE DEF b, r, l, s
<1>9. s \in ParseState
  <2>1. <<>> \in Seq(Int) /\ <<>> \in Seq(Seq(Int))
    OBVIOUS
  <2> QED BY <1>1, <1>3, <1>4, <1>5, <2>1 DEF ParseState, Bytes
<1>10. Parsing(s)
  <2>1. Len(FlattenSeq(s.plist)) = 0
    BY <1>6, FlattenEmpty
  <2>2. s.new_total = Len(FlattenSeq(s.plist)) + Len(s.last)
    BY <1>3, <1>4, <1>6, <2>1
  <2>3. s.offset <= Len(s.buf) /\ s.state # "get_size" /\ s.rc # 0
    BY <1>3, <1>6
  <2> QED BY <1>9, <2>2, <2>3, Zenon DEF Parsing
<1>11. Left(s) = (Len(b) - o) + x + 2 * Len(r) + 0
  BY <1>6 DEF Left
<1> HIDE DEF x
<1> DEFINE n == Len(bufs)
           y == Len(b)
           z == Len(r)
           w == Left(s)
<1>12. w = (y - o) + x + 2 * z /\ z = n - 1 /\ n \in Nat /\ y \in Nat
  <2> HIDE DEF n, y, z, w
  <2>1. w = (y - o) + x + 2 * z + 0
    BY <1>11, Zenon DEF w, y, z
  <2>2. z = n - 1 /\ n \in Nat /\ y \in Nat
    BY <1>1, <1>2 DEF n, y, z
  <2> QED BY <1>3, <1>8, <2>1, <2>2
<1>13. Len(FlattenSeq(bufs)) + 2 * Len(bufs) = (y + x) + 2 * n
  BY <1>7
<1> HIDE DEF n, y, z, w
<1>14. w < (y + x) + 2 * n
  BY <1>3, <1>8, <1>12
<1> QED BY <1>6, <1>10, <1>13, <1>14 DEF s, w

\* The turns of the loop, from the first state on.
AreTurns(f, c, n) == f = [k \in 0..n |-> IF k = 0 THEN c ELSE ParseTurn[f[k - 1]]]

LEMMA LoopIs ==
  ASSUME NEW bufs \in Seq(Bytes), bufs # <<>>,
         NEW n, n = Len(FlattenSeq(bufs)) + 2 * Len(bufs)
  PROVE  /\ n \in Nat
         /\ \E f : /\ f[0] = ParseStart(bufs) /\ \A k \in 1..n : f[k] = ParseTurn[f[k - 1]]
                  /\ ParseLoop(bufs) = f[n]
<1> DEFINE c == ParseStart(bufs)
           S == {s \in ParseState : Parsing(s)}
           step == [p \in (1..n) \X S |-> ParseTurn[p[2]]]
           f == CHOOSE g : AreTurns(g, c, n)
<1>1. n \in Nat /\ c \in S
  <2>1. Len(FlattenSeq(bufs)) \in Nat /\ Len(bufs) \in Nat
    BY FlattenLen
  <2>2. n \in Nat
    <3> DEFINE x == Len(FlattenSeq(bufs))
               y == Len(bufs)
    <3>1. n = x + 2 * y
      OBVIOUS
    <3> HIDE DEF x, y
    <3>2. x \in Nat /\ y \in Nat
      BY <2>1 DEF x, y
    <3> QED BY <3>1, <3>2
  <2>3. Parsing(c)
    BY StartParsing
  <2> HIDE DEF c
  <2>4. c \in S
    BY <2>3 DEF Parsing
  <2> QED BY <2>2, <2>4
<1> HIDE DEF c
<1>2. ASSUME NEW s \in S PROVE ParseTurn[s] \in S
  <2>1. Parsing(s)
    OBVIOUS
  <2>2. Parsing(ParseTurn[s])
    BY <2>1, TurnTurns DEF Turns
  <2> QED BY <2>2 DEF Parsing
<1>3. step \in [(1..n) \X S -> S]
  BY <1>2
<1>4. \A k \in 1..n : \A s \in S : step[<<k, s>>] = ParseTurn[s]
  OBVIOUS
<1> HIDE DEF step, S
<1>5. PICK g \in [0..n -> S] : IsRecursive(g, n, c, step)
  BY <1>1, <1>3, RecursiveExists, Zenon
<1>6. AreTurns(g, c, n)
  <2>1. ASSUME NEW k \in 0..n, k # 0 PROVE step[<<k, g[k - 1]>>] = ParseTurn[g[k - 1]]
    <3>1. k \in 1..n /\ k - 1 \in 0..n
      BY <1>1, <2>1
    <3> QED BY <1>4, <1>5, <3>1
  <2> QED BY <1>5, <2>1 DEF IsRecursive, AreTurns
<1>7. AreTurns(f, c, n)
  BY <1>6
<1>8. ParseLoop(bufs) = f[n]
  BY DEF ParseLoop, AreTurns, c
<1> HIDE DEF f
<1>9. f[0] = c /\ \A k \in 1..n : f[k] = ParseTurn[f[k - 1]]
  <2>1. 0 \in 0..n /\ \A k \in 1..n : k \in 0..n /\ k # 0
    BY <1>1
  <2> QED BY <1>7, <2>1 DEF AreTurns
<1> QED BY <1>1, <1>8, <1>9 DEF c

\* The loop of http_parse ends, whatever the host sent; and what it then kept
\* is as long as it says.
THEOREM LoopEnds ==
  ASSUME NEW bufs \in Seq(Bytes), bufs # <<>>
  PROVE  Parsing(ParseLoop(bufs)) /\ ParseLoop(bufs).rc # 1
<1> DEFINE c == ParseStart(bufs)
<1>1. PICK n : n = Len(FlattenSeq(bufs)) + 2 * Len(bufs)
  OBVIOUS
<1>2. n \in Nat
  BY <1>1, LoopIs
<1>3. PICK f : /\ f[0] = c /\ \A k \in 1..n : f[k] = ParseTurn[f[k - 1]]
               /\ ParseLoop(bufs) = f[n]
  BY <1>1, LoopIs
<1>4. Parsing(c) /\ c.rc = 1 /\ Left(c) < n /\ Left(c) \in Nat
  BY <1>1, StartParsing, LeftType
<1> HIDE DEF c
<1> DEFINE T == {k \in Nat : k <= n => /\ Parsing(f[k])
                                       /\ f[k].rc = 1 => Left(f[k]) + k <= Left(c)}
<1>5. 0 \in T
  BY <1>3, <1>4
<1>6. ASSUME NEW k \in Nat, k \in T PROVE k + 1 \in T
  <2> DEFINE s == f[k]
             t == f[k + 1]
  <2> SUFFICES ASSUME k + 1 <= n
               PROVE  Parsing(t) /\ (t.rc = 1 => Left(t) + (k + 1) <= Left(c))
    OBVIOUS
  <2>1. k + 1 \in 1..n /\ (k + 1) - 1 = k /\ k <= n
    BY <1>2
  <2>2. Parsing(s) /\ (s.rc = 1 => Left(s) + k <= Left(c))
    BY <1>6, <2>1
  <2>3. t = ParseTurn[s]
    BY <1>3, <2>1
  <2> HIDE DEF s, t
  <2>4. s.rc # 1 => t = s
    BY <2>2, <2>3, TurnTurns
  <2>5. s.rc = 1 => Parsing(t) /\ (t.rc = 1 => Left(t) < Left(s))
    BY <2>2, <2>3, TurnTurns DEF Turns
  <2>6. Parsing(t)
    BY <2>2, <2>4, <2>5
  <2>7. Left(s) \in Nat /\ Left(t) \in Nat
    BY <2>2, <2>6, LeftType
  <2> QED BY <1>2, <1>4, <2>2, <2>4, <2>5, <2>6, <2>7
<1>7. Nat \subseteq T
  BY <1>5, <1>6, AllNat
<1>8. Parsing(f[n]) /\ (f[n].rc = 1 => Left(f[n]) + n <= Left(c))
  BY <1>2, <1>7
<1>9. Left(f[n]) \in Nat
  BY <1>8, LeftType
<1>10. f[n].rc # 1
  BY <1>2, <1>4, <1>8, <1>9
<1> QED BY <1>3, <1>8, <1>10

\* What every turn keeps holds at the end.
LEMMA LoopKeeps ==
  ASSUME NEW bufs \in Seq(Bytes), bufs # <<>>, NEW S, ParseStart(bufs) \in S,
         \A s \in S : ParseTurn[s] \in S
  PROVE  ParseLoop(bufs) \in S
<1>1. PICK n : n = Len(FlattenSeq(bufs)) + 2 * Len(bufs)
  OBVIOUS
<1>2. n \in Nat
  BY <1>1, LoopIs
<1>3. PICK f : /\ f[0] = ParseStart(bufs) /\ \A k \in 1..n : f[k] = ParseTurn[f[k - 1]]
               /\ ParseLoop(bufs) = f[n]
  BY <1>1, LoopIs
<1> DEFINE T == {k \in Nat : k <= n => f[k] \in S}
<1>4. 0 \in T
  BY <1>3
<1>5. ASSUME NEW k \in Nat, k \in T PROVE k + 1 \in T
  <2> SUFFICES ASSUME k + 1 <= n PROVE f[k + 1] \in S
    OBVIOUS
  <2>1. k + 1 \in 1..n /\ (k + 1) - 1 = k /\ k <= n
    BY <1>2
  <2>2. f[k] \in S
    BY <1>5, <2>1
  <2>3. f[k + 1] = ParseTurn[f[k]]
    BY <1>3, <2>1
  <2> QED BY <2>2, <2>3
<1>6. Nat \subseteq T
  BY <1>4, <1>5, AllNat
<1>7. f[n] \in S
  BY <1>2, <1>6
<1> QED BY <1>3, <1>7

\* What http_parse returns.
Outcome(p) ==
    /\ p.rc \in {0, -1, Crash} /\ p.bufs \in Seq(Bytes) /\ p.len \in Nat
    /\ p.rc = 0 => p.len = Len(FlattenSeq(p.bufs))

LEMMA ParsedIs ==
  ASSUME NEW bufs \in Seq(Bytes), NEW memory
  PROVE  Outcome(http_parse(bufs, memory))
<1>1. <<>> \in Seq(Bytes) /\ 0 \in Nat /\ -1 # 0 /\ -1 \in {0, -1, Crash}
  OBVIOUS
<1>2. \A e : Outcome(Parsed(-1, e, <<>>, 0))
  BY <1>1 DEF Outcome, Parsed
<1>3. Outcome(Parsed(0, 0, bufs, Len(FlattenSeq(bufs))))
  BY FlattenLen DEF Outcome, Parsed
<1>4. ASSUME bufs # <<>>
      PROVE  Outcome(Parsed(ParseLoop(bufs).rc, ParseLoop(bufs).errcode,
                            ParseLoop(bufs).plist, ParseLoop(bufs).new_total))
  <2> DEFINE e == ParseLoop(bufs)
             p == Parsed(e.rc, e.errcode, e.plist, e.new_total)
  <2>1. Parsing(e) /\ e.rc # 1
    BY <1>4, LoopEnds
  <2> HIDE DEF e
  <2>2. e.rc \in {0, -1, Crash} /\ e.plist \in Seq(Bytes) /\ e.new_total \in Nat
    BY <2>1 DEF Parsing, ParseState, Bytes
  <2>3. e.rc = 0 => e.new_total = Len(FlattenSeq(e.plist))
    BY <2>1, Zenon DEF Parsing
  <2>4. p.rc = e.rc /\ p.bufs = e.plist /\ p.len = e.new_total
    BY DEF Parsed
  <2> HIDE DEF p
  <2>5. Outcome(p)
    BY <2>2, <2>3, <2>4 DEF Outcome
  <2> QED BY <2>5 DEF p, e
<1>5. http_parse(bufs, memory)
        = IF bufs = <<>> THEN Parsed(-1, 15, <<>>, 0)
          ELSE IF HeadLen(Head(bufs)) > 0 /\ ~memory THEN Parsed(-1, 11, <<>>, 0)
          ELSE IF ~IsChunked(Head(bufs))
          THEN Parsed(0, 0, bufs, Len(FlattenSeq(bufs)))
          ELSE Parsed(ParseLoop(bufs).rc, ParseLoop(bufs).errcode,
                      ParseLoop(bufs).plist, ParseLoop(bufs).new_total)
  BY Zenon DEF http_parse
<1> QED BY <1>2, <1>3, <1>4, <1>5, Zenon

-----------------------------------------------------------------------------
(* The inductive invariant.                                                *)

Flags == {"POLLIN", "POLLOUT", "POLLERR", "POLLHUP"}

Buffer == {b \in Bytes : Len(b) <= BufSize}
Contexts ==
    [alive : BOOLEAN, fd : PT!Fd \cup {PT!Uninit}, func : {"connect", "write", "read"},
     status : {"READY", "PENDING"}, line : {"start", "partial", "eagain"},
     write : 0..RequestBufs, half : BOOLEAN, wcurr : BOOLEAN,
     read : Seq(Bytes), rcurr : BOOLEAN, rbytes : Buffer]
Replies == UNION {RepliesTo(r) : r \in Reqs}
Hosts ==
    [st : {"none", "new", "connecting", "connected", "dead", "closed"}, got : BOOLEAN,
     full : BOOLEAN, reply : {<<>>} \cup {<<reply>> : reply \in Replies},
     left : Bytes, rx : Bytes, fin : BOOLEAN, whole : BOOLEAN]
Pieces == [seq : Reqs, what : {"404", "header", "data"}, len : Nat, data : Bytes]

ScanOK == revents \in [PT!Slot -> SUBSET Flags] /\ scan \in PT!Slot

ContextsOK ==
    /\ ctx \in [Reqs -> Contexts] /\ host \in [Reqs -> Hosts]
    /\ toserver \in Seq(Pieces) /\ server \in Seq(Pieces)
    /\ asked \in 0..Requests /\ taken \in 0..asked
    /\ ctx_caches \in Nat /\ buf_caches \in Int /\ leaked \in Nat /\ prepared \in Nat
    /\ faults \in Nat /\ intact \in BOOLEAN

\* What PollTable_proofs shows of the table, as far as it is needed here.
TableOK ==
    /\ PT!TypeOK /\ PT!TableConsistent /\ PT!ListenerArmed
    /\ kind[Listener] = "TCPSERVER"
    /\ \A fd \in PT!Fd : kind[fd] \in PT!ContextKind => pfd[fd] \in PT!Slot

\* As long as main() loops, the websocket is in slot 1, and what poll() said of
\* it is still so.
InSlot1 ==
    /\ kind[Websocket] = "WEBSOCKET" /\ fd_lookup[Websocket] = 1
    /\ slotFd[1] = Websocket
Loop ==
    /\ phase \in {"reconn", "run", "running", "scan", "closing"}
    /\ phase \in {"run", "running", "scan"} => InSlot1
    /\ phase \in {"reconn", "closing"} => kind[Websocket] = "NONE"
    /\ phase = "scan" => /\ "POLLOUT" \in revents[1] => toserver # <<>>
                         /\ "POLLIN" \in revents[1] => taken < asked

\* The descriptors are the listening socket's, the websocket's, and one for
\* each context.
Owners ==
    /\ \A fd \in PT!Fd \ {Listener, Websocket} : kind[fd] \in {"NONE", "HTTP"}
    /\ kind[Websocket] \in {"NONE", "WEBSOCKET"}
    /\ \A r \in Reqs : ~ctx[r].alive => ctx[r] = NoContext
    /\ \A r \in Alive : /\ r <= taken /\ ctx[r].fd \in PT!Fd
                        /\ kind[ctx[r].fd] = "HTTP"
                        /\ ctx[r].func = "connect" => ctx[r].status = "READY"
    /\ \A q, r \in Alive : ctx[q].fd = ctx[r].fd => q = r
    /\ \A fd \in PT!Fd : kind[fd] = "HTTP" => \E r \in Alive : ctx[r].fd = fd

\* The ready lists.
ReadyCtx == {r \in Alive : ctx[r].status = "READY"}
Linked ==
    /\ running \in Seq(Reqs) /\ list_ready \in Seq(Reqs)
    /\ IsInjective(running) /\ IsInjective(list_ready)
    /\ Range(running) \cap Range(list_ready) = {}
    /\ Range(running) \cup Range(list_ready) = ReadyCtx
    /\ ready_len = Len(running) + Len(list_ready)

\* The pools.
HeldOf(cs) == Total([r \in Reqs |-> BufsOf(cs[r])], Requests)
Accounts ==
    /\ ctx_caches + Cardinality(Alive) + leaked = NumCtx
    /\ buf_caches + prepared + Len(toserver) + HeldOf(ctx) = NumBufs

\* What goes to the server: a context's answer comes when it ends, so nothing
\* was sent for one that is alive or to come.
HeadsBlock(q, i) ==
    \E n \in 0..(Len(q) - i) :
      /\ \A k \in 1..n : q[i + k].what = "data" /\ q[i + k].seq = q[i].seq
      /\ HEADER_LEN + Total([k \in 1..n |-> q[i + k].len], n) = q[i].len
      /\ (i + n < Len(q) => q[i + n + 1].what # "data")
AllWhole(q) ==
    /\ \A i \in 1..Len(q) : q[i].what = "header" => HeadsBlock(q, i)
    /\ \A i, k \in 1..Len(q) :
          q[i].what # "data" /\ q[k].what # "data" /\ q[i].seq = q[k].seq => i = k
Sent ==
    /\ AllWhole(Frames)
    /\ \A i \in 1..Len(Frames) : Frames[i].seq <= taken /\ ~ctx[Frames[i].seq].alive

Rest == ScanOK /\ ContextsOK /\ Loop /\ Owners /\ Linked /\ Accounts /\ Sent
IInv == PTP!IndInv /\ Rest

-----------------------------------------------------------------------------
(* The poll table.                                                         *)

LEMMA Sizes ==
  /\ MaxFds \in Nat /\ Listener \in 0..(MaxFds - 1) /\ Websocket \in 0..(MaxFds - 1)
  /\ PT!Fd = 0..(MaxFds - 1) /\ PT!Slot = 0..(MaxFds - 1)
  /\ Listener = 0 /\ Websocket = 1
  /\ Requests \in Nat /\ Reqs = 1..Requests /\ NumCtx \in Nat /\ NumBufs \in Nat
  /\ RequestBufs \in Nat \ {0} /\ MaxFaults \in Nat
BY ConstantsAssumption DEF Listener, Websocket, PT!Fd, PT!Slot, Reqs

\* Both instances are the same module.
LEMMA TableIs ==
  /\ PTP!Init <=> PT!Init
  /\ [PT!Next]_(PT!vars) <=> [PTP!Next]_(PTP!vars)
<1> USE DEF PTP!Init, PT!Init, PTP!Next, PT!Next, PTP!vars, PT!vars,
            PTP!Slot, PT!Slot, PTP!Fd, PT!Fd, PTP!Uninit, PT!Uninit,
            PTP!ContextKind, PT!ContextKind,
            PTP!WebsocketAdd, PT!WebsocketAdd, PTP!WebsocketDel, PT!WebsocketDel,
            PTP!WebsocketChangeMode, PT!WebsocketChangeMode,
            PTP!ContextOpen, PT!ContextOpen, PTP!ContextRelease, PT!ContextRelease,
            PTP!ContextChangeMode, PT!ContextChangeMode,
            PTP!mgmt_add_fd, PT!mgmt_add_fd, PTP!mgmt_del_fd, PT!mgmt_del_fd
<1>1. PTP!Init <=> PT!Init
  OBVIOUS
<1>2. [PT!Next]_(PT!vars) <=> [PTP!Next]_(PTP!vars)
  OBVIOUS
<1> QED BY <1>1, <1>2

LEMMA TableFacts == PTP!IndInv => TableOK
<1> USE DEF PTP!IndInv, PTP!Slot, PT!Slot, PTP!Fd, PT!Fd, PTP!Uninit, PT!Uninit
<1>1. PTP!IndInv => PT!TypeOK
  BY DEF PTP!TypeOK, PT!TypeOK, PTP!Events, PT!Events, PTP!Kind, PT!Kind,
         PTP!ContextKind, PT!ContextKind
<1>2. PTP!IndInv => PT!TableConsistent
  BY DEF PTP!TableConsistent, PT!TableConsistent, PTP!Registered, PT!Registered
<1>3. PTP!IndInv => PT!ListenerArmed
  BY DEF PTP!ListenerArmed, PT!ListenerArmed, PTP!Polled, PT!Polled
<1>4. PTP!IndInv => \A fd \in PT!Fd : kind[fd] \in PT!ContextKind => pfd[fd] \in PT!Slot
  BY DEF PTP!PfdNeverBelow, PTP!ContextKind, PT!ContextKind
<1> QED BY <1>1, <1>2, <1>3, <1>4 DEF TableOK

LEMMA LowestFreeIs ==
  ASSUME Free # {}
  PROVE  LowestFree \in Free /\ \A fd \in Free : LowestFree <= fd
<1>1. Free \subseteq Nat
  BY Sizes DEF Free
<1>2. \E fd \in Free : \A other \in Free : fd <= other
  BY <1>1, LeastNat
<1> QED BY <1>2 DEF LowestFree

\* While the websocket is open it stays in slot 1.
LEMMA StaysInSlot1 ==
  ASSUME PTP!IndInv, InSlot1, [PT!Next]_(PT!vars), kind'[Websocket] = "WEBSOCKET"
  PROVE  InSlot1'
<1>1. [PTP!Next]_(PTP!vars)
  BY TableIs
<1>2. Websocket \in PTP!Registered
  BY Sizes DEF PTP!Registered, PTP!Fd, PT!Fd, InSlot1
<1>3. MaxFds \in Nat /\ Listener \in 0..(MaxFds - 1)
  BY Sizes
<1> DEFINE fd == Websocket
<1>4. fd_lookup[fd] = 1 /\ kind'[fd] # "NONE"
  BY DEF InSlot1
<1>5. fd_lookup'[fd] = 1 /\ slotFd'[1] = fd
  BY <1>1, <1>2, <1>3, <1>4, PTP!StaysInSlot1
<1> QED BY <1>5 DEF InSlot1

\* Where a context's coroutine is run from.
LEMMA ExecutingIs ==
  ASSUME Rest, NEW r, NEW func, Executing(r, func)
  PROVE  r \in Alive /\ ctx[r].func = func /\ (FromRun(r) \/ FromSlot(r)) /\ intact
<1>1. FromRun(r) => r \in Range(running)
  <2>1. FromRun(r) => r = running[1] /\ 1 \in DOMAIN running
    BY DEF FromRun, Rest, Linked
  <2> QED BY <2>1 DEF Range
<1>2. Range(running) \subseteq Alive
  BY DEF Rest, Linked, ReadyCtx
<1> QED BY <1>1, <1>2 DEF Executing, FromSlot

\* Every step is a step of the poll table, or leaves it alone.
LEMMA StepTable ==
  ASSUME TableOK, Rest, [Next]_vars
  PROVE  [PT!Next]_(PT!vars)
<1> DEFINE Same == UNCHANGED (PT!vars)
<1>1. ASSUME NEW r \in Alive, PT!ContextRelease(ctx[r].fd)
      PROVE  PT!Next
  BY <1>1 DEF PT!Next, Rest, Owners
<1>2. ASSUME NEW r \in Alive, NEW e \in {{"POLLIN"}, {"POLLOUT"}},
             PT!ContextChangeMode(ctx[r].fd, e)
      PROVE  PT!Next
  BY <1>2 DEF PT!Next, Rest, Owners
<1>3. ASSUME UNCHANGED table PROVE Same
  BY <1>3 DEF PT!vars, table
<1>4. CASE Run \/ Poll \/ Writeable \/ RequestDropped \/ NoContextLeft \/ SocketFails
           \/ ServerAsks \/ Undefined \/ UNCHANGED vars
  BY <1>3, <1>4 DEF Run, Poll, PollFrom, Writeable, RequestDropped, NoContextLeft,
                    SocketFails, ServerAsks, Undefined, vars
<1>5. CASE Reconnect
  <2>1. kind[Websocket] = "NONE"
    BY <1>5 DEF Reconnect, Rest, Loop
  <2>2. Websocket \in Free
    BY <2>1, Sizes DEF Free, PT!Registered
  <2>3. LowestFree \in PT!Fd
    BY <2>2, LowestFreeIs DEF Free
  <2> QED BY <1>5, <2>3 DEF Reconnect, PT!Next
<1>6. CASE http_context_create
  <2>1. LowestFree \in PT!Fd
    BY <1>6, LowestFreeIs DEF http_context_create, Free
  <2>2. PT!ContextOpen(LowestFree, "HTTP") /\ "HTTP" \in PT!ContextKind
    BY <1>6 DEF http_context_create, PT!ContextKind
  <2> QED BY <2>1, <2>2 DEF PT!Next
<1>7. CASE WebsocketLost
  BY <1>7, Sizes DEF WebsocketLost, PT!Next
<1>8. ASSUME NEW r \in Reqs, NEW q, NEW w, NEW o, http_context_release(r, q, w, o), r \in Alive
      PROVE  PT!Next
  BY <1>1, <1>8 DEF http_context_release
<1>9. ASSUME Crashes PROVE Same
  BY <1>3, <1>9 DEF Crashes
<1>10. ASSUME NEW r \in Reqs, Executes(r)
       PROVE  PT!Next \/ Same
  <2>1. ASSUME NEW func, Executing(r, func) PROVE r \in Alive
    BY <2>1, ExecutingIs
  <2>2. CASE ConnectDone(r)
    BY <1>3, <2>2 DEF ConnectDone
  <2>3. CASE ConnectPending(r)
    <3>1. r \in Alive /\ PT!ContextChangeMode(ctx[r].fd, {"POLLOUT"})
      BY <2>1, <2>3 DEF ConnectPending
    <3> QED BY <1>2, <3>1
  <2>4. CASE ConnectFails(r)
    <3>1. r \in Alive
      BY <2>1, <2>4 DEF ConnectFails
    <3>2. http_context_release(r, IF buf_caches > 0 THEN <<Error(r)>> ELSE <<>>, FALSE, TRUE)
      BY <2>4 DEF ConnectFails, Finishes
    <3> QED BY <1>8, <3>1, <3>2
  <2>5. CASE WriteAll(r)
    <3>1. r \in Alive /\ PT!ContextChangeMode(ctx[r].fd, {"POLLIN"})
      BY <2>1, <2>5 DEF WriteAll
    <3> QED BY <1>2, <3>1
  <2>6. CASE WriteAgain(r)
    BY <1>3, <2>6 DEF WriteAgain
  <2>7. CASE WriteFails(r)
    <3>1. r \in Alive /\ http_context_release(r, <<>>, TRUE, TRUE)
      BY <2>1, <2>7 DEF WriteFails, Finishes
    <3> QED BY <1>8, <3>1
  <2>8. ASSUME NEW bufs, NEW part, WriteSome(r, bufs, part) PROVE Same
    BY <1>3, <2>8 DEF WriteSome
  <2>9. CASE ReadSome(r) \/ ReadAgain(r)
    BY <1>3, <2>9 DEF ReadSome, ReadAgain
  <2>10. CASE ReadEnds(r)
    <3>1. r \in Alive
      BY <2>1, <2>10 DEF ReadEnds
    <3>2. Crashes \/ \E q, w, o : http_context_release(r, q, w, o)
      BY <2>10, Zenon DEF ReadEnds, Finishes
    <3> QED BY <1>8, <1>9, <3>1, <3>2
  <2>11. CASE ReadCrashes(r)
    BY <1>9, <2>11 DEF ReadCrashes
  <2> QED BY <1>10, <2>2, <2>3, <2>4, <2>5, <2>6, <2>7, <2>8, <2>9, <2>10, <2>11 DEF Executes
<1>11. ASSUME NEW r \in Reqs, HangsUp(r) PROVE PT!Next \/ Same
  <2>1. r \in Alive
    BY <1>11 DEF HangsUp
  <2>2. Crashes \/ \E q, w, o : http_context_release(r, q, w, o)
    BY <1>11, Zenon DEF HangsUp, Finishes
  <2> QED BY <1>8, <1>9, <2>1, <2>2
<1>12. ASSUME NEW r \in Reqs, ReleaseAll(r) PROVE PT!Next
  BY <1>8, <1>12 DEF ReleaseAll
<1>13. ASSUME NEW r \in Reqs, LanHost(r) \/ RefusedOrReset(r) \/ HostGivesUp(r)
       PROVE  Same
  <2>1. UNCHANGED table
    BY <1>13 DEF LanHost, RefusedOrReset, HostGivesUp, Established, HostReads, HostReplies,
                 HostSends, HostCloses, Kernel
  <2> QED BY <1>3, <2>1
<1> QED BY <1>4, <1>5, <1>6, <1>7, <1>10, <1>11, <1>12, <1>13 DEF Next, Client

-----------------------------------------------------------------------------
(* The loop: which slot is serviced, and what revents say.                 *)

LEMMA ScanFromIs ==
  ASSUME NEW n \in PT!Slot \cup {-1}, NEW rev, NEW count \in 0..MaxFds, ScanFrom(n, rev, count)
  PROVE  scan' \in PT!Slot /\ phase' \in {"run", "scan"}
<1> DEFINE later == {m \in (n + 1)..(count - 1) : rev[m] # {}}
<1>1. later \subseteq PT!Slot /\ later \subseteq Nat
  BY Sizes
<1>2. 0 \in PT!Slot
  BY Sizes
<1>3. \/ later = {} /\ phase' = "run" /\ scan' = 0
      \/ /\ later # {} /\ phase' = "scan"
         /\ scan' = CHOOSE m \in later : \A o \in later : m <= o
  BY Zenon DEF ScanFrom
<1> HIDE DEF later
<1>4. later # {} => (CHOOSE m \in later : \A o \in later : m <= o) \in later
  <2>1. later # {} => \E m \in later : \A o \in later : m <= o
    BY <1>1, LeastNat
  <2> QED BY <2>1
<1> QED BY <1>1, <1>2, <1>3, <1>4

LEMMA ServiceDoneIs ==
  ASSUME ScanOK, TableOK', NEW rev \in [PT!Slot -> SUBSET Flags], ServiceDone(rev)
  PROVE  /\ ScanOK' /\ phase' \in {"run", "scan"}
         /\ revents'[1] \subseteq rev[1] /\ (scan = 1 => revents'[1] = {})
<1>1. count_pollfds' \in 0..MaxFds
  BY DEF TableOK, PT!TypeOK
<1>2. revents' = [rev EXCEPT ![scan] = {}]
  BY DEF ServiceDone
<1>3. scan' \in PT!Slot /\ phase' \in {"run", "scan"}
  <2>1. ScanFrom(scan, revents', count_pollfds')
    BY DEF ServiceDone
  <2> QED BY <1>1, <2>1, ScanFromIs DEF ScanOK
<1>4. revents' \in [PT!Slot -> SUBSET Flags] /\ 1 \in PT!Slot
  BY <1>2, Sizes DEF ScanOK
<1> QED BY <1>2, <1>3, <1>4 DEF ScanOK

\* A context's own slot is not the websocket's, nor the last one if that is.
LEMMA MovedReventsIs ==
  ASSUME TableOK, Rest, NEW r \in Alive
  PROVE  /\ MovedRevents(ctx[r].fd) \in [PT!Slot -> SUBSET Flags]
         /\ InSlot1 => MovedRevents(ctx[r].fd)[1] = revents[1]
<1> DEFINE fd == ctx[r].fd
           rev == MovedRevents(fd)
<1>1. fd \in PT!Fd /\ kind[fd] = "HTTP" /\ ScanOK
  BY DEF Rest, Owners
<1>2. count_pollfds \in 1..MaxFds
  BY DEF TableOK, PT!TypeOK, PT!ListenerArmed
<1>3. count_pollfds - 1 \in PT!Slot /\ 1 \in PT!Slot
  BY <1>2, Sizes
<1>4. InSlot1 => fd_lookup[fd] # 1
  <2>1. fd \in PT!Registered
    BY <1>1 DEF PT!Registered
  <2>2. slotFd[fd_lookup[fd]] = fd
    BY <2>1 DEF TableOK, PT!TableConsistent
  <2> QED BY <1>1, <2>2 DEF InSlot1
<1> HIDE DEF fd
<1>5. rev = [revents EXCEPT ![fd_lookup[fd]] = revents[count_pollfds - 1]]
  BY DEF MovedRevents
<1> HIDE DEF rev
<1> QED BY <1>1, <1>3, <1>4, <1>5 DEF ScanOK, rev, fd

LEMMA PolledIs ==
  ASSUME TableOK, ScanOK
  PROVE  /\ Polled \in [PT!Slot -> SUBSET Flags]
         /\ InSlot1 => /\ "POLLOUT" \in Polled[1] => toserver # <<>>
                       /\ "POLLIN" \in Polled[1] => asked > taken
<1>1. ASSUME NEW slot \in PT!Slot
      PROVE  Polled[slot] \in SUBSET Flags
  <2>1. slotEvents[slot] \subseteq Flags
    BY DEF TableOK, PT!TypeOK, PT!Events, Flags
  <2> QED BY <2>1 DEF Polled, ScanOK, Flags
<1>2. Polled \in [PT!Slot -> SUBSET Flags]
  BY <1>1 DEF Polled
<1>3. ASSUME InSlot1
      PROVE  /\ "POLLOUT" \in Polled[1] => toserver # <<>>
             /\ "POLLIN" \in Polled[1] => asked > taken
  <2>1. Websocket \in PT!Registered /\ 1 \in PT!Slot
    BY <1>3, Sizes DEF InSlot1, PT!Registered
  <2>2. ~(1 >= count_pollfds)
    <3>1. 1 \in 0..(count_pollfds - 1) /\ count_pollfds \in Nat
      BY <1>3, <2>1 DEF TableOK, PT!TableConsistent, PT!TypeOK, InSlot1
    <3> QED BY <3>1
  <2>3. Polled[1] \subseteq Ready(Websocket)
    BY <1>3, <2>1, <2>2 DEF Polled, InSlot1
  <2>4. Ready(Websocket) = {f \in {"POLLIN"}  : asked > taken} \cup
                           {f \in {"POLLOUT"} : toserver # <<>>}
    BY <1>3 DEF Ready, InSlot1
  <2> QED BY <2>3, <2>4
<1> QED BY <1>2, <1>3

\* What a context's handler does to the loop.
LEMMA GoesOn ==
  ASSUME PTP!IndInv, TableOK', Rest, NEW r \in Alive, FromRun(r) \/ phase = "scan",
         NEW rev \in [PT!Slot -> SUBSET Flags], rev[1] = revents[1], Goes(r, rev),
         [PT!Next]_(PT!vars), kind'[Websocket] = "WEBSOCKET",
         toserver # <<>> => toserver' # <<>>, UNCHANGED <<taken, asked>>
  PROVE  ScanOK' /\ Loop'
<1>1. InSlot1 /\ ScanOK
  BY DEF Rest, Loop, FromRun
<1>2. InSlot1'
  BY <1>1, StaysInSlot1
<1>3. CASE FromRun(r)
  <2>1. revents' = rev /\ phase' = "running" /\ scan' = scan
    BY <1>3 DEF Goes, main, FromRun
  <2> QED BY <1>1, <1>2, <2>1 DEF ScanOK, Loop
<1>4. CASE ~FromRun(r)
  <2>1. phase = "scan" /\ ServiceDone(rev)
    BY <1>4 DEF Goes
  <2>2. ScanOK' /\ phase' \in {"run", "scan"} /\ revents'[1] \subseteq rev[1]
    BY <1>1, <2>1, ServiceDoneIs
  <2>3. /\ "POLLOUT" \in revents[1] => toserver # <<>>
        /\ "POLLIN" \in revents[1] => taken < asked
    BY <2>1 DEF Rest, Loop
  <2> QED BY <1>2, <2>2, <2>3 DEF Loop
<1> QED BY <1>3, <1>4

-----------------------------------------------------------------------------
(* The ready lists.                                                        *)

LEMMA RemoveFirstIs ==
  ASSUME NEW S, NEW s \in Seq(S), IsInjective(s), NEW e
  PROVE  LET t == RemoveFirst(s, e)
         IN  /\ t \in Seq(S) /\ IsInjective(t) /\ Range(t) = Range(s) \ {e}
             /\ Len(t) = Len(s) - (IF e \in Range(s) THEN 1 ELSE 0)
<1> DEFINE t == RemoveFirst(s, e)
           n == Len(s)
           I == {i \in 1..n : s[i] = e}
<1>1. n \in Nat /\ DOMAIN s = 1..n /\ I \subseteq Nat
  OBVIOUS
<1>2. CASE I = {}
  <2>1. t = s
    BY <1>2 DEF RemoveFirst
  <2>2. e \notin Range(s)
    BY <1>1, <1>2 DEF Range
  <2> HIDE DEF t
  <2> QED BY <1>1, <2>1, <2>2 DEF t
<1>3. CASE I # {}
  <2> DEFINE k == Min(I)
             a == SubSeq(s, 1, k - 1)
             b == SubSeq(s, k + 1, n)
  <2>1. k \in I
    <3>1. \E i \in I : \A j \in I : i <= j
      BY <1>1, <1>3, LeastNat
    <3> QED BY <3>1 DEF Min
  <2>2. t = a \o b
    <3>1. \E i \in 1..Len(s) : s[i] = e
      BY <1>3
    <3> QED BY <1>3, <3>1 DEF RemoveFirst, RemoveAt, SelectInSeq
  <2> HIDE DEF k
  <2>3. k \in 1..n /\ s[k] = e
    BY <2>1
  <2>4. a \in Seq(S) /\ Len(a) = k - 1 /\ \A i \in 1..(k - 1) : a[i] = s[i]
    <3>1. \A i \in 1..(k - 1) : s[i] \in S
      BY <1>1, <2>3
    <3> QED BY <1>1, <2>3, <3>1, SubSeqProperties
  <2>5. b \in Seq(S) /\ Len(b) = n - k /\ \A i \in 1..(n - k) : b[i] = s[k + i]
    <3>1. \A i \in (k + 1)..n : s[i] \in S
      BY <1>1, <2>3
    <3>2. k + 1 \in Int /\ n \in Int
      BY <1>1, <2>3
    <3>3. b \in Seq(S) /\ Len(b) = IF k + 1 <= n THEN n - (k + 1) + 1 ELSE 0
      BY <3>1, <3>2, SubSeqProperties
    <3>4. \A i \in 1..Len(b) : b[i] = s[(k + 1) + i - 1]
      BY <3>1, <3>2, SubSeqProperties
    <3> HIDE DEF b
    <3>5. Len(b) = n - k
      <4> DEFINE l == Len(b)
      <4>1. l = (IF k + 1 <= n THEN n - (k + 1) + 1 ELSE 0) /\ n \in Nat /\ k \in 1..n
        BY <1>1, <2>3, <3>3
      <4> HIDE DEF l, n
      <4>2. l = n - k
        BY <4>1
      <4> QED BY <4>2 DEF l, n
    <3>6. \A i \in 1..(n - k) : (k + 1) + i - 1 = k + i
      BY <1>1, <2>3
    <3> QED BY <3>3, <3>4, <3>5, <3>6
  <2> HIDE DEF a, b, t
  <2>6. /\ t \in Seq(S) /\ Len(t) = n - 1
        /\ \A i \in 1..(n - 1) : t[i] = IF i < k THEN s[i] ELSE s[i + 1]
    <3>1. /\ t \in Seq(S) /\ Len(t) = Len(a) + Len(b)
          /\ \A i \in 1..(Len(a) + Len(b)) : t[i] = IF i <= Len(a) THEN a[i] ELSE b[i - Len(a)]
      BY <2>2, <2>4, <2>5, ConcatProperties
    <3>2. Len(a) + Len(b) = n - 1
      BY <1>1, <2>3, <2>4, <2>5
    <3>3. ASSUME NEW i \in 1..(n - 1) PROVE t[i] = IF i < k THEN s[i] ELSE s[i + 1]
      <4>1. t[i] = IF i <= k - 1 THEN a[i] ELSE b[i - (k - 1)]
        BY <2>4, <3>1, <3>2
      <4>2. CASE i < k
        BY <1>1, <2>3, <2>4, <4>1, <4>2
      <4>3. CASE ~(i < k)
        <5>1. i - (k - 1) \in 1..(n - k) /\ k + (i - (k - 1)) = i + 1 /\ ~(i <= k - 1)
          BY <1>1, <2>3, <4>3
        <5> QED BY <2>5, <4>1, <4>3, <5>1
      <4> QED BY <4>2, <4>3
    <3> QED BY <3>1, <3>2, <3>3
  <2>7. DOMAIN t = 1..(n - 1)
    BY <1>1, <2>6
  <2>8. IsInjective(t)
    <3> SUFFICES ASSUME NEW i \in 1..(n - 1), NEW j \in 1..(n - 1), t[i] = t[j]
                 PROVE  i = j
      BY <2>7 DEF IsInjective
    <3> DEFINE x(m) == IF m < k THEN m ELSE m + 1
    <3>1. x(i) \in 1..n /\ x(j) \in 1..n /\ s[x(i)] = t[i] /\ s[x(j)] = t[j]
      BY <1>1, <2>3, <2>6
    <3>2. x(i) = x(j)
      BY <1>1, <3>1 DEF IsInjective
    <3> QED BY <1>1, <2>3, <3>2
  <2>9. Range(t) = Range(s) \ {e}
    <3>1. ASSUME NEW i \in 1..(n - 1) PROVE t[i] \in Range(s) \ {e}
      <4> DEFINE x == IF i < k THEN i ELSE i + 1
      <4>1. x \in 1..n /\ t[i] = s[x] /\ x # k
        BY <1>1, <2>3, <2>6
      <4>2. s[x] # e
        BY <1>1, <2>3, <4>1 DEF IsInjective
      <4> QED BY <1>1, <4>1, <4>2 DEF Range
    <3>2. ASSUME NEW j \in 1..n, s[j] # e PROVE s[j] \in Range(t)
      <4> DEFINE i == IF j < k THEN j ELSE j - 1
      <4>1. i \in 1..(n - 1) /\ (IF i < k THEN i ELSE i + 1) = j
        BY <1>1, <2>3, <3>2
      <4>2. t[i] = s[j]
        <5>1. t[i] = IF i < k THEN s[i] ELSE s[i + 1]
          BY <2>6, <4>1
        <5> HIDE DEF i
        <5> QED BY <4>1, <5>1
      <4> QED BY <2>7, <4>1, <4>2 DEF Range
    <3> QED BY <1>1, <2>7, <3>1, <3>2 DEF Range
  <2>10. e \in Range(s)
    BY <1>1, <2>3 DEF Range
  <2> QED BY <2>6, <2>8, <2>9, <2>10 DEF t
<1> QED BY <1>2, <1>3

LEMMA PushIs ==
  ASSUME NEW S, NEW s \in Seq(S), IsInjective(s), NEW e \in S, e \notin Range(s)
  PROVE  /\ <<e>> \o s \in Seq(S) /\ IsInjective(<<e>> \o s)
         /\ Range(<<e>> \o s) = Range(s) \cup {e} /\ Len(<<e>> \o s) = Len(s) + 1
<1> DEFINE t == <<e>> \o s
           n == Len(s)
<1>1. n \in Nat /\ DOMAIN s = 1..n
  OBVIOUS
<1>2. /\ t \in Seq(S) /\ Len(t) = n + 1 /\ DOMAIN t = 1..(n + 1)
      /\ \A i \in 1..(n + 1) : t[i] = IF i = 1 THEN e ELSE s[i - 1]
  BY <1>1
<1> HIDE DEF t
<1>3. \A i \in 1..(n + 1) : i # 1 => i - 1 \in 1..n
  BY <1>1
<1>4. IsInjective(t)
  <2> SUFFICES ASSUME NEW i \in 1..(n + 1), NEW j \in 1..(n + 1), t[i] = t[j]
               PROVE  i = j
    BY <1>2 DEF IsInjective
  <2>1. ASSUME NEW k \in 1..(n + 1), k # 1 PROVE t[k] = s[k - 1] /\ t[k] # e
    BY <1>1, <1>2, <1>3, <2>1 DEF Range
  <2>2. t[1] = e
    <3>1. 1 \in 1..(n + 1)
      BY <1>1
    <3> QED BY <1>2, <3>1
  <2>3. CASE i = 1 \/ j = 1
    BY <2>1, <2>2, <2>3
  <2>4. CASE i # 1 /\ j # 1
    <3>1. s[i - 1] = s[j - 1] /\ i - 1 \in 1..n /\ j - 1 \in 1..n
      BY <1>3, <2>1, <2>4
    <3>2. i - 1 = j - 1
      BY <1>1, <3>1 DEF IsInjective
    <3> QED BY <1>1, <3>2
  <2> QED BY <2>3, <2>4
<1>5. Range(t) = Range(s) \cup {e}
  <2>1. ASSUME NEW j \in 1..n PROVE s[j] \in Range(t)
    <3>1. j + 1 \in 1..(n + 1) /\ j + 1 # 1 /\ (j + 1) - 1 = j
      BY <1>1
    <3> QED BY <1>2, <3>1 DEF Range
  <2>2. e \in Range(t)
    <3>1. 1 \in 1..(n + 1) /\ t[1] = e
      BY <1>1, <1>2
    <3> QED BY <1>2, <3>1 DEF Range
  <2>3. ASSUME NEW i \in 1..(n + 1) PROVE t[i] \in Range(s) \cup {e}
    <3>1. CASE i = 1
      <4>1. t[i] = e
        BY <1>2, <3>1
      <4> QED BY <4>1
    <3>2. CASE i # 1
      <4>1. t[i] = s[i - 1] /\ i - 1 \in 1..n
        BY <1>2, <1>3, <3>2
      <4> QED BY <1>1, <4>1 DEF Range
    <3> QED BY <3>1, <3>2
  <2>4. \A x \in Range(s) : \E j \in 1..n : x = s[j]
    BY <1>1 DEF Range
  <2>5. \A x \in Range(t) : \E j \in 1..(n + 1) : x = t[j]
    BY <1>2 DEF Range
  <2>6. Range(s) \subseteq Range(t)
    BY <2>1, <2>4
  <2>7. Range(t) \subseteq Range(s) \cup {e}
    BY <2>3, <2>5
  <2> QED BY <2>2, <2>6, <2>7
<1> QED BY <1>2, <1>4, <1>5 DEF t

LEMMA ConcatInjective ==
  ASSUME NEW S, NEW s \in Seq(S), NEW t \in Seq(S), IsInjective(s), IsInjective(t),
         Range(s) \cap Range(t) = {}
  PROVE  /\ IsInjective(s \o t) /\ Range(s \o t) = Range(s) \cup Range(t)
         /\ Len(s \o t) = Len(s) + Len(t)
<1> DEFINE u == s \o t
           m == Len(s)
           n == Len(t)
<1>1. m \in Nat /\ n \in Nat /\ DOMAIN s = 1..m /\ DOMAIN t = 1..n
  OBVIOUS
<1>2. /\ Len(u) = m + n /\ DOMAIN u = 1..(m + n)
      /\ \A i \in 1..(m + n) : u[i] = IF i <= m THEN s[i] ELSE t[i - m]
  BY ConcatProperties
<1> HIDE DEF u, m, n
<1>3. \A i \in 1..(m + n) : (i <= m => i \in 1..m) /\ (~(i <= m) => i - m \in 1..n)
  BY <1>1
<1>4. /\ \A i \in 1..m : i \in 1..(m + n) /\ i <= m
      /\ \A i \in 1..n : i + m \in 1..(m + n) /\ ~(i + m <= m) /\ (i + m) - m = i
  BY <1>1
<1>5. /\ \A i \in 1..(m + n) : u[i] \in Range(s) \cup Range(t)
      /\ \A i \in 1..m : s[i] \in Range(s)
      /\ \A i \in 1..n : t[i] \in Range(t)
  BY <1>1, <1>2, <1>3 DEF Range
<1>6. IsInjective(u)
  <2> SUFFICES ASSUME NEW i \in 1..(m + n), NEW j \in 1..(m + n), u[i] = u[j] PROVE i = j
    BY <1>2 DEF IsInjective
  <2>1. CASE i <= m /\ j <= m
    BY <1>1, <1>2, <1>3, <2>1 DEF IsInjective
  <2>2. CASE ~(i <= m) /\ ~(j <= m)
    <3>1. i - m \in 1..n /\ j - m \in 1..n /\ t[i - m] = t[j - m]
      BY <1>2, <1>3, <2>2
    <3>2. i - m = j - m
      BY <1>1, <3>1 DEF IsInjective
    <3> QED BY <1>1, <3>2
  <2>3. CASE i <= m /\ ~(j <= m)
    BY <1>2, <1>3, <1>5, <2>3
  <2>4. CASE ~(i <= m) /\ j <= m
    BY <1>2, <1>3, <1>5, <2>4
  <2> QED BY <2>1, <2>2, <2>3, <2>4
<1>7. Range(u) = Range(s) \cup Range(t)
  <2>1. Range(u) \subseteq Range(s) \cup Range(t)
    BY <1>2, <1>5 DEF Range
  <2>2. ASSUME NEW e \in Range(s) PROVE e \in Range(u)
    <3>1. PICK i \in 1..m : s[i] = e
      BY <1>1 DEF Range
    <3>2. i \in DOMAIN u /\ u[i] = e
      BY <1>2, <1>4, <3>1
    <3> QED BY <3>2 DEF Range
  <2>3. ASSUME NEW e \in Range(t) PROVE e \in Range(u)
    <3>1. PICK i \in 1..n : t[i] = e
      BY <1>1 DEF Range
    <3>2. i + m \in DOMAIN u /\ u[i + m] = e
      BY <1>2, <1>4, <3>1
    <3> QED BY <3>2 DEF Range
  <2> QED BY <2>1, <2>2, <2>3
<1> QED BY <1>2, <1>6, <1>7 DEF u, m, n

\* A context is in one list when it is ready, and then it is taken out of it.
LEMMA UnlinkedIs ==
  ASSUME Linked, NEW r \in Alive
  PROVE  LET u == Unlinked(r)
         IN  /\ u.running \in Seq(Reqs) /\ u.ready \in Seq(Reqs)
             /\ IsInjective(u.running) /\ IsInjective(u.ready)
             /\ Range(u.running) \cap Range(u.ready) = {}
             /\ Range(u.running) \cup Range(u.ready) = ReadyCtx \ {r}
             /\ u.len = Len(u.running) + Len(u.ready)
<1> DEFINE a == RemoveFirst(running, r)
           b == RemoveFirst(list_ready, r)
           u == Unlinked(r)
<1>1. CASE ctx[r].status # "READY"
  <2>1. u.running = running /\ u.ready = list_ready /\ u.len = ready_len
    BY <1>1 DEF Unlinked
  <2>2. r \notin ReadyCtx
    BY <1>1 DEF ReadyCtx
  <2> HIDE DEF u
  <2> QED BY <2>1, <2>2 DEF Linked, u
<1>2. CASE ctx[r].status = "READY"
  <2>1. /\ a \in Seq(Reqs) /\ IsInjective(a) /\ Range(a) = Range(running) \ {r}
        /\ Len(a) = Len(running) - (IF r \in Range(running) THEN 1 ELSE 0)
    BY RemoveFirstIs DEF Linked
  <2>2. /\ b \in Seq(Reqs) /\ IsInjective(b) /\ Range(b) = Range(list_ready) \ {r}
        /\ Len(b) = Len(list_ready) - (IF r \in Range(list_ready) THEN 1 ELSE 0)
    BY RemoveFirstIs DEF Linked
  <2>3. u.running = a /\ u.ready = b /\ u.len = ready_len - 1
    BY <1>2 DEF Unlinked
  <2>4. r \in ReadyCtx
    BY <1>2 DEF ReadyCtx
  <2> HIDE DEF a, b, u
  <2>5. u.len = Len(a) + Len(b)
    <3>1. (r \in Range(running)) # (r \in Range(list_ready))
      BY <2>4 DEF Linked
    <3>2. Len(running) \in Nat /\ Len(list_ready) \in Nat
          /\ ready_len = Len(running) + Len(list_ready)
      BY DEF Linked
    <3> DEFINE x == Len(running)
               y == Len(list_ready)
               p == Len(a)
               q == Len(b)
    <3>3. /\ p + q = (x + y) - 1 /\ u.len = (x + y) - 1
      <4>1. CASE r \in Range(running)
        <5>1. p = x - 1 /\ q = y - 0
          BY <2>1, <2>2, <3>1, <4>1
        <5> HIDE DEF p, q, x, y
        <5> QED BY <2>3, <3>2, <5>1 DEF x, y
      <4>2. CASE r \notin Range(running)
        <5>1. p = x - 0 /\ q = y - 1
          BY <2>1, <2>2, <3>1, <4>2
        <5> HIDE DEF p, q, x, y
        <5> QED BY <2>3, <3>2, <5>1 DEF x, y
      <4> QED BY <4>1, <4>2
    <3> QED BY <3>3
  <2> QED BY <2>1, <2>2, <2>3, <2>5 DEF Linked, u
<1> QED BY <1>1, <1>2

-----------------------------------------------------------------------------
(* The pools.                                                              *)

LEMMA EmptyBuffer == <<>> \in Buffer
BY EmptySeq, ParseAssumption DEF Buffer, Bytes

LEMMA BufsAre ==
  ASSUME NEW c \in Contexts
  PROVE  BufsOf(c) \in Nat
<1>1. c.write \in Nat /\ Len(c.read) \in Nat
  BY Sizes DEF Contexts
<1> QED BY <1>1 DEF BufsOf

LEMMA HeldChanges ==
  ASSUME NEW cs \in [Reqs -> Contexts], NEW r \in Reqs, NEW c \in Contexts
  PROVE  /\ HeldOf(cs) \in Int
         /\ HeldOf([cs EXCEPT ![r] = c]) = HeldOf(cs) + BufsOf(c) - BufsOf(cs[r])
<1> DEFINE ds == [cs EXCEPT ![r] = c]
           f  == [q \in Reqs |-> BufsOf(cs[q])]
           g  == [q \in Reqs |-> BufsOf(ds[q])]
<1>1. Requests \in Nat /\ Reqs = 1..Requests
  BY Sizes
<1>2. ds \in [Reqs -> Contexts] /\ ds[r] = c /\ \A q \in Reqs : q # r => ds[q] = cs[q]
  OBVIOUS
<1> HIDE DEF ds
<1>3. \A q \in Reqs : f[q] \in Int /\ g[q] \in Int
  BY <1>2, BufsAre
<1>4. f[r] = BufsOf(cs[r]) /\ g[r] = BufsOf(c) /\ \A q \in Reqs : q # r => g[q] = f[q]
  BY <1>2
<1> HIDE DEF f, g
<1>5. Total(f, Requests) \in Int
  BY <1>1, <1>3, TotalType
<1>6. Total(g, Requests) = Total(f, Requests) + g[r] - f[r]
  BY <1>1, <1>3, <1>4, TotalChanges
<1>7. HeldOf(cs) = Total(f, Requests) /\ HeldOf(ds) = Total(g, Requests)
  BY Zenon DEF HeldOf, f, g
<1> QED BY <1>4, <1>5, <1>6, <1>7 DEF ds

LEMMA HeldType ==
  ASSUME ContextsOK PROVE HeldOf(ctx) \in Int
<1> DEFINE f == [r \in Reqs |-> BufsOf(ctx[r])]
<1>1. Requests \in Nat /\ Reqs = 1..Requests
  BY Sizes
<1>2. \A r \in Reqs : BufsOf(ctx[r]) \in Nat
  BY BufsAre DEF ContextsOK
<1>3. \A r \in 1..Requests : f[r] \in Int
  BY <1>1, <1>2
<1> HIDE DEF f
<1>4. Total(f, Requests) \in Int
  BY <1>1, <1>3, TotalType
<1> QED BY <1>4 DEF HeldOf, f

LEMMA AliveFinite == IsFiniteSet(Alive) /\ Cardinality(Alive) \in Nat
<1>1. IsFiniteSet(Reqs)
  BY Sizes, FS_Interval
<1>2. Alive \in SUBSET Reqs
  BY DEF Alive
<1>3. IsFiniteSet(Alive)
  BY <1>1, <1>2, FS_Subset
<1> QED BY <1>3, FS_CardinalityType

-----------------------------------------------------------------------------
(* What a context sends to the server: its answer, at one time.            *)

\* One error, or a header with its pieces.
Answer(r, q) ==
    /\ q \in Seq(Pieces) /\ q # <<>> /\ q[1].what # "data"
    /\ \A i \in 1..Len(q) : q[i].seq = r /\ (i # 1 => q[i].what = "data")
    /\ q[1].what = "header" =>
         HEADER_LEN + Total([k \in 1..(Len(q) - 1) |-> q[1 + k].len], Len(q) - 1) = q[1].len

LEMMA AnswerAdded ==
  ASSUME NEW q \in Seq(Pieces), AllWhole(q), NEW r, NEW b, Answer(r, b),
         \A i \in 1..Len(q) : q[i].seq # r
  PROVE  AllWhole(q \o b)
<1> DEFINE n == Len(q)
           m == Len(b)
           s == q \o b
<1>1. n \in Nat /\ m \in Nat /\ m >= 1 /\ b \in Seq(Pieces)
  BY DEF Answer
<1>2. /\ Len(s) = n + m
      /\ \A i \in 1..n : s[i] = q[i]
      /\ \A j \in 1..m : s[n + j] = b[j]
  BY <1>1
<1>3. /\ \A i \in 1..n : i \in 1..(n + m)
      /\ \A i \in 1..(n + m) : i \in 1..n \/ (i > n /\ i - n \in 1..m /\ n + (i - n) = i)
  BY <1>1
<1>4. /\ b[1].what # "data" /\ \A j \in 1..m : b[j].seq = r /\ (j # 1 => b[j].what = "data")
      /\ b[1].what = "header" =>
           HEADER_LEN + Total([k \in 1..(m - 1) |-> b[1 + k].len], m - 1) = b[1].len
  BY DEF Answer
<1>5. /\ \A i \in 1..n : q[i].what = "header" => HeadsBlock(q, i)
      /\ \A i, k \in 1..n :
            q[i].what # "data" /\ q[k].what # "data" /\ q[i].seq = q[k].seq => i = k
  BY DEF AllWhole
<1> HIDE DEF n, m, s
<1>6. ASSUME NEW i \in 1..(n + m), s[i].what = "header" PROVE HeadsBlock(s, i)
  <2>1. CASE i \in 1..n
    <3>1. HeadsBlock(q, i) /\ s[i] = q[i]
      BY <1>2, <1>5, <1>6, <2>1
    <3>2. PICK c \in 0..(n - i) :
            /\ \A k \in 1..c : q[i + k].what = "data" /\ q[i + k].seq = q[i].seq
            /\ HEADER_LEN + Total([k \in 1..c |-> q[i + k].len], c) = q[i].len
            /\ (i + c < n => q[i + c + 1].what # "data")
      BY <3>1 DEF HeadsBlock, n
    <3>3. \A k \in 1..c : i + k \in 1..n
      BY <1>1, <2>1
    <3>4. [k \in 1..c |-> s[i + k].len] = [k \in 1..c |-> q[i + k].len]
      BY <1>2, <3>3
    <3>5. ASSUME i + c < n + m PROVE s[i + c + 1].what # "data"
      <4>1. CASE i + c < n
        <5>1. i + c + 1 \in 1..n
          BY <1>1, <2>1, <4>1
        <5> QED BY <1>2, <3>2, <4>1, <5>1
      <4>2. CASE ~(i + c < n)
        <5>1. i + c + 1 = n + 1 /\ 1 \in 1..m
          BY <1>1, <2>1, <4>2
        <5>2. s[n + 1] = b[1]
          BY <1>2, <5>1
        <5> QED BY <1>4, <5>1, <5>2
      <4> QED BY <4>1, <4>2
    <3>6. c \in 0..(Len(s) - i)
      BY <1>1, <1>2, <2>1
    <3>7. \A k \in 1..c : s[i + k].what = "data" /\ s[i + k].seq = s[i].seq
      BY <1>2, <3>1, <3>2, <3>3
    <3>8. HEADER_LEN + Total([k \in 1..c |-> s[i + k].len], c) = s[i].len
      BY <3>1, <3>2, <3>4
    <3>9. i + c < Len(s) => s[i + c + 1].what # "data"
      BY <1>2, <3>5
    <3> QED BY <3>6, <3>7, <3>8, <3>9, Zenon DEF HeadsBlock
  <2>2. CASE i > n
    <3>1. i - n \in 1..m /\ s[i] = b[i - n]
      BY <1>1, <1>2, <1>3, <2>2
    <3>2. i = n + 1 /\ s[i] = b[1]
      <4>1. i - n = 1
        BY <1>4, <1>6, <3>1
      <4> QED BY <1>1, <3>1, <4>1
    <3> DEFINE c == m - 1
    <3>3. c \in 0..(Len(s) - i) /\ ~(i + c < Len(s))
      BY <1>1, <1>2, <3>2
    <3>4. \A k \in 1..c : 1 + k \in 1..m /\ 1 + k # 1 /\ n + (1 + k) = i + k
      BY <1>1, <3>2
    <3>5. \A k \in 1..c : s[i + k] = b[1 + k]
      BY <1>2, <3>4
    <3>6. 1 \in 1..m
      BY <1>1
    <3>7. \A k \in 1..c : s[i + k].what = "data" /\ s[i + k].seq = s[i].seq
      BY <1>4, <3>2, <3>4, <3>5, <3>6
    <3>8. [k \in 1..c |-> s[i + k].len] = [k \in 1..c |-> b[1 + k].len]
      BY <3>5
    <3>9. HEADER_LEN + Total([k \in 1..c |-> s[i + k].len], c) = s[i].len
      BY <1>4, <1>6, <3>2, <3>8
    <3> HIDE DEF c
    <3> QED BY <3>3, <3>7, <3>9, Zenon DEF HeadsBlock
  <2> QED BY <1>3, <2>1, <2>2
<1>7. ASSUME NEW i \in 1..(n + m), NEW k \in 1..(n + m),
             s[i].what # "data", s[k].what # "data", s[i].seq = s[k].seq
      PROVE  i = k
  <2>1. ASSUME NEW j \in 1..(n + m), s[j].what # "data", j > n
        PROVE  j = n + 1 /\ s[j].seq = r
    <3>1. j - n \in 1..m /\ s[j] = b[j - n]
      BY <1>1, <1>2, <1>3, <2>1
    <3>2. j - n = 1
      BY <1>4, <2>1, <3>1
    <3> QED BY <1>1, <1>4, <3>1, <3>2
  <2>2. ASSUME NEW j \in 1..n PROVE s[j].seq # r
    BY <1>2 DEF n
  <2>3. CASE i \in 1..n /\ k \in 1..n
    BY <1>2, <1>5, <1>7, <2>3
  <2>4. CASE i > n \/ k > n
    <3>1. i > n /\ k > n
      BY <1>3, <1>7, <2>1, <2>2, <2>4
    <3> QED BY <1>7, <2>1, <3>1
  <2> QED BY <1>3, <2>3, <2>4
<1> QED BY <1>2, <1>6, <1>7 DEF AllWhole, s

\* The pieces of a response are as long as what they hold.
LEMMA TotalFlatten ==
  ASSUME NEW bufs \in Seq(Bytes)
  PROVE  Total([k \in 1..Len(bufs) |-> Len(bufs[k])], Len(bufs)) = Len(FlattenSeq(bufs))
<1> DEFINE F(s) == [k \in 1..Len(s) |-> Len(s[k])]
           T == {s \in Seq(Bytes) : Total(F(s), Len(s)) = Len(FlattenSeq(s))}
<1>1. <<>> \in T
  <2>1. Total(F(<<>>), 0) = 0
    BY TotalNone
  <2>2. Len(<<>>) = 0 /\ <<>> \in Seq(Bytes)
    OBVIOUS
  <2> HIDE DEF F
  <2> QED BY <2>1, <2>2, FlattenEmpty
<1>2. ASSUME NEW s \in Seq(Bytes), NEW e \in Bytes, s \in T
      PROVE  Append(s, e) \in T
  <2> DEFINE t == Append(s, e)
             n == Len(s)
             f == F(s)
             g == F(t)
  <2>1. n \in Nat /\ t \in Seq(Bytes) /\ Len(t) = n + 1 /\ t[n + 1] = e
        /\ \A k \in 1..n : t[k] = s[k]
    BY AppendProperties
  <2>2. Len(e) \in Nat /\ \A k \in 1..n : Len(s[k]) \in Nat
    <3>1. \A k \in 1..n : s[k] \in Bytes
      OBVIOUS
    <3> QED BY <3>1 DEF Bytes
  <2>3. /\ \A k \in 1..n : g[k] = f[k] /\ f[k] \in Int
        /\ g[n + 1] = Len(e)
    <3>1. \A k \in 1..n : f[k] = Len(s[k])
      OBVIOUS
    <3>2. \A k \in 1..(n + 1) : g[k] = Len(t[k])
      BY <2>1
    <3>3. n + 1 \in 1..(n + 1) /\ \A k \in 1..n : k \in 1..(n + 1)
      BY <2>1
    <3> HIDE DEF f, g, t, n
    <3> QED BY <2>1, <2>2, <3>1, <3>2, <3>3
  <2>4. FlattenSeq(t) = FlattenSeq(s) \o e
    BY FlattenAppend DEF Bytes
  <2>5. Total(f, n) = Len(FlattenSeq(s))
    BY <1>2
  <2>6. Len(FlattenSeq(s) \o e) = Len(FlattenSeq(s)) + Len(e)
    <3> DEFINE x == FlattenSeq(s)
    <3>1. x \in Seq(Int)
      BY FlattenLen DEF Bytes
    <3> HIDE DEF x
    <3>2. Len(x \o e) = Len(x) + Len(e)
      BY <3>1, ConcatProperties DEF Bytes
    <3> QED BY <3>2 DEF x
  <2> HIDE DEF f, g, t, n
  <2>7. \A k \in 1..(n + 1) : g[k] \in Int
    <3>1. \A k \in 1..(n + 1) : k \in 1..n \/ k = n + 1
      BY <2>1
    <3> QED BY <2>2, <2>3, <3>1
  <2>8. Total(g, n + 1) = Total(g, n) + g[n + 1]
    BY <2>1, <2>7, TotalNext
  <2>9. Total(g, n) = Total(f, n)
    BY <2>1, <2>3, TotalSame
  <2>10. Total(g, Len(t)) = Len(FlattenSeq(t))
    BY <2>1, <2>3, <2>4, <2>5, <2>6, <2>8, <2>9
  <2> QED BY <2>1, <2>10 DEF g, t
<1>3. Seq(Bytes) \subseteq T
  BY <1>1, <1>2, AllSeq
<1>4. bufs \in T
  BY <1>3
<1> QED BY <1>4

LEMMA ErrorAnswers ==
  ASSUME NEW r \in Reqs
  PROVE  Answer(r, <<Error(r)>>) /\ Len(<<Error(r)>>) = 1
<1> DEFINE e == Error(r)
<1>1. e \in Pieces /\ e.seq = r /\ e.what = "404"
  BY EmptySeq DEF Error, Pieces, Bytes
<1> HIDE DEF e
<1>2. <<e>> \in Seq(Pieces) /\ Len(<<e>>) = 1 /\ <<e>>[1] = e /\ <<e>> # <<>>
  BY <1>1
<1>3. Answer(r, <<e>>)
  BY <1>1, <1>2 DEF Answer
<1> QED BY <1>2, <1>3 DEF e

LEMMA ResponseAnswers ==
  ASSUME NEW r \in Reqs, NEW p, Outcome(p), p.rc = 0
  PROVE  Answer(r, ResponseFrame(r, p))
<1> DEFINE m == Len(p.bufs)
           h == Header(r, p.len)
           d == [i \in 1..m |-> Piece(r, p.bufs[i])]
           q == ResponseFrame(r, p)
<1>1. /\ p.bufs \in Seq(Bytes) /\ p.len \in Nat /\ m \in Nat
      /\ p.len = Len(FlattenSeq(p.bufs))
      /\ \A i \in 1..m : p.bufs[i] \in Bytes /\ Len(p.bufs[i]) \in Nat
  <2>1. p.bufs \in Seq(Bytes) /\ p.len \in Nat /\ p.len = Len(FlattenSeq(p.bufs))
    BY DEF Outcome
  <2>2. \A i \in 1..m : p.bufs[i] \in Bytes
    BY <2>1
  <2> QED BY <2>1, <2>2 DEF Bytes
<1>2. h \in Pieces /\ h.seq = r /\ h.what = "header" /\ h.len = HEADER_LEN + p.len
  BY <1>1, EmptySeq DEF Header, Pieces, Bytes, HEADER_LEN
<1>3. \A i \in 1..m : /\ d[i] \in Pieces /\ d[i].seq = r /\ d[i].what = "data"
                      /\ d[i].len = Len(p.bufs[i])
  BY <1>1 DEF Piece, Pieces
<1>4. d \in Seq(Pieces) /\ Len(d) = m
  <2>1. d = [i \in 1..m |-> d[i]]
    OBVIOUS
  <2> HIDE DEF d, m
  <2> QED BY <1>1, <1>3, <2>1
<1>5. q = <<h>> \o d
  BY DEF ResponseFrame
<1> HIDE DEF h, d, q, m
<1>6. /\ q \in Seq(Pieces) /\ Len(q) = m + 1 /\ q[1] = h
      /\ \A i \in 1..(m + 1) : i # 1 => q[i] = d[i - 1]
  BY <1>1, <1>2, <1>4, <1>5
<1>7. \A i \in 1..(m + 1) : i # 1 => i - 1 \in 1..m
  BY <1>1
<1>8. \A i \in 1..Len(q) : q[i].seq = r /\ (i # 1 => q[i].what = "data")
  BY <1>2, <1>3, <1>6, <1>7
<1>9. [k \in 1..(Len(q) - 1) |-> q[1 + k].len] = [k \in 1..m |-> Len(p.bufs[k])]
  <2>1. Len(q) - 1 = m
    BY <1>1, <1>6
  <2>2. \A k \in 1..m : 1 + k \in 1..(m + 1) /\ 1 + k # 1 /\ (1 + k) - 1 = k
    BY <1>1
  <2>3. \A k \in 1..m : q[1 + k] = d[k]
    BY <1>6, <2>2
  <2>4. \A k \in 1..m : q[1 + k].len = Len(p.bufs[k])
    BY <1>3, <2>3
  <2> QED BY <2>1, <2>4
<1>10. HEADER_LEN + Total([k \in 1..(Len(q) - 1) |-> q[1 + k].len], Len(q) - 1) = q[1].len
  <2>1. Len(q) - 1 = m
    BY <1>1, <1>6
  <2>2. Total([k \in 1..m |-> Len(p.bufs[k])], m) = p.len
    BY <1>1, TotalFlatten DEF m
  <2> QED BY <1>2, <1>6, <1>9, <2>1, <2>2
<1>11. q # <<>>
  BY <1>1, <1>6
<1>12. Answer(r, q)
  BY <1>2, <1>6, <1>8, <1>10, <1>11, Zenon DEF Answer
<1> QED BY <1>12 DEF q

-----------------------------------------------------------------------------
(* What a handler does with its context.                                   *)

LEMMA OneChanges ==
  ASSUME Rest, NEW r \in Reqs, NEW c \in Contexts, ctx' = [ctx EXCEPT ![r] = c]
  PROVE  /\ ctx' \in [Reqs -> Contexts] /\ ctx'[r] = c
         /\ \A q \in Reqs \ {r} : ctx'[q] = ctx[q]
         /\ HeldOf(ctx') = HeldOf(ctx) + BufsOf(c) - BufsOf(ctx[r])
         /\ HeldOf(ctx) \in Int /\ BufsOf(c) \in Nat /\ BufsOf(ctx[r]) \in Nat
<1>1. ctx \in [Reqs -> Contexts]
  BY DEF Rest, ContextsOK
<1>2. /\ HeldOf(ctx) \in Int
      /\ HeldOf([ctx EXCEPT ![r] = c]) = HeldOf(ctx) + BufsOf(c) - BufsOf(ctx[r])
  BY <1>1, HeldChanges
<1>3. BufsOf(c) \in Nat /\ BufsOf(ctx[r]) \in Nat
  BY <1>1, BufsAre
<1> QED BY <1>1, <1>2, <1>3

\* The context is linked in a ready list again, or waits for its slot.
LEMMA ContinuesIs ==
  ASSUME Rest, NEW r \in Alive, NEW c, Continues(r, c), ReadyCtx' = ReadyCtx \cup {r}
  PROVE  Linked' /\ ctx' = [ctx EXCEPT ![r] = c] /\ Goes(r, revents)
<1> DEFINE u == Unlinked(r)
           l == <<r>> \o u.ready
<1>1. /\ u.running \in Seq(Reqs) /\ u.ready \in Seq(Reqs)
      /\ IsInjective(u.running) /\ IsInjective(u.ready)
      /\ Range(u.running) \cap Range(u.ready) = {}
      /\ Range(u.running) \cup Range(u.ready) = ReadyCtx \ {r}
      /\ u.len = Len(u.running) + Len(u.ready)
  BY UnlinkedIs DEF Rest
<1>2. running' = u.running /\ list_ready' = l /\ ready_len' = u.len + 1
  <2>1. SetLists([u EXCEPT !.ready = <<r>> \o @, !.len = @ + 1])
    BY DEF Continues
  <2>2. DOMAIN u = {"running", "ready", "len"}
    BY DEF Unlinked
  <2> HIDE DEF u
  <2> QED BY <2>1, <2>2 DEF SetLists
<1>3. r \in Reqs /\ r \notin Range(u.ready)
  BY <1>1 DEF Alive
<1> HIDE DEF u
<1>4. l \in Seq(Reqs) /\ IsInjective(l) /\ Range(l) = Range(u.ready) \cup {r}
      /\ Len(l) = Len(u.ready) + 1
  BY <1>1, <1>3, PushIs
<1> HIDE DEF l
<1>5. ready_len' = Len(u.running) + Len(l)
  <2> DEFINE x == Len(u.running)
             y == Len(u.ready)
             z == Len(l)
  <2>1. ready_len' = x + y + 1 /\ z = y + 1 /\ x \in Nat /\ y \in Nat
    BY <1>1, <1>2, <1>4
  <2> HIDE DEF x, y, z
  <2>2. ready_len' = x + z
    BY <2>1
  <2> QED BY <2>2 DEF x, z
<1>6. Range(u.running) \cap Range(l) = {} /\ Range(u.running) \cup Range(l) = ReadyCtx'
  BY <1>1, <1>4
<1>7. Linked'
  BY <1>1, <1>2, <1>4, <1>5, <1>6 DEF Linked
<1> QED BY <1>7 DEF Continues

LEMMA UnlinkedLinked ==
  ASSUME Rest, NEW r \in Alive, SetLists(Unlinked(r)), ReadyCtx' = ReadyCtx \ {r}
  PROVE  Linked'
<1> DEFINE u == Unlinked(r)
<1>1. /\ u.running \in Seq(Reqs) /\ u.ready \in Seq(Reqs)
      /\ IsInjective(u.running) /\ IsInjective(u.ready)
      /\ Range(u.running) \cap Range(u.ready) = {}
      /\ Range(u.running) \cup Range(u.ready) = ReadyCtx \ {r}
      /\ u.len = Len(u.running) + Len(u.ready)
  BY UnlinkedIs DEF Rest
<1>2. running' = u.running /\ list_ready' = u.ready /\ ready_len' = u.len
  BY DEF SetLists
<1> HIDE DEF u
<1> QED BY <1>1, <1>2 DEF Linked

\* A handler that keeps its context r.
LEMMA HandlerKeeps ==
  ASSUME PTP!IndInv, TableOK', Rest, [PT!Next]_(PT!vars),
         NEW r \in Alive, FromRun(r) \/ FromSlot(r),
         NEW c \in Contexts, c.alive, c.fd = ctx[r].fd, NEW k \in Hosts,
         \/ c.status = "READY" /\ Continues(r, c)
         \/ c.status = "PENDING" /\ c.func # "connect" /\ SetLists(Unlinked(r))
            /\ ctx' = [ctx EXCEPT ![r] = c] /\ Goes(r, revents),
         kind' = kind, host' = [host EXCEPT ![r] = k],
         buf_caches' = buf_caches + BufsOf(ctx[r]) - BufsOf(c),
         UNCHANGED <<wire, ctx_caches, leaked, intact>>
  PROVE  Rest'
<1>1. /\ r \in Reqs /\ ctx[r].alive /\ ContextsOK /\ Owners /\ Linked /\ Accounts /\ Sent
      /\ Loop /\ ScanOK
  BY DEF Alive, Rest
<1>2. UNCHANGED <<toserver, server, asked, taken, prepared, faults>>
  BY DEF wire
<1>3. ctx' = [ctx EXCEPT ![r] = c] /\ Goes(r, revents)
  BY DEF Continues
<1>4. /\ ctx' \in [Reqs -> Contexts] /\ ctx'[r] = c
      /\ \A q \in Reqs \ {r} : ctx'[q] = ctx[q]
      /\ HeldOf(ctx') = HeldOf(ctx) + BufsOf(c) - BufsOf(ctx[r])
      /\ HeldOf(ctx) \in Int /\ BufsOf(c) \in Nat /\ BufsOf(ctx[r]) \in Nat
  BY <1>1, <1>3, OneChanges
<1>5. Alive' = Alive
  BY <1>1, <1>4 DEF Alive
<1>6. \A q \in Reqs : ctx'[q].alive = ctx[q].alive /\ ctx'[q].fd = ctx[q].fd
  BY <1>1, <1>4 DEF ContextsOK, Contexts
<1>7. ContextsOK'
  <2>1. buf_caches' \in Int
    BY <1>1, <1>4 DEF ContextsOK
  <2>2. host' \in [Reqs -> Hosts]
    BY <1>1 DEF ContextsOK
  <2> QED BY <1>1, <1>2, <1>4, <2>1, <2>2 DEF ContextsOK
<1>8. ScanOK' /\ Loop'
  <2>1. revents \in [PT!Slot -> SUBSET Flags]
    BY <1>1 DEF ScanOK
  <2>2. kind'[Websocket] = "WEBSOCKET"
    BY <1>1 DEF FromRun, FromSlot, Loop, InSlot1
  <2> QED BY <1>2, <1>3, <2>1, <2>2, GoesOn DEF FromSlot
<1>9. Owners'
  <2>1. \A q \in Reqs : ~ctx'[q].alive => ctx'[q] = NoContext
    BY <1>1, <1>4, <1>6 DEF Owners
  <2>2. \A q \in Alive : /\ q <= taken /\ ctx'[q].fd \in PT!Fd /\ kind[ctx'[q].fd] = "HTTP"
                         /\ ctx'[q].func = "connect" => ctx'[q].status = "READY"
    BY <1>1, <1>4, <1>6 DEF Owners, Alive
  <2>3. \A p, q \in Alive : ctx'[p].fd = ctx'[q].fd => p = q
    BY <1>1, <1>6 DEF Owners, Alive
  <2>4. \A fd \in PT!Fd : kind[fd] = "HTTP" => \E q \in Alive : ctx'[q].fd = fd
    BY <1>1, <1>6 DEF Owners, Alive
  <2> QED BY <1>1, <1>2, <1>5, <2>1, <2>2, <2>3, <2>4 DEF Owners
<1>10. Linked'
  <2>1. CASE c.status = "READY" /\ Continues(r, c)
    <3>1. ReadyCtx' = ReadyCtx \cup {r}
      BY <1>1, <1>4, <1>5, <2>1 DEF ReadyCtx, Alive
    <3> QED BY <2>1, <3>1, ContinuesIs
  <2>2. CASE c.status = "PENDING" /\ SetLists(Unlinked(r))
    <3>1. ReadyCtx' = ReadyCtx \ {r}
      BY <1>1, <1>4, <1>5, <2>2 DEF ReadyCtx, Alive
    <3> QED BY <2>2, <3>1, UnlinkedLinked
  <2> QED BY <2>1, <2>2
<1>11. Accounts'
  <2> DEFINE a == BufsOf(c)
             b == BufsOf(ctx[r])
             h == HeldOf(ctx)
             x == Len(toserver)
  <2>1. /\ a \in Nat /\ b \in Nat /\ h \in Int /\ HeldOf(ctx') = h + a - b
        /\ buf_caches' = buf_caches + b - a
    BY <1>4
  <2>2. x \in Nat /\ prepared \in Nat /\ buf_caches \in Int
    BY <1>1 DEF ContextsOK
  <2>3. buf_caches + prepared + x + h = NumBufs
    BY <1>1 DEF Accounts
  <2> HIDE DEF a, b, h, x
  <2>4. buf_caches' + prepared + x + HeldOf(ctx') = NumBufs
    BY <2>1, <2>2, <2>3
  <2>5. buf_caches' + prepared' + Len(toserver') + HeldOf(ctx') = NumBufs
    BY <1>2, <2>4 DEF x
  <2> QED BY <1>1, <1>2, <1>5, <2>5 DEF Accounts
<1>12. Sent'
  <2>1. Frames' = Frames
    BY <1>2 DEF Frames
  <2>2. \A i \in 1..Len(Frames) : Frames[i].seq \in Reqs
    <3>1. Frames \in Seq(Pieces)
      BY <1>1, ConcatProperties DEF ContextsOK, Frames
    <3>2. \A i \in 1..Len(Frames) : Frames[i] \in Pieces
      BY <3>1
    <3> QED BY <3>2 DEF Pieces
  <2> HIDE DEF Frames
  <2> QED BY <1>1, <1>2, <1>6, <2>1, <2>2 DEF Sent
<1> QED BY <1>7, <1>8, <1>9, <1>10, <1>11, <1>12 DEF Rest

\* A handler that releases it, and perhaps sent its answer before.
LEMMA HandlerReleases ==
  ASSUME TableOK, Rest, NEW r \in Alive, NEW queued, NEW writing, NEW owed,
         queued = <<>> \/ Answer(r, queued), writing \in BOOLEAN, owed \in BOOLEAN,
         http_context_release(r, queued, writing, owed), ScanOK', Loop'
  PROVE  Rest'
<1>1. /\ r \in Reqs /\ ctx[r].alive /\ ContextsOK /\ Owners /\ Linked /\ Accounts /\ Sent
  BY DEF Alive, Rest
<1> DEFINE fd == ctx[r].fd
           k == [host[r] EXCEPT !.st = "closed", !.left = <<>>, !.rx = <<>>,
                                !.whole = @ /\ owed]
<1>2. /\ SetLists(Unlinked(r)) /\ ctx' = [ctx EXCEPT ![r] = NoContext]
      /\ ctx_caches' = ctx_caches + 1
      /\ buf_caches' = buf_caches + BufsOf(ctx[r]) - Len(queued)
      /\ toserver' = toserver \o queued
      /\ host' = [host EXCEPT ![r] = k] /\ intact' = ~writing
      /\ UNCHANGED <<leaked, server, asked, taken, prepared, faults>>
      /\ kind' = [kind EXCEPT ![fd] = "NONE"]
  <2>1. host' = [host EXCEPT ![r] = k]
    <3>1. host' = [host EXCEPT ![r].st = "closed", ![r].left = <<>>, ![r].rx = <<>>,
                               ![r].whole = @ /\ owed]
      BY DEF http_context_release
    <3>2. host \in [Reqs -> Hosts]
      BY <1>1 DEF ContextsOK
    <3> QED BY <1>1, <3>1, <3>2
  <2> HIDE DEF k
  <2> QED BY <2>1 DEF http_context_release, PT!ContextRelease
<1>3. NoContext \in Contexts /\ ~NoContext.alive /\ BufsOf(NoContext) = 0
  BY Sizes, EmptySeq, EmptyBuffer DEF NoContext, Contexts, BufsOf, Bytes
<1>4. /\ ctx' \in [Reqs -> Contexts] /\ ctx'[r] = NoContext
      /\ \A q \in Reqs \ {r} : ctx'[q] = ctx[q]
      /\ HeldOf(ctx') = HeldOf(ctx) + BufsOf(NoContext) - BufsOf(ctx[r])
      /\ HeldOf(ctx) \in Int /\ BufsOf(ctx[r]) \in Nat
  BY <1>1, <1>2, <1>3, OneChanges
<1>5. Alive' = Alive \ {r}
  BY <1>1, <1>3, <1>4 DEF Alive
<1>6. queued \in Seq(Pieces) /\ Len(queued) \in Nat
  <2>1. queued = <<>> => queued \in Seq(Pieces)
    OBVIOUS
  <2> QED BY <2>1 DEF Answer
<1>7. ContextsOK'
  <2>1. buf_caches' \in Int /\ ctx_caches' \in Nat
    <3> DEFINE b == BufsOf(ctx[r])
               y == Len(queued)
    <3>1. buf_caches \in Int /\ ctx_caches \in Nat
      BY <1>1 DEF ContextsOK
    <3>2. b \in Nat /\ y \in Nat
      BY <1>4, <1>6
    <3>3. buf_caches' = buf_caches + b - y /\ ctx_caches' = ctx_caches + 1
      BY <1>2
    <3> HIDE DEF b, y
    <3> QED BY <3>1, <3>2, <3>3
  <2>2. k \in Hosts
    <3>1. host[r] \in Hosts
      BY <1>1 DEF ContextsOK
    <3>2. host[r].whole \in BOOLEAN /\ <<>> \in Bytes
      BY <3>1, EmptySeq DEF Hosts, Bytes
    <3> DEFINE w == host[r].whole /\ owed
    <3>3. w \in BOOLEAN
      BY <3>2
    <3>4. k = [host[r] EXCEPT !.st = "closed", !.left = <<>>, !.rx = <<>>, !.whole = w]
      OBVIOUS
    <3> HIDE DEF w, k
    <3> QED BY <3>1, <3>2, <3>3, <3>4 DEF Hosts
  <2> HIDE DEF k
  <2>3. host' \in [Reqs -> Hosts]
    BY <1>1, <1>2, <2>2 DEF ContextsOK
  <2>4. toserver' \in Seq(Pieces)
    BY <1>1, <1>2, <1>6, ConcatProperties DEF ContextsOK
  <2> QED BY <1>1, <1>2, <1>4, <2>1, <2>3, <2>4 DEF ContextsOK
<1>8. Owners'
  <2>1. fd \in PT!Fd /\ kind[fd] = "HTTP" /\ kind \in [PT!Fd -> PT!Kind]
    BY <1>1 DEF Owners, TableOK, PT!TypeOK
  <2>2. Websocket \in PT!Fd /\ Websocket # fd
    BY <1>1, <2>1, Sizes DEF Owners
  <2>3. /\ \A f \in PT!Fd \ {Listener, Websocket} : kind'[f] \in {"NONE", "HTTP"}
        /\ kind'[Websocket] \in {"NONE", "WEBSOCKET"}
    BY <1>1, <1>2, <2>1, <2>2 DEF Owners
  <2>4. \A q \in Reqs : ~ctx'[q].alive => ctx'[q] = NoContext
    BY <1>1, <1>4 DEF Owners
  <2>5. \A q \in Alive \ {r} : ctx[q].fd # fd /\ q \in Reqs
    BY <1>1 DEF Owners, Alive
  <2>6. \A q \in Alive \ {r} : /\ q <= taken /\ ctx'[q].fd \in PT!Fd
                               /\ kind'[ctx'[q].fd] = "HTTP"
                               /\ ctx'[q].func = "connect" => ctx'[q].status = "READY"
    BY <1>1, <1>2, <1>4, <2>1, <2>5 DEF Owners
  <2>7. \A p, q \in Alive \ {r} : ctx'[p].fd = ctx'[q].fd => p = q
    BY <1>1, <1>4, <2>5 DEF Owners
  <2>8. ASSUME NEW f \in PT!Fd, kind'[f] = "HTTP"
        PROVE  \E q \in Alive \ {r} : ctx'[q].fd = f
    <3>1. f # fd /\ kind[f] = "HTTP"
      BY <1>2, <2>1, <2>8
    <3>2. PICK q \in Alive : ctx[q].fd = f
      BY <1>1, <3>1 DEF Owners
    <3>3. q # r /\ q \in Reqs
      BY <3>1, <3>2 DEF Alive
    <3> QED BY <1>4, <3>2, <3>3
  <2> HIDE DEF fd
  <2> QED BY <1>2, <1>5, <2>3, <2>4, <2>6, <2>7, <2>8 DEF Owners
<1>9. Linked'
  <2>1. ReadyCtx' = ReadyCtx \ {r}
    BY <1>1, <1>4, <1>5 DEF ReadyCtx, Alive
  <2> QED BY <1>2, <2>1, UnlinkedLinked
<1>10. Accounts'
  <2> DEFINE b == BufsOf(ctx[r])
             h == HeldOf(ctx)
             x == Len(toserver)
             y == Len(queued)
  <2>1. /\ b \in Nat /\ h \in Int /\ HeldOf(ctx') = h + 0 - b
        /\ buf_caches' = buf_caches + b - y /\ Len(toserver') = x + y
        /\ x \in Nat /\ y \in Nat
    BY <1>1, <1>2, <1>3, <1>4, <1>6, ConcatProperties DEF ContextsOK
  <2>2. prepared \in Nat /\ buf_caches \in Int /\ prepared' = prepared
    BY <1>1, <1>2 DEF ContextsOK
  <2>3. buf_caches + prepared + x + h = NumBufs
    BY <1>1 DEF Accounts
  <2> HIDE DEF b, h, x, y
  <2>4. buf_caches' + prepared' + Len(toserver') + HeldOf(ctx') = NumBufs
    BY <2>1, <2>2, <2>3
  <2>5. ctx_caches' + Cardinality(Alive') + leaked' = NumCtx
    <3> DEFINE n == Cardinality(Alive)
    <3>1. Cardinality(Alive') = n - 1 /\ n \in Nat
      BY <1>5, AliveFinite, FS_RemoveElement
    <3>2. ctx_caches + n + leaked = NumCtx /\ ctx_caches \in Int /\ leaked \in Nat
      BY <1>1 DEF Accounts, ContextsOK
    <3> HIDE DEF n
    <3> QED BY <1>2, <3>1, <3>2
  <2> QED BY <2>4, <2>5 DEF Accounts
<1>11. Sent'
  <2> DEFINE q == server \o toserver
  <2>1. /\ q \in Seq(Pieces) /\ Frames = q /\ Frames' = q \o queued
    <3>1. server \in Seq(Pieces) /\ toserver \in Seq(Pieces)
      BY <1>1 DEF ContextsOK
    <3>2. q \in Seq(Pieces) /\ server \o (toserver \o queued) = q \o queued
      <4>1. q \in Seq(Pieces)
        BY <3>1, ConcatProperties
      <4>2. server \o (toserver \o queued) = q \o queued
        <5> DEFINE S == Pieces
        <5>1. server \in Seq(S) /\ toserver \in Seq(S) /\ queued \in Seq(S)
          BY <1>6, <3>1
        <5> HIDE DEF S
        <5>2. server \o (toserver \o queued) = (server \o toserver) \o queued
          BY <5>1, ConcatAssociative, SMTT(30)
        <5> QED BY <5>2
      <4> QED BY <4>1, <4>2
    <3> QED BY <1>2, <3>2 DEF Frames
  <2> HIDE DEF q
  <2>2. AllWhole(q) /\ \A i \in 1..Len(q) : q[i].seq <= taken /\ ~ctx[q[i].seq].alive
    BY <1>1, <2>1 DEF Sent
  <2>3. \A i \in 1..Len(q) : q[i].seq \in Reqs /\ q[i].seq # r
    <3>1. \A i \in 1..Len(q) : q[i] \in Pieces
      BY <2>1
    <3> QED BY <1>1, <2>2, <3>1 DEF Pieces
  <2>4. \A i \in 1..Len(q) : q[i].seq <= taken /\ ~ctx'[q[i].seq].alive
    BY <1>4, <2>2, <2>3
  <2>5. CASE queued = <<>>
    <3>1. q \o queued = q
      BY <2>1, <2>5, ConcatEmptySeq
    <3> QED BY <1>2, <2>1, <2>2, <2>4, <3>1 DEF Sent
  <2>6. CASE Answer(r, queued)
    <3>1. AllWhole(q \o queued)
      BY <2>1, <2>2, <2>3, <2>6, AnswerAdded
    <3>2. r <= taken /\ ~ctx'[r].alive
      BY <1>1, <1>3, <1>4 DEF Owners
    <3>3. \A i \in 1..Len(queued) : queued[i].seq = r
      BY <2>6 DEF Answer
    <3>4. ASSUME NEW i \in 1..Len(q \o queued)
          PROVE  (q \o queued)[i].seq <= taken /\ ~ctx'[(q \o queued)[i].seq].alive
      <4>1. /\ Len(q) \in Nat /\ Len(q \o queued) = Len(q) + Len(queued)
            /\ (q \o queued)[i] = IF i <= Len(q) THEN q[i] ELSE queued[i - Len(q)]
        BY <1>6, <2>1, ConcatProperties
      <4>2. CASE i <= Len(q)
        <5>1. i \in 1..Len(q)
          BY <4>1, <4>2
        <5> QED BY <2>4, <4>1, <4>2, <5>1
      <4>3. CASE ~(i <= Len(q))
        <5>1. i - Len(q) \in 1..Len(queued)
          BY <1>6, <4>1, <4>3
        <5> QED BY <3>2, <3>3, <4>1, <4>3, <5>1
      <4> QED BY <4>2, <4>3
    <3> QED BY <1>2, <2>1, <3>1, <3>4 DEF Sent
  <2> QED BY <2>5, <2>6
<1> QED BY <1>7, <1>8, <1>9, <1>10, <1>11 DEF Rest

LEMMA HandlerPends ==
  ASSUME PTP!IndInv, TableOK', Rest, [PT!Next]_(PT!vars),
         NEW r \in Alive, FromRun(r) \/ FromSlot(r),
         NEW c \in Contexts, c.alive, c.fd = ctx[r].fd, c.func # "connect", NEW k \in Hosts,
         Pends(r, c), kind' = kind, host' = [host EXCEPT ![r] = k],
         buf_caches' = buf_caches + BufsOf(ctx[r]) - BufsOf(c),
         UNCHANGED <<wire, ctx_caches, leaked, intact>>
  PROVE  Rest'
<1> DEFINE d == [c EXCEPT !.status = "PENDING"]
<1>1. d \in Contexts
  BY DEF Contexts
<1>2. /\ d.alive = c.alive /\ d.fd = c.fd /\ d.func = c.func /\ d.write = c.write
      /\ d.read = c.read /\ d.rcurr = c.rcurr /\ d.status = "PENDING"
  BY DEF Contexts
<1>3. SetLists(Unlinked(r)) /\ ctx' = [ctx EXCEPT ![r] = d] /\ Goes(r, revents)
  BY DEF Pends
<1> HIDE DEF d
<1>4. BufsOf(d) = BufsOf(c)
  BY <1>2 DEF BufsOf
<1>5. buf_caches' = buf_caches + BufsOf(ctx[r]) - BufsOf(d)
  BY <1>4
<1> QED BY <1>1, <1>2, <1>3, <1>5, HandlerKeeps

\* A handler that ends its context's request.
LEMMA HandlerFinishes ==
  ASSUME PTP!IndInv, TableOK, TableOK', Rest, [PT!Next]_(PT!vars),
         NEW r \in Alive, FromRun(r) \/ phase = "scan",
         NEW queued, NEW writing \in BOOLEAN, NEW owed \in BOOLEAN,
         queued = <<>> \/ Answer(r, queued), Finishes(r, queued, writing, owed)
  PROVE  Rest'
<1> DEFINE fd == ctx[r].fd
           rev == MovedRevents(fd)
<1>1. /\ InSlot1 /\ Owners /\ ContextsOK
  BY DEF Rest, Loop, FromRun
<1>2. rev \in [PT!Slot -> SUBSET Flags] /\ rev[1] = revents[1]
  BY <1>1, MovedReventsIs
<1>3. /\ kind' = [kind EXCEPT ![fd] = "NONE"] /\ toserver' = toserver \o queued
      /\ UNCHANGED <<taken, asked>> /\ Goes(r, rev)
      /\ http_context_release(r, queued, writing, owed)
  BY DEF Finishes, http_context_release, PT!ContextRelease
<1> HIDE DEF rev
<1>4. kind'[Websocket] = "WEBSOCKET"
  <2>1. kind[fd] = "HTTP" /\ kind \in [PT!Fd -> PT!Kind]
    BY <1>1 DEF Owners, TableOK, PT!TypeOK
  <2> HIDE DEF fd
  <2> QED BY <1>1, <1>3, <2>1, Sizes DEF InSlot1
<1>5. toserver # <<>> => toserver' # <<>>
  <2>1. toserver \in Seq(Pieces) /\ queued \in Seq(Pieces)
    <3>1. queued = <<>> => queued \in Seq(Pieces)
      OBVIOUS
    <3> QED BY <1>1, <3>1 DEF ContextsOK, Answer
  <2> QED BY <1>3, <2>1
<1>6. ScanOK' /\ Loop'
  BY <1>2, <1>3, <1>4, <1>5, GoesOn
<1> QED BY <1>3, <1>6, HandlerReleases

\* Nothing but the table, revents and where main() is changes.
LEMMA CtxStays ==
  ASSUME Rest, UNCHANGED <<lists, ctx>>, taken' \in Nat, taken <= taken'
  PROVE  /\ Linked' /\ Alive' = Alive /\ ReadyCtx' = ReadyCtx /\ HeldOf(ctx') = HeldOf(ctx)
         /\ kind' = kind => Owners'
         /\ Frames' = Frames => Sent'
<1>1. /\ Linked /\ Owners /\ Sent /\ ContextsOK /\ ctx' = ctx
      /\ UNCHANGED <<running, list_ready, ready_len>>
  BY DEF Rest, lists
<1>2. Alive' = Alive /\ ReadyCtx' = ReadyCtx
  BY <1>1 DEF Alive, ReadyCtx
<1>3. Linked'
  BY <1>1, <1>2 DEF Linked
<1>4. taken \in Nat
  BY <1>1, Sizes DEF ContextsOK
<1>5. kind' = kind => Owners'
  <2>1. \A r \in Alive : r <= taken => r <= taken'
    BY <1>4, Sizes DEF Alive
  <2> QED BY <1>1, <1>2, <2>1 DEF Owners
<1>6. Frames' = Frames => Sent'
  <2>1. \A i \in 1..Len(Frames) : Frames[i].seq \in Nat
    <3>1. Frames \in Seq(Pieces)
      BY <1>1, ConcatProperties DEF ContextsOK, Frames
    <3>2. \A i \in 1..Len(Frames) : Frames[i] \in Pieces
      BY <3>1
    <3> QED BY <3>2, Sizes DEF Pieces
  <2>2. \A i \in 1..Len(Frames) : Frames[i].seq <= taken'
    BY <1>1, <1>4, <2>1 DEF Sent
  <2> HIDE DEF Frames
  <2> QED BY <1>1, <2>2 DEF Sent
<1> QED BY <1>1, <1>2, <1>3, <1>5, <1>6

\* Nothing changes but what the kernel and the hosts do, or all is over.
LEMMA RestStays ==
  ASSUME Rest, UNCHANGED <<table, revents, main, lists, ctx, pools, toserver, server,
                           taken, prepared>>,
         host' \in [Reqs -> Hosts], faults' \in Nat, asked' \in 0..Requests, asked <= asked',
         phase = "scan" => asked' = asked, intact' \in BOOLEAN
  PROVE  Rest'
<1>1. /\ ScanOK /\ ContextsOK /\ Loop /\ Accounts
      /\ UNCHANGED <<kind, fd_lookup, slotFd, phase, scan, ctx, ctx_caches, buf_caches, leaked>>
  BY DEF Rest, table, main, pools
<1>2. taken \in Nat /\ taken <= taken' /\ taken' \in Nat
  BY <1>1, Sizes DEF ContextsOK
<1>3. Linked' /\ Alive' = Alive /\ Owners' /\ HeldOf(ctx') = HeldOf(ctx)
  BY <1>1, <1>2, CtxStays
<1>4. Sent'
  <2>1. Frames' = Frames
    BY DEF Frames
  <2> QED BY <1>2, <2>1, CtxStays
<1>5. ScanOK' /\ Loop' /\ Accounts'
  BY <1>1, <1>3 DEF ScanOK, Loop, InSlot1, Accounts
<1>6. ContextsOK'
  <2>1. taken' \in 0..asked'
    BY <1>1, Sizes DEF ContextsOK
  <2> QED BY <1>1, <2>1 DEF ContextsOK
<1> QED BY <1>3, <1>4, <1>5, <1>6 DEF Rest

-----------------------------------------------------------------------------
(* The steps of main().                                                    *)

\* A step of the program in a state of the invariant, as far as its poll table
\* goes.
Step == PTP!IndInv /\ TableOK /\ TableOK' /\ Rest /\ [PT!Next]_(PT!vars)

LEMMA RunKeeps ==
  ASSUME Step, Run PROVE Rest'
<1>1. /\ ScanOK /\ ContextsOK /\ Loop /\ Owners /\ Linked /\ Accounts /\ Sent
  BY DEF Step, Rest
<1>2. /\ phase = "run" /\ phase' = "running" /\ running = <<>>
      /\ running' = list_ready /\ list_ready' = <<>> /\ ready_len' = ready_len
      /\ UNCHANGED <<kind, fd_lookup, slotFd, revents, scan, ctx, ctx_caches, buf_caches,
                     leaked, toserver, server, asked, taken, prepared, faults, host, intact>>
  BY DEF Run, table, pools, wire
<1>3. Alive' = Alive /\ ReadyCtx' = ReadyCtx
  BY <1>2 DEF Alive, ReadyCtx
<1>4. ScanOK' /\ ContextsOK' /\ Loop'
  BY <1>1, <1>2 DEF ScanOK, ContextsOK, Loop, InSlot1
<1>5. Owners'
  BY <1>1, <1>2, <1>3 DEF Owners
<1>6. Linked'
  <2>1. /\ list_ready \in Seq(Reqs) /\ IsInjective(list_ready)
        /\ Range(running) \cup Range(list_ready) = ReadyCtx
        /\ ready_len = Len(running) + Len(list_ready)
    BY <1>1 DEF Linked
  <2>2. /\ <<>> \in Seq(Reqs) /\ IsInjective(<<>>) /\ Len(<<>>) = 0
    BY DEF IsInjective
  <2>3. \A s : s = <<>> => Range(s) = {}
    BY DEF Range
  <2>4. Range(running) = {} /\ Range(list_ready') = {}
    BY <1>2, <2>3
  <2>5. ready_len' = Len(running') + Len(list_ready')
    BY <1>2, <2>1, <2>2
  <2> QED BY <1>2, <1>3, <2>1, <2>2, <2>4, <2>5 DEF Linked
<1>7. Accounts' /\ Sent'
  <2>1. Frames' = Frames /\ HeldOf(ctx') = HeldOf(ctx)
    BY <1>2 DEF Frames
  <2> QED BY <1>1, <1>2, <1>3, <2>1 DEF Accounts, Sent
<1> QED BY <1>4, <1>5, <1>6, <1>7 DEF Rest

LEMMA PollKeeps ==
  ASSUME Step, Poll PROVE Rest'
<1>1. /\ ScanOK /\ ContextsOK /\ Loop /\ Owners /\ Linked /\ Accounts /\ Sent
  BY DEF Step, Rest
<1>2. /\ phase \in {"run", "running"} /\ revents' = Polled
      /\ ScanFrom(-1, Polled, count_pollfds)
      /\ UNCHANGED <<table, lists, ctx, pools, wire, host, intact>>
  BY DEF Poll, PollFrom
<1>3. InSlot1
  BY <1>1, <1>2 DEF Loop
<1>4. /\ Polled \in [PT!Slot -> SUBSET Flags]
      /\ "POLLOUT" \in Polled[1] => toserver # <<>>
      /\ "POLLIN" \in Polled[1] => asked > taken
  BY <1>1, <1>3, PolledIs DEF Step
<1>5. scan' \in PT!Slot /\ phase' \in {"run", "scan"}
  <2>1. count_pollfds \in 0..MaxFds
    BY DEF Step, TableOK, PT!TypeOK
  <2> HIDE DEF Polled
  <2> QED BY <1>2, <2>1, ScanFromIs
<1>6. /\ UNCHANGED <<kind, fd_lookup, slotFd, ctx, ctx_caches, buf_caches, leaked, toserver,
                     server, asked, taken, prepared, faults, host, intact>>
  BY <1>2 DEF table, pools, wire
<1>7. ScanOK' /\ ContextsOK'
  BY <1>1, <1>2, <1>4, <1>5, <1>6 DEF ScanOK, ContextsOK
<1>8. Loop'
  <2>1. asked \in Int /\ taken \in Int
    BY <1>1, Sizes DEF ContextsOK
  <2> QED BY <1>2, <1>3, <1>4, <1>5, <1>6, <2>1 DEF Loop, InSlot1
<1>9. Linked' /\ Owners' /\ Sent' /\ Alive' = Alive /\ HeldOf(ctx') = HeldOf(ctx)
  <2>1. Frames' = Frames /\ taken' \in Nat /\ taken <= taken'
    BY <1>1, <1>6, Sizes DEF Frames, ContextsOK
  <2> QED BY <1>2, <1>6, <2>1, CtxStays DEF Step
<1>10. Accounts'
  BY <1>1, <1>6, <1>9 DEF Accounts
<1> QED BY <1>7, <1>8, <1>9, <1>10 DEF Rest

LEMMA WriteableKeeps ==
  ASSUME Step, Writeable PROVE Rest'
<1>1. /\ ScanOK /\ ContextsOK /\ Loop /\ Owners /\ Linked /\ Accounts /\ Sent
  BY DEF Step, Rest
<1> DEFINE rev == [revents EXCEPT ![1] = @ \ {"POLLOUT"}]
<1>2. /\ phase = "scan" /\ scan = 1 /\ "POLLOUT" \in revents[1]
      /\ server' = Append(server, Head(toserver)) /\ toserver' = Tail(toserver)
      /\ buf_caches' = buf_caches + 1 /\ revents' = rev
      /\ IF rev[1] # {} THEN UNCHANGED main ELSE ScanFrom(1, rev, count_pollfds)
      /\ UNCHANGED <<table, lists, ctx, ctx_caches, leaked, asked, taken, prepared, faults,
                     host, intact>>
  BY DEF Writeable
<1>3. rev \in [PT!Slot -> SUBSET Flags] /\ "POLLOUT" \notin rev[1] /\ rev[1] \subseteq revents[1]
  BY <1>1, Sizes DEF ScanOK
<1> HIDE DEF rev
<1>4. scan' \in PT!Slot /\ phase' \in {"run", "scan"}
  <2>1. CASE rev[1] # {}
    BY <1>1, <1>2, <2>1 DEF main, ScanOK
  <2>2. CASE rev[1] = {}
    <3>1. count_pollfds \in 0..MaxFds /\ 1 \in PT!Slot
      BY Sizes DEF Step, TableOK, PT!TypeOK
    <3>2. ScanFrom(1, rev, count_pollfds)
      BY <1>2, <2>2
    <3> QED BY <3>1, <3>2, ScanFromIs
  <2> QED BY <2>1, <2>2
<1>5. UNCHANGED <<kind, fd_lookup, slotFd>> /\ InSlot1
  BY <1>1, <1>2 DEF table, Loop
<1>6. ScanOK' /\ Loop'
  BY <1>1, <1>2, <1>3, <1>4, <1>5 DEF ScanOK, Loop, InSlot1
<1>7. toserver # <<>> /\ toserver \in Seq(Pieces) /\ server \in Seq(Pieces)
  BY <1>1, <1>2 DEF Loop, ContextsOK
<1>8. /\ server' \in Seq(Pieces) /\ toserver' \in Seq(Pieces)
      /\ Len(toserver') = Len(toserver) - 1 /\ Len(toserver) \in Nat
      /\ Frames' = Frames
  <2> DEFINE h == Head(toserver)
             t == Tail(toserver)
  <2>1. h \in Pieces /\ t \in Seq(Pieces) /\ toserver = <<h>> \o t
        /\ Len(t) = Len(toserver) - 1
    BY <1>7
  <2>2. server' = Append(server, h) /\ toserver' = t
    BY <1>2
  <2> HIDE DEF h, t
  <2>3. Append(server, h) = server \o <<h>> /\ <<h>> \in Seq(Pieces)
    BY <1>7, <2>1
  <2>4. (server \o <<h>>) \o t = server \o (<<h>> \o t)
    BY <1>7, <2>1, <2>3, ConcatAssociative
  <2>5. Frames' = Frames
    BY <2>1, <2>2, <2>3, <2>4 DEF Frames
  <2> QED BY <1>7, <2>1, <2>2, <2>5
<1>9. ContextsOK'
  BY <1>1, <1>2, <1>8 DEF ContextsOK
<1>10. Linked' /\ Owners' /\ Sent' /\ Alive' = Alive /\ HeldOf(ctx') = HeldOf(ctx)
  <2>1. taken' \in Nat /\ taken <= taken' /\ kind' = kind
    BY <1>1, <1>2, <1>5, Sizes DEF ContextsOK
  <2> QED BY <1>2, <1>8, <2>1, CtxStays DEF Step
<1>11. Accounts'
  <2> DEFINE x == Len(toserver)
             h == HeldOf(ctx)
  <2>1. /\ buf_caches + prepared + x + h = NumBufs
        /\ Len(toserver') = x - 1 /\ HeldOf(ctx') = h
        /\ buf_caches' = buf_caches + 1 /\ prepared' = prepared
    BY <1>1, <1>2, <1>8, <1>10 DEF Accounts
  <2>2. buf_caches \in Int /\ prepared \in Int /\ x \in Int /\ h \in Int
    <3>1. h \in Int
      BY <1>1, HeldType
    <3> QED BY <1>1, <1>8, <3>1 DEF ContextsOK
  <2> HIDE DEF x, h
  <2>3. buf_caches' + prepared' + Len(toserver') + HeldOf(ctx') = NumBufs
    BY <2>1, <2>2
  <2> QED BY <1>1, <1>2, <1>10, <2>3 DEF Accounts
<1> QED BY <1>6, <1>9, <1>10, <1>11 DEF Rest

\* With no context left only the listening socket is open, so the websocket
\* gets the lowest descriptor and the second slot.
LEMMA ReconnectKeeps ==
  ASSUME Step, Reconnect PROVE Rest'
<1>1. /\ ScanOK /\ ContextsOK /\ Loop /\ Owners /\ Linked /\ Accounts /\ Sent
  BY DEF Step, Rest
<1>2. /\ phase \in {"reconn", "closing"} /\ Alive = {} /\ phase' = "run"
      /\ PT!WebsocketAdd(LowestFree) /\ revents' = [revents EXCEPT ![count_pollfds] = {}]
      /\ UNCHANGED <<scan, lists, ctx, pools, wire, host, intact>>
  BY DEF Reconnect
<1>3. kind[Websocket] = "NONE" /\ Websocket \in PT!Fd
  BY <1>1, <1>2, Sizes DEF Loop
<1>4. \A fd \in PT!Fd \ {Listener} : kind[fd] = "NONE"
  BY <1>1, <1>2, <1>3 DEF Owners
<1>5. Free = PT!Fd \ {Listener}
  <2>1. Listener \in PT!Registered
    BY Sizes DEF Step, TableOK, PT!Registered
  <2> QED BY <1>4, <2>1 DEF Free, PT!Registered
<1>6. LowestFree = Websocket
  <2>1. Websocket \in Free
    BY <1>3, <1>5, Sizes
  <2>2. LowestFree \in Free /\ LowestFree <= Websocket
    BY <2>1, LowestFreeIs
  <2> QED BY <1>5, <2>2, Sizes
<1>7. count_pollfds = 1
  <2>1. /\ count_pollfds \in 0..MaxFds /\ count_pollfds >= 1 /\ fd_lookup[Listener] = 0
        /\ \A s \in 0..(count_pollfds - 1) : slotFd[s] \in PT!Registered
                                             /\ fd_lookup[slotFd[s]] = s
    BY DEF Step, TableOK, PT!TypeOK, PT!ListenerArmed, PT!TableConsistent
  <2>2. PT!Registered = {Listener}
    BY <1>4, Sizes DEF Step, TableOK, PT!Registered
  <2>3. \A s \in 0..(count_pollfds - 1) : s = 0
    BY <2>1, <2>2
  <2>4. count_pollfds - 1 \in 0..(count_pollfds - 1)
    BY <2>1, Sizes
  <2> QED BY <2>1, <2>3, <2>4, Sizes
<1>8. /\ kind' = [kind EXCEPT ![Websocket] = "WEBSOCKET"]
      /\ fd_lookup' = [fd_lookup EXCEPT ![Websocket] = 1]
      /\ slotFd' = [slotFd EXCEPT ![1] = Websocket]
  BY <1>2, <1>6, <1>7 DEF PT!WebsocketAdd, PT!mgmt_add_fd
<1>9. /\ kind \in [PT!Fd -> PT!Kind] /\ DOMAIN fd_lookup = PT!Fd /\ DOMAIN slotFd = PT!Slot
      /\ 1 \in PT!Slot
  BY Sizes DEF Step, TableOK, PT!TypeOK
<1>10. InSlot1'
  BY <1>3, <1>8, <1>9 DEF InSlot1
<1>11. ScanOK' /\ Loop'
  <2>1. revents' \in [PT!Slot -> SUBSET Flags] /\ scan' = scan
    BY <1>1, <1>2 DEF ScanOK
  <2> QED BY <1>1, <1>2, <1>10, <2>1 DEF ScanOK, Loop
<1>12. UNCHANGED <<ctx_caches, buf_caches, leaked, toserver, server, asked, taken, prepared,
                   faults, host, intact, ctx>>
  BY <1>2 DEF pools, wire
<1>13. ContextsOK'
  BY <1>1, <1>12 DEF ContextsOK
<1>14. Linked' /\ Sent' /\ Alive' = Alive /\ HeldOf(ctx') = HeldOf(ctx)
  <2>1. taken' \in Nat /\ taken <= taken' /\ Frames' = Frames
    BY <1>1, <1>12, Sizes DEF ContextsOK, Frames
  <2> QED BY <1>2, <1>12, <2>1, CtxStays DEF Step
<1>15. Owners'
  <2>1. \A fd \in PT!Fd \ {Listener, Websocket} : kind'[fd] \in {"NONE", "HTTP"}
    BY <1>1, <1>8, <1>9 DEF Owners
  <2>2. kind'[Websocket] = "WEBSOCKET"
    BY <1>3, <1>8, <1>9
  <2>3. \A fd \in PT!Fd : kind'[fd] # "HTTP"
    <3>1. kind[Listener] = "TCPSERVER"
      BY DEF Step, TableOK
    <3> QED BY <1>3, <1>4, <1>8, <1>9, <3>1, Sizes
  <2>4. \A r \in Reqs : ~ctx[r].alive => ctx[r] = NoContext
    BY <1>1 DEF Owners
  <2>5. Alive' = {}
    BY <1>2, <1>14
  <2> QED BY <1>12, <2>1, <2>2, <2>3, <2>4, <2>5 DEF Owners
<1>16. Accounts'
  BY <1>1, <1>12, <1>14 DEF Accounts
<1> QED BY <1>11, <1>13, <1>14, <1>15, <1>16 DEF Rest

-----------------------------------------------------------------------------
(* A request comes.                                                        *)

LEMMA ReceiveIs ==
  ASSUME Step, NEW got, Receive(got), NEW rev \in [PT!Slot -> SUBSET Flags], ServiceDone(rev),
         kind'[Websocket] = "WEBSOCKET"
  PROVE  /\ ScanOK' /\ Loop' /\ InSlot1
         /\ taken \in Nat /\ asked \in 0..Requests /\ taken + 1 <= asked
<1>1. /\ ScanOK /\ ContextsOK /\ Loop
  BY DEF Step, Rest
<1>2. phase = "scan" /\ scan = 1 /\ revents[1] = {"POLLIN"}
  BY DEF Receive
<1>3. InSlot1 /\ taken < asked
  BY <1>1, <1>2 DEF Loop
<1>4. ScanOK' /\ phase' \in {"run", "scan"} /\ revents'[1] = {}
  BY <1>1, <1>2, ServiceDoneIs DEF Step
<1>5. InSlot1'
  BY <1>3, StaysInSlot1 DEF Step
<1>6. Loop'
  BY <1>4, <1>5 DEF Loop
<1>7. taken \in Nat /\ asked \in 0..Requests /\ taken + 1 <= asked
  BY <1>1, <1>3, Sizes DEF ContextsOK
<1> QED BY <1>3, <1>4, <1>6, <1>7

\* There is no buffer, context or socket for it.
LEMMA RefusedKeeps ==
  ASSUME Step, RequestDropped \/ NoContextLeft \/ SocketFails PROVE Rest'
<1>1. /\ ScanOK /\ ContextsOK /\ Loop /\ Owners /\ Linked /\ Accounts /\ Sent
  BY DEF Step, Rest
<1>2. /\ \E got : Receive(got)
      /\ ServiceDone(revents) /\ UNCHANGED table /\ UNCHANGED <<lists, ctx, host>>
  BY DEF RequestDropped, NoContextLeft, SocketFails
<1>3. /\ taken' = taken + 1 /\ UNCHANGED <<toserver, server, asked, intact>>
      /\ UNCHANGED <<kind, fd_lookup, slotFd>> /\ host' = host /\ ctx' = ctx
  BY <1>2 DEF Receive, table
<1>4. InSlot1 /\ revents \in [PT!Slot -> SUBSET Flags]
  BY <1>1, <1>2 DEF Receive, Loop, ScanOK
<1>5. /\ ScanOK' /\ Loop' /\ taken \in Nat /\ asked \in 0..Requests /\ taken + 1 <= asked
  BY <1>2, <1>3, <1>4, ReceiveIs DEF InSlot1
<1>6. /\ buf_caches \in Int /\ prepared \in Nat /\ ctx_caches \in Nat /\ leaked \in Nat
      /\ faults \in Nat
  BY <1>1 DEF ContextsOK
<1>7. /\ buf_caches' \in Int /\ prepared' \in Nat /\ ctx_caches' \in Nat /\ leaked' \in Nat
      /\ faults' \in Nat
      /\ buf_caches' + prepared' = buf_caches + prepared
      /\ ctx_caches' + leaked' = ctx_caches + leaked
  <2>1. CASE RequestDropped
    BY <1>6, <2>1 DEF RequestDropped
  <2>2. CASE NoContextLeft
    BY <1>6, <2>2, Sizes DEF NoContextLeft
  <2>3. CASE SocketFails
    BY <1>6, <2>3 DEF SocketFails
  <2> QED BY <2>1, <2>2, <2>3
<1>8. ContextsOK'
  <2>1. taken' \in 0..asked'
    BY <1>3, <1>5
  <2> QED BY <1>1, <1>3, <1>7, <2>1 DEF ContextsOK
<1>9. Linked' /\ Owners' /\ Sent' /\ Alive' = Alive /\ HeldOf(ctx') = HeldOf(ctx)
  <2>1. taken' \in Nat /\ taken <= taken' /\ Frames' = Frames
    BY <1>3, <1>5 DEF Frames
  <2> QED BY <1>2, <1>3, <2>1, CtxStays DEF Step
<1>10. Accounts'
  <2> DEFINE x == Len(toserver)
             h == HeldOf(ctx)
             n == Cardinality(Alive)
  <2>1. /\ x \in Int /\ h \in Int /\ n \in Int
    BY <1>1, HeldType, AliveFinite DEF ContextsOK
  <2>2. /\ ctx_caches + n + leaked = NumCtx /\ buf_caches + prepared + x + h = NumBufs
        /\ Cardinality(Alive') = n /\ Len(toserver') = x /\ HeldOf(ctx') = h
    BY <1>1, <1>3, <1>9 DEF Accounts
  <2> HIDE DEF x, h, n
  <2>3. ctx_caches' + Cardinality(Alive') + leaked' = NumCtx
    <3>1. Cardinality(Alive') = n /\ ctx_caches' + leaked' = ctx_caches + leaked
          /\ ctx_caches + n + leaked = NumCtx
      BY <1>7, <2>2
    <3>2. ctx_caches' \in Int /\ leaked' \in Int /\ ctx_caches \in Int /\ leaked \in Int /\ n \in Int
      BY <1>6, <1>7, <2>1
    <3> HIDE DEF n
    <3> DEFINE a == ctx_caches'
               l == leaked'
               b == ctx_caches
               m == leaked
    <3>3. a \in Int /\ l \in Int /\ b \in Int /\ m \in Int /\ a + l = b + m /\ b + n + m = NumCtx
      BY <3>1, <3>2
    <3> HIDE DEF a, l, b, m
    <3>4. a + n + l = NumCtx
      BY <3>2, <3>3
    <3> QED BY <3>1, <3>4 DEF a, l
  <2>4. buf_caches' + prepared' + Len(toserver') + HeldOf(ctx') = NumBufs
    BY <1>6, <1>7, <2>1, <2>2
  <2> QED BY <2>3, <2>4 DEF Accounts
<1> QED BY <1>5, <1>8, <1>9, <1>10 DEF Rest

\* It gets a context, with a descriptor of its own.
LEMMA CreateKeeps ==
  ASSUME Step, http_context_create PROVE Rest'
<1> DEFINE r == taken + 1
           fd == LowestFree
           c == [NoContext EXCEPT !.alive = TRUE, !.fd = fd, !.write = RequestBufs]
           rev == [revents EXCEPT ![count_pollfds] = {}]
<1>1. /\ ScanOK /\ ContextsOK /\ Loop /\ Owners /\ Linked /\ Accounts /\ Sent
  BY DEF Step, Rest
<1>2. /\ Receive(RequestBufs) /\ Free # {} /\ ctx_caches > 0 /\ PT!ContextOpen(fd, "HTTP")
      /\ ctx' = [ctx EXCEPT ![r] = c] /\ host' = [host EXCEPT ![r].st = "new"]
      /\ list_ready' = <<r>> \o list_ready /\ ready_len' = ready_len + 1
      /\ ctx_caches' = ctx_caches - 1
      /\ buf_caches' = buf_caches + prepared - RequestBufs /\ prepared' = 0
      /\ ServiceDone(rev) /\ UNCHANGED <<running, leaked, faults>>
  BY DEF http_context_create
<1>3. /\ taken' = taken + 1 /\ UNCHANGED <<toserver, server, asked, intact>>
      /\ phase = "scan" /\ kind' = [kind EXCEPT ![fd] = "HTTP"]
  BY <1>2 DEF Receive, PT!ContextOpen
<1>4. InSlot1 /\ kind[Listener] = "TCPSERVER" /\ kind \in [PT!Fd -> PT!Kind]
  BY <1>1, <1>3 DEF Loop, Step, TableOK, PT!TypeOK
<1>5. fd \in PT!Fd /\ kind[fd] = "NONE" /\ fd # Listener /\ fd # Websocket
  <2>1. fd \in Free
    BY <1>2, LowestFreeIs
  <2> HIDE DEF fd
  <2> QED BY <1>4, <2>1 DEF Free, PT!Registered, InSlot1
<1>6. kind'[Websocket] = "WEBSOCKET"
  <2> HIDE DEF fd
  <2> QED BY <1>3, <1>4, <1>5, Sizes DEF InSlot1
<1>7. rev \in [PT!Slot -> SUBSET Flags]
  BY <1>1 DEF ScanOK
<1>8. /\ ScanOK' /\ Loop' /\ taken \in Nat /\ asked \in 0..Requests /\ taken + 1 <= asked
  <2> HIDE DEF rev
  <2> QED BY <1>2, <1>6, <1>7, ReceiveIs
<1>9. r \in Reqs /\ r \notin Alive /\ r \in 1..asked
  <2>1. r \in 1..asked /\ r \in Reqs /\ ~(r <= taken)
    BY <1>8, Sizes
  <2> QED BY <1>1, <2>1 DEF Owners
<1>10. ctx[r] = NoContext /\ ~ctx[r].alive
  BY <1>1, <1>9 DEF Owners, Alive
<1>11. NoContext \in Contexts /\ BufsOf(NoContext) = 0
  BY Sizes, EmptySeq, EmptyBuffer DEF NoContext, Contexts, BufsOf, Bytes
<1>12. /\ c \in Contexts /\ c.alive /\ c.fd = fd /\ c.func = "connect" /\ c.status = "READY"
       /\ BufsOf(c) = RequestBufs
  <2>1. RequestBufs \in 0..RequestBufs /\ RequestBufs \in Nat
    BY Sizes
  <2> HIDE DEF fd
  <2>2. c \in Contexts /\ c.alive /\ c.fd = fd /\ c.func = "connect" /\ c.status = "READY"
    BY <1>5, <1>11, <2>1 DEF Contexts, NoContext
  <2>3. c.write = RequestBufs /\ c.read = <<>> /\ c.rcurr = FALSE
    BY DEF NoContext
  <2> HIDE DEF c
  <2> QED BY <2>1, <2>2, <2>3 DEF BufsOf
<1> HIDE DEF c, r, fd, rev
<1>13. /\ ctx' \in [Reqs -> Contexts] /\ ctx'[r] = c
       /\ \A q \in Reqs \ {r} : ctx'[q] = ctx[q]
       /\ HeldOf(ctx') = HeldOf(ctx) + RequestBufs - 0
  <2>1. Rest
    BY DEF Step
  <2> QED BY <1>2, <1>9, <1>10, <1>11, <1>12, <2>1, OneChanges
<1>14. Alive' = Alive \cup {r}
  BY <1>9, <1>12, <1>13 DEF Alive
<1>15. ReadyCtx' = ReadyCtx \cup {r}
  BY <1>9, <1>12, <1>13, <1>14 DEF ReadyCtx, Alive
<1>16. ContextsOK'
  <2>1. buf_caches' \in Int /\ ctx_caches' \in Nat /\ prepared' \in Nat
    <3>1. buf_caches \in Int /\ ctx_caches \in Nat /\ prepared \in Nat /\ RequestBufs \in Nat
      BY <1>1, Sizes DEF ContextsOK
    <3>2. /\ buf_caches' = buf_caches + prepared - RequestBufs /\ prepared' = 0
          /\ ctx_caches' = ctx_caches - 1 /\ ctx_caches > 0
      BY <1>2
    <3> QED BY <3>1, <3>2
  <2>2. host' \in [Reqs -> Hosts]
    <3>1. \A h \in Hosts : [h EXCEPT !.st = "new"] \in Hosts
      BY DEF Hosts
    <3>2. host \in [Reqs -> Hosts] /\ host' = [host EXCEPT ![r] = [host[r] EXCEPT !.st = "new"]]
      BY <1>1, <1>2 DEF ContextsOK
    <3> QED BY <1>9, <3>1, <3>2
  <2>3. taken' \in 0..asked'
    BY <1>3, <1>8, <1>9 DEF r
  <2> QED BY <1>1, <1>2, <1>3, <1>13, <2>1, <2>2, <2>3 DEF ContextsOK
<1>17. Owners'
  <2>1. /\ \A f \in PT!Fd \ {Listener, Websocket} : kind'[f] \in {"NONE", "HTTP"}
        /\ kind'[Websocket] \in {"NONE", "WEBSOCKET"}
    BY <1>1, <1>3, <1>4, <1>5, <1>6 DEF Owners
  <2>2. \A q \in Reqs : ~ctx'[q].alive => ctx'[q] = NoContext
    BY <1>1, <1>12, <1>13 DEF Owners
  <2>3. \A q \in Alive : q # r /\ q \in Reqs /\ ctx'[q] = ctx[q] /\ ctx[q].fd # fd
    BY <1>1, <1>5, <1>9, <1>13 DEF Owners, Alive
  <2>4. \A q \in Alive : /\ q <= taken' /\ ctx'[q].fd \in PT!Fd
                         /\ kind'[ctx'[q].fd] = "HTTP"
                         /\ ctx'[q].func = "connect" => ctx'[q].status = "READY"
    <3>1. \A q \in Alive : q <= taken'
      BY <1>1, <1>3, <1>8, Sizes DEF Owners, Alive
    <3> QED BY <1>1, <1>3, <1>4, <2>3, <3>1 DEF Owners
  <2>5. /\ r <= taken' /\ ctx'[r].fd \in PT!Fd /\ kind'[ctx'[r].fd] = "HTTP"
        /\ ctx'[r].func = "connect" => ctx'[r].status = "READY"
    <3>1. r <= taken'
      BY <1>3, <1>8 DEF r
    <3> QED BY <1>3, <1>4, <1>5, <1>12, <1>13, <3>1
  <2>6. \A p, q \in Alive \cup {r} : ctx'[p].fd = ctx'[q].fd => p = q
    BY <1>1, <1>12, <1>13, <2>3 DEF Owners
  <2>7. ASSUME NEW f \in PT!Fd, kind'[f] = "HTTP"
        PROVE  \E q \in Alive \cup {r} : ctx'[q].fd = f
    <3>1. CASE f = fd
      BY <1>12, <1>13, <3>1
    <3>2. CASE f # fd
      <4>1. kind[f] = "HTTP"
        BY <1>3, <1>4, <2>7, <3>2
      <4>2. PICK q \in Alive : ctx[q].fd = f
        BY <1>1, <4>1 DEF Owners
      <4> QED BY <2>3, <4>2
    <3> QED BY <3>1, <3>2
  <2> QED BY <1>14, <2>1, <2>2, <2>4, <2>5, <2>6, <2>7 DEF Owners
<1>18. Linked'
  <2>1. /\ running \in Seq(Reqs) /\ list_ready \in Seq(Reqs)
        /\ IsInjective(running) /\ IsInjective(list_ready)
        /\ Range(running) \cap Range(list_ready) = {}
        /\ Range(running) \cup Range(list_ready) = ReadyCtx
        /\ ready_len = Len(running) + Len(list_ready)
    BY <1>1 DEF Linked
  <2>2. r \notin Range(running) /\ r \notin Range(list_ready)
    BY <1>9, <2>1 DEF ReadyCtx
  <2>3. /\ list_ready' \in Seq(Reqs) /\ IsInjective(list_ready')
        /\ Range(list_ready') = Range(list_ready) \cup {r}
        /\ Len(list_ready') = Len(list_ready) + 1
    BY <1>2, <1>9, <2>1, <2>2, PushIs
  <2>4. ready_len' = Len(running') + Len(list_ready')
    BY <1>2, <2>1, <2>3
  <2> QED BY <1>2, <1>15, <2>1, <2>2, <2>3, <2>4 DEF Linked
<1>19. Accounts'
  <2> DEFINE x == Len(toserver)
             h == HeldOf(ctx)
             n == Cardinality(Alive)
  <2>1. x \in Int /\ h \in Int /\ n \in Int
    BY <1>1, HeldType, AliveFinite DEF ContextsOK
  <2>2. Cardinality(Alive') = n + 1
    BY <1>9, <1>14, AliveFinite, FS_AddElement
  <2>3. /\ ctx_caches + n + leaked = NumCtx /\ buf_caches + prepared + x + h = NumBufs
        /\ Len(toserver') = x /\ HeldOf(ctx') = h + RequestBufs - 0
    BY <1>1, <1>3, <1>13 DEF Accounts
  <2>4. buf_caches \in Int /\ prepared \in Int /\ ctx_caches \in Int /\ leaked \in Int
    BY <1>1 DEF ContextsOK
  <2> HIDE DEF x, h, n
  <2>5. ctx_caches' + Cardinality(Alive') + leaked' = NumCtx
    BY <1>2, <2>1, <2>2, <2>3, <2>4
  <2>6. buf_caches' + prepared' + Len(toserver') + HeldOf(ctx') = NumBufs
    <3> DEFINE b == buf_caches
               p == prepared
               k == RequestBufs
    <3>1. /\ b \in Int /\ p \in Int /\ k \in Int /\ b + p + x + h = NumBufs
          /\ buf_caches' = b + p - k /\ prepared' = 0 /\ Len(toserver') = x
          /\ HeldOf(ctx') = h + k - 0
      BY <1>2, <2>3, <2>4, Sizes
    <3> HIDE DEF b, p, k
    <3>2. (b + p - k) + 0 + x + (h + k - 0) = NumBufs
      BY <2>1, <3>1
    <3> QED BY <3>1, <3>2
  <2> QED BY <2>5, <2>6 DEF Accounts
<1>20. Sent'
  <2>1. Frames' = Frames
    BY <1>3 DEF Frames
  <2>2. \A i \in 1..Len(Frames) : Frames[i].seq \in Reqs
    <3>1. Frames \in Seq(Pieces)
      BY <1>1, ConcatProperties DEF ContextsOK, Frames
    <3>2. \A i \in 1..Len(Frames) : Frames[i] \in Pieces
      BY <3>1
    <3> QED BY <3>2 DEF Pieces
  <2> HIDE DEF Frames
  <2>3. ASSUME NEW i \in 1..Len(Frames)
        PROVE  Frames[i].seq <= taken' /\ ~ctx'[Frames[i].seq].alive
    <3> DEFINE s == Frames[i].seq
    <3>1. s \in Reqs /\ s <= taken /\ ~ctx[s].alive
      BY <1>1, <2>2 DEF Sent
    <3> HIDE DEF s
    <3>2. s # r /\ s <= taken'
      BY <1>3, <1>8, <3>1, Sizes DEF r
    <3>3. ~ctx'[s].alive
      BY <1>13, <3>1, <3>2
    <3> QED BY <3>2, <3>3 DEF s
  <2> QED BY <1>1, <2>1, <2>3 DEF Sent
<1> QED BY <1>8, <1>16, <1>17, <1>18, <1>19, <1>20 DEF Rest

-----------------------------------------------------------------------------
(* The coroutines.                                                         *)

LEMMA ContextIs ==
  ASSUME Rest, NEW r \in Alive
  PROVE  /\ r \in Reqs /\ ctx[r] \in Contexts /\ ctx[r].alive /\ host[r] \in Hosts
         /\ buf_caches \in Int /\ BufsOf(ctx[r]) \in Nat
         /\ ctx[r].func = "connect" => ctx[r].status = "READY"
<1>1. r \in Reqs /\ ctx[r].alive
  BY DEF Alive
<1>2. ctx[r] \in Contexts /\ host[r] \in Hosts /\ buf_caches \in Int
  BY <1>1 DEF Rest, ContextsOK
<1> QED BY <1>1, <1>2, BufsAre DEF Rest, Owners

LEMMA ConnectKeeps ==
  ASSUME Step, NEW r \in Reqs, ConnectDone(r) \/ ConnectPending(r) PROVE Rest'
<1>1. /\ Executing(r, "connect") /\ Rest
      /\ UNCHANGED <<pools, wire, intact>>
  BY DEF Step, ConnectDone, ConnectPending
<1>2. r \in Alive /\ ctx[r].func = "connect" /\ (FromRun(r) \/ FromSlot(r))
  BY <1>1, ExecutingIs
<1>3. /\ ctx[r] \in Contexts /\ ctx[r].alive /\ host[r] \in Hosts /\ buf_caches \in Int
      /\ BufsOf(ctx[r]) \in Nat /\ ctx[r].status = "READY"
  BY <1>1, <1>2, ContextIs
<1>4. host \in [Reqs -> Hosts]
  BY <1>1 DEF Rest, ContextsOK
<1>5. UNCHANGED <<ctx_caches, leaked>> /\ buf_caches' = buf_caches
  BY <1>1 DEF pools
<1>6. \A st \in {"connecting", "connected"} :
         /\ [host[r] EXCEPT !.st = st] \in Hosts
         /\ [host EXCEPT ![r].st = st] = [host EXCEPT ![r] = [host[r] EXCEPT !.st = st]]
  BY <1>3, <1>4 DEF Hosts
<1>7. CASE ConnectDone(r)
  <2> DEFINE c == [ctx[r] EXCEPT !.func = "write", !.line = "start"]
  <2>1. c \in Contexts
    BY <1>3 DEF Contexts
  <2>2. /\ c.alive /\ c.fd = ctx[r].fd /\ c.status = "READY" /\ c.write = ctx[r].write
        /\ c.read = ctx[r].read /\ c.rcurr = ctx[r].rcurr
    BY <1>3 DEF Contexts
  <2>3. Continues(r, c) /\ kind' = kind
    BY <1>7 DEF ConnectDone, table
  <2> HIDE DEF c
  <2>4. BufsOf(c) = BufsOf(ctx[r])
    BY <2>2 DEF BufsOf
  <2>5. PICK k \in Hosts : host' = [host EXCEPT ![r] = k]
    <3>1. CASE SaysConnected(r)
      <4>1. host' = [host EXCEPT ![r] = host[r]]
        BY <1>4, <1>7, <3>1 DEF ConnectDone
      <4> QED BY <1>3, <4>1
    <3>2. CASE ~SaysConnected(r)
      <4>1. host' = [host EXCEPT ![r].st = "connected"]
        BY <1>7, <3>2 DEF ConnectDone
      <4> QED BY <1>6, <4>1
    <3> QED BY <3>1, <3>2
  <2>6. buf_caches' = buf_caches + BufsOf(ctx[r]) - BufsOf(c)
    BY <1>3, <1>5, <2>4
  <2> QED BY <1>1, <1>2, <1>5, <2>1, <2>2, <2>3, <2>5, <2>6, HandlerKeeps DEF Step
<1>8. CASE ConnectPending(r)
  <2>1. PICK k \in Hosts : host' = [host EXCEPT ![r] = k]
    <3>1. host' = [host EXCEPT ![r].st = "connecting"]
      BY <1>8 DEF ConnectPending
    <3> QED BY <1>6, <3>1
  <2>2. Continues(r, ctx[r]) /\ kind' = kind
    BY <1>8 DEF ConnectPending, PT!ContextChangeMode
  <2>3. buf_caches' = buf_caches + BufsOf(ctx[r]) - BufsOf(ctx[r])
    BY <1>3, <1>5
  <2> QED BY <1>1, <1>2, <1>3, <1>5, <2>1, <2>2, <2>3, HandlerKeeps DEF Step
<1> QED BY <1>7, <1>8

LEMMA FailsKeeps ==
  ASSUME Step, NEW r \in Reqs, ConnectFails(r) \/ WriteFails(r) PROVE Rest'
<1>1. PICK queued \in {<<>>, <<Error(r)>>}, writing \in BOOLEAN :
         Finishes(r, queued, writing, TRUE)
  <2>1. CASE ConnectFails(r)
    BY <2>1 DEF ConnectFails
  <2>2. CASE WriteFails(r)
    BY <2>2 DEF WriteFails
  <2> QED BY <2>1, <2>2
<1>2. r \in Alive /\ (FromRun(r) \/ FromSlot(r))
  BY ExecutingIs DEF Step, ConnectFails, WriteFails
<1>3. queued = <<>> \/ Answer(r, queued)
  BY <1>1, ErrorAnswers
<1> QED BY <1>1, <1>2, <1>3, HandlerFinishes DEF Step, FromSlot

LEMMA WriteKeeps ==
  ASSUME Step, NEW r \in Reqs,
         \/ WriteAll(r) \/ WriteAgain(r)
         \/ \E bufs \in 0..(RequestBufs - 1), part \in BOOLEAN : WriteSome(r, bufs, part)
  PROVE  Rest'
<1>1. /\ Executing(r, "write") /\ Rest
      /\ UNCHANGED <<wire, ctx_caches, leaked, intact>> /\ kind' = kind
  BY DEF Step, WriteAll, WriteAgain, WriteSome, pools, table, PT!ContextChangeMode
<1>2. r \in Alive /\ ctx[r].func = "write" /\ (FromRun(r) \/ FromSlot(r))
  BY <1>1, ExecutingIs
<1>3. /\ ctx[r] \in Contexts /\ ctx[r].alive /\ host[r] \in Hosts /\ buf_caches \in Int
      /\ BufsOf(ctx[r]) \in Nat /\ host \in [Reqs -> Hosts]
  BY <1>1, <1>2, ContextIs DEF Rest, ContextsOK
<1>4. ctx[r].write \in 0..RequestBufs /\ Len(ctx[r].read) \in Nat
  BY <1>3 DEF Contexts
<1>5. CASE WriteAll(r)
  <2> DEFINE c == [ctx[r] EXCEPT !.func = "read", !.line = "start",
                                 !.write = 0, !.half = FALSE, !.wcurr = FALSE]
             k == [host[r] EXCEPT !.got = TRUE]
  <2>1. c \in Contexts /\ k \in Hosts
    <3>1. 0 \in 0..RequestBufs
      BY Sizes
    <3>2. c \in Contexts
      BY <1>3, <3>1 DEF Contexts
    <3>3. k \in Hosts
      BY <1>3 DEF Hosts
    <3> QED BY <3>2, <3>3
  <2>2. /\ c.alive /\ c.fd = ctx[r].fd /\ c.func = "read" /\ c.write = 0
        /\ c.read = ctx[r].read /\ c.rcurr = ctx[r].rcurr
    BY <1>3 DEF Contexts
  <2>3. Pends(r, c) /\ host' = [host EXCEPT ![r] = k] /\ buf_caches' = buf_caches + ctx[r].write
    BY <1>3, <1>5 DEF WriteAll
  <2> HIDE DEF c, k
  <2>4. buf_caches' = buf_caches + BufsOf(ctx[r]) - BufsOf(c)
    <3> DEFINE l == Len(ctx[r].read)
               e == IF ctx[r].rcurr THEN 1 ELSE 0
               w == ctx[r].write
               b == buf_caches
    <3>1. /\ BufsOf(c) = 0 + l + e /\ BufsOf(ctx[r]) = w + l + e /\ buf_caches' = b + w
          /\ l \in Int /\ e \in Int /\ w \in Int /\ b \in Int
      BY <1>3, <1>4, <2>2, <2>3, Sizes DEF BufsOf
    <3> HIDE DEF l, e, w, b
    <3>2. b + w = b + (w + l + e) - (0 + l + e)
      BY <3>1
    <3> QED BY <3>1, <3>2 DEF b
  <2> QED BY <1>1, <1>2, <2>1, <2>2, <2>3, <2>4, HandlerPends DEF Step
<1>6. CASE WriteAgain(r)
  <2> DEFINE l == IF ctx[r].line = "eagain" THEN "partial" ELSE "eagain"
             c == [ctx[r] EXCEPT !.wcurr = TRUE, !.line = l]
  <2>1. c \in Contexts
    BY <1>3 DEF Contexts
  <2>2. /\ c.alive /\ c.fd = ctx[r].fd /\ c.func = "write" /\ c.write = ctx[r].write
        /\ c.read = ctx[r].read /\ c.rcurr = ctx[r].rcurr
    BY <1>2, <1>3 DEF Contexts
  <2>3. Pends(r, c) /\ host' = host /\ buf_caches' = buf_caches
    BY <1>6 DEF WriteAgain, pools
  <2>4. host' = [host EXCEPT ![r] = host[r]]
    BY <1>3, <2>3
  <2> HIDE DEF c
  <2>5. buf_caches' = buf_caches + BufsOf(ctx[r]) - BufsOf(c)
    BY <1>3, <2>2, <2>3 DEF BufsOf
  <2> QED BY <1>1, <1>2, <1>3, <2>1, <2>2, <2>3, <2>4, <2>5, HandlerPends DEF Step
<1>7. ASSUME NEW bufs \in 0..(RequestBufs - 1), NEW part \in BOOLEAN, WriteSome(r, bufs, part)
      PROVE  Rest'
  <2> DEFINE w == ctx[r].write - bufs
             l == IF part THEN "partial" ELSE "eagain"
             c == [ctx[r] EXCEPT !.write = w, !.wcurr = TRUE, !.half = part, !.line = l]
             k == [host[r] EXCEPT !.full = TRUE]
  <2>1. /\ Pends(r, c) /\ host' = [host EXCEPT ![r] = k] /\ buf_caches' = buf_caches + bufs
        /\ bufs < ctx[r].write
    BY <1>3, <1>7 DEF WriteSome
  <2>2. w \in 0..RequestBufs /\ l \in {"partial", "eagain"}
    <3> DEFINE m == ctx[r].write
    <3>1. m \in 0..RequestBufs /\ bufs \in Nat /\ bufs < m /\ RequestBufs \in Nat
      BY <1>4, <2>1, Sizes
    <3> HIDE DEF m, c, k
    <3>2. m - bufs \in 0..RequestBufs
      BY <3>1
    <3> QED BY <3>2 DEF m
  <2>3. ctx[r].write = w + bufs
    BY <1>4, Sizes
  <2> HIDE DEF w, l
  <2>4. c \in Contexts /\ k \in Hosts
    BY <1>3, <2>2 DEF Contexts, Hosts
  <2>5. /\ c.alive /\ c.fd = ctx[r].fd /\ c.func = "write" /\ c.write = w
        /\ c.read = ctx[r].read /\ c.rcurr = ctx[r].rcurr
    BY <1>2, <1>3 DEF Contexts
  <2> HIDE DEF c, k
  <2>6. buf_caches' = buf_caches + BufsOf(ctx[r]) - BufsOf(c)
    <3> DEFINE n == Len(ctx[r].read)
               e == IF ctx[r].rcurr THEN 1 ELSE 0
               b == buf_caches
    <3>1. /\ BufsOf(c) = w + n + e /\ BufsOf(ctx[r]) = (w + bufs) + n + e
          /\ buf_caches' = b + bufs
          /\ n \in Int /\ e \in Int /\ w \in Int /\ b \in Int /\ bufs \in Int
      BY <1>3, <1>4, <2>1, <2>2, <2>3, <2>5, Sizes DEF BufsOf
    <3> HIDE DEF n, e, b
    <3>2. b + bufs = b + ((w + bufs) + n + e) - (w + n + e)
      BY <3>1
    <3> QED BY <3>1, <3>2 DEF b
  <2> QED BY <1>1, <1>2, <2>1, <2>4, <2>5, <2>6, HandlerPends DEF Step
<1> QED BY <1>5, <1>6, <1>7

LEMMA ReadAgainKeeps ==
  ASSUME Step, NEW r \in Reqs, ReadAgain(r) PROVE Rest'
<1> DEFINE c == [ctx[r] EXCEPT !.rcurr = TRUE]
<1>1. /\ Executing(r, "read") /\ Rest /\ Pends(r, c) /\ buf_caches' = buf_caches - Taken(r)
      /\ UNCHANGED <<wire, ctx_caches, leaked, intact>> /\ kind' = kind /\ host' = host
  BY DEF Step, ReadAgain, table
<1>2. r \in Alive /\ ctx[r].func = "read" /\ (FromRun(r) \/ FromSlot(r))
  <2> HIDE DEF c
  <2> QED BY <1>1, ExecutingIs
<1>3. /\ ctx[r] \in Contexts /\ ctx[r].alive /\ host[r] \in Hosts /\ buf_caches \in Int
      /\ host \in [Reqs -> Hosts]
  BY <1>1, <1>2, ContextIs DEF Rest, ContextsOK
<1>4. c \in Contexts
  BY <1>3 DEF Contexts
<1>5. /\ c.alive /\ c.fd = ctx[r].fd /\ c.func = "read" /\ c.write = ctx[r].write
      /\ c.read = ctx[r].read /\ c.rcurr = TRUE
  BY <1>2, <1>3 DEF Contexts
<1>6. host' = [host EXCEPT ![r] = host[r]]
  BY <1>1, <1>3
<1> HIDE DEF c
<1>7. buf_caches' = buf_caches + BufsOf(ctx[r]) - BufsOf(c)
  <2> DEFINE n == Len(ctx[r].read)
             w == ctx[r].write
             e == IF ctx[r].rcurr THEN 1 ELSE 0
             b == buf_caches
  <2>1. /\ n \in Int /\ w \in Int /\ e \in Int /\ b \in Int
        /\ BufsOf(ctx[r]) = w + n + e /\ BufsOf(c) = w + n + 1
        /\ Taken(r) = 1 - e /\ buf_caches' = b - Taken(r)
    BY <1>1, <1>3, <1>5, Sizes DEF Contexts, BufsOf, Taken
  <2> HIDE DEF n, w, e, b
  <2>2. b - (1 - e) = b + (w + n + e) - (w + n + 1)
    BY <2>1
  <2> QED BY <2>1, <2>2 DEF b
<1> QED BY <1>1, <1>2, <1>3, <1>4, <1>5, <1>6, <1>7, HandlerPends DEF Step

LEMMA ReadSomeKeeps ==
  ASSUME Step, NEW r \in Reqs, ReadSome(r) PROVE Rest'
<1> DEFINE rb   == ctx[r].rbytes
           rx   == host[r].rx
           room == BufSize - Len(rb)
           n    == IF Len(rx) < room THEN Len(rx) ELSE room
           got  == rb \o SubSeq(rx, 1, n)
           l    == Append(ctx[r].read, got)
           full == [ctx[r] EXCEPT !.read = l, !.rcurr = FALSE,
                                  !.rbytes = <<>>]
           part == [ctx[r] EXCEPT !.rcurr = TRUE, !.rbytes = got]
           rest == SubSeq(rx, n + 1, Len(rx))
           k    == [host[r] EXCEPT !.rx = rest]
<1>1. /\ Executing(r, "read") /\ Rest /\ buf_caches' = buf_caches - Taken(r)
      /\ UNCHANGED <<wire, ctx_caches, leaked, intact>> /\ kind' = kind
  BY DEF Step, ReadSome, table
<1>2. r \in Alive /\ ctx[r].func = "read" /\ (FromRun(r) \/ FromSlot(r))
  BY <1>1, ExecutingIs
<1>3. /\ ctx[r] \in Contexts /\ ctx[r].alive /\ host[r] \in Hosts /\ buf_caches \in Int
      /\ host \in [Reqs -> Hosts]
  BY <1>1, <1>2, ContextIs DEF Rest, ContextsOK
<1>4. /\ IF Len(got) = BufSize THEN Pends(r, full) ELSE Pends(r, part)
      /\ host' = [host EXCEPT ![r].rx = SubSeq(@, n + 1, Len(@))]
  BY DEF ReadSome
<1>5. host' = [host EXCEPT ![r] = k]
  <2> HIDE DEF n
  <2> QED BY <1>3, <1>4
<1>6. rb \in Bytes /\ Len(rb) \in 0..BufSize /\ rx \in Bytes /\ Len(rx) \in Nat
  BY <1>3, ParseAssumption DEF Contexts, Hosts, Buffer, Bytes
<1> HIDE DEF rb, rx
<1>7. n \in 0..Len(rx) /\ Len(rb) + n <= BufSize
  <2> DEFINE a == Len(rx)
             b == Len(rb)
  <2>1. a \in Nat /\ b \in 0..BufSize /\ BufSize \in Nat
    BY <1>6, ParseAssumption
  <2> HIDE DEF a, b
  <2> QED BY <2>1 DEF a, b
<1> HIDE DEF n
<1>8. /\ SubSeq(rx, 1, n) \in Bytes /\ Len(SubSeq(rx, 1, n)) = n /\ rest \in Bytes
  BY <1>6, <1>7 DEF Bytes
<1>9. got \in Bytes /\ Len(got) <= BufSize
  <2> DEFINE s == SubSeq(rx, 1, n)
  <2>1. s \in Bytes /\ Len(s) = n
    BY <1>8
  <2> HIDE DEF s
  <2>2. rb \o s \in Bytes /\ Len(rb \o s) = Len(rb) + n
    BY <1>6, <2>1, ConcatProperties DEF Bytes
  <2> QED BY <1>7, <2>2 DEF s
<1> HIDE DEF got, rest, l
<1>10. k \in Hosts
  BY <1>3, <1>8 DEF Hosts
<1> HIDE DEF k
<1> DEFINE m == Len(ctx[r].read)
           w == ctx[r].write
           e == IF ctx[r].rcurr THEN 1 ELSE 0
           b == buf_caches
<1>11. /\ m \in Int /\ w \in Int /\ e \in Int /\ b \in Int
       /\ BufsOf(ctx[r]) = w + m + e /\ buf_caches' = b - (1 - e)
  BY <1>1, <1>3, Sizes DEF Contexts, BufsOf, Taken
<1>12. CASE Len(got) = BufSize
  <2>1. l \in Seq(Bytes) /\ Len(l) = m + 1
    <3>1. ctx[r].read \in Seq(Bytes)
      BY <1>3 DEF Contexts
    <3> QED BY <1>9, <3>1 DEF l
  <2>2. full \in Contexts
    BY <1>3, <2>1, EmptyBuffer DEF Contexts
  <2>3. /\ full.alive /\ full.fd = ctx[r].fd /\ full.func = "read" /\ full.write = w
        /\ full.read = l /\ full.rcurr = FALSE
    BY <1>2, <1>3 DEF Contexts
  <2>4. Pends(r, full)
    BY <1>4, <1>12
  <2> HIDE DEF full, m, w, e, b
  <2>5. BufsOf(full) = w + (m + 1) + 0
    BY <2>1, <2>3 DEF BufsOf
  <2>6. b - (1 - e) = b + (w + m + e) - (w + (m + 1) + 0)
    BY <1>11
  <2>7. buf_caches' = buf_caches + BufsOf(ctx[r]) - BufsOf(full)
    BY <1>11, <2>5, <2>6 DEF b
  <2> QED BY <1>1, <1>2, <1>5, <1>10, <2>2, <2>3, <2>4, <2>7, HandlerPends DEF Step
<1>13. CASE Len(got) # BufSize
  <2>1. part \in Contexts
    BY <1>3, <1>9 DEF Contexts, Buffer
  <2>2. /\ part.alive /\ part.fd = ctx[r].fd /\ part.func = "read" /\ part.write = w
        /\ part.read = ctx[r].read /\ part.rcurr = TRUE
    BY <1>2, <1>3 DEF Contexts
  <2>3. Pends(r, part)
    BY <1>4, <1>13
  <2> HIDE DEF part
  <2>4. BufsOf(part) = w + m + 1
    BY <2>2 DEF BufsOf
  <2> HIDE DEF m, w, e, b
  <2>5. b - (1 - e) = b + (w + m + e) - (w + m + 1)
    BY <1>11
  <2>6. buf_caches' = buf_caches + BufsOf(ctx[r]) - BufsOf(part)
    BY <1>11, <2>4, <2>5 DEF b
  <2> QED BY <1>1, <1>2, <1>5, <1>10, <2>1, <2>2, <2>3, <2>6, HandlerPends DEF Step
<1> QED BY <1>12, <1>13

LEMMA CrashKeeps ==
  ASSUME Step, Crashes PROVE Rest'
<1>1. Rest /\ UNCHANGED <<table, revents, main, lists, ctx, pools, toserver, server, taken,
                          prepared, host, faults, asked>>
      /\ intact' = FALSE
  BY DEF Step, Crashes, wire
<1>2. /\ host' \in [Reqs -> Hosts] /\ faults' \in Nat /\ asked' \in 0..Requests
      /\ asked <= asked' /\ intact' \in BOOLEAN /\ asked' = asked
  <2>1. host \in [Reqs -> Hosts] /\ faults \in Nat /\ asked \in 0..Requests
    BY <1>1 DEF Rest, ContextsOK
  <2>2. asked <= asked
    BY <2>1, Sizes
  <2> QED BY <1>1, <2>1, <2>2
<1> QED BY <1>1, <1>2, RestStays

\* What http_parse made of the buffers is one answer, or none.
LEMMA AnswersKeep ==
  ASSUME Step, NEW r \in Reqs, ReadEnds(r) \/ HangsUp(r) PROVE Rest'
<1>1. r \in Alive /\ (FromRun(r) \/ phase = "scan") /\ Rest
  <2>1. CASE ReadEnds(r)
    BY <2>1, ExecutingIs DEF Step, ReadEnds, FromSlot
  <2>2. CASE HangsUp(r)
    BY <2>2 DEF Step, HangsUp
  <2> QED BY <2>1, <2>2
<1>2. /\ ctx[r] \in Contexts /\ ctx[r].read \in Seq(Bytes) /\ ctx[r].rbytes \in Bytes
      /\ ctx[r].wcurr \in BOOLEAN
  <2>1. ctx[r] \in Contexts
    BY <1>1, ContextIs
  <2> QED BY <2>1 DEF Contexts, Buffer
<1>3. ASSUME NEW p, Outcome(p), NEW queued, NEW writing \in BOOLEAN, NEW owed \in BOOLEAN,
             queued \in {IF p.rc = 0 THEN ResponseFrame(r, p) ELSE <<>>, <<Error(r)>>, <<>>},
             Finishes(r, queued, writing, owed)
      PROVE  Rest'
  <2>1. queued = <<>> \/ Answer(r, queued)
    BY <1>3, ErrorAnswers, ResponseAnswers
  <2> QED BY <1>1, <1>3, <2>1, HandlerFinishes DEF Step
<1>4. CASE ReadEnds(r)
  <2> DEFINE bufs   == IF ctx[r].rbytes = <<>> THEN ctx[r].read
                       ELSE Append(ctx[r].read, ctx[r].rbytes)
             memory == buf_caches > 0 \/ (ctx[r].rcurr /\ ctx[r].rbytes = <<>>)
             p      == http_parse(bufs, memory)
             q      == IF p.rc = 0 THEN ResponseFrame(r, p)
                       ELSE IF p.errcode \in {12, 15} THEN <<Error(r)>> ELSE <<>>
  <2>1. IF p.rc = Crash THEN Crashes ELSE Finishes(r, q, FALSE, memory)
    BY <1>4, Zenon DEF ReadEnds
  <2>2. bufs \in Seq(Bytes) /\ memory \in BOOLEAN
    BY <1>2
  <2> HIDE DEF bufs, memory
  <2>3. Outcome(p)
    BY <2>2, ParsedIs
  <2> HIDE DEF p
  <2>4. q \in {IF p.rc = 0 THEN ResponseFrame(r, p) ELSE <<>>, <<Error(r)>>, <<>>}
    OBVIOUS
  <2> HIDE DEF q
  <2>5. CASE Crashes
    BY <2>5, CrashKeeps
  <2>6. CASE Finishes(r, q, FALSE, memory)
    BY <1>3, <2>2, <2>3, <2>4, <2>6
  <2> QED BY <2>1, <2>5, <2>6
<1>5. CASE HangsUp(r)
  <2> DEFINE memory == buf_caches > 0
             p == IF ctx[r].func = "read" THEN http_parse(ctx[r].read, memory)
                  ELSE Parsed(-1, 0, <<>>, 0)
             q == IF p.rc = 0 THEN ResponseFrame(r, p) ELSE <<>>
  <2>1. IF p.rc = Crash THEN Crashes ELSE Finishes(r, q, ctx[r].wcurr, TRUE)
    BY <1>5, Zenon DEF HangsUp
  <2>2. Outcome(Parsed(-1, 0, <<>>, 0))
    <3>1. <<>> \in Seq(Bytes) /\ 0 \in Nat /\ -1 # 0 /\ -1 \in {0, -1, Crash}
      OBVIOUS
    <3> QED BY <3>1 DEF Outcome, Parsed
  <2> HIDE DEF memory
  <2>3. Outcome(http_parse(ctx[r].read, memory))
    BY <1>2, ParsedIs
  <2>4. Outcome(p)
    BY <2>2, <2>3
  <2> HIDE DEF p
  <2>5. q \in {IF p.rc = 0 THEN ResponseFrame(r, p) ELSE <<>>, <<Error(r)>>, <<>>}
    OBVIOUS
  <2> HIDE DEF q
  <2>6. CASE Crashes
    BY <2>6, CrashKeeps
  <2>7. CASE Finishes(r, q, ctx[r].wcurr, TRUE)
    BY <1>2, <1>3, <2>4, <2>5, <2>7
  <2> QED BY <2>1, <2>6, <2>7
<1> QED BY <1>4, <1>5

-----------------------------------------------------------------------------
(* The websocket's loss.                                                   *)

LEMMA LostKeeps ==
  ASSUME Step, WebsocketLost PROVE Rest'
<1>1. /\ ScanOK /\ ContextsOK /\ Loop /\ Owners /\ Linked /\ Accounts /\ Sent
  BY DEF Step, Rest
<1>2. /\ kind[Websocket] = "WEBSOCKET" /\ faults' = faults + 1 /\ phase' = "closing"
      /\ PT!WebsocketDel(Websocket) /\ revents' = MovedRevents(Websocket)
      /\ taken' = asked /\ prepared' = 0 /\ buf_caches' = buf_caches + prepared
      /\ UNCHANGED <<scan, lists, ctx, ctx_caches, leaked, toserver, server, asked, host,
                     intact>>
  BY DEF WebsocketLost
<1>3. /\ kind' = [kind EXCEPT ![Websocket] = "NONE"] /\ kind \in [PT!Fd -> PT!Kind]
      /\ Websocket \in PT!Fd /\ count_pollfds - 1 \in PT!Slot
  BY <1>2, Sizes DEF PT!WebsocketDel, Step, TableOK, PT!TypeOK, PT!ListenerArmed
<1>4. kind'[Websocket] = "NONE" /\ \A fd \in PT!Fd \ {Websocket} : kind'[fd] = kind[fd]
  BY <1>3
<1>5. ScanOK' /\ Loop'
  <2>1. revents[count_pollfds - 1] \in SUBSET Flags
    BY <1>1, <1>3 DEF ScanOK
  <2>2. revents' \in [PT!Slot -> SUBSET Flags]
    BY <1>1, <1>2, <2>1 DEF ScanOK, MovedRevents
  <2> QED BY <1>1, <1>2, <1>4, <2>2 DEF ScanOK, Loop
<1>6. /\ buf_caches \in Int /\ prepared \in Nat /\ asked \in 0..Requests /\ asked \in Nat
      /\ taken \in 0..asked /\ faults \in Nat
  BY <1>1, Sizes DEF ContextsOK
<1>7. ContextsOK'
  <2>1. taken' \in 0..asked' /\ buf_caches' \in Int /\ prepared' \in Nat /\ faults' \in Nat
    BY <1>2, <1>6
  <2> QED BY <1>1, <1>2, <2>1 DEF ContextsOK
<1>8. Linked' /\ Sent' /\ Alive' = Alive /\ HeldOf(ctx') = HeldOf(ctx)
  <2>1. taken' \in Nat /\ taken <= taken' /\ Frames' = Frames
    BY <1>2, <1>6 DEF Frames
  <2> QED BY <1>2, <2>1, CtxStays DEF Step
<1>9. Owners'
  <2>1. \A r \in Alive : r <= taken' /\ ctx[r].fd # Websocket
    <3>1. \A r \in Alive : r \in Nat /\ r <= taken /\ kind[ctx[r].fd] = "HTTP"
      BY <1>1, Sizes DEF Owners, Alive
    <3> QED BY <1>2, <1>6, <3>1
  <2>2. \A fd \in PT!Fd : kind'[fd] = "HTTP" => kind[fd] = "HTTP"
    BY <1>4
  <2> QED BY <1>1, <1>2, <1>4, <1>8, <2>1, <2>2 DEF Owners
<1>10. Accounts'
  <2> DEFINE x == Len(toserver)
             h == HeldOf(ctx)
             b == buf_caches
             p == prepared
  <2>1. /\ x \in Int /\ h \in Int /\ b \in Int /\ p \in Int
        /\ b + p + x + h = NumBufs /\ buf_caches' = b + p /\ prepared' = 0
        /\ Len(toserver') = x /\ HeldOf(ctx') = h
    BY <1>1, <1>2, <1>6, <1>8, HeldType DEF ContextsOK, Accounts
  <2> HIDE DEF x, h, b, p
  <2>2. (b + p) + 0 + x + h = NumBufs
    BY <2>1
  <2>3. ctx_caches' + Cardinality(Alive') + leaked' = NumCtx
    BY <1>1, <1>2, <1>8 DEF Accounts
  <2> QED BY <2>1, <2>2, <2>3 DEF Accounts
<1> QED BY <1>5, <1>7, <1>8, <1>9, <1>10 DEF Rest

LEMMA ReleaseAllKeeps ==
  ASSUME Step, NEW r \in Reqs, ReleaseAll(r) PROVE Rest'
<1> DEFINE fd == ctx[r].fd
           rev == MovedRevents(fd)
<1>1. /\ Rest /\ TableOK /\ r \in Alive /\ phase = "closing"
      /\ http_context_release(r, <<>>, ctx[r].wcurr, FALSE)
      /\ revents' = rev /\ phase' = phase /\ scan' = scan
  BY DEF Step, ReleaseAll, main
<1>2. rev \in [PT!Slot -> SUBSET Flags]
  BY <1>1, MovedReventsIs
<1> HIDE DEF rev
<1>3. ScanOK'
  BY <1>1, <1>2 DEF Rest, ScanOK
<1>4. kind' = [kind EXCEPT ![fd] = "NONE"] /\ kind \in [PT!Fd -> PT!Kind]
  BY <1>1 DEF http_context_release, PT!ContextRelease, TableOK, PT!TypeOK
<1> HIDE DEF fd
<1>5. Loop'
  <2>1. kind[Websocket] = "NONE" /\ Websocket \in PT!Fd
    BY <1>1, Sizes DEF Rest, Loop
  <2>2. kind'[Websocket] = "NONE"
    BY <1>4, <2>1
  <2> QED BY <1>1, <2>2 DEF Loop
<1>6. ctx[r].wcurr \in BOOLEAN
  <2>1. ctx[r] \in Contexts
    BY <1>1, ContextIs
  <2> QED BY <2>1 DEF Contexts
<1> QED BY <1>1, <1>3, <1>5, <1>6, HandlerReleases

-----------------------------------------------------------------------------
(* The environment.                                                        *)

LEMMA WireIs ==
  ASSUME NEW r \in Reqs, NEW reply \in RepliesTo(r)
  PROVE  Wire(reply) \in Bytes
<1>0. 0 \in Int
  OBVIOUS
<1>1. CR \in Int /\ LF \in Int /\ PlainHead \in Int /\ ChunkedHead \in Int
  BY DEF CR, LF, PlainHead, ChunkedHead
<1>2. ASSUME NEW from \in Int, NEW n \in Nat
      PROVE  DataBytes(from, n) \in Bytes
  <2> DEFINE D(k) == IF from + k = 2 THEN CR ELSE 100 + from + k
  <2>1. \A k \in 1..n : D(k) \in Int
    BY <1>1
  <2> HIDE DEF D
  <2>2. [k \in 1..n |-> D(k)] \in Seq(Int)
    BY <2>1
  <2> QED BY <2>2 DEF D, DataBytes, Bytes
<1>3. ASSUME NEW pad \in Nat, NEW n \in Int
      PROVE  SizeLine(pad, n) \in Bytes
  <2>1. [z \in 1..pad |-> 0] \in Seq(Int) /\ <<n, CR, LF>> \in Seq(Int)
    BY <1>1
  <2> QED BY <2>1, ConcatProperties DEF SizeLine, Bytes
<1>4. CASE ~reply.chunked
  <2>1. reply.length \in Nat
    <3>1. 0..MaxLength \subseteq Nat
      BY ConstantsAssumption
    <3>2. reply.length \in 0..MaxLength
      BY <1>4 DEF RepliesTo
    <3> QED BY <3>1, <3>2
  <2>2. DataBytes(0, reply.length) \in Bytes /\ <<PlainHead>> \in Bytes
    <3>1. DataBytes(0, reply.length) \in Bytes
      BY <1>2, <2>1, <1>0
    <3>2. <<PlainHead>> \in Bytes
      BY <1>1 DEF Bytes
    <3> QED BY <3>1, <3>2
  <2>3. Wire(reply) = <<PlainHead>> \o DataBytes(0, reply.length)
    BY <1>4 DEF Wire
  <2> QED BY <2>2, <2>3, ConcatProperties DEF Bytes
<1>5. CASE reply.chunked
  <2> DEFINE s == reply.chunks
             m == Len(s)
             One(c) == SizeLine(reply.pad, s[c]) \o DataBytes(Before(s, c), s[c])
                         \o <<CR, LF>>
             all == [c \in 1..m |-> One(c)]
  <2>1. /\ reply.pad \in Nat
        /\ \E n \in 0..MaxChunks : s \in [1..n -> {1, MaxChunk}]
    BY <1>5, ConstantsAssumption DEF RepliesTo
  <2>2. s \in Seq(Nat)
    <3>1. 1 \in Nat /\ MaxChunk \in Nat /\ 0..MaxChunks \subseteq Nat
      BY ConstantsAssumption
    <3>2. PICK n \in Nat : s \in [1..n -> {1, MaxChunk}]
      BY <2>1, <3>1
    <3>3. \A i \in 1..n : s[i] \in Nat
      BY <3>1, <3>2
    <3>4. s = [i \in 1..n |-> s[i]]
      BY <3>2
    <3> HIDE DEF s
    <3> QED BY <3>3, <3>4
  <2> HIDE DEF s
  <2>3. m \in Nat /\ \A c \in 1..m : s[c] \in Nat
    BY <2>2
  <2>4. ASSUME NEW c \in 1..m PROVE One(c) \in Bytes
    <3>1. c - 1 \in Nat /\ \A k \in 1..(c - 1) : s[k] \in Int
      BY <2>3
    <3>2. Before(s, c) \in Int
      BY <3>1, TotalType DEF Before
    <3>3. s[c] \in Nat
      BY <2>3
    <3>4. /\ SizeLine(reply.pad, s[c]) \in Bytes /\ DataBytes(Before(s, c), s[c]) \in Bytes
      BY <1>2, <1>3, <2>1, <3>2, <3>3
    <3>5. <<CR, LF>> \in Bytes
      BY <1>1 DEF Bytes
    <3> QED BY <3>4, <3>5, ConcatProperties DEF Bytes
  <2> HIDE DEF One, m
  <2>5. all \in Seq(Bytes)
    BY <2>3, <2>4
  <2>6. FlattenSeq(all) \in Bytes
    BY <2>5, FlattenType DEF Bytes
  <2>7. Wire(reply) = <<ChunkedHead>> \o FlattenSeq(all) \o SizeLine(reply.pad, 0) \o <<CR, LF>>
    BY <1>5 DEF Wire, One, m, s
  <2> HIDE DEF all
  <2>8. <<ChunkedHead>> \in Bytes /\ <<CR, LF>> \in Bytes /\ SizeLine(reply.pad, 0) \in Bytes
    <3>1. SizeLine(reply.pad, 0) \in Bytes
      BY <1>3, <2>1, <1>0
    <3>2. <<ChunkedHead>> \in Bytes /\ <<CR, LF>> \in Bytes
      BY <1>1 DEF Bytes
    <3> QED BY <3>1, <3>2
  <2> QED BY <2>6, <2>7, <2>8, ConcatProperties DEF Bytes
<1> QED BY <1>4, <1>5

LEMMA EnvironmentKeeps ==
  ASSUME Step, \/ ServerAsks \/ Undefined \/ UNCHANGED vars
               \/ \E r \in Reqs : LanHost(r) \/ RefusedOrReset(r) \/ HostGivesUp(r)
  PROVE  Rest'
<1>1. /\ Rest /\ host \in [Reqs -> Hosts] /\ faults \in Nat /\ asked \in 0..Requests
      /\ intact \in BOOLEAN /\ asked \in Nat
  BY Sizes DEF Step, Rest, ContextsOK
<1>2. CASE Undefined \/ UNCHANGED vars
  <2>1. UNCHANGED <<table, revents, main, lists, ctx, pools, toserver, server, taken, prepared,
                    host, faults, asked, intact>>
    BY <1>2 DEF Undefined, vars, wire
  <2>2. /\ host' \in [Reqs -> Hosts] /\ faults' \in Nat /\ asked' \in 0..Requests
        /\ asked <= asked' /\ asked' = asked /\ intact' \in BOOLEAN
    BY <1>1, <2>1
  <2> QED BY <1>1, <2>1, <2>2, RestStays
<1>3. CASE ServerAsks
  <2>1. UNCHANGED <<table, revents, main, lists, ctx, pools, toserver, server, taken, prepared>>
    BY <1>3 DEF ServerAsks
  <2>2. /\ host' \in [Reqs -> Hosts] /\ faults' \in Nat /\ asked' \in 0..Requests
        /\ asked <= asked' /\ phase # "scan" /\ intact' \in BOOLEAN
    BY <1>1, <1>3, Sizes DEF ServerAsks
  <2> QED BY <1>1, <2>1, <2>2, RestStays
<1>4. ASSUME NEW r \in Reqs, NEW k \in Hosts, NEW n \in {0, 1}, Kernel(r, k, n)
      PROVE  Rest'
  <2>1. UNCHANGED <<table, revents, main, lists, ctx, pools, toserver, server, taken, prepared>>
    BY <1>4 DEF Kernel
  <2>2. /\ host' \in [Reqs -> Hosts] /\ faults' \in Nat /\ asked' \in 0..Requests
        /\ asked <= asked' /\ asked' = asked /\ intact' \in BOOLEAN
    BY <1>1, <1>4 DEF Kernel
  <2> QED BY <1>1, <2>1, <2>2, RestStays
<1>5. ASSUME NEW r \in Reqs, LanHost(r) \/ RefusedOrReset(r) \/ HostGivesUp(r)
      PROVE  \E k \in Hosts, n \in {0, 1} : Kernel(r, k, n)
  <2>1. host[r] \in Hosts
    BY <1>1
  <2>2. CASE Established(r)
    <3>1. [host[r] EXCEPT !.st = "connected"] \in Hosts
      BY <2>1 DEF Hosts
    <3> QED BY <2>2, <3>1 DEF Established
  <2>3. CASE RefusedOrReset(r)
    <3>1. [host[r] EXCEPT !.st = "dead", !.whole = FALSE] \in Hosts
      BY <2>1 DEF Hosts
    <3> QED BY <2>3, <3>1 DEF RefusedOrReset
  <2>4. CASE HostReads(r)
    <3>1. [host[r] EXCEPT !.full = FALSE] \in Hosts
      BY <2>1 DEF Hosts
    <3> QED BY <2>4, <3>1 DEF HostReads
  <2>5. CASE HostReplies(r)
    <3>1. PICK reply \in RepliesTo(r) :
             Kernel(r, [host[r] EXCEPT !.reply = <<reply>>, !.left = Wire(reply)], 0)
      BY <2>5 DEF HostReplies
    <3>2. Wire(reply) \in Bytes /\ <<reply>> \in {<<e>> : e \in Replies}
      BY WireIs DEF Replies
    <3>3. [host[r] EXCEPT !.reply = <<reply>>, !.left = Wire(reply)] \in Hosts
      BY <2>1, <3>2 DEF Hosts
    <3> QED BY <3>1, <3>3
  <2>6. CASE HostSends(r)
    <3> DEFINE left == host[r].left
               n == IF Len(left) < Segment THEN Len(left) ELSE Segment
               sent == host[r].rx \o SubSeq(left, 1, n)
               rest == SubSeq(left, n + 1, Len(left))
    <3>1. Kernel(r, [host[r] EXCEPT !.rx = sent, !.left = rest], 0)
      <4> HIDE DEF n
      <4> QED BY <2>6 DEF HostSends, n
    <3>2. left \in Seq(Int) /\ host[r].rx \in Seq(Int)
      BY <2>1 DEF Hosts, Bytes
    <3>3. n \in 0..Len(left)
      <4> DEFINE l == Len(left)
      <4>1. l \in Nat /\ Segment \in Nat
        BY <3>2, ConstantsAssumption
      <4> HIDE DEF l
      <4>2. (IF l < Segment THEN l ELSE Segment) \in 0..l
        BY <4>1
      <4> QED BY <4>2 DEF l
    <3> HIDE DEF left, n
    <3>4. SubSeq(left, 1, n) \in Seq(Int) /\ rest \in Seq(Int)
      BY <3>2, <3>3, SplitSeq
    <3>5. sent \in Bytes /\ rest \in Bytes
      BY <3>2, <3>4, ConcatProperties DEF Bytes
    <3> HIDE DEF sent, rest
    <3>6. [host[r] EXCEPT !.rx = sent, !.left = rest] \in Hosts
      BY <2>1, <3>5 DEF Hosts
    <3> QED BY <3>1, <3>6
  <2>7. CASE HostCloses(r)
    <3>1. [host[r] EXCEPT !.fin = TRUE, !.whole = TRUE] \in Hosts
      BY <2>1 DEF Hosts
    <3> QED BY <2>7, <3>1 DEF HostCloses
  <2>8. CASE HostGivesUp(r)
    <3>1. <<>> \in Bytes
      BY EmptySeq DEF Bytes
    <3>2. [host[r] EXCEPT !.fin = TRUE, !.left = <<>>] \in Hosts
      BY <2>1, <3>1 DEF Hosts
    <3> QED BY <2>8, <3>2 DEF HostGivesUp
  <2> QED BY <1>5, <2>2, <2>3, <2>4, <2>5, <2>6, <2>7, <2>8 DEF LanHost
<1> QED BY <1>2, <1>3, <1>4, <1>5

-----------------------------------------------------------------------------
(* The invariant holds.                                                    *)

LEMMA InitIInv == Init => IInv
<1> SUFFICES ASSUME Init PROVE IInv
  OBVIOUS
<1>1. PTP!IndInv
  <2>1. PTP!Init
    BY TableIs DEF Init
  <2>2. MaxFds \in Nat /\ Listener \in 0..(MaxFds - 1)
    BY Sizes
  <2> QED BY <2>1, <2>2, PTP!InitIndInv
<1>2. /\ revents = [slot \in PT!Slot |-> {}] /\ phase = "reconn" /\ scan = 0
      /\ running = <<>> /\ list_ready = <<>> /\ ready_len = 0
      /\ ctx = [r \in Reqs |-> NoContext] /\ host = [r \in Reqs |-> NoHost]
      /\ leaked \in 0..MaxFaults /\ leaked <= NumCtx
      /\ faults = leaked /\ ctx_caches = NumCtx - leaked
      /\ buf_caches = NumBufs /\ toserver = <<>> /\ server = <<>> /\ asked = 0 /\ taken = 0
      /\ prepared = 0 /\ intact = TRUE
  BY DEF Init
<1>3. kind[Websocket] = "NONE" /\ kind[Listener] = "TCPSERVER"
      /\ \A fd \in PT!Fd \ {Listener} : kind[fd] = "NONE"
  BY Sizes DEF Init, PT!Init
<1>4. ScanOK /\ Loop
  BY <1>2, <1>3, Sizes DEF ScanOK, Loop
<1>5. NoContext \in Contexts /\ ~NoContext.alive /\ BufsOf(NoContext) = 0
  BY Sizes, EmptySeq, EmptyBuffer DEF NoContext, Contexts, BufsOf, Bytes
<1>6. NoHost \in Hosts
  BY EmptySeq DEF NoHost, Hosts, Bytes
<1>7. /\ leaked \in Nat /\ NumCtx - leaked \in Nat /\ NumBufs \in Int /\ 0 \in 0..Requests
      /\ 0 \in 0..0
  BY <1>2, Sizes
<1>8. ContextsOK
  <2>1. <<>> \in Seq(Pieces)
    BY EmptySeq
  <2> QED BY <1>2, <1>5, <1>6, <1>7, <2>1 DEF ContextsOK
<1>9. Alive = {} /\ ReadyCtx = {}
  BY <1>2, <1>5 DEF Alive, ReadyCtx
<1>10. Owners
  BY <1>2, <1>3, <1>9, Sizes DEF Owners
<1>11. Linked
  <2>1. <<>> \in Seq(Reqs) /\ IsInjective(<<>>) /\ Len(<<>>) = 0
    BY DEF IsInjective
  <2>2. \A s : s = <<>> => Range(s) = {}
    BY DEF Range
  <2>3. Range(running) = {} /\ Range(list_ready) = {}
    BY <1>2, <2>2
  <2> QED BY <1>2, <1>9, <2>1, <2>3 DEF Linked
<1>12. Accounts
  <2>1. HeldOf(ctx) = 0
    <3> DEFINE f == [r \in Reqs |-> BufsOf(ctx[r])]
    <3>1. Requests \in Nat /\ \A k \in 1..Requests : f[k] = 0
      BY <1>2, <1>5, Sizes
    <3> HIDE DEF f
    <3>2. Total(f, Requests) = 0
      BY <3>1, TotalZero
    <3> QED BY <3>2 DEF HeldOf, f
  <2>2. Cardinality(Alive) = 0 /\ Len(toserver) = 0
    BY <1>2, <1>9, FS_EmptySet
  <2>3. ctx_caches + Cardinality(Alive) + leaked = NumCtx
    BY <1>2, <1>7, <2>2, Sizes
  <2>4. buf_caches + prepared + Len(toserver) + HeldOf(ctx) = NumBufs
    BY <1>2, <2>1, <2>2, Sizes
  <2> QED BY <2>3, <2>4 DEF Accounts
<1>13. Sent
  <2>1. Frames = <<>>
    BY <1>2 DEF Frames
  <2>2. Len(Frames) = 0
    BY <2>1
  <2> HIDE DEF Frames
  <2> QED BY <2>2 DEF Sent, AllWhole
<1> QED BY <1>1, <1>4, <1>8, <1>10, <1>11, <1>12, <1>13 DEF IInv, Rest

LEMMA NextIInv ==
  ASSUME IInv, [Next]_vars
  PROVE  IInv'
<1>1. TableOK /\ Rest /\ PTP!IndInv
  BY TableFacts DEF IInv
<1>2. [PT!Next]_(PT!vars)
  BY <1>1, StepTable
<1>3. PTP!IndInv'
  <2>1. [PTP!Next]_(PTP!vars)
    BY <1>2, TableIs
  <2>2. MaxFds \in Nat /\ Listener \in 0..(MaxFds - 1)
    BY Sizes
  <2> QED BY <1>1, <2>1, <2>2, PTP!NextIndInv
<1>4. TableOK'
  <2>1. (PTP!IndInv => TableOK)'
    BY TableFacts, PTL
  <2> QED BY <1>3, <2>1
<1>5. Step
  BY <1>1, <1>2, <1>4 DEF Step
<1>6. Rest'
  <2>1. CASE Run \/ Poll \/ Writeable \/ Reconnect
    BY <1>5, <2>1, RunKeeps, PollKeeps, WriteableKeeps, ReconnectKeeps
  <2>2. CASE RequestDropped \/ NoContextLeft \/ SocketFails \/ http_context_create
    BY <1>5, <2>2, RefusedKeeps, CreateKeeps
  <2>3. ASSUME NEW r \in Reqs, Executes(r) PROVE Rest'
    <3>1. CASE ConnectDone(r) \/ ConnectPending(r)
      BY <1>5, <3>1, ConnectKeeps
    <3>2. CASE ConnectFails(r) \/ WriteFails(r)
      BY <1>5, <3>2, FailsKeeps
    <3>3. CASE \/ WriteAll(r) \/ WriteAgain(r)
               \/ \E bufs \in 0..(RequestBufs - 1), part \in BOOLEAN : WriteSome(r, bufs, part)
      BY <1>5, <3>3, WriteKeeps
    <3>4. CASE ReadSome(r) \/ ReadAgain(r)
      BY <1>5, <3>4, ReadSomeKeeps, ReadAgainKeeps
    <3>5. CASE ReadEnds(r)
      BY <1>5, <3>5, AnswersKeep
    <3>6. CASE ReadCrashes(r)
      BY <1>5, <3>6, CrashKeeps DEF ReadCrashes
    <3> QED BY <2>3, <3>1, <3>2, <3>3, <3>4, <3>5, <3>6 DEF Executes
  <2>4. ASSUME NEW r \in Reqs, HangsUp(r) \/ ReleaseAll(r) PROVE Rest'
    BY <1>5, <2>4, AnswersKeep, ReleaseAllKeeps
  <2>5. CASE WebsocketLost
    BY <1>5, <2>5, LostKeeps
  <2>6. CASE \/ ServerAsks \/ Undefined \/ UNCHANGED vars
             \/ \E r \in Reqs : LanHost(r) \/ RefusedOrReset(r) \/ HostGivesUp(r)
    BY <1>5, <2>6, EnvironmentKeeps
  <2> QED BY <2>1, <2>2, <2>3, <2>4, <2>5, <2>6 DEF Next, Client
<1> QED BY <1>3, <1>6 DEF IInv

-----------------------------------------------------------------------------
(* What http_parse makes of a whole response, however it is cut.           *)

\* Of what w has after p bytes, the first ones are in b after o bytes; bytes
\* o + 1 to m of b are taken.
LEMMA PartTaken ==
  ASSUME NEW w \in Bytes, NEW p \in Nat, NEW b \in Bytes, NEW v \in Bytes,
         NEW o \in Nat, NEW l \in Nat, l <= Len(b), Cut(w, p, Part(b, o, l), v),
         NEW m \in Nat, o <= m, m <= l
  PROVE  \E q \in Nat : /\ q = p + (m - o) /\ p <= q /\ q <= Len(w)
                        /\ Part(b, o, m) = Part(w, p, q)
                        /\ Cut(w, q, Part(b, m, l), v)
<1> DEFINE u == Part(b, o, l)
           y == Part(b, m, l)
<1>1. l <= Len(b) /\ o <= l
  OBVIOUS
<1>2. u \in Bytes /\ Len(u) = l - o
  BY <1>1, PartIs
<1>3. y \in Bytes
  BY <1>1, PartIs
<1>4. Cut(w, p, u, v)
  OBVIOUS
<1> HIDE DEF u, y
<1>5. PICK e \in Nat : /\ e = p + Len(u) /\ p <= e /\ e <= Len(w)
                       /\ u = Part(w, p, e) /\ v = Part(w, e, Len(w))
  BY <1>2, <1>4, CutIs
<1>6. PICK z \in Nat : z = Len(w)
  BY DEF Bytes
<1>7. PICK q \in Nat : q = p + (m - o) /\ p <= q /\ q <= e
  <2>1. p + (m - o) \in Nat /\ p <= p + (m - o) /\ p + (m - o) <= e
    BY <1>1, <1>2, <1>5
  <2> QED BY <2>1
<1>8. e = p + (l - o) /\ q <= z /\ e <= z
  BY <1>2, <1>5, <1>6, <1>7
<1>9. ASSUME NEW c \in Nat, NEW d \in Nat, c <= d, d <= l - o
      PROVE  Part(b, o + c, o + d) = Part(w, p + c, p + d)
  <2>1. Part(Part(b, o, l), c, d) = Part(b, o + c, o + d)
    BY <1>1, <1>9, PartOfPart
  <2>2. Part(Part(w, p, e), c, d) = Part(w, p + c, p + d)
    <3>1. d <= e - p
      BY <1>8, <1>9
    <3> QED BY <1>5, <1>9, <3>1, PartOfPart
  <2> QED BY <1>5, <2>1, <2>2 DEF u
<1>10. Part(b, o, m) = Part(w, p, q)
  <2>1. 0 \in Nat /\ m - o \in Nat /\ 0 <= m - o /\ m - o <= l - o
    OBVIOUS
  <2>2. Part(b, o + 0, o + (m - o)) = Part(w, p + 0, p + (m - o))
    BY <1>9, <2>1
  <2>3. o + 0 = o /\ p + 0 = p /\ o + (m - o) = m
    OBVIOUS
  <2> QED BY <1>7, <2>2, <2>3
<1>11. Part(b, m, l) = Part(w, q, e)
  <2>1. l - o \in Nat /\ m - o \in Nat /\ m - o <= l - o /\ l - o <= l - o
    BY <1>1
  <2>2. Part(b, o + (m - o), o + (l - o)) = Part(w, p + (m - o), p + (l - o))
    BY <1>9, <2>1
  <2>3. o + (l - o) = l /\ o + (m - o) = m
    OBVIOUS
  <2> QED BY <1>7, <1>8, <2>2, <2>3
<1>12. Part(w, q, e) \o Part(w, e, z) = Part(w, q, z)
  <2>1. z <= Len(w)
    BY <1>6
  <2> QED BY <1>7, <1>8, <2>1, PartJoin
<1>13. y \o v = Part(w, q, z)
  BY <1>5, <1>6, <1>11, <1>12, Zenon DEF y
<1>14. Cut(w, q, y, v)
  BY <1>6, <1>8, <1>13 DEF Cut
<1> QED BY <1>6, <1>7, <1>8, <1>10, <1>14 DEF y

\* It has read the first p bytes of w.
HasRead(s, w, p) ==
    p \in Nat /\ Cut(w, p, Part(s.buf, s.offset, Len(s.buf)), FlattenSeq(s.rest))

\* What it kept of them.
Kept(s) == FlattenSeq(s.plist) \o s.last

\* What the buffer holds next, and what was read once it is taken up to m.
LEMMA ReadsOn ==
  ASSUME NEW s, Parsing(s), NEW w \in Bytes, NEW p, HasRead(s, w, p),
         NEW m \in Nat, s.offset <= m, m <= Len(s.buf)
  PROVE  \E q \in Nat : /\ q = p + (m - s.offset) /\ p <= q /\ q <= Len(w)
                        /\ Part(s.buf, s.offset, m) = Part(w, p, q)
                        /\ Cut(w, q, Part(s.buf, m, Len(s.buf)), FlattenSeq(s.rest))
<1> DEFINE b == s.buf
           o == s.offset
           l == Len(b)
           v == FlattenSeq(s.rest)
<1>1. b \in Bytes /\ o \in Nat /\ v \in Bytes
  <2>1. b \in Bytes /\ o \in Nat /\ s.rest \in Seq(Bytes)
    BY DEF Parsing, ParseState, Bytes
  <2> QED BY <2>1, FlattenLen
<1>2. p \in Nat /\ Cut(w, p, Part(b, o, l), v)
  BY DEF HasRead
<1>3. o <= m /\ m <= l
  OBVIOUS
<1> SUFFICES \E q \in Nat : /\ q = p + (m - o) /\ p <= q /\ q <= Len(w)
                            /\ Part(b, o, m) = Part(w, p, q)
                            /\ Cut(w, q, Part(b, m, l), v)
  OBVIOUS
<1> HIDE DEF b, o, v
<1>4. l \in Nat /\ l <= Len(b)
  BY <1>1 DEF Bytes
<1> HIDE DEF l
<1> QED BY <1>1, <1>2, <1>3, <1>4, PartTaken

\* All the other locals stay when the next buffer is taken.
Refilled(s, t) ==
    /\ t.state = s.state /\ t.chunk_str = s.chunk_str /\ t.j = s.j
    /\ t.chunk_size = s.chunk_size /\ t.plist = s.plist /\ t.last = s.last /\ t.rc = s.rc

\* At the end of a buffer there is a next one, unless everything was read.
LEMMA ReadsNext ==
  ASSUME NEW s \in ParseState, NEW w \in Bytes, NEW p \in Nat, p < Len(w),
         Cut(w, p, Part(s.buf, Len(s.buf), Len(s.buf)), FlattenSeq(s.rest)), NEW e
  PROVE  Refilled(s, NextBuffer(s, e)) /\ HasRead(NextBuffer(s, e), w, p)
<1> DEFINE b == s.buf
           h == Head(s.rest)
           r == Tail(s.rest)
           t == [s EXCEPT !.buf = h, !.rest = r, !.offset = 0]
<1>1. s.rest \in Seq(Bytes) /\ b \in Bytes /\ Len(w) \in Nat
      /\ Len(b) \in Nat /\ Len(b) <= Len(b)
  BY DEF ParseState, Bytes
<1>2. FlattenSeq(s.rest) = Part(w, p, Len(w))
  <2>1. Part(b, Len(b), Len(b)) = <<>>
    BY <1>1, PartEmpty
  <2>2. FlattenSeq(s.rest) \in Seq(Int)
    BY <1>1, FlattenLen DEF Bytes
  <2>3. <<>> \o FlattenSeq(s.rest) = FlattenSeq(s.rest)
    BY <2>2
  <2>4. Part(b, Len(b), Len(b)) \o FlattenSeq(s.rest) = Part(w, p, Len(w))
    BY DEF Cut
  <2> QED BY <2>1, <2>3, <2>4
<1>3. s.rest # <<>>
  <2> SUFFICES ASSUME s.rest = <<>> PROVE FALSE
    OBVIOUS
  <2>1. Part(w, p, Len(w)) = <<>>
    BY <1>2, FlattenEmpty
  <2>2. Len(Part(w, p, Len(w))) = Len(w) - p
    <3> DEFINE z == Len(w)
    <3>1. z \in Nat /\ p <= z /\ z <= Len(w)
      BY <1>1
    <3> HIDE DEF z
    <3>2. Len(Part(w, p, z)) = z - p
      BY <1>1, <3>1, PartIs
    <3> QED BY <3>2 DEF z
  <2>3. Len(<<>>) = 0
    OBVIOUS
  <2> QED BY <1>1, <2>1, <2>2, <2>3
<1>4. NextBuffer(s, e) = t
  BY <1>3 DEF NextBuffer
<1>5. h \in Bytes /\ r \in Seq(Bytes)
  BY <1>1, <1>3, HeadTailProperties
<1>6. FlattenSeq(s.rest) = h \o FlattenSeq(r)
  BY <1>1, <1>3, FlattenTail DEF Bytes
<1> HIDE DEF h, r
<1>7. t.buf = h /\ t.rest = r /\ t.offset = 0
  BY DEF ParseState
<1>8. Refilled(s, t)
  BY DEF ParseState, Refilled
<1> HIDE DEF t
<1>9. Part(t.buf, t.offset, Len(t.buf)) = h
  BY <1>5, <1>7, PartAll
<1>10. HasRead(t, w, p)
  BY <1>1, <1>2, <1>6, <1>7, <1>9 DEF HasRead, Cut
<1> QED BY <1>4, <1>8, <1>10

\* The bytes of the buffer that were not taken are the next ones of w.
LEMMA ReadBytes ==
  ASSUME NEW s, Parsing(s), NEW w \in Bytes, NEW p, HasRead(s, w, p),
         NEW k \in Nat \ {0}, s.offset + k <= Len(s.buf)
  PROVE  s.buf[s.offset + k] = w[p + k] /\ p \in Nat /\ p + k <= Len(w)
<1> DEFINE b == s.buf
           o == s.offset
<1>1. b \in Bytes /\ o \in Nat /\ p \in Nat /\ o + k <= Len(b)
  BY DEF Parsing, ParseState, Bytes, HasRead
<1> HIDE DEF b, o
<1>2. PICK m \in Nat : m = o + k /\ o <= m /\ m - o = k
  BY <1>1
<1>3. b \in Bytes /\ o \in Nat /\ o <= m /\ m <= Len(b) /\ p \in Nat /\ m - o = k
  BY <1>1, <1>2
<1>4. PICK q \in Nat : /\ q = p + (m - o) /\ p <= q /\ q <= Len(w)
                       /\ Part(b, o, m) = Part(w, p, q)
  BY <1>2, <1>3, ReadsOn DEF b, o
<1>5. \A i \in 1..(m - o) : Part(b, o, m)[i] = b[o + i]
  BY <1>3, PartIs
<1>6. \A i \in 1..(q - p) : Part(w, p, q)[i] = w[p + i]
  BY <1>3, <1>4, PartIs
<1>7. k \in 1..(m - o) /\ k \in 1..(q - p) /\ q = p + k
  BY <1>3, <1>4
<1>8. b[o + k] = w[p + k]
  BY <1>4, <1>5, <1>6, <1>7
<1> QED BY <1>3, <1>4, <1>7, <1>8 DEF b, o

\* There is no CR in the buffer before the end of the line.
LEMMA EndIsFirst ==
  ASSUME NEW s, Parsing(s)
  PROVE  /\ \A k \in (s.offset + 1)..EndOf(s) : s.buf[k] # CR
         /\ EndOf(s) # Len(s.buf) => s.buf[EndOf(s) + 1] = CR
<1> DEFINE crs == CrsOf(s)
           i   == EndOf(s)
           n   == Len(s.buf)
           o   == s.offset
           c   == CHOOSE c \in crs : \A d \in crs : c <= d
<1>1. o \in Nat /\ n \in Nat
  BY DEF Parsing, ParseState
<1>2. \A k : k \in crs <=> k \in (o + 1)..n /\ s.buf[k] = CR
  BY DEF CrsOf
<1>3. crs \subseteq Nat
  BY <1>1, <1>2
<1>4. i = IF crs = {} THEN n ELSE c - 1
  BY Zenon DEF EndOf
<1> HIDE DEF crs
<1>5. crs # {} => c \in crs /\ \A d \in crs : c <= d
  <2>1. crs # {} => \E d \in crs : \A e \in crs : d <= e
    BY <1>3, LeastNat
  <2> QED BY <2>1
<1> HIDE DEF c, i, n, o
<1>6. CASE crs = {}
  <2>1. i = n
    BY <1>4, <1>6
  <2>2. \A k \in (o + 1)..i : s.buf[k] # CR
    BY <1>2, <1>6, <2>1
  <2> QED BY <2>1, <2>2 DEF i, n, o
<1>7. CASE crs # {}
  <2>1. i = c - 1 /\ c \in Nat /\ s.buf[c] = CR /\ c \in (o + 1)..n
    BY <1>2, <1>3, <1>4, <1>5, <1>7
  <2>2. i + 1 = c
    BY <2>1
  <2>3. ASSUME NEW k \in (o + 1)..i, s.buf[k] = CR PROVE FALSE
    <3>1. k \in (o + 1)..n /\ ~(c <= k)
      BY <1>1, <2>1
    <3> QED BY <1>2, <1>5, <1>7, <2>3, <3>1
  <2> QED BY <2>1, <2>2, <2>3 DEF i, o
<1> QED BY <1>6, <1>7

\* Bytes a + 1 to q of w are a line that chunk_str has room for.
Line(w, a, q) ==
    /\ a \in Nat /\ q \in Nat /\ a <= q /\ q + 2 <= Len(w) /\ q - a < ChunkMax
    /\ \A k \in (a + 1)..q : w[k] # CR
    /\ w[q + 1] = CR /\ w[q + 2] = LF

\* http_parse is in that line: what it has of it is in chunk_str.
InLine(s, w, a, q) ==
    /\ s.rc = 1
    /\ \/ /\ s.state = "begin"
          /\ \E p \in a..q : HasRead(s, w, p) /\ s.chunk_str = Part(w, a, p)
       \/ s.state = "lrln" /\ HasRead(s, w, q + 1) /\ s.chunk_str = Part(w, a, q)

LEMMA BeginLine ==
  ASSUME NEW s, Parsing(s), s.rc = 1, s.state = "begin", NEW w \in Bytes,
         NEW a, NEW q, Line(w, a, q), NEW p \in a..q, HasRead(s, w, p),
         s.chunk_str = Part(w, a, p)
  PROVE  InLine(ChunkBegin(s), w, a, q) /\ Kept(ChunkBegin(s)) = Kept(s)
<1> DEFINE i    == EndOf(s)
           line == s.chunk_str \o SubSeq(s.buf, s.offset + 1, i)
           t    == ChunkBegin(s)
           n    == Len(s.buf)
           o    == s.offset
<1>1. t = IF Len(line) >= ChunkMax THEN [s EXCEPT !.rc = -1, !.errcode = 12]
          ELSE IF i = n THEN NextBuffer([s EXCEPT !.chunk_str = line], -1)
          ELSE [s EXCEPT !.chunk_str = line, !.offset = i + 1, !.state = "lrln"]
  BY DEF ChunkBegin, EndOf, CrsOf
<1>2. /\ i \in o..n /\ (i # n => i + 1 <= n)
      /\ \A k \in (o + 1)..i : s.buf[k] # CR
      /\ i # n => s.buf[i + 1] = CR
  BY FirstCR, EndIsFirst
<1>3. /\ s \in ParseState /\ o \in Nat /\ n \in Nat
      /\ a \in Nat /\ q \in Nat /\ p \in Nat /\ a <= p /\ p <= q
  BY DEF Parsing, ParseState, Line
<1>4. /\ q + 2 <= Len(w) /\ q - a < ChunkMax /\ Len(w) \in Nat
      /\ \A k \in (a + 1)..q : w[k] # CR
      /\ w[q + 1] = CR
  BY DEF Line, Bytes
<1> HIDE DEF i, t
<1>5. i \in Nat /\ o <= i /\ i <= n
  BY <1>2, <1>3
<1>6. PICK x \in Nat : /\ x = p + (i - o) /\ p <= x /\ x <= Len(w)
                       /\ Part(s.buf, o, i) = Part(w, p, x)
                       /\ Cut(w, x, Part(s.buf, i, n), FlattenSeq(s.rest))
  BY <1>5, ReadsOn
<1>7. \A k \in Nat \ {0} : o + k <= n => s.buf[o + k] = w[p + k] /\ p + k <= Len(w)
  BY ReadBytes
<1>8. x <= q
  <2> SUFFICES ASSUME x > q PROVE FALSE
    BY <1>3
  <2>1. PICK k \in Nat \ {0} : k = q + 1 - p
    BY <1>3
  <2>2. o + k <= i /\ o + k <= n /\ p + k = q + 1 /\ o + k \in (o + 1)..i
    BY <1>3, <1>5, <1>6, <2>1
  <2>3. s.buf[o + k] = w[q + 1]
    BY <1>7, <2>2
  <2> QED BY <1>2, <1>4, <2>2, <2>3
<1>9. line = Part(w, a, x)
  <2>1. line = Part(w, a, p) \o Part(w, p, x)
    <3>1. SubSeq(s.buf, o + 1, i) = Part(w, p, x)
      BY <1>6 DEF Part
    <3> QED BY <3>1
  <2>2. Part(w, a, p) \o Part(w, p, x) = Part(w, a, x)
    <3>1. p <= x /\ x <= Len(w)
      BY <1>6
    <3> QED BY <1>3, <3>1, PartJoin
  <2> HIDE DEF line
  <2> QED BY <2>1, <2>2
<1>10. line \in Bytes /\ ~(Len(line) >= ChunkMax)
  <2>1. Part(w, a, x) \in Bytes /\ Len(Part(w, a, x)) = x - a
    <3>1. a <= x /\ x <= Len(w)
      BY <1>3, <1>6
    <3> QED BY <1>3, <3>1, PartIs
  <2>2. ChunkMax \in Nat
    BY ParseAssumption
  <2> HIDE DEF line
  <2> QED BY <1>3, <1>4, <1>8, <1>9, <2>1, <2>2
<1> HIDE DEF line
<1>11. CASE i = n
  <2> DEFINE u == [s EXCEPT !.chunk_str = line]
  <2>1. t = NextBuffer(u, -1)
    BY <1>1, <1>10, <1>11
  <2>2. u \in ParseState
    BY <1>3, <1>10 DEF ParseState, Bytes
  <2>3. /\ u.buf = s.buf /\ u.state = s.state /\ u.plist = s.plist /\ u.last = s.last
        /\ u.rc = s.rc /\ u.rest = s.rest /\ u.chunk_str = line
    BY <1>3 DEF ParseState
  <2> HIDE DEF u
  <2>4. Cut(w, x, Part(u.buf, Len(u.buf), Len(u.buf)), FlattenSeq(u.rest))
    BY <1>6, <1>11, <2>3
  <2>5. x < Len(w)
    BY <1>3, <1>4, <1>8
  <2>6. Refilled(u, t) /\ HasRead(t, w, x)
    BY <2>1, <2>2, <2>4, <2>5, ReadsNext
  <2>7. /\ t.state = "begin" /\ t.rc = 1 /\ t.chunk_str = line
        /\ t.plist = s.plist /\ t.last = s.last
    BY <2>3, <2>6 DEF Refilled
  <2>8. x \in a..q
    BY <1>3, <1>6, <1>8
  <2>9. InLine(t, w, a, q)
    BY <1>9, <2>6, <2>7, <2>8 DEF InLine
  <2>10. Kept(t) = Kept(s)
    BY <2>7 DEF Kept
  <2> QED BY <2>9, <2>10 DEF t
<1>12. CASE i # n
  <2>1. t = [s EXCEPT !.chunk_str = line, !.offset = i + 1, !.state = "lrln"]
    BY <1>1, <1>10, <1>12
  <2>2. x = q
    <3> SUFFICES ASSUME x < q PROVE FALSE
      BY <1>3, <1>8
    <3>1. PICK k \in Nat \ {0} : k = (i - o) + 1
      BY <1>3, <1>5
    <3>2. o + k = i + 1 /\ p + k = x + 1 /\ x + 1 \in (a + 1)..q /\ o + k <= n
      <4>1. i + 1 <= n
        BY <1>2, <1>12
      <4> HIDE DEF o, n
      <4>2. o + k = i + 1 /\ p + k = x + 1
        BY <1>3, <1>5, <1>6, <3>1
      <4>3. x + 1 \in (a + 1)..q
        BY <1>3, <1>6
      <4> QED BY <4>1, <4>2, <4>3
    <3>3. w[x + 1] = CR
      BY <1>2, <1>7, <1>12, <3>2
    <3> QED BY <1>4, <3>2, <3>3
  <2>3. PICK m \in Nat : m = i + 1 /\ o <= m /\ m <= n
    BY <1>2, <1>3, <1>5, <1>12
  <2>4. PICK y \in Nat : /\ y = p + (m - o) /\ p <= y /\ y <= Len(w)
                         /\ Part(s.buf, o, m) = Part(w, p, y)
                         /\ Cut(w, y, Part(s.buf, m, n), FlattenSeq(s.rest))
    BY <2>3, ReadsOn
  <2>5. y = q + 1
    BY <1>3, <1>5, <1>6, <2>2, <2>3, <2>4
  <2>6. /\ t.buf = s.buf /\ t.offset = m /\ t.state = "lrln" /\ t.rest = s.rest
        /\ t.plist = s.plist /\ t.last = s.last /\ t.rc = 1 /\ t.chunk_str = line
    BY <1>3, <2>1, <2>3 DEF ParseState
  <2>7. HasRead(t, w, q + 1)
    BY <2>4, <2>5, <2>6 DEF HasRead
  <2>8. InLine(t, w, a, q)
    BY <1>9, <2>2, <2>6, <2>7 DEF InLine
  <2>9. Kept(t) = Kept(s)
    BY <2>6 DEF Kept
  <2> QED BY <2>8, <2>9 DEF t
<1> QED BY <1>11, <1>12

\* What comes of a line: an empty one ends a chunk, one that says 0 the
\* response, and any other one is followed by as many bytes of data.
LineDone(s, t, w, a, q) ==
    \/ /\ a = q /\ t.rc = 1 /\ t.state = "begin" /\ t.chunk_str = <<>>
       /\ HasRead(t, w, q + 2) /\ Kept(t) = Kept(s)
    \/ a # q /\ Size(Part(w, a, q)) = 0 /\ t.rc = 0 /\ FlattenSeq(t.plist) = Kept(s)
    \/ /\ a # q /\ Size(Part(w, a, q)) # 0 /\ t.rc = 1 /\ t.state = "get_size" /\ t.j = 0
       /\ t.chunk_size = Size(Part(w, a, q)) /\ HasRead(t, w, q + 2) /\ Kept(t) = Kept(s)

LEMMA LrlnLine ==
  ASSUME NEW s, Parsing(s), s.rc = 1, s.state = "lrln", NEW w \in Bytes,
         NEW a, NEW q, Line(w, a, q), HasRead(s, w, q + 1), s.chunk_str = Part(w, a, q)
  PROVE  \/ InLine(ChunkLrln(s), w, a, q) /\ Kept(ChunkLrln(s)) = Kept(s)
         \/ LineDone(s, ChunkLrln(s), w, a, q)
<1> DEFINE t    == [s EXCEPT !.offset = @ + 1, !.j = 0]
           u    == ChunkLrln(s)
           n    == Len(s.buf)
           o    == s.offset
           line == Part(w, a, q)
<1>1. /\ s \in ParseState /\ o \in Nat /\ n \in Nat /\ o <= n
      /\ s.plist \in Seq(Bytes) /\ s.last \in Bytes
  BY DEF Parsing, ParseState, Bytes
<1>2. a \in Nat /\ q \in Nat /\ a <= q /\ q + 2 <= Len(w) /\ Len(w) \in Nat
  BY DEF Line, Bytes
<1>3. PICK p \in Nat : p = q + 1
  BY <1>2
<1>4. HasRead(s, w, p) /\ p < Len(w)
  BY <1>2, <1>3
<1>5. CASE o = n
  <2>1. u = NextBuffer(s, -1)
    BY <1>5 DEF ChunkLrln
  <2>2. Cut(w, p, Part(s.buf, Len(s.buf), Len(s.buf)), FlattenSeq(s.rest))
    BY <1>4, <1>5 DEF HasRead
  <2> HIDE DEF u
  <2>3. Refilled(s, u) /\ HasRead(u, w, p)
    BY <1>1, <1>4, <2>1, <2>2, ReadsNext
  <2>4. InLine(u, w, a, q)
    BY <1>3, <2>3 DEF Refilled, InLine
  <2>5. Kept(u) = Kept(s)
    BY <2>3 DEF Refilled, Kept
  <2> QED BY <2>4, <2>5 DEF u
<1>6. CASE o # n
  <2>1. s.buf[o + 1] = LF
    <3>1. 1 \in Nat \ {0} /\ o + 1 <= n
      BY <1>1, <1>6
    <3>2. s.buf[o + 1] = w[p + 1]
      BY <1>4, <3>1, ReadBytes
    <3>3. w[q + 2] = LF /\ p + 1 = q + 2
      BY <1>2, <1>3 DEF Line
    <3> QED BY <3>2, <3>3
  <2>2. u = IF t.chunk_str = <<>> THEN [t EXCEPT !.state = "begin"]
            ELSE IF Size(t.chunk_str) = 0 THEN ChunkLast(t)
            ELSE [t EXCEPT !.state = "get_size", !.chunk_size = Size(t.chunk_str)]
    BY <1>6, <2>1 DEF ChunkLrln
  <2>3. PICK m \in Nat : m = o + 1 /\ o <= m /\ m <= n
    BY <1>1, <1>6
  <2>4. PICK y \in Nat : /\ y = p + (m - o) /\ p <= y /\ y <= Len(w)
                         /\ Part(s.buf, o, m) = Part(w, p, y)
                         /\ Cut(w, y, Part(s.buf, m, n), FlattenSeq(s.rest))
    BY <1>4, <2>3, ReadsOn
  <2>5. y = q + 2
    BY <1>1, <1>2, <1>3, <2>3, <2>4
  <2>6. /\ t.buf = s.buf /\ t.offset = m /\ t.state = "lrln" /\ t.j = 0
        /\ t.chunk_str = line /\ t.plist = s.plist /\ t.last = s.last /\ t.rc = 1
        /\ t.rest = s.rest
    BY <1>1, <2>3 DEF ParseState
  <2>7. t = [s EXCEPT !.offset = m, !.j = 0]
    BY <1>1, <2>3
  <2>8. t \in ParseState
    BY <1>1, <2>7 DEF ParseState
  <2> HIDE DEF t, u
  <2>9. Cut(w, q + 2, Part(t.buf, t.offset, Len(t.buf)), FlattenSeq(t.rest)) /\ q + 2 \in Nat
    BY <1>2, <2>4, <2>5, <2>6
  <2>10. line \in Bytes /\ Len(line) = q - a
    <3>1. q <= Len(w)
      BY <1>2
    <3> QED BY <1>2, <3>1, PartIs
  <2>11. line = <<>> <=> a = q
    <3>1. line \in Seq(Int)
      BY <2>10 DEF Bytes
    <3> HIDE DEF line
    <3>2. line = <<>> <=> Len(line) = 0
      BY <3>1
    <3> QED BY <1>2, <2>10, <3>2
  <2>12. CASE line = <<>>
    <3>1. u = [t EXCEPT !.state = "begin"]
      BY <2>2, <2>6, <2>12
    <3>2. /\ u.buf = t.buf /\ u.offset = t.offset /\ u.rest = t.rest /\ u.state = "begin"
          /\ u.rc = 1 /\ u.chunk_str = <<>> /\ u.plist = s.plist /\ u.last = s.last
      BY <2>6, <2>8, <2>12, <3>1 DEF ParseState
    <3>3. HasRead(u, w, q + 2)
      BY <2>9, <3>2 DEF HasRead
    <3>4. Kept(u) = Kept(s)
      BY <3>2 DEF Kept
    <3>5. LineDone(s, u, w, a, q)
      BY <2>11, <2>12, <3>2, <3>3, <3>4 DEF LineDone
    <3> QED BY <3>5 DEF u
  <2>13. CASE line # <<>> /\ Size(line) = 0
    <3> DEFINE l == IF t.last = <<>> THEN t.plist ELSE Append(t.plist, t.last)
    <3>1. u = [t EXCEPT !.rc = 0, !.plist = l]
      BY <2>2, <2>6, <2>13 DEF ChunkLast
    <3>2. u.rc = 0 /\ u.plist = l
      BY <2>8, <3>1 DEF ParseState
    <3>3. FlattenSeq(l) = Kept(s)
      <4>1. FlattenSeq(s.plist) \in Seq(Int)
        BY <1>1, FlattenLen DEF Bytes
      <4>2. CASE t.last = <<>>
        <5>1. l = s.plist
          BY <2>6, <4>2
        <5>2. FlattenSeq(s.plist) \o <<>> = FlattenSeq(s.plist)
          BY <4>1
        <5> QED BY <2>6, <4>2, <5>1, <5>2 DEF Kept
      <4>3. CASE t.last # <<>>
        <5>1. l = Append(s.plist, s.last)
          BY <2>6, <4>3
        <5>2. FlattenSeq(Append(s.plist, s.last)) = FlattenSeq(s.plist) \o s.last
          BY <1>1, FlattenAppend DEF Bytes
        <5> QED BY <5>1, <5>2 DEF Kept
      <4> QED BY <4>2, <4>3
    <3>4. LineDone(s, u, w, a, q)
      BY <2>11, <2>13, <3>2, <3>3 DEF LineDone
    <3> QED BY <3>4 DEF u
  <2>14. CASE line # <<>> /\ Size(line) # 0
    <3>1. u = [t EXCEPT !.state = "get_size", !.chunk_size = Size(line)]
      BY <2>2, <2>6, <2>14
    <3>2. /\ u.buf = t.buf /\ u.offset = t.offset /\ u.rest = t.rest /\ u.state = "get_size"
          /\ u.rc = 1 /\ u.j = 0 /\ u.chunk_size = Size(line)
          /\ u.plist = s.plist /\ u.last = s.last
      BY <2>6, <2>8, <3>1 DEF ParseState
    <3>3. HasRead(u, w, q + 2)
      BY <2>9, <3>2 DEF HasRead
    <3>4. Kept(u) = Kept(s)
      BY <3>2 DEF Kept
    <3>5. LineDone(s, u, w, a, q)
      BY <2>11, <2>14, <3>2, <3>3, <3>4 DEF LineDone
    <3> QED BY <3>5 DEF u
  <2> QED BY <2>12, <2>13, <2>14
<1> QED BY <1>5, <1>6

\* Bytes b + 1 to b + n of w are the data of a chunk, and http_parse is in it.
\* all is what it kept before.
InData(s, w, b, n, all) ==
    /\ s.rc = 1 /\ s.state = "get_size" /\ s.chunk_size = n
    /\ HasRead(s, w, b + s.j) /\ Kept(s) = all \o Part(w, b, b + s.j)
DataDone(s, w, b, n, all) ==
    /\ s.rc = 1 /\ s.state = "begin" /\ s.chunk_str = <<>>
    /\ HasRead(s, w, b + n) /\ Kept(s) = all \o Part(w, b, b + n)

LEMMA DataTurns ==
  ASSUME NEW s, Parsing(s), NEW w \in Bytes, NEW b \in Nat, NEW n \in Nat, b + n < Len(w),
         NEW all \in Bytes, InData(s, w, b, n, all)
  PROVE  \/ InData(ChunkGetSize(s), w, b, n, all)
         \/ DataDone(ChunkGetSize(s), w, b, n, all)
<1> DEFINE left == s.chunk_size - s.j
           room == Len(s.buf) - s.offset
           k    == IF room < left THEN room ELSE left
           data == SubSeq(s.buf, s.offset + 1, s.offset + k)
           c    == Compact(s, data)
           t    == [c EXCEPT !.offset = @ + k, !.j = @ + k]
           u    == ChunkGetSize(s)
           z    == Len(s.buf)
           o    == s.offset
           j    == s.j
<1>1. /\ s \in ParseState /\ o \in Nat /\ z \in Nat /\ o <= z
      /\ j \in Nat /\ s.chunk_size = n /\ j <= n
      /\ s.buf \in Bytes /\ s.plist \in Seq(Bytes) /\ s.last \in Bytes
  BY DEF Parsing, ParseState, Bytes, InData
<1>2. left = n - j /\ room = z - o
  BY <1>1
<1>3. k \in Nat /\ k <= n - j /\ k <= z - o /\ (k = n - j \/ k = z - o)
  <2> HIDE DEF left, room, z, o, j
  <2> QED BY <1>1, <1>2
<1>4. u = IF t.offset = Len(t.buf) THEN NextBuffer(t, Crash)
          ELSE IF t.j = t.chunk_size
          THEN [t EXCEPT !.state = "begin", !.j = 0, !.chunk_str = <<>>]
          ELSE t
  BY Zenon DEF ChunkGetSize
<1> HIDE DEF left, room, k, u
<1>5. PICK p \in Nat : p = b + j /\ HasRead(s, w, p) /\ Kept(s) = all \o Part(w, b, p)
  BY <1>1 DEF InData
<1>6. PICK m \in Nat : m = o + k /\ o <= m /\ m <= z
  <2> HIDE DEF o, z, j
  <2>1. o + k \in Nat /\ o <= o + k /\ o + k <= z
    BY <1>1, <1>3
  <2> QED BY <2>1
<1>7. PICK y \in Nat : /\ y = p + (m - o) /\ p <= y /\ y <= Len(w)
                       /\ Part(s.buf, o, m) = Part(w, p, y)
                       /\ Cut(w, y, Part(s.buf, m, z), FlattenSeq(s.rest))
  BY <1>5, <1>6, ReadsOn
<1>8. PICK i \in Nat : i = j + k /\ i <= n
  BY <1>1, <1>3
<1>9. y = b + i /\ b <= p /\ p <= y /\ y < Len(w)
  <2>1. PICK l \in Nat : l = Len(w)
    BY DEF Bytes
  <2>2. b + n < l
    BY <2>1
  <2>3. y = b + i /\ b <= p
    <3>1. PICK jj \in Nat : jj = j
      BY <1>1
    <3>2. PICK kk \in Nat : kk = k
      BY <1>3
    <3>3. PICK oo \in Nat : oo = o
      BY <1>1
    <3>4. p = b + jj /\ i = jj + kk /\ m = oo + kk /\ y = p + (m - oo)
      BY <1>5, <1>6, <1>7, <1>8, <3>1, <3>2, <3>3
    <3> QED BY <3>4
  <2>4. y < l
    BY <1>8, <2>2, <2>3
  <2> QED BY <1>7, <2>1, <2>3, <2>4
<1>10. data = Part(w, p, y) /\ data \in Bytes
  <2>1. data = Part(s.buf, o, m)
    BY <1>6 DEF Part
  <2>2. m <= Len(s.buf)
    BY <1>6
  <2>3. Part(s.buf, o, m) \in Bytes
    BY <1>1, <1>6, <2>2, PartIs
  <2> QED BY <1>7, <2>1, <2>3
<1> HIDE DEF data
<1>11. /\ c.plist \in Seq(Bytes) /\ c.last \in Bytes
       /\ FlattenSeq(c.plist) \o c.last = (FlattenSeq(s.plist) \o s.last) \o data
       /\ c = [s EXCEPT !.plist = c.plist, !.last = c.last, !.new_total = c.new_total]
       /\ c.new_total \in Nat
  <2>1. /\ c.plist \in Seq(Bytes) /\ c.last \in Bytes
        /\ FlattenSeq(c.plist) \o c.last = (FlattenSeq(s.plist) \o s.last) \o data
        /\ c = [s EXCEPT !.plist = c.plist, !.last = c.last, !.new_total = c.new_total]
        /\ c.new_total = s.new_total + Len(data)
    BY <1>1, <1>10, CompactKeeps
  <2>2. s.new_total \in Nat /\ Len(data) \in Nat
    BY <1>1, <1>10 DEF ParseState, Bytes
  <2> HIDE DEF c
  <2> QED BY <2>1, <2>2
<1> HIDE DEF c
<1>12. c \in ParseState
  BY <1>1, <1>11 DEF ParseState, Bytes
<1>13. /\ c.buf = s.buf /\ c.offset = o /\ c.state = s.state /\ c.rest = s.rest
       /\ c.j = j /\ c.chunk_size = n /\ c.rc = s.rc
  BY <1>1, <1>11 DEF ParseState
<1>14. t = [c EXCEPT !.offset = m, !.j = i]
  BY <1>6, <1>8, <1>13
<1> HIDE DEF t
<1>15. t \in ParseState
  BY <1>12, <1>14 DEF ParseState
<1>16. /\ t.buf = s.buf /\ t.offset = m /\ t.state = "get_size" /\ t.rest = s.rest
       /\ t.j = i /\ t.chunk_size = n /\ t.rc = 1 /\ t.plist = c.plist /\ t.last = c.last
  BY <1>12, <1>13, <1>14 DEF ParseState, InData
<1>17. Kept(t) = all \o Part(w, b, y)
  <2>1. Part(w, b, p) \o Part(w, p, y) = Part(w, b, y)
    <3>1. b <= p /\ p <= y /\ y <= Len(w)
      BY <1>7, <1>9
    <3> QED BY <3>1, PartJoin
  <2>2. Part(w, b, p) \in Bytes /\ Part(w, p, y) \in Bytes
    <3>1. b <= p /\ p <= y /\ y <= Len(w) /\ p <= Len(w)
      BY <1>7, <1>9
    <3> QED BY <3>1, PartIs
  <2>3. (all \o Part(w, b, p)) \o Part(w, p, y) = all \o (Part(w, b, p) \o Part(w, p, y))
    BY <2>2, JoinAssociates
  <2>4. Kept(t) = Kept(s) \o data
    BY <1>11, <1>16 DEF Kept
  <2> QED BY <1>5, <1>10, <2>1, <2>3, <2>4, Zenon
<1>18. CASE m = z
  <2>1. u = NextBuffer(t, Crash)
    BY <1>4, <1>16, <1>18
  <2>2. Cut(w, y, Part(t.buf, Len(t.buf), Len(t.buf)), FlattenSeq(t.rest))
    BY <1>7, <1>16, <1>18
  <2>3. y < Len(w)
    BY <1>9
  <2>4. Refilled(t, u) /\ HasRead(u, w, y)
    BY <1>15, <2>1, <2>2, <2>3, ReadsNext
  <2>5. Kept(u) = Kept(t)
    BY <2>4 DEF Refilled, Kept
  <2>6. InData(u, w, b, n, all)
    BY <1>9, <1>16, <1>17, <2>4, <2>5 DEF Refilled, InData
  <2> QED BY <2>6 DEF u
<1>19. CASE m # z
  <2>1. i = n
    <3> HIDE DEF o, j, z
    <3> QED BY <1>1, <1>3, <1>6, <1>8, <1>19
  <2>2. u = [t EXCEPT !.state = "begin", !.j = 0, !.chunk_str = <<>>]
    BY <1>4, <1>16, <1>19, <2>1
  <2>3. /\ u.buf = s.buf /\ u.offset = m /\ u.state = "begin" /\ u.rest = s.rest
        /\ u.plist = t.plist /\ u.last = t.last /\ u.rc = 1 /\ u.chunk_str = <<>>
    BY <1>15, <1>16, <2>2 DEF ParseState
  <2>4. HasRead(u, w, y)
    BY <1>7, <2>3 DEF HasRead
  <2>5. Kept(u) = Kept(t)
    BY <2>3 DEF Kept
  <2>6. DataDone(u, w, b, n, all)
    BY <1>9, <1>17, <2>1, <2>3, <2>4, <2>5 DEF DataDone
  <2> QED BY <2>6 DEF u
<1> QED BY <1>18, <1>19

LEMMA TurnIs ==
  ASSUME NEW s, Parsing(s)
  PROVE  /\ s.rc = 1 /\ s.state = "begin" => ParseTurn[s] = ChunkBegin(s)
         /\ s.rc = 1 /\ s.state = "lrln" => ParseTurn[s] = ChunkLrln(s)
         /\ s.rc = 1 /\ s.state = "get_size" => ParseTurn[s] = ChunkGetSize(s)
<1>1. s \in ParseState
  BY DEF Parsing
<1>2. ParseTurn[s] =
        CASE s.rc <= 0                       -> s
          [] s.rc > 0 /\ s.state = "begin"    -> ChunkBegin(s)
          [] s.rc > 0 /\ s.state = "lrln"     -> ChunkLrln(s)
          [] s.rc > 0 /\ s.state = "get_size" -> ChunkGetSize(s)
  BY <1>1 DEF ParseTurn
<1>3. s.rc = 1 => s.rc > 0 /\ ~(s.rc <= 0)
  OBVIOUS
<1> QED BY <1>2, <1>3

LEMMA LineTurns ==
  ASSUME NEW s, Parsing(s), NEW w \in Bytes, NEW a, NEW q, Line(w, a, q), InLine(s, w, a, q)
  PROVE  \/ InLine(ParseTurn[s], w, a, q) /\ Kept(ParseTurn[s]) = Kept(s)
         \/ LineDone(s, ParseTurn[s], w, a, q)
<1>1. s.rc = 1
  BY DEF InLine
<1>2. CASE s.state = "begin"
  <2>1. PICK p \in a..q : HasRead(s, w, p) /\ s.chunk_str = Part(w, a, p)
    BY <1>2 DEF InLine
  <2>2. InLine(ChunkBegin(s), w, a, q) /\ Kept(ChunkBegin(s)) = Kept(s)
    BY <1>1, <1>2, <2>1, BeginLine
  <2> QED BY <1>1, <1>2, <2>2, TurnIs
<1>3. CASE s.state # "begin"
  <2>1. s.state = "lrln" /\ HasRead(s, w, q + 1) /\ s.chunk_str = Part(w, a, q)
    BY <1>3 DEF InLine
  <2>2. \/ InLine(ChunkLrln(s), w, a, q) /\ Kept(ChunkLrln(s)) = Kept(s)
        \/ LineDone(s, ChunkLrln(s), w, a, q)
    BY <1>1, <2>1, LrlnLine
  <2> QED BY <1>1, <2>1, <2>2, TurnIs
<1> QED BY <1>2, <1>3

LEMMA LineStarts ==
  ASSUME NEW s, s.rc = 1, s.state = "begin", s.chunk_str = <<>>, NEW w \in Bytes,
         NEW a, HasRead(s, w, a), NEW q, Line(w, a, q)
  PROVE  InLine(s, w, a, q)
<1>1. a \in Nat /\ q \in Nat /\ a <= q /\ q + 2 <= Len(w) /\ Len(w) \in Nat
  BY DEF Line, Bytes
<1>2. a <= Len(w) /\ a \in a..q
  BY <1>1
<1>3. Part(w, a, a) = <<>>
  BY <1>1, <1>2, PartEmpty
<1> QED BY <1>2, <1>3 DEF InLine

LEMMA DataStarts ==
  ASSUME NEW s, s.rc = 1, s.state = "get_size", s.j = 0, NEW w \in Bytes,
         NEW b \in Nat, b <= Len(w), HasRead(s, w, b),
         NEW all \in Bytes, Kept(s) = all
  PROVE  InData(s, w, b, s.chunk_size, all)
<1>1. b + s.j = b
  OBVIOUS
<1>2. all \o <<>> = all
  BY DEF Bytes
<1>3. Part(w, b, b) = <<>>
  BY PartEmpty
<1> QED BY <1>1, <1>2, <1>3 DEF InData

\* A response in chunks: a head of one byte; m size lines, the c-th one from
\* at[c] to end[c], of which only the last one says 0; and after each of the
\* others size[c] bytes of data and an empty line.  keep[c] is the head and
\* the data before the c-th line.
Laid(w, m, at, end, size, keep) ==
    /\ m \in Nat \ {0} /\ at[1] = 1 /\ keep[1] = <<ChunkedHead>> /\ Part(w, 0, 1) = keep[1]
    /\ \A c \in 1..m :
          /\ keep[c] \in Bytes /\ Line(w, at[c], end[c]) /\ at[c] # end[c]
          /\ size[c] \in Nat /\ size[c] = Size(Part(w, at[c], end[c]))
          /\ c = m <=> size[c] = 0
    /\ \A c \in 1..(m - 1) :
          /\ Line(w, (end[c] + 2) + size[c], (end[c] + 2) + size[c])
          /\ at[c + 1] = ((end[c] + 2) + size[c]) + 2
          /\ keep[c + 1] = keep[c] \o Part(w, end[c] + 2, (end[c] + 2) + size[c])

\* Where http_parse is in it.
Reads(s, w, m, at, end, size, keep) ==
    \/ s.rc = 0 /\ FlattenSeq(s.plist) = keep[m]
    \/ \E c \in 1..m :
          \/ InLine(s, w, at[c], end[c]) /\ Kept(s) = keep[c]
          \/ c # m /\ InData(s, w, end[c] + 2, size[c], keep[c])
          \/ /\ c # m /\ Kept(s) = keep[c + 1]
             /\ InLine(s, w, (end[c] + 2) + size[c], (end[c] + 2) + size[c])

LEMMA ReadsTurn ==
  ASSUME NEW w \in Bytes, NEW m, NEW at, NEW end, NEW size, NEW keep,
         Laid(w, m, at, end, size, keep),
         NEW s, Parsing(s), Reads(s, w, m, at, end, size, keep)
  PROVE  Reads(ParseTurn[s], w, m, at, end, size, keep)
<1> DEFINE t == ParseTurn[s]
<1> SUFFICES Reads(t, w, m, at, end, size, keep)
  OBVIOUS
<1>1. CASE s.rc = 0
  <2>1. s.rc # 1
    BY <1>1
  <2>2. t = s
    BY <2>1, TurnTurns
  <2> QED BY <2>2
<1>2. CASE s.rc # 0
  <2>1. PICK c \in 1..m :
          \/ InLine(s, w, at[c], end[c]) /\ Kept(s) = keep[c]
          \/ c # m /\ InData(s, w, end[c] + 2, size[c], keep[c])
          \/ /\ c # m /\ Kept(s) = keep[c + 1]
             /\ InLine(s, w, (end[c] + 2) + size[c], (end[c] + 2) + size[c])
    BY <1>2 DEF Reads
  <2>2. m \in Nat /\ c \in Nat
    BY DEF Laid
  <2>3. PICK a \in Nat, q \in Nat, n \in Nat, k \in Bytes :
          /\ a = at[c] /\ q = end[c] /\ n = size[c] /\ k = keep[c]
          /\ Line(w, a, q) /\ a # q /\ n = Size(Part(w, a, q)) /\ (c = m <=> n = 0)
    <3>1. /\ keep[c] \in Bytes /\ Line(w, at[c], end[c]) /\ at[c] # end[c]
          /\ size[c] \in Nat /\ size[c] = Size(Part(w, at[c], end[c]))
          /\ c = m <=> size[c] = 0
      BY DEF Laid
    <3>2. at[c] \in Nat /\ end[c] \in Nat
      BY <3>1 DEF Line
    <3> QED BY <3>1, <3>2
  <2>4. PICK b \in Nat : b = q + 2 /\ b <= Len(w)
    BY <2>3 DEF Line
  <2>5. PICK d \in Nat : d = b + n
    OBVIOUS
  <2>6. CASE InLine(s, w, at[c], end[c]) /\ Kept(s) = keep[c]
    <3>1. InLine(s, w, a, q) /\ Kept(s) = k
      BY <2>3, <2>6
    <3>2. \/ InLine(t, w, a, q) /\ Kept(t) = Kept(s)
          \/ LineDone(s, t, w, a, q)
      BY <2>3, <3>1, LineTurns
    <3> HIDE DEF t
    <3>3. CASE InLine(t, w, a, q) /\ Kept(t) = Kept(s)
      BY <2>3, <3>1, <3>3 DEF Reads
    <3>4. CASE LineDone(s, t, w, a, q)
      <4>1. CASE n = 0
        <5>1. t.rc = 0 /\ FlattenSeq(t.plist) = k
          BY <2>3, <3>1, <3>4, <4>1 DEF LineDone
        <5> QED BY <2>3, <4>1, <5>1 DEF Reads
      <4>2. CASE n # 0
        <5>1. /\ t.rc = 1 /\ t.state = "get_size" /\ t.j = 0
              /\ t.chunk_size = n /\ HasRead(t, w, b) /\ Kept(t) = k
          BY <2>3, <2>4, <3>1, <3>4, <4>2 DEF LineDone
        <5>2. InData(t, w, b, n, k)
          BY <2>4, <5>1, DataStarts
        <5>3. InData(t, w, end[c] + 2, size[c], keep[c]) /\ c # m
          BY <2>3, <2>4, <4>2, <5>2
        <5> QED BY <5>3 DEF Reads
      <4> QED BY <4>1, <4>2
    <3> QED BY <3>2, <3>3, <3>4 DEF t
  <2>7. ASSUME c # m
        PROVE  /\ Line(w, d, d) /\ keep[c + 1] = k \o Part(w, b, d)
               /\ c + 1 \in 1..m /\ at[c + 1] = d + 2 /\ d < Len(w)
               /\ Line(w, d + 2, end[c + 1])
    <3>1. c \in 1..(m - 1) /\ c + 1 \in 1..m
      BY <2>2, <2>7
    <3>2. /\ Line(w, (end[c] + 2) + size[c], (end[c] + 2) + size[c])
          /\ at[c + 1] = ((end[c] + 2) + size[c]) + 2
          /\ keep[c + 1] = keep[c] \o Part(w, end[c] + 2, (end[c] + 2) + size[c])
          /\ Line(w, at[c + 1], end[c + 1])
      BY <3>1 DEF Laid
    <3>3. Line(w, d, d) /\ at[c + 1] = d + 2 /\ keep[c + 1] = k \o Part(w, b, d)
      BY <2>3, <2>4, <2>5, <3>2
    <3>4. d < Len(w)
      <4>1. d + 2 <= Len(w) /\ Len(w) \in Nat
        BY <3>3 DEF Line, Bytes
      <4> QED BY <4>1
    <3> QED BY <3>1, <3>2, <3>3, <3>4
  <2>8. CASE c # m /\ InData(s, w, end[c] + 2, size[c], keep[c])
    <3>1. InData(s, w, b, n, k)
      BY <2>3, <2>4, <2>8
    <3>2. b + n < Len(w)
      BY <2>5, <2>7, <2>8
    <3>3. InData(ChunkGetSize(s), w, b, n, k) \/ DataDone(ChunkGetSize(s), w, b, n, k)
      BY <3>1, <3>2, DataTurns
    <3>4. t = ChunkGetSize(s)
      BY <3>1, TurnIs DEF InData
    <3> HIDE DEF t
    <3>5. CASE InData(t, w, b, n, k)
      BY <2>3, <2>4, <2>8, <3>5 DEF Reads
    <3>6. CASE DataDone(t, w, b, n, k)
      <4>1. /\ t.rc = 1 /\ t.state = "begin" /\ t.chunk_str = <<>>
            /\ HasRead(t, w, d) /\ Kept(t) = keep[c + 1]
        BY <2>5, <2>7, <2>8, <3>6 DEF DataDone
      <4>2. InLine(t, w, d, d)
        BY <2>7, <2>8, <4>1, LineStarts
      <4> QED BY <2>3, <2>4, <2>5, <2>8, <4>1, <4>2 DEF Reads
    <3> QED BY <3>3, <3>4, <3>5, <3>6 DEF t
  <2>9. CASE /\ c # m /\ Kept(s) = keep[c + 1]
             /\ InLine(s, w, (end[c] + 2) + size[c], (end[c] + 2) + size[c])
    <3>1. InLine(s, w, d, d)
      BY <2>3, <2>4, <2>5, <2>9
    <3>2. \/ InLine(t, w, d, d) /\ Kept(t) = Kept(s)
          \/ LineDone(s, t, w, d, d)
      BY <2>7, <2>9, <3>1, LineTurns
    <3> HIDE DEF t
    <3>3. CASE InLine(t, w, d, d) /\ Kept(t) = Kept(s)
      BY <2>3, <2>4, <2>5, <2>9, <3>3 DEF Reads
    <3>4. CASE LineDone(s, t, w, d, d)
      <4>1. /\ t.rc = 1 /\ t.state = "begin" /\ t.chunk_str = <<>>
            /\ HasRead(t, w, d + 2) /\ Kept(t) = keep[c + 1]
        BY <2>9, <3>4 DEF LineDone
      <4>2. InLine(t, w, d + 2, end[c + 1])
        BY <2>7, <2>9, <4>1, LineStarts
      <4>3. InLine(t, w, at[c + 1], end[c + 1]) /\ c + 1 \in 1..m
        BY <2>7, <2>9, <4>2
      <4> QED BY <4>1, <4>3 DEF Reads
    <3> QED BY <3>2, <3>3, <3>4 DEF t
  <2> QED BY <2>1, <2>6, <2>8, <2>9
<1> QED BY <1>1, <1>2

LEMMA HeadFirst ==
  ASSUME NEW buf \in Bytes, buf # <<>>, buf[1] \in {PlainHead, ChunkedHead}
  PROVE  HeadLen(buf) = 1
<1> DEFINE ends == {i \in 1..Len(buf) : buf[i] \in {PlainHead, ChunkedHead}}
<1>1. Len(buf) \in Nat /\ Len(buf) # 0
  BY DEF Bytes
<1>2. 1 \in 1..Len(buf)
  BY <1>1
<1>3. 1 \in ends /\ \A i \in ends : i \in Nat /\ 1 <= i
  BY <1>1, <1>2
<1>4. HeadLen(buf) = IF ends = {} THEN 0 ELSE CHOOSE i \in ends : \A k \in ends : i <= k
  BY Zenon DEF HeadLen
<1> HIDE DEF ends
<1>5. ASSUME NEW i \in ends, \A k \in ends : i <= k PROVE i = 1
  BY <1>3, <1>5
<1>6. (CHOOSE i \in ends : \A k \in ends : i <= k) = 1
  BY <1>3, <1>5
<1> QED BY <1>3, <1>4, <1>6

\* Of a response in chunks, http_parse keeps the head and the data, wherever
\* the buffers cut it.
LEMMA ChunksTakenOut ==
  ASSUME NEW w \in Bytes, NEW m, NEW at, NEW end, NEW size, NEW keep,
         Laid(w, m, at, end, size, keep),
         NEW bufs \in Seq(Bytes), bufs # <<>>, Head(bufs) # <<>>, FlattenSeq(bufs) = w
  PROVE  /\ IsChunked(Head(bufs)) /\ ParseLoop(bufs).rc = 0
         /\ FlattenSeq(ParseLoop(bufs).plist) = keep[m]
<1> DEFINE b == Head(bufs)
           r == Tail(bufs)
           v == FlattenSeq(r)
           l == Len(b)
           s == ParseStart(bufs)
<1>1. b \in Bytes /\ r \in Seq(Bytes) /\ v \in Bytes /\ w = b \o v
  <2>1. b \in Bytes /\ r \in Seq(Bytes)
    BY HeadTailProperties
  <2>2. w = b \o v
    BY FlattenTail DEF Bytes
  <2> QED BY <2>1, <2>2, FlattenLen
<1>2. l \in Nat /\ l <= Len(b) /\ 1 <= l
  <2>1. l \in Nat /\ l # 0
    BY <1>1 DEF Bytes
  <2> QED BY <2>1
<1> HIDE DEF b, r, v, l
<1>3. Cut(w, 0, Part(b, 0, l), v)
  <2>1. Part(b, 0, l) = b /\ Part(w, 0, Len(w)) = w /\ Len(w) \in Nat
    BY <1>1, PartAll DEF l
  <2>2. 0 <= Len(w)
    BY <2>1
  <2> QED BY <1>1, <2>1, <2>2 DEF Cut
<1>4. Part(b, 0, 1) = Part(w, 0, 1) /\ Cut(w, 1, Part(b, 1, l), v)
  <2>1. 0 \in Nat /\ 1 \in Nat /\ 0 <= 1
    OBVIOUS
  <2>2. PICK q \in Nat : /\ q = 0 + (1 - 0)
                         /\ Part(b, 0, 1) = Part(w, 0, q) /\ Cut(w, q, Part(b, 1, l), v)
    BY <1>1, <1>2, <1>3, <2>1, PartTaken
  <2>3. q = 1
    BY <2>2
  <2> QED BY <2>2, <2>3
<1>5. Part(b, 0, 1) = <<ChunkedHead>>
  BY <1>4 DEF Laid
<1>6. b[1] = ChunkedHead /\ HeadLen(b) = 1
  <2>1. \A k \in 1..(1 - 0) : Part(b, 0, 1)[k] = b[0 + k]
    <3>1. 0 \in Nat /\ 1 \in Nat /\ 0 <= 1 /\ 1 <= Len(b)
      BY <1>2 DEF l
    <3> QED BY <1>1, <3>1, PartIs
  <2>2. b[1] = ChunkedHead
    <3>1. 1 \in 1..(1 - 0) /\ 0 + 1 = 1
      OBVIOUS
    <3>2. Part(b, 0, 1)[1] = b[1]
      BY <2>1, <3>1
    <3> QED BY <1>5, <3>2
  <2> QED BY <1>1, <2>2, HeadFirst DEF b
<1>7. IsChunked(b)
  BY <1>6 DEF IsChunked
<1>8. /\ s.state = "begin" /\ s.buf = b /\ s.offset = 1 /\ s.rest = r /\ s.plist = <<>>
      /\ s.last = SubSeq(b, 1, 1) /\ s.rc = 1 /\ s.chunk_str = <<>>
  BY <1>6 DEF ParseStart, b, r
<1>9. Parsing(s)
  BY StartParsing
<1> HIDE DEF s
<1>10. Kept(s) = keep[1]
  <2>1. s.last = Part(b, 0, 1)
    BY <1>8 DEF Part
  <2>2. s.last = <<ChunkedHead>>
    BY <1>5, <2>1
  <2>3. FlattenSeq(s.plist) = <<>>
    BY <1>8, FlattenEmpty
  <2>4. <<>> \o <<ChunkedHead>> = <<ChunkedHead>>
    BY DEF ChunkedHead
  <2> QED BY <2>2, <2>3, <2>4 DEF Kept, Laid
<1>11. Reads(s, w, m, at, end, size, keep)
  <2>1. HasRead(s, w, 1)
    BY <1>4, <1>8 DEF HasRead, l, v
  <2>2. 1 \in 1..m /\ at[1] = 1 /\ Line(w, 1, end[1])
    <3>1. m \in Nat \ {0} /\ at[1] = 1
      BY DEF Laid
    <3>2. 1 \in 1..m
      BY <3>1
    <3> QED BY <3>1, <3>2 DEF Laid
  <2>3. InLine(s, w, 1, end[1])
    BY <1>8, <2>1, <2>2, LineStarts
  <2> QED BY <1>10, <2>2, <2>3 DEF Reads
<1> DEFINE S == {t \in ParseState : Parsing(t) /\ Reads(t, w, m, at, end, size, keep)}
<1>12. s \in S
  BY <1>9, <1>11 DEF Parsing
<1>13. ASSUME NEW t \in S PROVE ParseTurn[t] \in S
  <2>1. Parsing(t) /\ Reads(t, w, m, at, end, size, keep)
    OBVIOUS
  <2>2. Reads(ParseTurn[t], w, m, at, end, size, keep)
    BY <2>1, ReadsTurn
  <2>3. Parsing(ParseTurn[t])
    BY <2>1, TurnTurns DEF Turns
  <2>4. ParseTurn[t] \in ParseState
    BY <2>3 DEF Parsing
  <2> QED BY <2>2, <2>3, <2>4
<1> HIDE DEF S
<1>14. ParseLoop(bufs) \in S
  BY <1>12, <1>13, LoopKeeps DEF s
<1>15. Reads(ParseLoop(bufs), w, m, at, end, size, keep) /\ ParseLoop(bufs).rc # 1
  BY <1>14, LoopEnds DEF S
<1>16. ParseLoop(bufs).rc = 0 /\ FlattenSeq(ParseLoop(bufs).plist) = keep[m]
  BY <1>15 DEF Reads, InLine, InData
<1> QED BY <1>7, <1>16 DEF b

-----------------------------------------------------------------------------
(* The responses of the hosts.                                             *)

\* The value of a size line: zeros and a digit.
LEMMA SizeIs ==
  ASSUME NEW line \in Bytes, NEW n \in Nat, Len(line) = n + 1,
         \A z \in 1..n : line[z] = 0, line[n + 1] \in 0..15
  PROVE  Size(line) = line[n + 1]
<1> DEFINE ends   == {k \in 0..Len(line) : k < Len(line) => line[k + 1] \notin 0..15}
           digits == CHOOSE k \in ends : \A m \in ends : k <= m
           IsValue(v) == v = [k \in 0..digits |-> IF k = 0 THEN 0 ELSE 16 * v[k - 1] + line[k]]
           Value == CHOOSE v : IsValue(v)
           d == n + 1
<1>1. Size(line) = Value[digits]
  BY DEF Size
<1>2. \A k \in 1..d : line[k] \in 0..15
  <2>1. \A k \in 1..d : k \in 1..n \/ k = n + 1
    OBVIOUS
  <2> QED BY <2>1
<1>3. \A k : k \in ends <=> k = d
  <2>1. \A k : k \in ends <=> k \in 0..d /\ (k < d => line[k + 1] \notin 0..15)
    OBVIOUS
  <2>2. d \in 0..d /\ ~(d < d)
    OBVIOUS
  <2>3. \A k \in 0..d : k < d => k + 1 \in 1..d
    OBVIOUS
  <2>4. \A k \in 0..d : k < d \/ k = d
    OBVIOUS
  <2> HIDE DEF ends, d
  <2> QED BY <1>2, <2>1, <2>2, <2>3, <2>4
<1> HIDE DEF ends
<1>4. digits = d
  <2>1. d \in ends /\ \A m \in ends : d <= m
    BY <1>3
  <2> HIDE DEF d
  <2>2. digits \in ends
    BY <2>1
  <2> QED BY <1>3, <2>2
<1> HIDE DEF digits
<1> DEFINE step == [p \in (1..d) \X Nat |-> 16 * p[2] + line[p[1]]]
<1>5. step \in [(1..d) \X Nat -> Nat]
  BY <1>2
<1>6. \A k \in 1..d : \A x \in Nat : step[<<k, x>>] = 16 * x + line[k]
  OBVIOUS
<1>7. d \in Nat
  OBVIOUS
<1> HIDE DEF step, d
<1>8. PICK f \in [0..d -> Nat] : IsRecursive(f, d, 0, step)
  <2>1. 0 \in Nat
    OBVIOUS
  <2> QED BY <1>5, <1>7, <2>1, RecursiveExists, Zenon
<1>9. IsValue(f)
  <2>1. ASSUME NEW k \in 0..d, k # 0 PROVE step[<<k, f[k - 1]>>] = 16 * f[k - 1] + line[k]
    <3>1. k \in 1..d /\ k - 1 \in 0..d
      BY <1>7, <2>1
    <3> QED BY <1>6, <1>8, <3>1
  <2> QED BY <1>4, <1>8, <2>1 DEF IsRecursive
<1>10. IsValue(Value)
  BY <1>9
<1> HIDE DEF Value
<1>11. Value[0] = 0 /\ \A k \in 1..d : Value[k] = 16 * Value[k - 1] + line[k]
  <2>1. 0 \in 0..d /\ \A k \in 1..d : k \in 0..d /\ k # 0
    BY <1>7
  <2> QED BY <1>4, <1>10, <2>1
<1> DEFINE T == {k \in Nat : k <= n => Value[k] = 0}
<1>12. 0 \in T
  BY <1>11
<1>13. ASSUME NEW k \in Nat, k \in T PROVE k + 1 \in T
  <2> SUFFICES ASSUME k + 1 <= n PROVE Value[k + 1] = 0
    OBVIOUS
  <2>1. k + 1 \in 1..d /\ k + 1 \in 1..n /\ (k + 1) - 1 = k /\ Value[k] = 0
    BY <1>13 DEF d
  <2>2. Value[k + 1] = 16 * Value[k] + line[k + 1] /\ line[k + 1] = 0
    BY <1>11, <2>1
  <2> QED BY <2>1, <2>2
<1>14. Nat \subseteq T
  BY <1>12, <1>13, AllNat
<1>15. Value[n] = 0
  BY <1>14
<1>16. d \in 1..d /\ d - 1 = n
  BY DEF d
<1>17. Value[d] = 16 * Value[n] + line[d]
  BY <1>11, <1>16
<1>18. Value[d] = line[d]
  <2>1. line[d] \in Int
    BY <1>2, <1>16
  <2> QED BY <1>15, <1>17, <2>1
<1> QED BY <1>1, <1>4, <1>18 DEF d

LEMMA DataIs ==
  ASSUME NEW from \in Nat, NEW n \in Nat
  PROVE  DataBytes(from, n) \in Bytes /\ Len(DataBytes(from, n)) = n
<1> DEFINE D(k) == IF from + k = 2 THEN CR ELSE 100 + from + k
<1>1. \A k \in 1..n : D(k) \in Int
  BY DEF CR
<1> HIDE DEF D
<1>2. [k \in 1..n |-> D(k)] \in Seq(Int) /\ Len([k \in 1..n |-> D(k)]) = n
  BY <1>1
<1> QED BY <1>2 DEF D, DataBytes, Bytes

\* The data of two chunks, one after the other.
LEMMA DataJoin ==
  ASSUME NEW n \in Nat, NEW k \in Nat
  PROVE  DataBytes(0, n) \o DataBytes(n, k) = DataBytes(0, n + k)
<1> DEFINE x == DataBytes(0, n)
           y == DataBytes(n, k)
           z == DataBytes(0, n + k)
           D(i) == IF i = 2 THEN CR ELSE 100 + i
<1>1. x \in Bytes /\ Len(x) = n /\ y \in Bytes /\ Len(y) = k /\ z \in Bytes /\ Len(z) = n + k
  <2>1. 0 \in Nat /\ n + k \in Nat
    OBVIOUS
  <2> QED BY <2>1, DataIs
<1>2. /\ \A i \in 1..n : x[i] = D(i)
      /\ \A i \in 1..k : y[i] = D(n + i)
      /\ \A i \in 1..(n + k) : z[i] = D(i)
  <2>1. \A i \in 1..n : x[i] = D(i)
    BY DEF DataBytes
  <2>2. \A i \in 1..k : y[i] = D(n + i)
    BY DEF DataBytes
  <2>3. \A i \in 1..(n + k) : z[i] = D(i)
    BY DEF DataBytes
  <2> QED BY <2>1, <2>2, <2>3
<1> HIDE DEF x, y, z, D
<1>3. PICK xy \in Bytes : /\ xy = x \o y /\ Len(xy) = n + k
                          /\ \A i \in 1..n : xy[i] = x[i]
                          /\ \A i \in 1..k : xy[n + i] = y[i]
  <2>1. /\ x \o y \in Bytes /\ Len(x \o y) = Len(x) + Len(y)
        /\ \A i \in 1..Len(x) : (x \o y)[i] = x[i]
        /\ \A i \in 1..Len(y) : (x \o y)[Len(x) + i] = y[i]
    BY <1>1, JoinIs
  <2>2. PICK xy : xy = x \o y
    OBVIOUS
  <2> QED BY <1>1, <2>1, <2>2
<1>4. ASSUME NEW i \in 1..Len(xy) PROVE xy[i] = z[i]
  <2>1. CASE i <= n
    <3>1. i \in 1..n /\ i \in 1..(n + k)
      BY <1>3, <2>1
    <3> QED BY <1>2, <1>3, <3>1
  <2>2. CASE i > n
    <3>1. i - n \in 1..k /\ i \in 1..(n + k) /\ n + (i - n) = i
      BY <1>3, <2>2
    <3>2. xy[n + (i - n)] = y[i - n] /\ y[i - n] = D(n + (i - n))
      BY <1>2, <1>3, <3>1
    <3> QED BY <1>2, <3>1, <3>2
  <2> QED BY <1>3, <2>1, <2>2
<1>5. xy = z
  BY <1>1, <1>3, <1>4, SameBytes
<1> QED BY <1>3, <1>5 DEF x, y, z

\* A chunk as a host writes it: the size line, the data and an empty line.
Chunk(pad, n, from) == SizeLine(pad, n) \o DataBytes(from, n) \o <<CR, LF>>

IsChunk(x, pad, n, from) ==
    /\ x \in Bytes /\ Len(x) = ((pad + 3) + n) + 2
    /\ \A z \in 1..pad : x[z] = 0
    /\ x[pad + 1] = n /\ x[pad + 2] = CR /\ x[pad + 3] = LF
    /\ Part(x, pad + 3, (pad + 3) + n) = DataBytes(from, n)
    /\ x[((pad + 3) + n) + 1] = CR /\ x[((pad + 3) + n) + 2] = LF

LEMMA ChunkIs ==
  ASSUME NEW pad \in Nat, NEW n \in Nat, NEW from \in Nat
  PROVE  IsChunk(Chunk(pad, n, from), pad, n, from)
<1> DEFINE a == [z \in 1..pad |-> 0]
           b == <<n, CR, LF>>
           c == DataBytes(from, n)
           d == <<CR, LF>>
           ab == a \o b
           abc == ab \o c
           x == abc \o d
<1>1. /\ a \in Bytes /\ Len(a) = pad /\ \A z \in 1..pad : a[z] = 0
      /\ b \in Bytes /\ Len(b) = 3 /\ b[1] = n /\ b[2] = CR /\ b[3] = LF
      /\ c \in Bytes /\ Len(c) = n
      /\ d \in Bytes /\ Len(d) = 2 /\ d[1] = CR /\ d[2] = LF
  <2>1. a \in Bytes /\ Len(a) = pad /\ \A z \in 1..pad : a[z] = 0
    BY DEF Bytes
  <2>2. b \in Bytes /\ Len(b) = 3 /\ b[1] = n /\ b[2] = CR /\ b[3] = LF
    BY DEF Bytes, CR, LF
  <2>3. d \in Bytes /\ Len(d) = 2 /\ d[1] = CR /\ d[2] = LF
    BY DEF Bytes, CR, LF
  <2> QED BY <2>1, <2>2, <2>3, DataIs
<1> HIDE DEF a, b, c, d
<1>2. /\ ab \in Bytes /\ Len(ab) = pad + 3 /\ \A z \in 1..pad : ab[z] = 0
      /\ ab[pad + 1] = n /\ ab[pad + 2] = CR /\ ab[pad + 3] = LF
  <2>1. /\ ab \in Bytes /\ Len(ab) = Len(a) + Len(b)
        /\ \A k \in 1..Len(a) : ab[k] = a[k]
        /\ \A k \in 1..Len(b) : ab[Len(a) + k] = b[k]
    BY <1>1, JoinIs
  <2> HIDE DEF ab
  <2>2. 1 \in 1..3 /\ 2 \in 1..3 /\ 3 \in 1..3
    OBVIOUS
  <2> QED BY <1>1, <2>1, <2>2
<1> HIDE DEF ab
<1>3. /\ abc \in Bytes /\ Len(abc) = (pad + 3) + n
      /\ \A k \in 1..(pad + 3) : abc[k] = ab[k]
      /\ \A k \in 1..n : abc[(pad + 3) + k] = c[k]
  <2>1. /\ abc \in Bytes /\ Len(abc) = Len(ab) + Len(c)
        /\ \A k \in 1..Len(ab) : abc[k] = ab[k]
        /\ \A k \in 1..Len(c) : abc[Len(ab) + k] = c[k]
    BY <1>1, <1>2, JoinIs
  <2> HIDE DEF abc
  <2> QED BY <1>1, <1>2, <2>1
<1> HIDE DEF abc
<1> DEFINE m == pad + 3
<1>4. /\ x \in Bytes /\ Len(x) = (m + n) + 2
      /\ \A k \in 1..(m + n) : x[k] = abc[k]
      /\ \A k \in 1..2 : x[(m + n) + k] = d[k]
  <2>1. /\ x \in Bytes /\ Len(x) = Len(abc) + Len(d)
        /\ \A k \in 1..Len(abc) : x[k] = abc[k]
        /\ \A k \in 1..Len(d) : x[Len(abc) + k] = d[k]
    BY <1>1, <1>3, JoinIs
  <2> HIDE DEF x
  <2> QED BY <1>1, <1>3, <2>1
<1> HIDE DEF x
<1>5. m \in Nat /\ m = pad + 3
  OBVIOUS
<1>6. \A k \in 1..m : x[k] = ab[k]
  <2>1. \A k \in 1..m : k \in 1..(m + n)
    OBVIOUS
  <2> QED BY <1>3, <1>4, <2>1
<1>7. /\ \A z \in 1..pad : x[z] = 0
      /\ x[pad + 1] = n /\ x[pad + 2] = CR /\ x[pad + 3] = LF
  <2>1. /\ pad + 1 \in 1..m /\ pad + 2 \in 1..m /\ pad + 3 \in 1..m
        /\ \A z \in 1..pad : z \in 1..m
    OBVIOUS
  <2> HIDE DEF m
  <2> QED BY <1>2, <1>6, <2>1
<1>8. x[(m + n) + 1] = CR /\ x[(m + n) + 2] = LF
  <2>1. 1 \in 1..2 /\ 2 \in 1..2
    OBVIOUS
  <2> QED BY <1>1, <1>4, <2>1
<1>9. Part(x, m, m + n) = c
  <2> HIDE DEF m
  <2> DEFINE y == Part(x, m, m + n)
  <2>1. m + n \in Nat /\ m <= m + n /\ m + n <= Len(x)
    BY <1>4, <1>5
  <2>2. y \in Bytes /\ Len(y) = (m + n) - m /\ \A k \in 1..((m + n) - m) : y[k] = x[m + k]
    BY <1>4, <1>5, <2>1, PartIs
  <2> HIDE DEF y
  <2>3. Len(y) = n /\ \A k \in 1..n : y[k] = x[m + k]
    BY <1>5, <2>2
  <2>4. ASSUME NEW k \in 1..n PROVE y[k] = c[k]
    <3>1. m + k \in 1..(m + n)
      BY <1>5
    <3>2. x[m + k] = abc[m + k] /\ abc[m + k] = c[k]
      BY <1>3, <1>4, <1>5, <3>1
    <3> QED BY <2>3, <3>2
  <2>5. y = c
    BY <1>1, <2>2, <2>3, <2>4, SameBytes
  <2> QED BY <2>5 DEF y
<1>10. IsChunk(x, pad, n, from)
  BY <1>4, <1>7, <1>8, <1>9 DEF IsChunk, c
<1> QED BY <1>10 DEF x, abc, ab, a, b, c, d, Chunk, SizeLine

\* Where a chunk is in the response.
ChunkLies(w, a, b, q, n, from) ==
    /\ Line(w, a, q) /\ a # q /\ Size(Part(w, a, q)) = n
    /\ b = ((q + 2) + n) + 2
    /\ Line(w, (q + 2) + n, (q + 2) + n)
    /\ Part(w, q + 2, (q + 2) + n) = DataBytes(from, n)

LEMMA ChunkAt ==
  ASSUME NEW w \in Bytes, NEW a \in Nat, NEW b \in Nat, a <= b, b <= Len(w),
         NEW pad \in Nat, pad + 1 < ChunkMax, NEW n \in 0..15, NEW from \in Nat,
         IsChunk(Part(w, a, b), pad, n, from), NEW q \in Nat, q = a + (pad + 1)
  PROVE  ChunkLies(w, a, b, q, n, from)
<1> DEFINE x == Part(w, a, b)
<1>1. x \in Bytes /\ Len(x) = b - a /\ \A k \in 1..(b - a) : x[k] = w[a + k]
  BY PartIs
<1>2. /\ Len(x) = ((pad + 3) + n) + 2
      /\ \A z \in 1..pad : x[z] = 0
      /\ x[pad + 1] = n /\ x[pad + 2] = CR /\ x[pad + 3] = LF
      /\ Part(x, pad + 3, (pad + 3) + n) = DataBytes(from, n)
      /\ x[((pad + 3) + n) + 1] = CR /\ x[((pad + 3) + n) + 2] = LF
  BY DEF IsChunk
<1> HIDE DEF x
<1>3. n \in Nat /\ b = a + ((pad + 3) + n) + 2 /\ Len(w) \in Nat /\ ChunkMax \in Nat
  <2>1. n \in Nat /\ Len(w) \in Nat /\ ChunkMax \in Nat
    BY ParseAssumption DEF Bytes
  <2>2. b - a = ((pad + 3) + n) + 2
    BY <1>1, <1>2
  <2> QED BY <2>1, <2>2
<1>4. PICK d \in Nat : d = (q + 2) + n /\ d = a + ((pad + 3) + n) /\ b = d + 2
  BY <1>3
<1>5. \A k \in Nat \ {0} : k <= b - a => x[k] = w[a + k]
  BY <1>1
<1>6. \A z \in 1..pad : w[a + z] = 0
  <2>1. ASSUME NEW z \in 1..pad PROVE w[a + z] = 0
    <3>1. z \in Nat \ {0} /\ z <= b - a
      BY <1>3
    <3> QED BY <1>2, <1>5, <3>1
  <2> QED BY <2>1
<1>7. w[q] = n /\ w[q + 1] = CR /\ w[q + 2] = LF
  <2>1. /\ pad + 1 \in Nat \ {0} /\ pad + 1 <= b - a
        /\ pad + 2 \in Nat \ {0} /\ pad + 2 <= b - a
        /\ pad + 3 \in Nat \ {0} /\ pad + 3 <= b - a
    BY <1>3
  <2>2. x[pad + 1] = w[a + (pad + 1)] /\ x[pad + 2] = w[a + (pad + 2)]
        /\ x[pad + 3] = w[a + (pad + 3)]
    BY <1>5, <2>1
  <2>3. a + (pad + 1) = q /\ a + (pad + 2) = q + 1 /\ a + (pad + 3) = q + 2
    OBVIOUS
  <2> QED BY <1>2, <2>2, <2>3
<1>8. w[d + 1] = CR /\ w[d + 2] = LF
  <2> DEFINE e == (pad + 3) + n
  <2>1. /\ e + 1 \in Nat \ {0} /\ e + 1 <= b - a /\ a + (e + 1) = d + 1
        /\ e + 2 \in Nat \ {0} /\ e + 2 <= b - a /\ a + (e + 2) = d + 2
    BY <1>3, <1>4
  <2>2. x[e + 1] = CR /\ x[e + 2] = LF
    BY <1>2
  <2> HIDE DEF e
  <2>3. x[e + 1] = w[a + (e + 1)] /\ x[e + 2] = w[a + (e + 2)]
    BY <1>5, <2>1
  <2> QED BY <2>1, <2>2, <2>3
<1>9. Line(w, a, q)
  <2>1. a <= q /\ q + 2 <= Len(w) /\ q - a < ChunkMax
    BY <1>3, <1>4
  <2>2. ASSUME NEW k \in (a + 1)..q PROVE w[k] # CR
    <3>1. CASE k = q
      <4>1. n # CR
        BY <1>3 DEF CR
      <4> QED BY <1>7, <3>1, <4>1
    <3>2. CASE k # q
      <4>1. k - a \in 1..pad /\ a + (k - a) = k
        BY <3>2
      <4>2. w[a + (k - a)] = 0
        BY <1>6, <4>1
      <4>3. 0 # CR
        BY DEF CR
      <4> QED BY <4>1, <4>2, <4>3
    <3> QED BY <3>1, <3>2
  <2> QED BY <1>7, <2>1, <2>2 DEF Line
<1>10. Line(w, d, d)
  <2>1. d <= d /\ d + 2 <= Len(w) /\ d - d < ChunkMax /\ \A k \in (d + 1)..d : FALSE
    BY <1>3, <1>4, ParseAssumption
  <2> QED BY <1>8, <2>1 DEF Line
<1>11. Size(Part(w, a, q)) = n
  <2> DEFINE l == Part(w, a, q)
  <2>1. a <= q /\ q <= Len(w) /\ q - a = pad + 1
    BY <1>3, <1>4
  <2>2. l \in Bytes /\ Len(l) = q - a /\ \A k \in 1..(q - a) : l[k] = w[a + k]
    BY <2>1, PartIs
  <2> HIDE DEF l
  <2>3. Len(l) = pad + 1 /\ \A k \in 1..(pad + 1) : l[k] = w[a + k]
    BY <2>1, <2>2
  <2>4. /\ \A z \in 1..pad : z \in 1..(pad + 1)
        /\ pad + 1 \in 1..(pad + 1) /\ a + (pad + 1) = q
    OBVIOUS
  <2>5. \A z \in 1..pad : l[z] = 0
    BY <1>6, <2>3, <2>4
  <2>6. l[pad + 1] = n
    BY <1>7, <2>3, <2>4
  <2>7. Size(l) = l[pad + 1]
    BY <2>2, <2>3, <2>5, <2>6, SizeIs
  <2> QED BY <2>6, <2>7 DEF l
<1>12. Part(w, q + 2, d) = DataBytes(from, n)
  <2>1. PICK c \in Nat : c = pad + 3
    OBVIOUS
  <2>2. PICK e \in Nat : e = (pad + 3) + n
    BY <1>3
  <2>3. c <= e /\ e <= b - a /\ a + c = q + 2 /\ a + e = d
    BY <1>3, <1>4, <2>1, <2>2
  <2>4. Part(Part(w, a, b), c, e) = Part(w, a + c, a + e)
    BY <2>3, PartOfPart
  <2>5. Part(x, c, e) = DataBytes(from, n)
    BY <1>2, <2>1, <2>2
  <2> QED BY <2>3, <2>4, <2>5 DEF x
<1>13. a # q
  OBVIOUS
<1> QED BY <1>4, <1>9, <1>10, <1>11, <1>12, <1>13 DEF ChunkLies

LengthOf(ps) == [k \in 1..Len(ps) |-> Len(ps[k])]

\* Where a part is in the whole.
LEMMA FlattenParts ==
  ASSUME NEW ps \in Seq(Bytes), NEW c \in Nat \ {0}, c <= Len(ps)
  PROVE  \E a, b \in Nat :
            /\ a = Total(LengthOf(ps), c - 1) /\ b = Total(LengthOf(ps), c)
            /\ b = a + Len(ps[c]) /\ a <= b /\ b <= Len(FlattenSeq(ps))
            /\ Part(FlattenSeq(ps), a, b) = ps[c]
<1> DEFINE n  == Len(ps)
           xs == SubSeq(ps, 1, c)
           ys == SubSeq(ps, c + 1, n)
           vs == SubSeq(xs, 1, c - 1)
           us == SubSeq(xs, c, c)
           w  == FlattenSeq(ps)
           v  == FlattenSeq(vs)
           y  == FlattenSeq(ys)
           p  == ps[c]
<1>1. n \in Nat /\ c \in 1..n /\ p \in Bytes
  <2>1. n \in Nat /\ c \in 1..n
    OBVIOUS
  <2> QED BY <2>1
<1>2. xs \in Seq(Bytes) /\ ys \in Seq(Bytes) /\ ps = xs \o ys
      /\ Len(xs) = c /\ \A k \in 1..c : xs[k] = ps[k]
  <2>1. c \in 0..Len(ps)
    BY <1>1
  <2>2. xs \in Seq(Bytes) /\ ys \in Seq(Bytes) /\ ps = xs \o ys
    BY <2>1, SplitSeq
  <2>3. Len(xs) = c /\ \A k \in 1..c : xs[k] = ps[k]
    BY <1>1
  <2> QED BY <2>2, <2>3
<1> HIDE DEF xs, ys
<1>3. vs \in Seq(Bytes) /\ xs = vs \o <<p>> /\ Len(vs) = c - 1
      /\ \A k \in 1..(c - 1) : vs[k] = ps[k]
  <2>1. c - 1 \in 0..Len(xs) /\ (c - 1) + 1 = c
    BY <1>2
  <2>2. vs \in Seq(Bytes) /\ xs = vs \o SubSeq(xs, (c - 1) + 1, Len(xs))
    BY <1>2, <2>1, SplitSeq
  <2>3. SubSeq(xs, (c - 1) + 1, Len(xs)) = us
    BY <1>2, <2>1
  <2>4. us = <<p>>
    <3>1. us \in Seq(Bytes) /\ Len(us) = 1 /\ us[1] = p
      BY <1>1, <1>2
    <3> HIDE DEF us, p
    <3> QED BY <3>1
  <2>5. Len(vs) = c - 1 /\ \A k \in 1..(c - 1) : vs[k] = xs[k]
    BY <1>2
  <2>6. \A k \in 1..(c - 1) : xs[k] = ps[k]
    <3>1. \A k \in 1..(c - 1) : k \in 1..c
      OBVIOUS
    <3> QED BY <1>2, <3>1
  <2> HIDE DEF vs, us
  <2> QED BY <2>2, <2>3, <2>4, <2>5, <2>6
<1> HIDE DEF vs, p
<1>4. v \in Bytes /\ y \in Bytes /\ Len(v) \in Nat /\ Len(p) \in Nat /\ w \in Bytes
  <2>1. v \in Bytes /\ Len(v) \in Nat
    BY <1>3, FlattenLen
  <2>2. y \in Bytes /\ w \in Bytes
    BY <1>2, FlattenLen
  <2>3. Len(p) \in Nat
    BY <1>1 DEF Bytes
  <2> QED BY <2>1, <2>2, <2>3
<1>5. w = v \o (p \o y) /\ p \o y \in Bytes
  <2>1. FlattenSeq(xs \o ys) = FlattenSeq(xs) \o FlattenSeq(ys)
    BY <1>2, FlattenConcat DEF Bytes
  <2>2. <<p>> \in Seq(Bytes)
    BY <1>1
  <2>3. FlattenSeq(vs \o <<p>>) = FlattenSeq(vs) \o FlattenSeq(<<p>>)
    BY <1>3, <2>2, FlattenConcat DEF Bytes
  <2>4. FlattenSeq(<<p>>) = p
    BY FlattenOne
  <2>5. w = (v \o p) \o y
    BY <1>2, <1>3, <2>1, <2>3, <2>4
  <2>6. p \o y \in Bytes
    BY <1>1, <1>4, JoinIs
  <2> QED BY <1>1, <1>4, <2>5, <2>6, JoinAssociates
<1> HIDE DEF w, v, y
<1>6. Cut(w, 0, v, p \o y)
  <2>1. Part(w, 0, Len(w)) = w /\ Len(w) \in Nat
    BY <1>4, PartAll
  <2>2. 0 \in Nat /\ 0 <= Len(w)
    BY <2>1
  <2> QED BY <1>5, <2>1, <2>2 DEF Cut
<1>7. PICK a \in Nat : a = 0 + Len(v) /\ a <= Len(w) /\ p \o y = Part(w, a, Len(w))
  <2>1. PICK z \in Bytes : z = p \o y
    BY <1>5
  <2>2. Cut(w, 0, v, z) /\ 0 \in Nat
    BY <1>6, <2>1
  <2>3. \E a \in Nat : /\ a = 0 + Len(v) /\ 0 <= a /\ a <= Len(w)
                       /\ v = Part(w, 0, a) /\ z = Part(w, a, Len(w))
    BY <1>4, <2>2, CutIs
  <2> QED BY <2>1, <2>3
<1>8. Cut(w, a, p, y)
  BY <1>7 DEF Cut
<1>9. PICK b \in Nat : /\ b = a + Len(p) /\ a <= b /\ b <= Len(w) /\ p = Part(w, a, b)
  BY <1>1, <1>4, <1>8, CutIs
<1>10. a = Total(LengthOf(ps), c - 1)
  <2>1. Total(LengthOf(vs), Len(vs)) = Len(v)
    BY <1>3, TotalFlatten DEF LengthOf, v
  <2>2. \A k \in 1..(c - 1) : LengthOf(ps)[k] \in Int /\ LengthOf(vs)[k] = LengthOf(ps)[k]
    <3>1. ASSUME NEW k \in 1..(c - 1)
          PROVE  LengthOf(ps)[k] \in Int /\ LengthOf(vs)[k] = LengthOf(ps)[k]
      <4>1. k \in 1..n /\ k \in 1..Len(vs)
        BY <1>1, <1>3
      <4>2. ps[k] \in Bytes
        BY <4>1
      <4>3. LengthOf(ps)[k] = Len(ps[k]) /\ LengthOf(vs)[k] = Len(vs[k])
        BY <4>1 DEF LengthOf
      <4> QED BY <1>3, <4>2, <4>3 DEF Bytes
    <3> QED BY <3>1
  <2>3. c - 1 \in Nat
    OBVIOUS
  <2>4. Total(LengthOf(vs), c - 1) = Total(LengthOf(ps), c - 1)
    BY <2>2, <2>3, TotalSame
  <2> QED BY <1>3, <1>4, <1>7, <2>1, <2>4
<1>11. b = Total(LengthOf(ps), c)
  <2>1. ASSUME NEW k \in 1..c PROVE LengthOf(ps)[k] \in Int /\ LengthOf(ps)[k] = Len(ps[k])
    <3>1. k \in 1..n
      BY <1>1
    <3>2. ps[k] \in Bytes
      BY <3>1
    <3> QED BY <3>1, <3>2 DEF Bytes, LengthOf
  <2>2. c - 1 \in Nat /\ (c - 1) + 1 = c /\ c \in 1..c
    OBVIOUS
  <2>3. Total(LengthOf(ps), (c - 1) + 1) = Total(LengthOf(ps), c - 1) + LengthOf(ps)[(c - 1) + 1]
    BY <2>1, <2>2, TotalNext
  <2>4. LengthOf(ps)[c] = Len(p)
    BY <2>1, <2>2 DEF p
  <2> QED BY <1>9, <1>10, <2>2, <2>3, <2>4
<1> QED BY <1>9, <1>10, <1>11 DEF w, p

LEMMA ChunkedReply ==
  ASSUME NEW r \in Reqs, NEW reply \in RepliesTo(r), reply.chunked
  PROVE  /\ reply.chunks \in Seq(1..15) /\ reply.pad \in Nat /\ reply.pad + 1 < ChunkMax
<1>1. reply.pad = Pad /\ \E n \in 0..MaxChunks : reply.chunks \in [1..n -> {1, MaxChunk}]
  BY DEF RepliesTo
<1>2. Pad \in Nat /\ 0..MaxChunks \subseteq Nat /\ {1, MaxChunk} \subseteq 1..15
  BY ConstantsAssumption, ReplyAssumption
<1>3. reply.chunks \in Seq(1..15)
  <2>1. PICK n \in Nat : reply.chunks \in [1..n -> {1, MaxChunk}]
    BY <1>1, <1>2
  <2>2. reply.chunks \in [1..n -> 1..15]
    BY <1>2, <2>1
  <2> QED BY <2>2
<1> QED BY <1>1, <1>2, <1>3, ReplyAssumption

\* The bytes before a chunk's.
LEMMA BeforeIs ==
  ASSUME NEW s \in Seq(1..15), NEW c \in Nat \ {0}
  PROVE  /\ Before(s, 1) = 0
         /\ c <= Len(s) + 1 => Before(s, c) \in Nat
         /\ c <= Len(s) => Before(s, c + 1) = Before(s, c) + s[c]
<1> DEFINE n == Len(s)
<1>1. n \in Nat /\ \A k \in 1..n : s[k] \in Nat
  OBVIOUS
<1> HIDE DEF n
<1>2. Before(s, 1) = 0
  <2>1. 1 - 1 = 0
    OBVIOUS
  <2> QED BY <2>1, TotalNone DEF Before
<1>3. ASSUME NEW k \in Nat, k + 1 <= n PROVE Total(s, k + 1) = Total(s, k) + s[k + 1]
  <2>1. \A i \in 1..(k + 1) : i \in 1..n
    BY <1>1, <1>3
  <2>2. \A i \in 1..(k + 1) : s[i] \in Int
    BY <1>1, <2>1
  <2> QED BY <2>2, TotalNext
<1> DEFINE T == {k \in Nat : k <= n => Total(s, k) \in Nat}
<1>4. 0 \in T
  BY TotalNone
<1>5. ASSUME NEW k \in Nat, k \in T PROVE k + 1 \in T
  <2> SUFFICES ASSUME k + 1 <= n PROVE Total(s, k + 1) \in Nat
    OBVIOUS
  <2>1. k + 1 \in 1..n /\ k <= n
    BY <1>1
  <2>2. Total(s, k) \in Nat /\ s[k + 1] \in Nat
    BY <1>1, <1>5, <2>1
  <2> QED BY <1>3, <2>2
<1>6. Nat \subseteq T
  BY <1>4, <1>5, AllNat
<1>7. ASSUME c <= n + 1 PROVE Before(s, c) \in Nat
  <2>1. c - 1 \in Nat /\ c - 1 <= n
    BY <1>1, <1>7
  <2> QED BY <1>6, <2>1 DEF Before
<1>8. ASSUME c <= n PROVE Before(s, c + 1) = Before(s, c) + s[c]
  <2>1. c - 1 \in Nat /\ (c - 1) + 1 = c /\ (c + 1) - 1 = c
    OBVIOUS
  <2>2. Total(s, (c - 1) + 1) = Total(s, c - 1) + s[(c - 1) + 1]
    BY <1>3, <1>8, <2>1
  <2> QED BY <2>1, <2>2 DEF Before
<1> QED BY <1>2, <1>7, <1>8 DEF n

\* What a host writes in chunks is laid out as http_parse reads it.
LEMMA WireLaid ==
  ASSUME NEW r \in Reqs, NEW reply \in RepliesTo(r), reply.chunked
  PROVE  \E m, at, end, size, keep :
            /\ Laid(Wire(reply), m, at, end, size, keep)
            /\ keep[m] = Body(reply)
<1> DEFINE s   == reply.chunks
           pad == reply.pad
           n   == Len(s)
           m   == n + 1
           N(c) == IF c = m THEN 0 ELSE s[c]
           P(c) == Chunk(pad, N(c), Before(s, c))
           head == <<ChunkedHead>>
           all == [c \in 1..n |-> P(c)]
           w   == Wire(reply)
<1>1. s \in Seq(1..15) /\ pad \in Nat /\ pad + 1 < ChunkMax
  BY ChunkedReply
<1>2. n \in Nat /\ m \in Nat \ {0} /\ n <= m /\ 1 \in 1..m /\ m \in 1..m
  BY <1>1
<1>3. /\ N(m) = 0
      /\ \A c \in 1..m : c # m => c \in 1..n /\ N(c) = s[c] /\ N(c) \in 1..15
  BY <1>1, <1>2
<1> HIDE DEF m, N
<1>4. \A c \in 1..m : N(c) \in 0..15 /\ N(c) \in Nat /\ (c = m <=> N(c) = 0)
  <2>1. ASSUME NEW c \in 1..m PROVE N(c) \in 0..15 /\ N(c) \in Nat /\ (c = m <=> N(c) = 0)
    <3>1. CASE c = m
      BY <1>3, <3>1
    <3>2. CASE c # m
      <4>1. N(c) \in 1..15
        BY <1>3, <3>2
      <4> HIDE DEF N
      <4> QED BY <3>2, <4>1
    <3> QED BY <3>1, <3>2
  <2> QED BY <2>1
<1>5. \A c \in 1..m : Before(s, c) \in Nat
  <2>1. \A c \in 1..m : c \in Nat \ {0} /\ c <= Len(s) + 1
    BY <1>2 DEF m
  <2> QED BY <1>1, <2>1, BeforeIs
<1>6. ASSUME NEW c \in 1..m, c # m PROVE Before(s, c + 1) = Before(s, c) + N(c)
  <2>1. c \in Nat \ {0} /\ c <= Len(s) /\ N(c) = s[c]
    BY <1>3, <1>6
  <2> QED BY <1>1, <2>1, BeforeIs
<1>7. \A c \in 1..m : IsChunk(P(c), pad, N(c), Before(s, c))
  BY <1>1, <1>4, <1>5, ChunkIs
<1> HIDE DEF P
<1>8. \A c \in 1..m : P(c) \in Bytes
  BY <1>7 DEF IsChunk
<1>9. /\ head \in Bytes /\ Len(head) = 1
      /\ all \in Seq(Bytes) /\ Len(all) = n /\ \A c \in 1..n : all[c] = P(c)
  <2>1. \A c \in 1..n : c \in 1..m
    BY <1>2
  <2>2. \A c \in 1..n : P(c) \in Bytes
    BY <1>8, <2>1
  <2>3. all \in Seq(Bytes) /\ Len(all) = n /\ \A c \in 1..n : all[c] = P(c)
    BY <1>2, <2>2
  <2>4. head \in Bytes /\ Len(head) = 1
    BY DEF ChunkedHead, Bytes
  <2> QED BY <2>3, <2>4
<1>10. w = (head \o FlattenSeq(all)) \o P(m)
  <2>1. all = [c \in 1..n |-> SizeLine(pad, s[c]) \o DataBytes(Before(s, c), s[c]) \o <<CR, LF>>]
    <3>1. \A c \in 1..n : P(c) = SizeLine(pad, s[c]) \o DataBytes(Before(s, c), s[c]) \o <<CR, LF>>
      <4>1. \A c \in 1..n : c # m
        BY <1>2 DEF m
      <4>2. \A c \in 1..n : N(c) = s[c]
        BY <4>1 DEF N
      <4> QED BY <4>2 DEF P, Chunk
    <3> QED BY <3>1
  <2>2. P(m) = SizeLine(pad, 0) \o DataBytes(Before(s, m), 0) \o <<CR, LF>>
    BY <1>3 DEF P, Chunk
  <2>3. DataBytes(Before(s, m), 0) = <<>>
    <3>1. 0 \in Nat /\ Before(s, m) \in Nat
      BY <1>2, <1>5
    <3>2. DataBytes(Before(s, m), 0) \in Seq(Int) /\ Len(DataBytes(Before(s, m), 0)) = 0
      BY <3>1, DataIs DEF Bytes
    <3> QED BY <3>2, EmptySeq
  <2>4. SizeLine(pad, 0) \in Bytes
    <3>1. [z \in 1..pad |-> 0] \in Seq(Int) /\ <<0, CR, LF>> \in Seq(Int)
      BY <1>1 DEF CR, LF
    <3> QED BY <3>1, ConcatProperties DEF SizeLine, Bytes
  <2>5. SizeLine(pad, 0) \o <<>> = SizeLine(pad, 0)
    BY <2>4 DEF Bytes
  <2>6. P(m) = SizeLine(pad, 0) \o <<CR, LF>>
    BY <2>2, <2>3, <2>5
  <2>7. w = ((head \o FlattenSeq(all)) \o SizeLine(pad, 0)) \o <<CR, LF>>
    BY <2>1 DEF Wire
  <2>8. head \o FlattenSeq(all) \in Bytes
    BY <1>9, FlattenLen, JoinIs
  <2>9. <<CR, LF>> \in Bytes
    BY DEF Bytes, CR, LF
  <2> HIDE DEF head, all, w
  <2>10. PICK x \in Bytes : x = head \o FlattenSeq(all)
    BY <2>8
  <2>11. PICK y \in Bytes : y = SizeLine(pad, 0)
    BY <2>4
  <2>12. PICK z \in Bytes : z = <<CR, LF>>
    BY <2>9
  <2>13. w = (x \o y) \o z /\ P(m) = y \o z
    BY <2>6, <2>7, <2>10, <2>11, <2>12
  <2>14. (x \o y) \o z = x \o (y \o z)
    BY JoinAssociates
  <2> QED BY <2>10, <2>13, <2>14
<1> HIDE DEF head, all, w
<1> DEFINE ps == (<<head>> \o all) \o <<P(m)>>
<1>11. /\ ps \in Seq(Bytes) /\ Len(ps) = m + 1 /\ ps[1] = head
       /\ \A c \in 1..m : ps[c + 1] = P(c)
  <2> DEFINE hs == <<head>> \o all
  <2>1. hs \in Seq(Bytes) /\ Len(hs) = m /\ hs[1] = head /\ \A c \in 1..n : hs[c + 1] = P(c)
    BY <1>2, <1>9 DEF m
  <2> HIDE DEF hs
  <2>2. P(m) \in Bytes
    BY <1>2, <1>8
  <2>3. ps = hs \o <<P(m)>>
    BY DEF hs
  <2> HIDE DEF ps
  <2>4. /\ ps \in Seq(Bytes) /\ Len(ps) = m + 1 /\ ps[m + 1] = P(m)
        /\ \A c \in 1..m : ps[c] = hs[c]
    BY <1>2, <2>1, <2>2, <2>3
  <2>5. ASSUME NEW c \in 1..m PROVE ps[c + 1] = P(c)
    <3>1. CASE c = m
      BY <2>4, <3>1
    <3>2. CASE c # m
      <4>1. c \in 1..n /\ c + 1 \in 1..m
        BY <1>3, <1>2, <3>2
      <4> QED BY <2>1, <2>4, <4>1
    <3> QED BY <3>1, <3>2
  <2>6. ps[1] = head
    BY <1>2, <2>1, <2>4
  <2> QED BY <2>4, <2>5, <2>6
<1>12. FlattenSeq(ps) = w
  <2>1. <<head>> \in Seq(Bytes) /\ <<P(m)>> \in Seq(Bytes)
    BY <1>2, <1>8, <1>9
  <2>2. FlattenSeq(<<head>> \o all) = FlattenSeq(<<head>>) \o FlattenSeq(all)
    BY <1>9, <2>1, FlattenConcat DEF Bytes
  <2>3. <<head>> \o all \in Seq(Bytes)
    BY <1>9, <2>1, ConcatProperties
  <2>4. FlattenSeq((<<head>> \o all) \o <<P(m)>>) = FlattenSeq(<<head>> \o all) \o FlattenSeq(<<P(m)>>)
    BY <2>1, <2>3, FlattenConcat DEF Bytes
  <2>5. FlattenSeq(<<head>>) = head /\ FlattenSeq(<<P(m)>>) = P(m)
    BY FlattenOne
  <2> QED BY <1>10, <2>2, <2>4, <2>5
<1> HIDE DEF ps
<1> DEFINE L == LengthOf(ps)
<1>13. w \in Bytes
  BY <1>11, <1>12, FlattenLen
<1>14. ASSUME NEW c \in 1..m
       PROVE  /\ Total(L, c) \in Nat /\ Total(L, c + 1) \in Nat
              /\ Total(L, c) <= Total(L, c + 1) /\ Total(L, c + 1) <= Len(w)
              /\ Part(w, Total(L, c), Total(L, c + 1)) = P(c)
  <2>1. c + 1 \in Nat \ {0} /\ c + 1 <= Len(ps) /\ (c + 1) - 1 = c
    BY <1>2, <1>11
  <2>2. \E a, b \in Nat :
            /\ a = Total(LengthOf(ps), (c + 1) - 1) /\ b = Total(LengthOf(ps), c + 1)
            /\ b = a + Len(ps[c + 1]) /\ a <= b /\ b <= Len(FlattenSeq(ps))
            /\ Part(FlattenSeq(ps), a, b) = ps[c + 1]
    BY <1>11, <2>1, FlattenParts
  <2> QED BY <1>11, <1>12, <2>1, <2>2
<1>15. Total(L, 1) = 1 /\ Part(w, 0, 1) = head
  <2>1. 1 \in Nat \ {0} /\ 1 <= Len(ps) /\ 1 - 1 = 0
    BY <1>2, <1>11
  <2>2. \E a, b \in Nat :
            /\ a = Total(LengthOf(ps), 1 - 1) /\ b = Total(LengthOf(ps), 1)
            /\ b = a + Len(ps[1]) /\ a <= b /\ b <= Len(FlattenSeq(ps))
            /\ Part(FlattenSeq(ps), a, b) = ps[1]
    BY <1>11, <2>1, FlattenParts
  <2>3. Total(LengthOf(ps), 0) = 0
    BY TotalNone
  <2>4. PICK a \in Nat, b \in Nat : /\ a = Total(L, 0) /\ b = Total(L, 1) /\ b = a + Len(ps[1])
                                   /\ Part(w, a, b) = ps[1]
    BY <1>12, <2>1, <2>2
  <2>5. a = 0 /\ Len(ps[1]) = 1
    BY <1>9, <1>11, <2>3, <2>4
  <2>6. b = 1
    BY <2>4, <2>5
  <2> QED BY <1>11, <2>4, <2>5, <2>6
<1> HIDE DEF L, pad
<1> DEFINE at  == [c \in 1..m |-> Total(L, c)]
           end == [c \in 1..m |-> Total(L, c) + (pad + 1)]
           size == [c \in 1..m |-> N(c)]
           keep == [c \in 1..m |-> head \o DataBytes(0, Before(s, c))]
<1>16. ASSUME NEW c \in 1..m
       PROVE  \E a, q, b, k, d \in Nat :
                 /\ a = at[c] /\ q = end[c] /\ k = size[c] /\ d = (q + 2) + k
                 /\ b = Total(L, c + 1) /\ b = d + 2
                 /\ Line(w, a, q) /\ a # q /\ Size(Part(w, a, q)) = k /\ (c = m <=> k = 0)
                 /\ Line(w, d, d) /\ Part(w, q + 2, d) = DataBytes(Before(s, c), k)
  <2>1. PICK a \in Nat, b \in Nat : /\ a = Total(L, c) /\ b = Total(L, c + 1)
                                    /\ a <= b /\ b <= Len(w) /\ Part(w, a, b) = P(c)
    BY <1>14
  <2>2. PICK q \in Nat : q = a + (pad + 1)
    BY <1>1
  <2>3. PICK k \in 0..15 : k = N(c) /\ k \in Nat /\ (c = m <=> k = 0)
    BY <1>4
  <2>4. Before(s, c) \in Nat /\ IsChunk(Part(w, a, b), pad, k, Before(s, c))
    BY <1>5, <1>7, <2>1, <2>3
  <2>6. at[c] = a /\ end[c] = q /\ size[c] = k
    BY <2>1, <2>2, <2>3
  <2> HIDE DEF at, end, size, keep
  <2>8. PICK o \in Nat : o = Before(s, c) /\ IsChunk(Part(w, a, b), pad, k, o)
    BY <2>4
  <2>9. a <= b /\ b <= Len(w) /\ pad \in Nat /\ pad + 1 < ChunkMax /\ w \in Bytes
    BY <1>1, <1>13, <2>1
  <2>5. /\ Line(w, a, q) /\ a # q /\ Size(Part(w, a, q)) = k
        /\ b = ((q + 2) + k) + 2
        /\ Line(w, (q + 2) + k, (q + 2) + k)
        /\ Part(w, q + 2, (q + 2) + k) = DataBytes(Before(s, c), k)
    <3>1. ChunkLies(w, a, b, q, k, o)
      BY <2>2, <2>8, <2>9, ChunkAt
    <3> QED BY <2>8, <3>1 DEF ChunkLies
  <2>7. PICK d \in Nat : d = (q + 2) + k
    BY <2>3
  <2> QED BY <2>1, <2>3, <2>5, <2>6, <2>7
<1>17. \A c \in 1..m : keep[c] = head \o DataBytes(0, Before(s, c)) /\ keep[c] \in Bytes
  <2>1. ASSUME NEW c \in 1..m PROVE head \o DataBytes(0, Before(s, c)) \in Bytes
    <3>1. 0 \in Nat /\ Before(s, c) \in Nat
      BY <1>5
    <3>2. DataBytes(0, Before(s, c)) \in Bytes
      BY <3>1, DataIs
    <3> QED BY <1>9, <3>2, JoinIs
  <2> QED BY <2>1
<1>18. at[1] = 1
  BY <1>2, <1>15
<1>19. \A c \in 1..m : at[c] = Total(L, c)
  OBVIOUS
<1> HIDE DEF at, end, size, keep
<1>20. keep[1] = head
  <2>1. Before(s, 1) = 0
    BY <1>1, BeforeIs
  <2>2. 0 \in Nat /\ DataBytes(0, 0) \in Seq(Int) /\ Len(DataBytes(0, 0)) = 0
    BY DataIs DEF Bytes
  <2>3. DataBytes(0, 0) = <<>>
    BY <2>2, EmptySeq
  <2>4. head \o <<>> = head
    BY <1>9 DEF Bytes
  <2> QED BY <1>2, <1>17, <2>1, <2>3, <2>4
<1>21. ASSUME NEW c \in 1..m
       PROVE  /\ Line(w, at[c], end[c]) /\ at[c] # end[c]
              /\ size[c] \in Nat /\ size[c] = Size(Part(w, at[c], end[c]))
              /\ c = m <=> size[c] = 0
  BY <1>16
<1>22. ASSUME NEW c \in 1..(m - 1)
       PROVE  /\ Line(w, (end[c] + 2) + size[c], (end[c] + 2) + size[c])
              /\ at[c + 1] = ((end[c] + 2) + size[c]) + 2
              /\ keep[c + 1] = keep[c] \o Part(w, end[c] + 2, (end[c] + 2) + size[c])
  <2>1. c \in 1..m /\ c # m /\ c + 1 \in 1..m
    BY <1>2
  <2>2. PICK q \in Nat, k \in Nat, d \in Nat, b \in Nat :
                 /\ q = end[c] /\ k = size[c] /\ d = (q + 2) + k
                 /\ b = Total(L, c + 1) /\ b = d + 2
                 /\ Line(w, d, d) /\ Part(w, q + 2, d) = DataBytes(Before(s, c), k)
    BY <1>16, <2>1
  <2>3. k = N(c)
    BY <2>1, <2>2 DEF size
  <2>4. PICK x \in Nat : x = Before(s, c)
    BY <1>5, <2>1
  <2>5. Before(s, c + 1) = x + k
    BY <1>6, <2>1, <2>3, <2>4
  <2>6. DataBytes(0, x) \o DataBytes(x, k) = DataBytes(0, x + k)
    BY DataJoin
  <2>7. DataBytes(0, x) \in Bytes /\ DataBytes(x, k) \in Bytes
    <3>1. 0 \in Nat
      OBVIOUS
    <3> QED BY <3>1, DataIs
  <2>8. (head \o DataBytes(0, x)) \o DataBytes(x, k) = head \o (DataBytes(0, x) \o DataBytes(x, k))
    BY <1>9, <2>7, JoinAssociates
  <2>9. keep[c + 1] = keep[c] \o DataBytes(x, k)
    BY <1>17, <2>1, <2>4, <2>5, <2>6, <2>8
  <2>10. at[c + 1] = b
    BY <1>19, <2>1, <2>2
  <2> QED BY <2>2, <2>4, <2>9, <2>10
<1>23. Laid(w, m, at, end, size, keep)
  BY <1>2, <1>15, <1>17, <1>18, <1>20, <1>21, <1>22 DEF Laid, head
<1>24. keep[m] = Body(reply)
  <2>1. keep[m] = head \o DataBytes(0, Before(s, m))
    BY <1>2, <1>17
  <2> QED BY <2>1 DEF Body, m, n, head
<1> QED BY <1>23, <1>24 DEF w

\* What http_parse, with a buffer to spare for its header, makes of a whole
\* response, however read() cut it into buffers: what the host wrote, without the
\* chunks' size lines, and as long as it says.
ParsedTo(p, body) == p.rc = 0 /\ FlattenSeq(p.bufs) = body /\ p.len = Len(body)

THEOREM ParsedWhole ==
  ASSUME NEW r \in Reqs, NEW reply \in RepliesTo(r),
         NEW bufs \in Seq(Bytes), bufs # <<>>, Head(bufs) # <<>>,
         FlattenSeq(bufs) = Wire(reply)
  PROVE  ParsedTo(http_parse(bufs, TRUE), Body(reply))
<1> DEFINE b == Head(bufs)
           p == http_parse(bufs, TRUE)
<1>1. p = IF ~IsChunked(b) THEN Parsed(0, 0, bufs, Len(FlattenSeq(bufs)))
          ELSE Parsed(ParseLoop(bufs).rc, ParseLoop(bufs).errcode,
                      ParseLoop(bufs).plist, ParseLoop(bufs).new_total)
  <2>1. http_parse(bufs, TRUE)
        = IF bufs = <<>> THEN Parsed(-1, 15, <<>>, 0)
          ELSE IF HeadLen(Head(bufs)) > 0 /\ ~TRUE THEN Parsed(-1, 11, <<>>, 0)
          ELSE IF ~IsChunked(Head(bufs))
          THEN Parsed(0, 0, bufs, Len(FlattenSeq(bufs)))
          ELSE Parsed(ParseLoop(bufs).rc, ParseLoop(bufs).errcode,
                      ParseLoop(bufs).plist, ParseLoop(bufs).new_total)
    BY Zenon DEF http_parse
  <2> QED BY <2>1, Zenon
<1>2. p.rc = 0 => p.len = Len(FlattenSeq(p.bufs))
  BY ParsedIs DEF Outcome
<1>3. CASE reply.chunked
  <2>1. PICK m, at, end, size, keep :
            /\ Laid(Wire(reply), m, at, end, size, keep)
            /\ keep[m] = Body(reply)
    BY <1>3, WireLaid
  <2>2. Wire(reply) \in Bytes
    BY FlattenLen
  <2>3. /\ IsChunked(b) /\ ParseLoop(bufs).rc = 0
        /\ FlattenSeq(ParseLoop(bufs).plist) = keep[m]
    BY <2>1, <2>2, ChunksTakenOut
  <2> HIDE DEF p, b
  <2>4. p.rc = ParseLoop(bufs).rc /\ p.bufs = ParseLoop(bufs).plist
    <3>1. p = Parsed(ParseLoop(bufs).rc, ParseLoop(bufs).errcode,
                     ParseLoop(bufs).plist, ParseLoop(bufs).new_total)
      BY <1>1, <2>3
    <3> QED BY <3>1 DEF Parsed
  <2>5. p.rc = 0 /\ FlattenSeq(p.bufs) = Body(reply)
    BY <2>1, <2>3, <2>4
  <2> QED BY <1>2, <2>5 DEF p, ParsedTo
<1>4. CASE ~reply.chunked
  <2>1. Wire(reply) = <<PlainHead>> \o DataBytes(0, reply.length) /\ reply.length \in Nat
    <3>1. 0..MaxLength \subseteq Nat
      BY ConstantsAssumption
    <3>2. reply.length \in 0..MaxLength
      BY <1>4 DEF RepliesTo
    <3> QED BY <1>4, <3>1, <3>2 DEF Wire
  <2>2. b \in Bytes /\ FlattenSeq(Tail(bufs)) \in Bytes /\ Wire(reply) = b \o FlattenSeq(Tail(bufs))
    <3>1. b \in Bytes /\ Tail(bufs) \in Seq(Bytes)
      BY HeadTailProperties
    <3>2. Wire(reply) = b \o FlattenSeq(Tail(bufs))
      BY FlattenTail DEF Bytes
    <3> QED BY <3>1, <3>2, FlattenLen
  <2> HIDE DEF b
  <2>3. b[1] = PlainHead
    <3>1. 1 \in 1..Len(b)
      <4>1. Len(b) \in Nat /\ Len(b) # 0
        BY <2>2 DEF Bytes, b
      <4> QED BY <4>1
    <3>2. (b \o FlattenSeq(Tail(bufs)))[1] = b[1]
      BY <2>2, <3>1, JoinIs
    <3>3. <<PlainHead>> \in Bytes /\ Len(<<PlainHead>>) = 1 /\ <<PlainHead>>[1] = PlainHead
      BY DEF PlainHead, Bytes
    <3>4. 0 \in Nat /\ 1 \in 1..1
      OBVIOUS
    <3>5. DataBytes(0, reply.length) \in Bytes
      BY <2>1, <3>4, DataIs
    <3>6. (<<PlainHead>> \o DataBytes(0, reply.length))[1] = PlainHead
      BY <3>3, <3>4, <3>5, JoinIs
    <3> QED BY <2>1, <2>2, <3>2, <3>6
  <2>4. HeadLen(b) = 1
    BY <2>2, <2>3, HeadFirst DEF b
  <2>5. ~IsChunked(b)
    BY <2>3, <2>4 DEF IsChunked, PlainHead, ChunkedHead
  <2> HIDE DEF p
  <2>6. p.rc = 0 /\ p.bufs = bufs
    <3>1. p = Parsed(0, 0, bufs, Len(FlattenSeq(bufs)))
      BY <1>1, <2>5
    <3> QED BY <3>1 DEF Parsed
  <2>7. Body(reply) = Wire(reply)
    BY <1>4 DEF Body
  <2> QED BY <1>2, <2>6, <2>7 DEF p, ParsedTo
<1> QED BY <1>3, <1>4

-----------------------------------------------------------------------------
(* What a host says arrives.                                               *)

\* What a context holds of its host's response, in the order it was said.
Held(c, h) == FlattenSeq(c.read) \o c.rbytes \o h.rx \o h.left
Said(h) == IF h.reply = <<>> THEN <<>> ELSE Wire(h.reply[1])

\* A host that was not cut short has lost nothing of what it said, and no
\* buffer that a context has saved is empty.
HostOf(c, h) ==
    /\ c.alive => h.st \in {"new", "connecting", "connected", "dead"}
    /\ h.whole => /\ h.st \in {"connected", "closed"} /\ h.fin
                  /\ h.reply # <<>> /\ h.left = <<>>
    /\ \A i \in 1..Len(c.read) : c.read[i] # <<>>
    /\ h.st \in {"none", "new", "connecting", "connected"} /\ (h.fin => h.whole)
         => Held(c, h) = Said(h)
Hosted ==
    \A r \in Reqs : HostOf(ctx[r], host[r]) /\ (r > taken => host[r].st = "none")

\* What poll() said of a hangup is still so when main() comes to the slot.
HangsUpAt(slot) == revents[slot] \cap {"POLLERR", "POLLHUP"} # {}
Reported ==
    phase = "scan" =>
      /\ scan < count_pollfds
      /\ \A slot \in PT!Slot, r \in Alive :
           scan <= slot /\ slot < count_pollfds /\ slotFd[slot] = ctx[r].fd /\ HangsUpAt(slot)
             => host[r].st \in {"new", "dead"}

\* The whole of body is in the frames q, and nothing else of request r.
AnsweredBy(q, r, body) ==
    \E i \in DOMAIN q : \E n \in 0..(Len(q) - i) :
      /\ q[i] = Header(r, Len(body))
      /\ FlattenSeq([k \in 1..n |-> q[i + k].data]) = body
      /\ \A k \in DOMAIN q : q[k].seq = r <=> k \in i..(i + n)

Delivered == Hosted /\ Reported /\ AnsweredWhole

LEMMA AnsweredIs ==
  AnsweredWhole <=>
    \A r \in Reqs : host[r].st = "closed" /\ host[r].whole /\ intact
                      => AnsweredBy(Frames, r, Body(host[r].reply[1]))
BY DEF AnsweredWhole, AnsweredBy

\* Frames of other requests do not matter.
LEMMA AnsweredStays ==
  ASSUME NEW q \in Seq(Pieces), NEW b \in Seq(Pieces), NEW r, NEW body,
         \A i \in 1..Len(b) : b[i].seq # r, AnsweredBy(q, r, body)
  PROVE  AnsweredBy(q \o b, r, body)
<1> DEFINE s == q \o b
           m == Len(q)
           l == Len(b)
<1>1. m \in Nat /\ l \in Nat /\ DOMAIN q = 1..m
  OBVIOUS
<1>2. /\ DOMAIN s = 1..(m + l) /\ Len(s) = m + l
      /\ \A k \in 1..m : s[k] = q[k]
      /\ \A k \in (m + 1)..(m + l) : k - m \in 1..l /\ s[k] = b[k - m]
  BY <1>1
<1>3. PICK i \in 1..m : \E n \in 0..(m - i) :
         /\ q[i] = Header(r, Len(body))
         /\ FlattenSeq([k \in 1..n |-> q[i + k].data]) = body
         /\ \A k \in 1..m : q[k].seq = r <=> k \in i..(i + n)
  BY <1>1 DEF AnsweredBy
<1>4. PICK n \in 0..(m - i) :
         /\ q[i] = Header(r, Len(body))
         /\ FlattenSeq([k \in 1..n |-> q[i + k].data]) = body
         /\ \A k \in 1..m : q[k].seq = r <=> k \in i..(i + n)
  BY <1>3
<1> HIDE DEF s, m, l
<1>5. i \in 1..(m + l) /\ n \in Nat /\ i + n <= m /\ n \in 0..((m + l) - i)
  BY <1>1
<1>6. [k \in 1..n |-> s[i + k].data] = [k \in 1..n |-> q[i + k].data]
  <2>1. \A k \in 1..n : i + k \in 1..m
    BY <1>1, <1>5
  <2> QED BY <1>2, <2>1
<1>7. ASSUME NEW k \in 1..(m + l) PROVE s[k].seq = r <=> k \in i..(i + n)
  <2>1. CASE k <= m
    <3>1. k \in 1..m
      BY <1>1, <2>1
    <3> QED BY <1>2, <1>4, <3>1
  <2>2. CASE ~(k <= m)
    <3>1. k \in (m + 1)..(m + l) /\ k \notin i..(i + n)
      BY <1>1, <1>5, <2>2
    <3>2. k - m \in 1..Len(b) /\ s[k] = b[k - m]
      BY <1>2, <3>1 DEF l
    <3> QED BY <3>1, <3>2
  <2> QED BY <2>1, <2>2
<1>8. s[i] = Header(r, Len(body))
  BY <1>2, <1>4
<1>9. AnsweredBy(s, r, body)
  BY <1>2, <1>4, <1>5, <1>6, <1>7, <1>8 DEF AnsweredBy
<1> QED BY <1>9 DEF s

\* A request's answer is its frame.
LEMMA AnsweredNow ==
  ASSUME NEW q \in Seq(Pieces), NEW r \in Reqs, NEW p, NEW body, Outcome(p),
         ParsedTo(p, body), \A i \in 1..Len(q) : q[i].seq # r
  PROVE  AnsweredBy(q \o ResponseFrame(r, p), r, body)
<1> DEFINE f == ResponseFrame(r, p)
           s == q \o f
           m == Len(q)
           n == Len(p.bufs)
           d == [i \in 1..n |-> Piece(r, p.bufs[i])]
<1>1. p.rc = 0 /\ FlattenSeq(p.bufs) = body /\ p.len = Len(body) /\ p.bufs \in Seq(Bytes)
  BY DEF ParsedTo, Outcome
<1>2. m \in Nat /\ n \in Nat
  BY <1>1
<1>3. f \in Seq(Pieces) /\ \A i \in 1..Len(f) : f[i].seq = r
  <2>1. Answer(r, f)
    BY <1>1, ResponseAnswers
  <2> HIDE DEF f
  <2> QED BY <2>1 DEF Answer
<1>4. f = <<Header(r, Len(body))>> \o d
  BY <1>1 DEF ResponseFrame
<1>5. Len(d) = n /\ \A k \in 1..n : d[k].data = p.bufs[k]
  BY <1>2 DEF Piece
<1>6. d \in Seq({d[k] : k \in 1..n})
  BY <1>2
<1> HIDE DEF d, f
<1>7. Len(f) = n + 1 /\ f[1] = Header(r, Len(body)) /\ \A k \in 1..n : f[k + 1] = d[k]
  <2> DEFINE h == Header(r, Len(body))
             T == {h} \cup {d[k] : k \in 1..n}
  <2>1. <<h>> \in Seq(T) /\ Len(<<h>>) = 1 /\ <<h>>[1] = h
    OBVIOUS
  <2>2. d \in Seq(T)
    BY <1>2, <1>6
  <2>3. f = <<h>> \o d
    BY <1>4
  <2> HIDE DEF h, T, n
  <2>4. Len(f) = 1 + n /\ f[1] = h /\ \A k \in 1..n : f[1 + k] = d[k]
    BY <1>2, <1>5, <2>1, <2>2, <2>3
  <2>5. \A k \in 1..n : k + 1 = 1 + k
    BY <1>2
  <2> QED BY <1>2, <2>4, <2>5 DEF h
<1>8. /\ DOMAIN s = 1..(m + (n + 1)) /\ Len(s) = m + (n + 1)
      /\ \A k \in 1..m : s[k] = q[k]
      /\ \A k \in 1..(n + 1) : s[m + k] = f[k]
  <2> HIDE DEF n
  <2>1. Len(f) = n + 1
    BY <1>7
  <2>2. Len(s) = m + (n + 1) /\ DOMAIN s = 1..(m + (n + 1))
    BY <1>2, <1>3, <2>1
  <2>3. \A k \in 1..m : s[k] = q[k]
    BY <1>3
  <2>4. \A k \in 1..(n + 1) : s[m + k] = f[k]
    BY <1>2, <1>3, <2>1
  <2> QED BY <2>2, <2>3, <2>4
<1> DEFINE i == m + 1
<1> HIDE DEF s, m, n
<1>9. i \in 1..(m + (n + 1)) /\ n \in 0..((m + (n + 1)) - i) /\ 1 \in 1..(n + 1)
  BY <1>2
<1>10. s[i] = Header(r, Len(body))
  BY <1>7, <1>8, <1>9
<1>11. FlattenSeq([k \in 1..n |-> s[i + k].data]) = body
  <2>1. \A k \in 1..n : k + 1 \in 1..(n + 1) /\ i + k = m + (k + 1)
    BY <1>2
  <2>2. \A k \in 1..n : s[i + k].data = p.bufs[k]
    BY <1>5, <1>7, <1>8, <2>1
  <2>3. [k \in 1..n |-> s[i + k].data] = [k \in 1..n |-> p.bufs[k]]
    BY <2>2
  <2>4. p.bufs = [k \in 1..n |-> p.bufs[k]]
    BY <1>1 DEF n
  <2> QED BY <1>1, <2>3, <2>4
<1>12. ASSUME NEW k \in 1..(m + (n + 1)) PROVE s[k].seq = r <=> k \in i..(i + n)
  <2>1. CASE k <= m
    <3>1. k \in 1..m /\ k \notin i..(i + n)
      BY <1>2, <2>1
    <3> QED BY <1>8, <3>1 DEF m
  <2>2. CASE ~(k <= m)
    <3>1. k \in i..(i + n) /\ k - m \in 1..(n + 1) /\ m + (k - m) = k
      BY <1>2, <2>2
    <3>2. s[k] = f[k - m] /\ k - m \in 1..Len(f)
      BY <1>7, <1>8, <3>1
    <3> QED BY <1>3, <3>1, <3>2
  <2> QED BY <2>1, <2>2
<1> HIDE DEF i
<1>13. AnsweredBy(s, r, body)
  BY <1>8, <1>9, <1>10, <1>11, <1>12 DEF AnsweredBy
<1> QED BY <1>13 DEF s, f

LEMMA SaidSame ==
  ASSUME NEW h, NEW k, k.reply = h.reply
  PROVE  Said(k) = Said(h)
BY DEF Said

LEMMA SaidReply ==
  ASSUME NEW h, NEW reply, h.reply = <<reply>>
  PROVE  Said(h) = Wire(reply)
<1>1. <<reply>> # <<>> /\ <<reply>>[1] = reply
  OBVIOUS
<1> QED BY <1>1, Zenon DEF Said

LEMMA JoinNothing ==
  ASSUME NEW x \in Bytes, NEW y \in Bytes
  PROVE  /\ <<>> \o x = x /\ x \o <<>> = x
         /\ x \o y = <<>> => x = <<>>
<1>1. x \in Seq(Int)
  BY DEF Bytes
<1>2. <<>> \o x = x /\ x \o <<>> = x
  BY <1>1
<1>3. ASSUME x \o y = <<>> PROVE x = <<>>
  <2>1. Len(x \o y) = Len(x) + Len(y) /\ Len(x) \in Nat /\ Len(y) \in Nat
    BY JoinIs
  <2>2. Len(x \o y) = 0
    BY <1>3
  <2>3. Len(x) = 0
    BY <2>1, <2>2
  <2> QED BY <1>1, <2>3, EmptySeq
<1> QED BY <1>2, <1>3

LEMMA Appended ==
  ASSUME NEW S, NEW s \in Seq(S), NEW e \in S, \A i \in 1..Len(s) : s[i] # <<>>, e # <<>>
  PROVE  \A i \in 1..Len(Append(s, e)) : Append(s, e)[i] # <<>>
<1> DEFINE n == Len(s)
           t == Append(s, e)
<1>1. /\ Len(t) = n + 1 /\ n \in Nat /\ t[n + 1] = e
      /\ \A i \in 1..n : t[i] = s[i]
  OBVIOUS
<1> HIDE DEF t
<1>2. \A i \in 1..(n + 1) : i \in 1..n \/ i = n + 1
  BY <1>1
<1>3. \A i \in 1..(n + 1) : t[i] # <<>>
  BY <1>1, <1>2
<1> QED BY <1>1, <1>3 DEF t

LEMMA HostTypes ==
  ASSUME NEW c \in Contexts, NEW h \in Hosts
  PROVE  /\ c.read \in Seq(Bytes) /\ FlattenSeq(c.read) \in Bytes /\ c.rbytes \in Bytes
         /\ h.rx \in Bytes /\ h.left \in Bytes
<1>1. c.read \in Seq(Bytes) /\ c.rbytes \in Bytes /\ h.rx \in Bytes /\ h.left \in Bytes
  BY DEF Contexts, Buffer, Hosts
<1> QED BY <1>1, FlattenLen

\* The program connects, writes and waits, or the host is connected.
LEMMA HostOfSame ==
  ASSUME NEW c, NEW h, NEW d, NEW k, HostOf(c, h),
         d.alive => c.alive \/ k.st = "new", d.read = c.read, d.rbytes = c.rbytes,
         k.reply = h.reply, k.left = h.left, k.rx = h.rx, k.fin = h.fin, k.whole = h.whole,
         \/ k.st = h.st
         \/ h.st \in {"none", "new", "connecting"} /\ k.st \in {"new", "connecting", "connected"}
  PROVE  HostOf(d, k)
<1>1. Held(d, k) = Held(c, h) /\ Said(k) = Said(h)
  BY DEF Held, Said
<1>2. /\ c.alive => h.st \in {"new", "connecting", "connected", "dead"}
      /\ h.whole => /\ h.st \in {"connected", "closed"} /\ h.fin
                    /\ h.reply # <<>> /\ h.left = <<>>
      /\ \A i \in 1..Len(c.read) : c.read[i] # <<>>
      /\ h.st \in {"none", "new", "connecting", "connected"} /\ (h.fin => h.whole)
           => Held(c, h) = Said(h)
  BY DEF HostOf
<1> QED BY <1>1, <1>2 DEF HostOf

\* What is read goes to the end of what is held.
LEMMA HostOfRead ==
  ASSUME NEW c \in Contexts, NEW h \in Hosts, HostOf(c, h), h.st = "connected",
         NEW n \in 0..Len(h.rx), NEW got, got = c.rbytes \o SubSeq(h.rx, 1, n),
         NEW d, d.alive = c.alive, NEW k,
         k = [h EXCEPT !.rx = SubSeq(h.rx, n + 1, Len(h.rx))],
         \/ d.read = Append(c.read, got) /\ d.rbytes = <<>> /\ got # <<>>
         \/ d.read = c.read /\ d.rbytes = got
  PROVE  HostOf(d, k)
<1> DEFINE f == FlattenSeq(c.read)
           b == c.rbytes
           x == SubSeq(h.rx, 1, n)
           y == SubSeq(h.rx, n + 1, Len(h.rx))
           l == h.left
<1>1. /\ k.st = "connected" /\ k.reply = h.reply /\ k.left = l /\ k.rx = y /\ k.fin = h.fin
      /\ k.whole = h.whole
  BY DEF Hosts
<1>2. f \in Bytes /\ b \in Bytes /\ l \in Bytes /\ c.read \in Seq(Bytes) /\ h.rx \in Bytes
  BY HostTypes
<1>3. x \in Bytes /\ y \in Bytes /\ h.rx = x \o y
  BY <1>2, SplitSeq DEF Bytes
<1>4. got = b \o x /\ got \in Bytes
  BY <1>2, <1>3, JoinIs
<1> HIDE DEF f, b, x, y, l
<1>5. f \o got = (f \o b) \o x
  <2>1. (f \o b) \o x = f \o (b \o x)
    BY <1>2, <1>3, JoinAssociates
  <2> QED BY <1>4, <2>1
<1>6. ((f \o b) \o x) \o y = (f \o b) \o (x \o y)
  <2>1. f \o b \in Bytes
    BY <1>2, JoinIs
  <2> QED BY <1>3, <2>1, JoinAssociates
<1>7. Held(d, k) = ((f \o got) \o y) \o l
  <2>1. CASE d.read = Append(c.read, got) /\ d.rbytes = <<>>
    <3>1. FlattenSeq(d.read) = f \o got
      BY <1>2, <1>4, <2>1, FlattenAppend DEF f, Bytes
    <3>2. (f \o got) \o <<>> = f \o got
      <4>1. f \o got \in Seq(Int)
        BY <1>2, <1>4, JoinIs DEF Bytes
      <4> QED BY <4>1
    <3> QED BY <1>1, <2>1, <3>1, <3>2 DEF Held
  <2>2. CASE d.read = c.read /\ d.rbytes = got
    BY <1>1, <2>2 DEF Held, f
  <2> QED BY <2>1, <2>2
<1>8. Held(d, k) = Held(c, h) /\ Said(k) = Said(h)
  <2>1. Held(c, h) = ((f \o b) \o h.rx) \o l
    BY DEF Held, f, b, l
  <2>2. Said(k) = Said(h)
    BY <1>1, SaidSame
  <2>3. ((f \o got) \o y) \o l = ((f \o b) \o h.rx) \o l
    <3>1. (f \o got) \o y = (f \o b) \o (x \o y)
      BY <1>5, <1>6, Zenon
    <3> QED BY <1>3, <3>1, Zenon
  <2> QED BY <1>7, <2>1, <2>2, <2>3, Zenon
<1>9. /\ h.whole => h.fin /\ h.reply # <<>> /\ h.left = <<>>
      /\ \A i \in 1..Len(c.read) : c.read[i] # <<>>
      /\ (h.fin => h.whole) => Held(c, h) = Said(h)
  BY DEF HostOf
<1>10. \A i \in 1..Len(d.read) : d.read[i] # <<>>
  <2>1. CASE d.read = Append(c.read, got) /\ got # <<>>
    BY <1>2, <1>4, <1>9, <2>1, Appended
  <2>2. CASE d.read = c.read
    BY <1>9, <2>2
  <2> QED BY <2>1, <2>2
<1> QED BY <1>1, <1>8, <1>9, <1>10 DEF HostOf, l

\* What a host does to its response while its context is connected.
LEMMA HostOfHost ==
  ASSUME NEW c \in Contexts, NEW h \in Hosts, HostOf(c, h), h.st = "connected", NEW k,
         \/ /\ h.reply = <<>>
            /\ \E r \in Reqs : \E reply \in RepliesTo(r) :
                  k = [h EXCEPT !.reply = <<reply>>, !.left = Wire(reply)]
         \/ /\ h.left # <<>>
            /\ \E n \in 0..Len(h.left) :
                  k = [h EXCEPT !.rx = h.rx \o SubSeq(h.left, 1, n),
                                !.left = SubSeq(h.left, n + 1, Len(h.left))]
         \/ /\ ~h.fin /\ h.reply # <<>> /\ h.left = <<>>
            /\ k = [h EXCEPT !.fin = TRUE, !.whole = TRUE]
         \/ /\ ~h.fin /\ h.left # <<>>
            /\ k = [h EXCEPT !.fin = TRUE, !.left = <<>>]
  PROVE  HostOf(c, k)
<1> DEFINE f == FlattenSeq(c.read)
           b == c.rbytes
<1>1. f \in Bytes /\ b \in Bytes /\ h.rx \in Bytes /\ h.left \in Bytes
  BY HostTypes
<1>2. /\ h.whole => h.fin /\ h.reply # <<>> /\ h.left = <<>>
      /\ \A i \in 1..Len(c.read) : c.read[i] # <<>>
      /\ (h.fin => h.whole) => Held(c, h) = Said(h)
  BY DEF HostOf
<1>3. Held(c, h) = ((f \o b) \o h.rx) \o h.left
  BY DEF Held
<1>4. ASSUME NEW r \in Reqs, NEW reply \in RepliesTo(r), h.reply = <<>>,
             k = [h EXCEPT !.reply = <<reply>>, !.left = Wire(reply)]
      PROVE  HostOf(c, k)
  <2>1. /\ k.st = "connected" /\ k.reply = <<reply>> /\ k.left = Wire(reply) /\ k.rx = h.rx
        /\ k.fin = h.fin /\ k.whole = h.whole
    BY <1>4 DEF Hosts
  <2>2. ~h.whole
    BY <1>2, <1>4
  <2>3. ASSUME ~h.fin PROVE Held(c, k) = Said(k)
    <3>1. ((f \o b) \o h.rx) \o h.left = <<>>
      BY <1>2, <1>3, <1>4, <2>3 DEF Said
    <3>2. (f \o b) \o h.rx = <<>>
      <4>1. (f \o b) \o h.rx \in Bytes
        BY <1>1, JoinIs
      <4> QED BY <1>1, <3>1, <4>1, JoinNothing
    <3>3. Wire(reply) \in Bytes
      BY WireIs
    <3>4. <<>> \o Wire(reply) = Wire(reply)
      BY <3>3, JoinNothing
    <3>5. Held(c, k) = ((f \o b) \o h.rx) \o Wire(reply)
      BY <2>1 DEF Held
    <3>6. Said(k) = Wire(reply)
      BY <2>1, SaidReply
    <3> QED BY <3>2, <3>3, <3>4, <3>5, <3>6, Zenon
  <2> QED BY <1>2, <2>1, <2>2, <2>3 DEF HostOf
<1>5. ASSUME NEW n \in 0..Len(h.left), h.left # <<>>,
             k = [h EXCEPT !.rx = h.rx \o SubSeq(h.left, 1, n),
                           !.left = SubSeq(h.left, n + 1, Len(h.left))]
      PROVE  HostOf(c, k)
  <2> DEFINE x == SubSeq(h.left, 1, n)
             y == SubSeq(h.left, n + 1, Len(h.left))
  <2>1. x \in Bytes /\ y \in Bytes /\ h.left = x \o y
    BY <1>1, SplitSeq DEF Bytes
  <2>2. /\ k.st = "connected" /\ k.reply = h.reply /\ k.left = y /\ k.rx = h.rx \o x
        /\ k.fin = h.fin /\ k.whole = h.whole
    BY <1>5 DEF Hosts
  <2> HIDE DEF x, y
  <2>3. ~h.whole
    BY <1>2, <1>5
  <2>4. Held(c, k) = ((f \o b) \o (h.rx \o x)) \o y
    BY <2>2 DEF Held
  <2>5. f \o b \in Bytes
    BY <1>1, JoinIs
  <2> HIDE DEF f, b
  <2>6. (f \o b) \o (h.rx \o x) = ((f \o b) \o h.rx) \o x
    BY <1>1, <2>1, <2>5, JoinAssociates
  <2>7. (f \o b) \o h.rx \in Bytes
    BY <1>1, <2>5, JoinIs
  <2>8. (((f \o b) \o h.rx) \o x) \o y = ((f \o b) \o h.rx) \o (x \o y)
    BY <2>1, <2>7, JoinAssociates
  <2>9. Held(c, k) = Held(c, h) /\ Said(k) = Said(h)
    BY <1>3, <2>1, <2>2, <2>4, <2>6, <2>8 DEF Said
  <2> QED BY <1>2, <2>2, <2>3, <2>9 DEF HostOf
<1>6. CASE ~h.fin /\ h.reply # <<>> /\ h.left = <<>> /\ k = [h EXCEPT !.fin = TRUE, !.whole = TRUE]
  <2>1. /\ k.st = "connected" /\ k.reply = h.reply /\ k.left = h.left /\ k.rx = h.rx
        /\ k.fin /\ k.whole
    BY <1>6 DEF Hosts
  <2>2. Held(c, k) = Held(c, h) /\ Said(k) = Said(h)
    BY <2>1 DEF Held, Said
  <2> QED BY <1>2, <1>6, <2>1, <2>2 DEF HostOf
<1>7. CASE ~h.fin /\ h.left # <<>> /\ k = [h EXCEPT !.fin = TRUE, !.left = <<>>]
  <2>1. k.st = "connected" /\ k.fin /\ k.whole = h.whole
    BY <1>7 DEF Hosts
  <2> QED BY <1>2, <1>7, <2>1 DEF HostOf
<1> QED BY <1>4, <1>5, <1>6, <1>7

\* One request's context and host change, or none's.
LEMMA HostedChanges ==
  ASSUME Hosted, Rest, NEW r \in Reqs, NEW c, NEW h,
         ctx' = [ctx EXCEPT ![r] = c], host' = [host EXCEPT ![r] = h], HostOf(c, h),
         taken' \in Nat, taken <= taken', r <= taken'
  PROVE  Hosted'
<1>1. /\ ctx \in [Reqs -> Contexts] /\ host \in [Reqs -> Hosts] /\ Reqs \subseteq Nat
      /\ taken \in Nat
  BY Sizes DEF Rest, ContextsOK
<1>2. ASSUME NEW q \in Reqs
      PROVE  HostOf(ctx'[q], host'[q]) /\ (q > taken' => host'[q].st = "none")
  <2>1. CASE q = r
    BY <1>1, <2>1
  <2>2. CASE q # r
    <3>1. ctx'[q] = ctx[q] /\ host'[q] = host[q]
      BY <1>1, <2>2
    <3>2. q > taken' => q > taken
      BY <1>1
    <3> QED BY <3>1, <3>2 DEF Hosted
  <2> QED BY <2>1, <2>2
<1> QED BY <1>2 DEF Hosted

LEMMA HostedStays ==
  ASSUME Hosted, Rest, UNCHANGED <<ctx, host>>, taken' \in Nat, taken <= taken'
  PROVE  Hosted'
<1>1. taken \in Nat /\ Reqs \subseteq Nat
  BY Sizes DEF Rest, ContextsOK
<1>2. \A q \in Reqs : q > taken' => q > taken
  BY <1>1
<1> QED BY <1>2 DEF Hosted

-----------------------------------------------------------------------------
(* What poll() said of a hangup.                                           *)

LEMMA ScanGoes ==
  ASSUME NEW n \in PT!Slot \cup {-1}, NEW rev, NEW count \in 0..MaxFds, ScanFrom(n, rev, count)
  PROVE  phase' = "run" \/ (phase' = "scan" /\ scan' \in Nat /\ n < scan' /\ scan' < count)
<1> DEFINE later == {m \in (n + 1)..(count - 1) : rev[m] # {}}
<1>1. later \subseteq Nat /\ \A m \in later : n < m /\ m < count
  BY Sizes
<1>2. \/ phase' = "run"
      \/ /\ later # {} /\ phase' = "scan"
         /\ scan' = CHOOSE m \in later : \A o \in later : m <= o
  BY Zenon DEF ScanFrom
<1> HIDE DEF later
<1>3. later # {} => (CHOOSE m \in later : \A o \in later : m <= o) \in later
  <2>1. later # {} => \E m \in later : \A o \in later : m <= o
    BY <1>1, LeastNat
  <2> QED BY <2>1
<1> QED BY <1>1, <1>2, <1>3

\* The scan goes on after slot n.
LEMMA ReportedOn ==
  ASSUME TableOK', NEW n \in PT!Slot \cup {-1}, ScanFrom(n, revents', count_pollfds'),
         \A slot \in PT!Slot, r \in Alive' :
            n < slot /\ slot < count_pollfds' /\ slotFd'[slot] = ctx'[r].fd
              /\ revents'[slot] \cap {"POLLERR", "POLLHUP"} # {}
            => host'[r].st \in {"new", "dead"}
  PROVE  Reported'
<1>1. count_pollfds' \in 0..MaxFds
  BY DEF TableOK, PT!TypeOK
<1>2. phase' = "run" \/ (phase' = "scan" /\ scan' \in Nat /\ n < scan' /\ scan' < count_pollfds')
  BY <1>1, ScanGoes
<1>3. \A slot \in PT!Slot : n < scan' /\ scan' \in Nat /\ scan' <= slot => n < slot
  BY Sizes
<1> QED BY <1>2, <1>3 DEF Reported, HangsUpAt

\* The slot was serviced.
LEMMA ReportedNext ==
  ASSUME Rest, TableOK', NEW rev \in [PT!Slot -> SUBSET Flags], ServiceDone(rev),
         \A slot \in PT!Slot, r \in Alive' :
            scan < slot /\ slot < count_pollfds' /\ slotFd'[slot] = ctx'[r].fd
              /\ rev[slot] \cap {"POLLERR", "POLLHUP"} # {}
            => host'[r].st \in {"new", "dead"}
  PROVE  Reported'
<1>1. scan \in PT!Slot /\ scan \in PT!Slot \cup {-1} /\ PT!Slot \subseteq Nat
  BY Sizes DEF Rest, ScanOK
<1>2. revents' = [rev EXCEPT ![scan] = {}] /\ ScanFrom(scan, revents', count_pollfds')
  BY DEF ServiceDone
<1>3. \A slot \in PT!Slot : scan < slot => revents'[slot] = rev[slot]
  BY <1>1, <1>2
<1> QED BY <1>1, <1>2, <1>3, ReportedOn

\* No other slot in use is the context's.
LEMMA OneSlot ==
  ASSUME TableOK, Rest, NEW r \in Alive, NEW a \in PT!Slot, NEW b \in PT!Slot,
         a < count_pollfds, b < count_pollfds, slotFd[a] = ctx[r].fd, slotFd[b] = ctx[r].fd
  PROVE  a = b
<1>1. count_pollfds \in Nat /\ a \in Nat /\ b \in Nat
  BY Sizes DEF TableOK, PT!TypeOK
<1>2. a \in 0..(count_pollfds - 1) /\ b \in 0..(count_pollfds - 1)
  BY <1>1
<1> QED BY <1>2 DEF TableOK, PT!TableConsistent

LEMMA AnsweredKept ==
  ASSUME AnsweredWhole, Frames' = Frames, intact' => intact,
         \A r \in Reqs : host'[r].st = "closed" => host'[r] = host[r]
  PROVE  AnsweredWhole'
<1>1. (AnsweredWhole <=>
        \A r \in Reqs : host[r].st = "closed" /\ host[r].whole /\ intact
                          => AnsweredBy(Frames, r, Body(host[r].reply[1])))'
  BY AnsweredIs, PTL
<1>2. \A r \in Reqs : host[r].st = "closed" /\ host[r].whole /\ intact
                          => AnsweredBy(Frames, r, Body(host[r].reply[1]))
  BY AnsweredIs
<1>3. \A r \in Reqs : host'[r].st = "closed" /\ host'[r].whole /\ intact'
                          => AnsweredBy(Frames', r, Body(host'[r].reply[1]))
  BY <1>2
<1> QED BY <1>1, <1>3

-----------------------------------------------------------------------------
(* What each step does to what was said.                                   *)

\* A handler keeps its context r.
LEMMA HandlerDelivers ==
  ASSUME Step, Delivered, NEW r \in Alive, FromRun(r) \/ FromSlot(r),
         NEW d, d.fd = ctx[r].fd, NEW k, k.st # "closed", HostOf(d, k),
         ctx' = [ctx EXCEPT ![r] = d], host' = [host EXCEPT ![r] = k], Goes(r, revents),
         UNCHANGED <<slotFd, count_pollfds, toserver, server, taken, intact>>
  PROVE  Delivered'
<1>1. /\ r \in Reqs /\ Rest /\ TableOK /\ TableOK' /\ Hosted /\ Reported /\ AnsweredWhole
      /\ ScanOK /\ ctx \in [Reqs -> Contexts] /\ host \in [Reqs -> Hosts] /\ taken \in Nat
      /\ r <= taken
  BY Sizes DEF Step, Delivered, Alive, Rest, ContextsOK, Owners
<1>2. Hosted'
  <2>1. taken <= taken
    BY <1>1
  <2> QED BY <1>1, <2>1, HostedChanges
<1>3. AnsweredWhole'
  <2>1. Frames' = Frames
    BY DEF Frames
  <2>2. \A q \in Reqs : host'[q].st = "closed" => host'[q] = host[q]
    BY <1>1
  <2> QED BY <1>1, <2>1, <2>2, AnsweredKept
<1>4. Reported'
  <2>1. CASE FromRun(r)
    <3>1. phase' = "running"
      BY <2>1 DEF FromRun, Goes, main
    <3> QED BY <3>1 DEF Reported
  <2>2. CASE ~FromRun(r)
    <3>1. phase = "scan" /\ slotFd[scan] = ctx[r].fd /\ ServiceDone(revents)
      BY <2>2 DEF FromSlot, Goes
    <3>2. scan < count_pollfds /\ scan \in PT!Slot /\ revents \in [PT!Slot -> SUBSET Flags]
      BY <1>1, <3>1 DEF Reported, ScanOK
    <3>3. ASSUME NEW slot \in PT!Slot, NEW q \in Alive', scan < slot, slot < count_pollfds',
                 slotFd'[slot] = ctx'[q].fd, revents[slot] \cap {"POLLERR", "POLLHUP"} # {}
          PROVE  host'[q].st \in {"new", "dead"}
      <4>1. slot # scan /\ scan <= slot /\ q \in Reqs
        BY <3>2, <3>3, Sizes DEF Alive
      <4>2. q # r
        <5>1. q = r => slotFd[slot] = ctx[r].fd
          BY <1>1, <3>3
        <5> QED BY <1>1, <3>1, <3>2, <3>3, <4>1, <5>1, OneSlot
      <4>3. ctx'[q] = ctx[q] /\ host'[q] = host[q] /\ q \in Alive
        BY <1>1, <3>3, <4>1, <4>2 DEF Alive
      <4> QED BY <1>1, <3>1, <3>3, <4>1, <4>3 DEF Reported, HangsUpAt
    <3> QED BY <1>1, <3>1, <3>2, <3>3, ReportedNext
  <2> QED BY <2>1, <2>2
<1> QED BY <1>2, <1>3, <1>4 DEF Delivered

LEMMA AnsweredNext ==
  ASSUME \A r \in Reqs : host'[r].st = "closed" /\ host'[r].whole /\ intact'
                            => AnsweredBy(Frames', r, Body(host'[r].reply[1]))
  PROVE  AnsweredWhole'
<1>1. (AnsweredWhole <=>
        \A r \in Reqs : host[r].st = "closed" /\ host[r].whole /\ intact
                          => AnsweredBy(Frames, r, Body(host[r].reply[1])))'
  BY AnsweredIs, PTL
<1> QED BY <1>1

\* A context is released, and its request answered if the host said all.
LEMMA ReleaseDelivers ==
  ASSUME Step, Delivered, NEW r \in Alive, NEW queued, NEW writing \in BOOLEAN,
         NEW owed \in BOOLEAN, queued = <<>> \/ Answer(r, queued),
         http_context_release(r, queued, writing, owed), intact,
         host[r].whole /\ owed /\ ~writing =>
           \E p : /\ Outcome(p) /\ ParsedTo(p, Body(host[r].reply[1]))
                  /\ queued = ResponseFrame(r, p)
  PROVE  Hosted' /\ AnsweredWhole'
<1>1. r \in Reqs /\ ctx[r].alive
  BY DEF Alive
<1>2. /\ r \in Reqs /\ Rest /\ Hosted /\ AnsweredWhole /\ Sent
      /\ ctx \in [Reqs -> Contexts] /\ host \in [Reqs -> Hosts] /\ taken \in Nat
      /\ r <= taken /\ server \in Seq(Pieces) /\ toserver \in Seq(Pieces) /\ ctx[r].alive
  <2>1. Rest /\ Hosted /\ AnsweredWhole
    BY DEF Step, Delivered
  <2>2. /\ Sent /\ ctx \in [Reqs -> Contexts] /\ host \in [Reqs -> Hosts] /\ taken \in Nat
        /\ server \in Seq(Pieces) /\ toserver \in Seq(Pieces)
    BY <2>1, Sizes DEF Rest, ContextsOK
  <2>3. r <= taken
    BY <1>1, <2>1 DEF Rest, Owners
  <2> QED BY <1>1, <2>1, <2>2, <2>3
<1> DEFINE w == host[r].whole /\ owed
           k == [host[r] EXCEPT !.st = "closed", !.left = <<>>, !.rx = <<>>, !.whole = w]
<1>3. /\ ctx' = [ctx EXCEPT ![r] = NoContext] /\ toserver' = toserver \o queued
      /\ intact' = ~writing /\ UNCHANGED <<server, taken>>
  BY DEF http_context_release
<1>4. host' = [host EXCEPT ![r] = k]
  <2>1. host' = [host EXCEPT ![r].st = "closed", ![r].left = <<>>, ![r].rx = <<>>,
                             ![r].whole = @ /\ owed]
    BY DEF http_context_release
  <2> QED BY <1>2, <2>1
<1>5. /\ k.st = "closed" /\ k.whole = w /\ k.left = <<>> /\ k.reply = host[r].reply
      /\ k.fin = host[r].fin
  <2>1. host[r] \in Hosts
    BY <1>2
  <2> QED BY <2>1 DEF Hosts
<1> HIDE DEF k
<1>6. k.whole => host[r].whole /\ owed
  BY <1>5
<1> HIDE DEF w
<1>7. host[r].whole => host[r].fin /\ host[r].reply # <<>>
  BY <1>2 DEF Hosted, HostOf
<1>8. Hosted'
  <2>1. HostOf(NoContext, k)
    <3>1. ~NoContext.alive /\ NoContext.read = <<>>
      BY DEF NoContext
    <3>2. Len(NoContext.read) = 0
      BY <3>1
    <3>3. k.whole => /\ k.st \in {"connected", "closed"} /\ k.fin
                     /\ k.reply # <<>> /\ k.left = <<>>
      BY <1>5, <1>7, <1>6
    <3>4. k.st \notin {"none", "new", "connecting", "connected"}
      BY <1>5
    <3>5. \A i \in 1..Len(NoContext.read) : NoContext.read[i] # <<>>
      BY <3>2
    <3> QED BY <3>1, <3>3, <3>4, <3>5 DEF HostOf
  <2>2. taken <= taken
    BY <1>2
  <2> QED BY <1>2, <1>3, <1>4, <2>1, <2>2, HostedChanges
<1>9. /\ Frames \in Seq(Pieces) /\ queued \in Seq(Pieces) /\ Frames' = Frames \o queued
  <2>1. queued \in Seq(Pieces)
    <3>1. queued = <<>> => queued \in Seq(Pieces)
      OBVIOUS
    <3> QED BY <3>1 DEF Answer
  <2> DEFINE S == Pieces
  <2>2. server \in Seq(S) /\ toserver \in Seq(S) /\ queued \in Seq(S)
    BY <1>2, <2>1
  <2> HIDE DEF S
  <2>3. server \o (toserver \o queued) = (server \o toserver) \o queued
    BY <2>2, ConcatAssociative, SMTT(30)
  <2>4. server \o toserver \in Seq(S)
    BY <2>2, ConcatProperties
  <2> QED BY <1>3, <2>1, <2>3, <2>4 DEF Frames, S
<1>10. \A i \in 1..Len(Frames) : Frames[i].seq # r
  BY <1>2 DEF Sent
<1>11. \A i \in 1..Len(queued) : queued[i].seq = r
  <2>1. CASE queued = <<>>
    <3>1. Len(queued) = 0
      BY <2>1
    <3> QED BY <3>1
  <2>2. CASE Answer(r, queued)
    BY <2>2 DEF Answer
  <2> QED BY <2>1, <2>2
<1> HIDE DEF Frames
<1>12. ASSUME NEW q \in Reqs, host'[q].st = "closed", host'[q].whole, intact'
       PROVE  AnsweredBy(Frames', q, Body(host'[q].reply[1]))
  <2>1. CASE q = r
    <3>1. host'[q] = k /\ host[r].whole /\ owed /\ ~writing
      BY <1>2, <1>3, <1>4, <1>6, <1>12, <2>1
    <3>2. PICK p : /\ Outcome(p) /\ ParsedTo(p, Body(host[r].reply[1]))
                   /\ queued = ResponseFrame(r, p)
      BY <3>1
    <3>3. AnsweredBy(Frames \o ResponseFrame(r, p), r, Body(host[r].reply[1]))
      BY <1>2, <1>9, <1>10, <3>2, AnsweredNow
    <3> QED BY <1>5, <1>9, <2>1, <3>1, <3>2, <3>3
  <2>2. CASE q # r
    <3>1. host'[q] = host[q]
      BY <1>2, <1>4, <2>2
    <3>3. AnsweredBy(Frames, q, Body(host[q].reply[1]))
      BY <1>2, <1>12, <3>1, AnsweredIs
    <3>4. \A i \in 1..Len(queued) : queued[i].seq # q
      BY <1>11, <2>2
    <3>5. AnsweredBy(Frames \o queued, q, Body(host[q].reply[1]))
      BY <1>9, <3>3, <3>4, AnsweredStays
    <3> QED BY <1>9, <3>1, <3>5
  <2> QED BY <2>1, <2>2
<1>13. AnsweredWhole'
  <2>1. \A q \in Reqs : host'[q].st = "closed" /\ host'[q].whole /\ intact'
                            => AnsweredBy(Frames', q, Body(host'[q].reply[1]))
    BY <1>12
  <2> QED BY <2>1, AnsweredNext
<1> QED BY <1>8, <1>13

\* A handler that ends its context's request, or its hangup.
LEMMA ReportedFinishes ==
  ASSUME Step, Delivered, NEW r \in Alive, FromRun(r) \/ phase = "scan",
         FromRun(r) \/ slotFd[scan] = ctx[r].fd,
         PT!ContextRelease(ctx[r].fd), Goes(r, MovedRevents(ctx[r].fd)),
         NEW k, k.st = "closed", ctx' = [ctx EXCEPT ![r] = NoContext],
         host' = [host EXCEPT ![r] = k]
  PROVE  Reported'
<1> DEFINE fd   == ctx[r].fd
           rev  == MovedRevents(fd)
           last == count_pollfds - 1
           s    == fd_lookup[fd]
<1>1. /\ r \in Reqs /\ Rest /\ TableOK /\ TableOK' /\ Reported
      /\ ctx \in [Reqs -> Contexts] /\ host \in [Reqs -> Hosts]
  BY DEF Step, Delivered, Alive, Rest, ContextsOK
<1>2. CASE FromRun(r)
  <2>1. phase' = "running"
    BY <1>2 DEF FromRun, Goes, main
  <2> QED BY <2>1 DEF Reported
<1>3. CASE ~FromRun(r)
  <2>1. phase = "scan" /\ slotFd[scan] = fd /\ ServiceDone(rev)
    BY <1>3 DEF Goes
  <2>2. /\ rev \in [PT!Slot -> SUBSET Flags]
        /\ rev = [revents EXCEPT ![s] = revents[last]]
    BY <1>1, MovedReventsIs DEF MovedRevents
  <2>3. /\ scan < count_pollfds /\ scan \in PT!Slot /\ scan \in Nat
        /\ revents \in [PT!Slot -> SUBSET Flags]
    BY <1>1, <2>1, Sizes DEF Reported, Rest, ScanOK
  <2>4. /\ fd \in PT!Fd /\ fd \in PT!Registered /\ count_pollfds \in 0..MaxFds
        /\ count_pollfds \in Nat /\ slotFd \in [PT!Slot -> PT!Fd \cup {PT!Uninit}]
    BY <1>1, Sizes DEF Rest, Owners, TableOK, PT!TypeOK, PT!Registered
  <2>5. s \in 0..last /\ slotFd[s] = fd
    BY <1>1, <2>4 DEF TableOK, PT!TableConsistent
  <2>6. last \in PT!Slot /\ s \in PT!Slot /\ last \in Nat /\ scan <= last
    BY <2>3, <2>4, <2>5, Sizes
  <2>7. count_pollfds' = last /\ (slotFd' = slotFd \/ slotFd' = [slotFd EXCEPT ![s] = slotFd[last]])
    BY DEF PT!ContextRelease, PT!mgmt_del_fd
  <2> HIDE DEF rev, s
  <2>8. ASSUME NEW slot \in PT!Slot, NEW q \in Alive', scan < slot, slot < count_pollfds',
               slotFd'[slot] = ctx'[q].fd, rev[slot] \cap {"POLLERR", "POLLHUP"} # {}
        PROVE  host'[q].st \in {"new", "dead"}
    <3>1. slot \in Nat /\ slot < last /\ q \in Reqs /\ slot # scan
      BY <2>3, <2>7, <2>8, Sizes DEF Alive
    <3>2. q # r
      <4>1. q \in Reqs /\ ctx'[q].alive
        BY <2>8 DEF Alive
      <4>2. ~NoContext.alive
        BY DEF NoContext
      <4> QED BY <1>1, <4>1, <4>2
    <3>3. ctx'[q] = ctx[q] /\ host'[q] = host[q] /\ q \in Alive
      BY <1>1, <2>8, <3>1, <3>2 DEF Alive
    <3>4. slot # s
      <4>1. scan < count_pollfds /\ s < count_pollfds
        BY <2>4, <2>5, <2>3
      <4>2. scan = s
        BY <1>1, <2>1, <2>3, <2>5, <2>6, <4>1, OneSlot
      <4> QED BY <3>1, <4>2
    <3>5. rev[slot] = revents[slot] /\ slotFd'[slot] = slotFd[slot]
      BY <2>2, <2>3, <2>4, <2>7, <3>4
    <3>6. scan <= slot /\ slot < count_pollfds
      BY <2>3, <2>4, <2>8, <3>1
    <3>7. slotFd[slot] = ctx[q].fd
      BY <2>8, <3>3, <3>5
    <3>8. revents[slot] \cap {"POLLERR", "POLLHUP"} # {}
      BY <2>8, <3>5
    <3> QED BY <1>1, <2>1, <3>3, <3>6, <3>7, <3>8 DEF Reported, HangsUpAt
  <2> QED BY <1>1, <2>1, <2>2, <2>8, ReportedNext
<1> QED BY <1>2, <1>3

LEMMA FinishDelivers ==
  ASSUME Step, Delivered, NEW r \in Alive, FromRun(r) \/ FromSlot(r) \/
           (phase = "scan" /\ slotFd[scan] = ctx[r].fd),
         NEW queued, NEW writing \in BOOLEAN, NEW owed \in BOOLEAN,
         queued = <<>> \/ Answer(r, queued), Finishes(r, queued, writing, owed), intact,
         host[r].whole /\ owed /\ ~writing =>
           \E p : /\ Outcome(p) /\ ParsedTo(p, Body(host[r].reply[1]))
                  /\ queued = ResponseFrame(r, p)
  PROVE  Delivered'
<1>1. http_context_release(r, queued, writing, owed) /\ Goes(r, MovedRevents(ctx[r].fd))
  BY DEF Finishes
<1>2. Hosted' /\ AnsweredWhole'
  BY <1>1, ReleaseDelivers
<1>3. PICK k : k.st = "closed" /\ host' = [host EXCEPT ![r] = k]
  <2> DEFINE k == [host[r] EXCEPT !.st = "closed", !.left = <<>>, !.rx = <<>>,
                                  !.whole = @ /\ owed]
  <2>1. r \in Reqs /\ host \in [Reqs -> Hosts]
    BY DEF Step, Alive, Rest, ContextsOK
  <2>2. host[r] \in Hosts
    BY <2>1
  <2>3. k.st = "closed"
    BY <2>2 DEF Hosts
  <2>4. host' = [host EXCEPT ![r].st = "closed", ![r].left = <<>>, ![r].rx = <<>>,
                             ![r].whole = @ /\ owed]
    BY <1>1 DEF http_context_release
  <2>5. host' = [host EXCEPT ![r] = k]
    BY <2>1, <2>4
  <2> QED BY <2>3, <2>5
<1>4. PT!ContextRelease(ctx[r].fd) /\ ctx' = [ctx EXCEPT ![r] = NoContext]
  BY <1>1 DEF http_context_release
<1>5. FromRun(r) \/ (phase = "scan" /\ slotFd[scan] = ctx[r].fd)
  BY DEF FromSlot
<1>6. Reported'
  BY <1>1, <1>3, <1>4, <1>5, ReportedFinishes
<1> QED BY <1>2, <1>6 DEF Delivered

\* What a context that connects, writes or waits holds is what it held.
Carries(c, h, d, k) ==
    /\ d.alive = c.alive /\ d.fd = c.fd /\ d.read = c.read /\ d.rbytes = c.rbytes
    /\ c.rcurr => d.rcurr
    /\ k.reply = h.reply /\ k.left = h.left /\ k.rx = h.rx /\ k.fin = h.fin
    /\ k.whole = h.whole
    /\ \/ k.st = h.st
       \/ h.st \in {"none", "new", "connecting"} /\ k.st \in {"new", "connecting", "connected"}
Changed(r, d, k) == ctx' = [ctx EXCEPT ![r] = d] /\ host' = [host EXCEPT ![r] = k]

LEMMA ConnectCarries ==
  ASSUME Step, Hosted, NEW r \in Reqs, ConnectDone(r) \/ ConnectPending(r)
  PROVE  \E d, k : /\ Changed(r, d, k) /\ Carries(ctx[r], host[r], d, k)
                   /\ k.st # "closed"
<1>1. Executing(r, "connect") /\ Rest
  BY DEF Step, ConnectDone, ConnectPending
<1>2. r \in Alive /\ (FromRun(r) \/ FromSlot(r))
  BY <1>1, ExecutingIs
<1>3. /\ ctx[r] \in Contexts /\ ctx[r].alive /\ host[r] \in Hosts
      /\ host \in [Reqs -> Hosts] /\ HostOf(ctx[r], host[r])
  BY <1>1, <1>2, ContextIs DEF Rest, ContextsOK, Hosted
<1>4. host[r].st \in {"new", "connecting", "connected", "dead"}
  BY <1>3 DEF HostOf
<1>5. PICK k : /\ host' = [host EXCEPT ![r] = k] /\ k.st # "closed"
               /\ k.reply = host[r].reply /\ k.left = host[r].left /\ k.rx = host[r].rx
               /\ k.fin = host[r].fin /\ k.whole = host[r].whole
               /\ \/ k.st = host[r].st
                  \/ /\ host[r].st \in {"none", "new", "connecting"}
                     /\ k.st \in {"new", "connecting", "connected"}
  <2>1. CASE host' = host
    <3>1. host' = [host EXCEPT ![r] = host[r]]
      BY <1>3, <2>1
    <3> QED BY <1>4, <3>1
  <2>2. ASSUME NEW st \in {"connecting", "connected"}, host' = [host EXCEPT ![r].st = st],
               host[r].st \in {"new", "connecting"} \/ host[r].st = st
        PROVE  \E k : /\ host' = [host EXCEPT ![r] = k] /\ k.st # "closed"
                      /\ k.reply = host[r].reply /\ k.left = host[r].left /\ k.rx = host[r].rx
                      /\ k.fin = host[r].fin /\ k.whole = host[r].whole
                      /\ \/ k.st = host[r].st
                         \/ /\ host[r].st \in {"none", "new", "connecting"}
                            /\ k.st \in {"new", "connecting", "connected"}
    <3> DEFINE k == [host[r] EXCEPT !.st = st]
    <3>1. host' = [host EXCEPT ![r] = k]
      BY <1>3, <2>2
    <3>2. /\ k.st = st /\ k.reply = host[r].reply /\ k.left = host[r].left /\ k.rx = host[r].rx
          /\ k.fin = host[r].fin /\ k.whole = host[r].whole
      BY <1>3 DEF Hosts
    <3> HIDE DEF k
    <3> QED BY <2>2, <3>1, <3>2
  <2>3. CASE ConnectPending(r)
    BY <2>2, <2>3 DEF ConnectPending
  <2>4. CASE ConnectDone(r)
    <3>1. SaysConnected(r) \/ host[r].st \in {"new", "connected"}
      BY <2>4 DEF ConnectDone
    <3>2. host' = host \/ (~SaysConnected(r) /\ host' = [host EXCEPT ![r].st = "connected"])
      BY <2>4 DEF ConnectDone
    <3> QED BY <2>1, <2>2, <3>1, <3>2
  <2> QED BY <2>3, <2>4
<1>6. PICK d : /\ ctx' = [ctx EXCEPT ![r] = d] /\ d.alive = ctx[r].alive /\ d.fd = ctx[r].fd
               /\ d.read = ctx[r].read /\ d.rbytes = ctx[r].rbytes
               /\ (ctx[r].rcurr => d.rcurr)
  <2>1. ctx' = [ctx EXCEPT ![r] = [ctx[r] EXCEPT !.func = "write", !.line = "start"]]
          \/ ctx' = [ctx EXCEPT ![r] = ctx[r]]
    BY DEF ConnectDone, ConnectPending, Continues
  <2> DEFINE d == [ctx[r] EXCEPT !.func = "write", !.line = "start"]
  <2>2. /\ d.alive = ctx[r].alive /\ d.fd = ctx[r].fd
        /\ d.read = ctx[r].read /\ d.rbytes = ctx[r].rbytes /\ d.rcurr = ctx[r].rcurr
    BY <1>3 DEF Contexts
  <2> HIDE DEF d
  <2>3. ctx' = [ctx EXCEPT ![r] = d] \/ ctx' = [ctx EXCEPT ![r] = ctx[r]]
    BY <2>1 DEF d
  <2> QED BY <2>2, <2>3
<1>7. Changed(r, d, k) /\ Carries(ctx[r], host[r], d, k)
  BY <1>5, <1>6 DEF Changed, Carries
<1> QED BY <1>5, <1>7

LEMMA WriteCarries ==
  ASSUME Step, Hosted, NEW r \in Reqs,
         \/ WriteAll(r) \/ WriteAgain(r) \/ ReadAgain(r)
         \/ \E bufs \in 0..(RequestBufs - 1), part \in BOOLEAN : WriteSome(r, bufs, part)
  PROVE  \E d, k : /\ Changed(r, d, k) /\ Carries(ctx[r], host[r], d, k)
                   /\ k.st # "closed"
<1>1. (Executing(r, "write") \/ Executing(r, "read")) /\ Rest
  BY DEF Step, WriteAll, WriteAgain, ReadAgain, WriteSome
<1>2. r \in Alive /\ (FromRun(r) \/ FromSlot(r))
  BY <1>1, ExecutingIs
<1>3. /\ ctx[r] \in Contexts /\ ctx[r].alive /\ host[r] \in Hosts
      /\ host \in [Reqs -> Hosts] /\ HostOf(ctx[r], host[r])
  BY <1>1, <1>2, ContextIs DEF Rest, ContextsOK, Hosted
<1>4. host[r].st # "closed"
  BY <1>3 DEF HostOf
<1>5. PICK k : /\ host' = [host EXCEPT ![r] = k] /\ k.st = host[r].st
               /\ k.reply = host[r].reply /\ k.left = host[r].left /\ k.rx = host[r].rx
               /\ k.fin = host[r].fin /\ k.whole = host[r].whole
  <2>1. CASE host' = host
    <3>1. host' = [host EXCEPT ![r] = host[r]]
      BY <1>3, <2>1
    <3> QED BY <3>1
  <2>2. CASE host' = [host EXCEPT ![r].got = TRUE]
    <3> DEFINE k == [host[r] EXCEPT !.got = TRUE]
    <3>1. host' = [host EXCEPT ![r] = k]
      BY <1>3, <2>2
    <3>2. /\ k.st = host[r].st /\ k.reply = host[r].reply /\ k.left = host[r].left
          /\ k.rx = host[r].rx /\ k.fin = host[r].fin /\ k.whole = host[r].whole
      BY <1>3 DEF Hosts
    <3> HIDE DEF k
    <3> QED BY <3>1, <3>2
  <2>3. CASE host' = [host EXCEPT ![r].full = TRUE]
    <3> DEFINE k == [host[r] EXCEPT !.full = TRUE]
    <3>1. host' = [host EXCEPT ![r] = k]
      BY <1>3, <2>3
    <3>2. /\ k.st = host[r].st /\ k.reply = host[r].reply /\ k.left = host[r].left
          /\ k.rx = host[r].rx /\ k.fin = host[r].fin /\ k.whole = host[r].whole
      BY <1>3 DEF Hosts
    <3> HIDE DEF k
    <3> QED BY <3>1, <3>2
  <2> QED BY <2>1, <2>2, <2>3 DEF WriteAll, WriteAgain, ReadAgain, WriteSome
<1>6. PICK d : /\ ctx' = [ctx EXCEPT ![r] = d] /\ d.alive = ctx[r].alive /\ d.fd = ctx[r].fd
               /\ d.read = ctx[r].read /\ d.rbytes = ctx[r].rbytes
               /\ (ctx[r].rcurr => d.rcurr)
  <2>1. ASSUME NEW c \in Contexts, Pends(r, c), c.alive = ctx[r].alive, c.fd = ctx[r].fd,
               c.read = ctx[r].read, c.rbytes = ctx[r].rbytes, ctx[r].rcurr => c.rcurr
        PROVE  \E d : /\ ctx' = [ctx EXCEPT ![r] = d] /\ d.alive = ctx[r].alive
                      /\ d.fd = ctx[r].fd /\ d.read = ctx[r].read /\ d.rbytes = ctx[r].rbytes
                      /\ (ctx[r].rcurr => d.rcurr)
    <3> DEFINE d == [c EXCEPT !.status = "PENDING"]
    <3>1. ctx' = [ctx EXCEPT ![r] = d]
      BY <2>1 DEF Pends
    <3>2. /\ d.alive = c.alive /\ d.fd = c.fd /\ d.read = c.read /\ d.rbytes = c.rbytes
          /\ d.rcurr = c.rcurr
      BY DEF Contexts
    <3> HIDE DEF d
    <3> QED BY <2>1, <3>1, <3>2
  <2>2. CASE WriteAll(r)
    <3> DEFINE c == [ctx[r] EXCEPT !.func = "read", !.line = "start",
                                   !.write = 0, !.half = FALSE, !.wcurr = FALSE]
    <3>1. 0 \in 0..RequestBufs
      BY Sizes
    <3>2. /\ c \in Contexts /\ c.alive = ctx[r].alive /\ c.fd = ctx[r].fd
          /\ c.read = ctx[r].read /\ c.rbytes = ctx[r].rbytes /\ (ctx[r].rcurr => c.rcurr)
      BY <1>3, <3>1 DEF Contexts
    <3>3. Pends(r, c)
      BY <2>2 DEF WriteAll
    <3> HIDE DEF c
    <3> QED BY <2>1, <3>2, <3>3
  <2>3. CASE WriteAgain(r)
    <3> DEFINE l == IF ctx[r].line = "eagain" THEN "partial" ELSE "eagain"
               c == [ctx[r] EXCEPT !.wcurr = TRUE, !.line = l]
    <3>1. /\ c \in Contexts /\ c.alive = ctx[r].alive /\ c.fd = ctx[r].fd
          /\ c.read = ctx[r].read /\ c.rbytes = ctx[r].rbytes /\ (ctx[r].rcurr => c.rcurr)
      BY <1>3 DEF Contexts
    <3>2. Pends(r, c)
      BY <2>3 DEF WriteAgain
    <3> HIDE DEF c
    <3> QED BY <2>1, <3>1, <3>2
  <2>4. CASE ReadAgain(r)
    <3> DEFINE c == [ctx[r] EXCEPT !.rcurr = TRUE]
    <3>1. /\ c \in Contexts /\ c.alive = ctx[r].alive /\ c.fd = ctx[r].fd
          /\ c.read = ctx[r].read /\ c.rbytes = ctx[r].rbytes /\ (ctx[r].rcurr => c.rcurr)
      BY <1>3 DEF Contexts
    <3>2. Pends(r, c)
      BY <2>4 DEF ReadAgain
    <3> HIDE DEF c
    <3> QED BY <2>1, <3>1, <3>2
  <2>5. ASSUME NEW bufs \in 0..(RequestBufs - 1), NEW part \in BOOLEAN, WriteSome(r, bufs, part)
        PROVE  \E d : /\ ctx' = [ctx EXCEPT ![r] = d] /\ d.alive = ctx[r].alive
                      /\ d.fd = ctx[r].fd /\ d.read = ctx[r].read /\ d.rbytes = ctx[r].rbytes
                      /\ (ctx[r].rcurr => d.rcurr)
    <3> DEFINE w == ctx[r].write - bufs
               l == IF part THEN "partial" ELSE "eagain"
               c == [ctx[r] EXCEPT !.write = w, !.wcurr = TRUE, !.half = part, !.line = l]
    <3>1. Pends(r, c) /\ bufs < ctx[r].write
      BY <1>3, <2>5 DEF WriteSome
    <3>2. w \in 0..RequestBufs /\ l \in {"partial", "eagain"}
      <4>1. ctx[r].write \in 0..RequestBufs /\ RequestBufs \in Nat
        BY <1>3, Sizes DEF Contexts
      <4> DEFINE m == ctx[r].write
      <4>2. m \in 0..RequestBufs /\ bufs \in Nat /\ bufs < m
        BY <3>1, <4>1
      <4> HIDE DEF m, c
      <4>3. m - bufs \in 0..RequestBufs
        BY <4>1, <4>2
      <4> QED BY <4>3 DEF m
    <3> HIDE DEF w, l
    <3>3. /\ c \in Contexts /\ c.alive = ctx[r].alive /\ c.fd = ctx[r].fd
          /\ c.read = ctx[r].read /\ c.rbytes = ctx[r].rbytes /\ (ctx[r].rcurr => c.rcurr)
      BY <1>3, <3>2 DEF Contexts
    <3> HIDE DEF c
    <3> QED BY <2>1, <3>1, <3>3
  <2> QED BY <2>2, <2>3, <2>4, <2>5
<1>7. Changed(r, d, k) /\ Carries(ctx[r], host[r], d, k)
  BY <1>5, <1>6 DEF Changed, Carries
<1>8. k.st # "closed"
  BY <1>4, <1>5
<1> QED BY <1>7, <1>8

\* The context connects, writes or waits.
LEMMA CarriesDelivers ==
  ASSUME Step, Delivered, NEW r \in Reqs,
         \/ ConnectDone(r) \/ ConnectPending(r)
         \/ WriteAll(r) \/ WriteAgain(r) \/ ReadAgain(r)
         \/ \E bufs \in 0..(RequestBufs - 1), part \in BOOLEAN : WriteSome(r, bufs, part)
  PROVE  Delivered'
<1>1. /\ \E func : Executing(r, func)
      /\ Rest /\ Hosted /\ Goes(r, revents)
      /\ UNCHANGED <<slotFd, count_pollfds, toserver, server, taken, intact>>
  BY DEF Step, Delivered, ConnectDone, ConnectPending, Continues, WriteAll, WriteAgain,
         ReadAgain, WriteSome, Pends, table, PT!ContextChangeMode, wire
<1>2. r \in Alive /\ (FromRun(r) \/ FromSlot(r))
  BY <1>1, ExecutingIs
<1>3. PICK d, k : Changed(r, d, k) /\ Carries(ctx[r], host[r], d, k) /\ k.st # "closed"
  BY <1>1, ConnectCarries, WriteCarries
<1>4. d.fd = ctx[r].fd /\ ctx' = [ctx EXCEPT ![r] = d] /\ host' = [host EXCEPT ![r] = k]
  BY <1>3 DEF Changed, Carries
<1>5. HostOf(ctx[r], host[r])
  BY <1>1 DEF Hosted
<1>6. HostOf(d, k)
  BY <1>3, <1>5, HostOfSame DEF Carries
<1> QED BY <1>1, <1>2, <1>3, <1>4, <1>6, HandlerDelivers

\* n bytes go from the kernel into the context's buffer, which is saved if full.
Takes(c, h, n, got, d, k) ==
    /\ d.alive = c.alive /\ d.fd = c.fd
    /\ n \in 0..Len(h.rx) /\ got = c.rbytes \o SubSeq(h.rx, 1, n) /\ got \in Buffer
    /\ k = [h EXCEPT !.rx = SubSeq(h.rx, n + 1, Len(h.rx))]
    /\ \/ d.read = Append(c.read, got) /\ d.rbytes = <<>> /\ got # <<>>
       \/ d.read = c.read /\ d.rbytes = got /\ d.rcurr

LEMMA ReadTakes ==
  ASSUME Step, Hosted, NEW r \in Reqs, ReadSome(r)
  PROVE  \E n, got, d, k : Changed(r, d, k) /\ Takes(ctx[r], host[r], n, got, d, k)
<1> DEFINE rb   == ctx[r].rbytes
           rx   == host[r].rx
           room == BufSize - Len(rb)
           n    == IF Len(rx) < room THEN Len(rx) ELSE room
           got  == rb \o SubSeq(rx, 1, n)
           l    == Append(ctx[r].read, got)
           full == [ctx[r] EXCEPT !.read = l, !.rcurr = FALSE,
                                  !.rbytes = <<>>]
           part == [ctx[r] EXCEPT !.rcurr = TRUE, !.rbytes = got]
           rest == SubSeq(rx, n + 1, Len(rx))
           k    == [host[r] EXCEPT !.rx = rest]
<1>1. Executing(r, "read") /\ Rest
  BY DEF Step, ReadSome
<1>2. r \in Alive
  BY <1>1, ExecutingIs
<1>3. /\ ctx[r] \in Contexts /\ host[r] \in Hosts /\ host \in [Reqs -> Hosts]
  BY <1>1, <1>2, ContextIs DEF Rest, ContextsOK
<1>4. /\ IF Len(got) = BufSize THEN Pends(r, full) ELSE Pends(r, part)
      /\ host' = [host EXCEPT ![r].rx = SubSeq(@, n + 1, Len(@))]
  BY DEF ReadSome
<1>5. host' = [host EXCEPT ![r] = k]
  <2> HIDE DEF n
  <2> QED BY <1>3, <1>4
<1>6. rb \in Bytes /\ Len(rb) \in 0..BufSize /\ rx \in Bytes /\ Len(rx) \in Nat
  BY <1>3, ParseAssumption DEF Contexts, Hosts, Buffer, Bytes
<1> HIDE DEF rb, rx
<1>7. n \in 0..Len(rx) /\ Len(rb) + n <= BufSize
  <2> DEFINE a == Len(rx)
             b == Len(rb)
  <2>1. a \in Nat /\ b \in 0..BufSize /\ BufSize \in Nat
    BY <1>6, ParseAssumption
  <2> HIDE DEF a, b
  <2> QED BY <2>1 DEF a, b
<1> HIDE DEF n
<1>8. got = ctx[r].rbytes \o SubSeq(host[r].rx, 1, n) /\ n \in 0..Len(host[r].rx)
      /\ k = [host[r] EXCEPT !.rx = SubSeq(host[r].rx, n + 1, Len(host[r].rx))]
  BY <1>7 DEF rb, rx
<1>9. got \in Buffer
  <2> DEFINE x == SubSeq(rx, 1, n)
  <2>1. x \in Bytes /\ Len(x) = n
    <3>1. 0 \in Nat /\ n \in Nat /\ 0 <= n /\ n <= Len(rx)
      BY <1>6, <1>7
    <3>2. Part(rx, 0, n) \in Bytes /\ Len(Part(rx, 0, n)) = n - 0
      BY <1>6, <3>1, PartIs
    <3>3. x = Part(rx, 0, n)
      BY DEF Part
    <3> HIDE DEF x
    <3> DEFINE y == Part(rx, 0, n)
    <3> HIDE DEF y
    <3>4. y \in Bytes /\ Len(y) = n - 0 /\ x = y
      BY <3>2, <3>3 DEF y
    <3> QED BY <3>1, <3>4
  <2> HIDE DEF x
  <2>2. rb \o x \in Bytes /\ Len(rb \o x) = Len(rb) + Len(x)
    BY <1>6, <2>1, JoinIs
  <2> QED BY <1>7, <2>1, <2>2 DEF Buffer, x
<1>10. Len(got) = BufSize => got # <<>>
  <2>1. Len(<<>>) = 0 /\ BufSize # 0
    BY ParseAssumption
  <2> HIDE DEF got
  <2> QED BY <2>1
<1> HIDE DEF got, k
<1>11. PICK d : /\ ctx' = [ctx EXCEPT ![r] = d] /\ d.alive = ctx[r].alive /\ d.fd = ctx[r].fd
                /\ \/ d.read = Append(ctx[r].read, got) /\ d.rbytes = <<>> /\ got # <<>>
                   \/ d.read = ctx[r].read /\ d.rbytes = got /\ d.rcurr
  <2>1. ASSUME NEW c, Pends(r, c), c.alive = ctx[r].alive, c.fd = ctx[r].fd,
               \/ c.read = Append(ctx[r].read, got) /\ c.rbytes = <<>> /\ got # <<>>
               \/ c.read = ctx[r].read /\ c.rbytes = got /\ c.rcurr,
               LET d == [c EXCEPT !.status = "PENDING"]
               IN  /\ d.alive = c.alive /\ d.fd = c.fd /\ d.read = c.read
                   /\ d.rbytes = c.rbytes /\ d.rcurr = c.rcurr
        PROVE  \E d : /\ ctx' = [ctx EXCEPT ![r] = d]
                      /\ d.alive = ctx[r].alive /\ d.fd = ctx[r].fd
                      /\ \/ d.read = Append(ctx[r].read, got) /\ d.rbytes = <<>> /\ got # <<>>
                         \/ d.read = ctx[r].read /\ d.rbytes = got /\ d.rcurr
    <3>1. ctx' = [ctx EXCEPT ![r] = [c EXCEPT !.status = "PENDING"]]
      BY <2>1 DEF Pends
    <3> QED BY <2>1, <3>1
  <2>2. CASE Len(got) = BufSize
    <3> HIDE DEF l
    <3>1. /\ full.alive = ctx[r].alive /\ full.fd = ctx[r].fd /\ full.read = l
          /\ full.rbytes = <<>>
      BY <1>3 DEF Contexts
    <3>2. LET d == [full EXCEPT !.status = "PENDING"]
          IN  /\ d.alive = full.alive /\ d.fd = full.fd /\ d.read = full.read
              /\ d.rbytes = full.rbytes /\ d.rcurr = full.rcurr
      BY <1>3 DEF Contexts
    <3>3. Pends(r, full)
      BY <1>4, <2>2
    <3> HIDE DEF full
    <3> QED BY <1>10, <2>1, <2>2, <3>1, <3>2, <3>3 DEF l
  <2>3. CASE Len(got) # BufSize
    <3> HIDE DEF l
    <3>1. /\ part.alive = ctx[r].alive /\ part.fd = ctx[r].fd /\ part.read = ctx[r].read
          /\ part.rbytes = got /\ part.rcurr
      BY <1>3 DEF Contexts
    <3>2. LET d == [part EXCEPT !.status = "PENDING"]
          IN  /\ d.alive = part.alive /\ d.fd = part.fd /\ d.read = part.read
              /\ d.rbytes = part.rbytes /\ d.rcurr = part.rcurr
      BY <1>3 DEF Contexts
    <3>3. Pends(r, part)
      BY <1>4, <2>3
    <3> HIDE DEF part
    <3> QED BY <2>1, <3>1, <3>2, <3>3
  <2> QED BY <2>2, <2>3
<1>12. Changed(r, d, k)
  BY <1>5, <1>11 DEF Changed
<1>13. Takes(ctx[r], host[r], n, got, d, k)
  BY <1>8, <1>9, <1>11 DEF Takes
<1> QED BY <1>12, <1>13

LEMMA ReadSomeDelivers ==
  ASSUME Step, Delivered, NEW r \in Reqs, ReadSome(r) PROVE Delivered'
<1>1. /\ Executing(r, "read") /\ Rest /\ Hosted /\ Goes(r, revents)
      /\ UNCHANGED <<slotFd, count_pollfds, toserver, server, taken, intact>>
      /\ host[r].st = "connected"
  BY DEF Step, Delivered, ReadSome, table, wire, Pends
<1>2. r \in Alive /\ (FromRun(r) \/ FromSlot(r))
  BY <1>1, ExecutingIs
<1>3. ctx[r] \in Contexts /\ host[r] \in Hosts /\ HostOf(ctx[r], host[r])
  BY <1>1, <1>2, ContextIs DEF Rest, ContextsOK, Hosted
<1>4. PICK n, got, d, k : Changed(r, d, k) /\ Takes(ctx[r], host[r], n, got, d, k)
  BY <1>1, ReadTakes
<1>5. HostOf(d, k)
  BY <1>1, <1>3, <1>4, HostOfRead DEF Takes
<1>6. k.st # "closed" /\ d.fd = ctx[r].fd
  BY <1>1, <1>3, <1>4 DEF Takes, Hosts
<1>7. ctx' = [ctx EXCEPT ![r] = d] /\ host' = [host EXCEPT ![r] = k]
  BY <1>4 DEF Changed
<1> QED BY <1>1, <1>2, <1>5, <1>6, <1>7, HandlerDelivers

LEMMA ReportedStays ==
  ASSUME Reported, UNCHANGED <<table, revents, main, ctx, host>>
  PROVE  Reported'
<1>1. UNCHANGED <<count_pollfds, slotFd, revents, phase, scan, ctx, host>>
  BY DEF table, main
<1> QED BY <1>1 DEF Reported, HangsUpAt, Alive

LEMMA CrashDelivers ==
  ASSUME Step, Delivered, Crashes PROVE Delivered'
<1>1. /\ Rest /\ Hosted /\ Reported /\ AnsweredWhole /\ intact' = FALSE
      /\ UNCHANGED <<table, revents, main, ctx, host, toserver, server, taken>>
  BY DEF Step, Delivered, Crashes, wire
<1>2. taken' \in Nat /\ taken <= taken' /\ Frames' = Frames
  BY <1>1, Sizes DEF Rest, ContextsOK, Frames
<1>3. Hosted'
  BY <1>1, <1>2, HostedStays
<1>4. Reported'
  BY <1>1, ReportedStays
<1>5. \A r \in Reqs : host'[r].st = "closed" => host'[r] = host[r]
  BY <1>1
<1>6. AnsweredWhole'
  BY <1>1, <1>2, <1>5, AnsweredKept
<1> QED BY <1>3, <1>4, <1>6 DEF Delivered

\* A host that refused, reset or was never connected did not say all.
LEMMA CutShort ==
  ASSUME Hosted, NEW r \in Alive, host[r].st \in {"new", "dead"}
  PROVE  ~host[r].whole
BY DEF Hosted, HostOf, Alive

LEMMA FailsDelivers ==
  ASSUME Step, Delivered, NEW r \in Reqs, ConnectFails(r) \/ WriteFails(r) PROVE Delivered'
<1>1. PICK queued \in {<<>>, <<Error(r)>>}, writing \in BOOLEAN :
         Finishes(r, queued, writing, TRUE)
  <2>1. CASE ConnectFails(r)
    BY <2>1 DEF ConnectFails
  <2>2. CASE WriteFails(r)
    BY <2>2 DEF WriteFails
  <2> QED BY <2>1, <2>2
<1>2. r \in Alive /\ (FromRun(r) \/ FromSlot(r)) /\ intact
  BY ExecutingIs DEF Step, ConnectFails, WriteFails
<1>3. queued = <<>> \/ Answer(r, queued)
  BY <1>1, ErrorAnswers
<1>4. host[r].st \in {"new", "dead"} /\ Hosted
  BY DEF ConnectFails, WriteFails, Delivered
<1>5. ~host[r].whole
  BY <1>2, <1>4, CutShort
<1> QED BY <1>1, <1>2, <1>3, <1>5, FinishDelivers

\* POLLERR or POLLHUP: nothing is owed.
LEMMA HangupDelivers ==
  ASSUME Step, Delivered, NEW r \in Reqs, HangsUp(r) PROVE Delivered'
<1>1. /\ r \in Alive /\ phase = "scan" /\ slotFd[scan] = ctx[r].fd /\ intact
      /\ Rest /\ Hosted /\ Reported /\ HangsUpAt(scan)
  BY DEF Step, Delivered, HangsUp, HangsUpAt
<1>2. ~host[r].whole
  <2>1. scan \in PT!Slot /\ scan <= scan /\ scan < count_pollfds
    BY <1>1, Sizes DEF Rest, ScanOK, Reported
  <2>2. host[r].st \in {"new", "dead"}
    BY <1>1, <2>1 DEF Reported
  <2> QED BY <1>1, <2>2, CutShort
<1>3. /\ ctx[r].read \in Seq(Bytes) /\ ctx[r].wcurr \in BOOLEAN
  <2>1. ctx[r] \in Contexts
    BY <1>1, ContextIs
  <2> QED BY <2>1 DEF Contexts
<1> DEFINE memory == buf_caches > 0
           p == IF ctx[r].func = "read" THEN http_parse(ctx[r].read, memory)
                ELSE Parsed(-1, 0, <<>>, 0)
           q == IF p.rc = 0 THEN ResponseFrame(r, p) ELSE <<>>
<1>4. IF p.rc = Crash THEN Crashes ELSE Finishes(r, q, ctx[r].wcurr, TRUE)
  BY Zenon DEF HangsUp
<1>5. Outcome(p)
  <2>1. Outcome(Parsed(-1, 0, <<>>, 0))
    <3>1. <<>> \in Seq(Bytes) /\ 0 \in Nat /\ -1 # 0 /\ -1 \in {0, -1, Crash}
      OBVIOUS
    <3> QED BY <3>1 DEF Outcome, Parsed
  <2> HIDE DEF memory
  <2>2. Outcome(http_parse(ctx[r].read, memory))
    BY <1>3, ParsedIs
  <2> QED BY <2>1, <2>2
<1> HIDE DEF p
<1>6. q = <<>> \/ Answer(r, q)
  BY <1>1, <1>5, ResponseAnswers
<1> HIDE DEF q
<1>7. CASE Crashes
  BY <1>7, CrashDelivers
<1>8. CASE Finishes(r, q, ctx[r].wcurr, TRUE)
  BY <1>1, <1>2, <1>3, <1>6, <1>8, FinishDelivers
<1> QED BY <1>4, <1>7, <1>8

LEMMA WireStarts ==
  ASSUME NEW r \in Reqs, NEW reply \in RepliesTo(r)
  PROVE  Wire(reply) # <<>>
<1>1. Wire(reply) \in Bytes
  BY WireIs
<1>2. CASE reply.chunked
  <2>1. PICK m, at, end, size, keep : Laid(Wire(reply), m, at, end, size, keep)
    BY <1>2, WireLaid
  <2>2. m \in Nat \ {0} /\ Line(Wire(reply), at[m], end[m])
    <3>1. m \in Nat \ {0}
      BY <2>1 DEF Laid
    <3>2. m \in 1..m
      BY <3>1
    <3> QED BY <2>1, <3>1, <3>2 DEF Laid
  <2>3. Len(<<>>) = 0
    OBVIOUS
  <2> QED BY <2>2, <2>3 DEF Line
<1>3. CASE ~reply.chunked
  <2>1. Wire(reply) = <<PlainHead>> \o DataBytes(0, reply.length) /\ reply.length \in Nat
    <3>1. 0..MaxLength \subseteq Nat
      BY ConstantsAssumption
    <3>2. reply.length \in 0..MaxLength
      BY <1>3 DEF RepliesTo
    <3> QED BY <1>3, <3>1, <3>2 DEF Wire
  <2>2. <<PlainHead>> \in Bytes /\ Len(<<PlainHead>>) = 1
    BY DEF PlainHead, Bytes
  <2>3. DataBytes(0, reply.length) \in Bytes
    <3>1. 0 \in Nat
      OBVIOUS
    <3> QED BY <2>1, <3>1, DataIs
  <2>4. Wire(reply) = <<>> => <<PlainHead>> = <<>>
    BY <2>1, <2>2, <2>3, JoinNothing
  <2> QED BY <2>2, <2>4
<1> QED BY <1>2, <1>3

\* At the end of file of a host that said all, the buffers hold its response.
LEMMA AllIsRead ==
  ASSUME NEW c \in Contexts, NEW h \in Hosts, HostOf(c, h), h.whole, h.st = "connected",
         h.rx = <<>>
  PROVE  LET bufs == IF c.rbytes = <<>> THEN c.read ELSE Append(c.read, c.rbytes)
         IN  /\ bufs \in Seq(Bytes) /\ bufs # <<>> /\ Head(bufs) # <<>>
             /\ \E r \in Reqs : h.reply[1] \in RepliesTo(r)
             /\ FlattenSeq(bufs) = Wire(h.reply[1])
<1> DEFINE f == FlattenSeq(c.read)
           b == c.rbytes
           bufs == IF b = <<>> THEN c.read ELSE Append(c.read, b)
<1>1. f \in Bytes /\ b \in Bytes /\ c.read \in Seq(Bytes)
  BY HostTypes
<1>2. /\ h.fin /\ h.reply # <<>> /\ h.left = <<>>
      /\ \A i \in 1..Len(c.read) : c.read[i] # <<>>
      /\ Held(c, h) = Said(h)
  BY DEF HostOf
<1>3. PICK reply \in Replies : h.reply = <<reply>>
  BY <1>2 DEF Hosts
<1>4. PICK r \in Reqs : reply \in RepliesTo(r)
  BY DEF Replies
<1>5. h.reply[1] = reply /\ Said(h) = Wire(reply)
  BY <1>3, SaidReply
<1>6. bufs \in Seq(Bytes)
  BY <1>1
<1>7. FlattenSeq(bufs) = f \o b
  <2>1. CASE b = <<>>
    BY <1>1, <2>1, JoinNothing
  <2>2. CASE b # <<>>
    BY <1>1, <2>2, FlattenAppend DEF Bytes
  <2> QED BY <2>1, <2>2
<1>8. FlattenSeq(bufs) = Wire(reply)
  <2>1. f \o b \in Bytes
    BY <1>1, JoinIs
  <2>2. Held(c, h) = ((f \o b) \o <<>>) \o <<>>
    BY <1>2 DEF Held
  <2> HIDE DEF f, b, bufs
  <2>3. (f \o b) \o <<>> = f \o b
    BY <2>1, JoinNothing, EmptySeq DEF Bytes
  <2> QED BY <1>2, <1>5, <1>7, <2>2, <2>3
<1>9. bufs # <<>>
  <2>1. Wire(reply) # <<>>
    BY <1>4, WireStarts
  <2> HIDE DEF bufs
  <2> QED BY <1>8, <2>1, FlattenEmpty
<1>10. Head(bufs) # <<>>
  <2>1. \A i \in 1..Len(bufs) : bufs[i] # <<>>
    <3>1. CASE b = <<>>
      BY <1>2, <3>1
    <3>2. CASE b # <<>>
      BY <1>1, <1>2, <3>2, Appended
    <3> QED BY <3>1, <3>2
  <2> HIDE DEF bufs
  <2>2. 1 \in 1..Len(bufs) /\ Head(bufs) = bufs[1]
    BY <1>6, <1>9
  <2> QED BY <2>1, <2>2
<1> QED BY <1>4, <1>5, <1>6, <1>8, <1>9, <1>10 DEF b

LEMMA EndDelivers ==
  ASSUME Step, Delivered, NEW r \in Reqs, ReadEnds(r) PROVE Delivered'
<1>1. /\ r \in Alive /\ (FromRun(r) \/ FromSlot(r)) /\ intact /\ Rest /\ Hosted
  BY ExecutingIs DEF Step, Delivered, ReadEnds
<1>2. /\ ctx[r] \in Contexts /\ host[r] \in Hosts /\ HostOf(ctx[r], host[r])
      /\ ctx[r].read \in Seq(Bytes) /\ ctx[r].rbytes \in Bytes
  <2>1. /\ ctx[r] \in Contexts /\ host[r] \in Hosts /\ HostOf(ctx[r], host[r])
    BY <1>1, ContextIs DEF Hosted
  <2> QED BY <2>1, HostTypes
<1> DEFINE bufs   == IF ctx[r].rbytes = <<>> THEN ctx[r].read
                     ELSE Append(ctx[r].read, ctx[r].rbytes)
           memory == buf_caches > 0 \/ (ctx[r].rcurr /\ ctx[r].rbytes = <<>>)
           p      == http_parse(bufs, memory)
           q      == IF p.rc = 0 THEN ResponseFrame(r, p)
                     ELSE IF p.errcode \in {12, 15} THEN <<Error(r)>> ELSE <<>>
<1>3. IF p.rc = Crash THEN Crashes ELSE Finishes(r, q, FALSE, memory)
  BY Zenon DEF ReadEnds
<1>4. bufs \in Seq(Bytes) /\ memory \in BOOLEAN
  BY <1>2
<1>5. host[r].whole => \E e \in Reqs : /\ bufs # <<>> /\ Head(bufs) # <<>>
                                       /\ host[r].reply[1] \in RepliesTo(e)
                                       /\ FlattenSeq(bufs) = Wire(host[r].reply[1])
  <2>1. (host[r].st = "connected" /\ host[r].rx = <<>>) \/ host[r].st \in {"new", "dead"}
    BY DEF ReadEnds
  <2>2. host[r].st \in {"new", "dead"} => ~host[r].whole
    BY <1>1, CutShort
  <2> QED BY <1>2, <2>1, <2>2, AllIsRead
<1> HIDE DEF bufs, memory
<1>6. Outcome(p)
  BY <1>4, ParsedIs
<1>7. host[r].whole /\ memory => ParsedTo(p, Body(host[r].reply[1]))
  <2>1. ASSUME host[r].whole, memory PROVE ParsedTo(p, Body(host[r].reply[1]))
    <3>1. memory = TRUE
      BY <1>4, <2>1
    <3>2. PICK e \in Reqs : /\ bufs # <<>> /\ Head(bufs) # <<>>
                            /\ host[r].reply[1] \in RepliesTo(e)
                            /\ FlattenSeq(bufs) = Wire(host[r].reply[1])
      BY <1>5, <2>1
    <3>3. ParsedTo(http_parse(bufs, TRUE), Body(host[r].reply[1]))
      BY <1>4, <3>2, ParsedWhole
    <3> QED BY <3>1, <3>3
  <2> QED BY <2>1
<1> HIDE DEF p
<1>8. q = <<>> \/ Answer(r, q)
  BY <1>1, <1>6, ErrorAnswers, ResponseAnswers
<1>9. host[r].whole /\ memory =>
        \E o : Outcome(o) /\ ParsedTo(o, Body(host[r].reply[1])) /\ q = ResponseFrame(r, o)
  <2>1. p.rc = 0 => q = ResponseFrame(r, p)
    OBVIOUS
  <2>2. ASSUME host[r].whole, memory
        PROVE  \E o : /\ Outcome(o) /\ ParsedTo(o, Body(host[r].reply[1]))
                      /\ q = ResponseFrame(r, o)
    <3>1. ParsedTo(p, Body(host[r].reply[1]))
      BY <1>7, <2>2
    <3>2. p.rc = 0
      BY <3>1 DEF ParsedTo
    <3> QED BY <1>6, <2>1, <3>1, <3>2
  <2> QED BY <2>2
<1> HIDE DEF q
<1>10. CASE Crashes
  BY <1>10, CrashDelivers
<1>11. CASE Finishes(r, q, FALSE, memory)
  <2>1. FALSE \in BOOLEAN
    OBVIOUS
  <2>2. host[r].whole /\ memory /\ ~FALSE =>
          \E o : Outcome(o) /\ ParsedTo(o, Body(host[r].reply[1])) /\ q = ResponseFrame(r, o)
    BY <1>9
  <2> QED BY <1>1, <1>4, <1>8, <1>11, <2>1, <2>2, FinishDelivers
<1> QED BY <1>3, <1>10, <1>11

\* The websocket is lost, and the contexts with it: nothing is owed.
LEMMA ReleaseAllDelivers ==
  ASSUME Step, Delivered, NEW r \in Reqs, ReleaseAll(r) PROVE Delivered'
<1>1. /\ r \in Alive /\ Rest /\ intact /\ phase = "closing" /\ phase' = phase
      /\ http_context_release(r, <<>>, ctx[r].wcurr, FALSE)
  BY DEF Step, ReleaseAll, main
<1>2. ctx[r].wcurr \in BOOLEAN
  <2>1. ctx[r] \in Contexts
    BY <1>1, ContextIs
  <2> QED BY <2>1 DEF Contexts
<1>3. Hosted' /\ AnsweredWhole'
  <2> DEFINE q == <<>>
  <2>1. q = <<>> /\ FALSE \in BOOLEAN
    OBVIOUS
  <2>2. http_context_release(r, q, ctx[r].wcurr, FALSE)
    BY <1>1
  <2> HIDE DEF q
  <2> QED BY <1>1, <1>2, <2>1, <2>2, ReleaseDelivers
<1> QED BY <1>1, <1>3 DEF Delivered, Reported

LEMMA RunDelivers ==
  ASSUME Step, Delivered, Run \/ Reconnect \/ WebsocketLost \/ ServerAsks PROVE Delivered'
<1>1. /\ Rest /\ Hosted /\ Reported /\ AnsweredWhole /\ UNCHANGED <<ctx, host>>
      /\ UNCHANGED <<toserver, server, intact>> /\ phase' # "scan"
  BY DEF Step, Delivered, Run, Reconnect, WebsocketLost, ServerAsks, main, wire
<1>2. taken' \in Nat /\ taken <= taken'
  <2>1. taken' = taken \/ taken' = asked
    BY DEF Run, Reconnect, WebsocketLost, ServerAsks, wire
  <2> QED BY <1>1, <2>1, Sizes DEF Rest, ContextsOK
<1>3. Frames' = Frames /\ \A r \in Reqs : host'[r].st = "closed" => host'[r] = host[r]
  BY <1>1 DEF Frames
<1>4. Hosted' /\ AnsweredWhole'
  BY <1>1, <1>2, <1>3, HostedStays, AnsweredKept
<1> QED BY <1>1, <1>4 DEF Delivered, Reported

\* poll() tells of a hangup what the host's socket says.
LEMMA PolledHangs ==
  ASSUME TableOK, Rest, Hosted, NEW slot \in PT!Slot, slot < count_pollfds, NEW r \in Alive,
         slotFd[slot] = ctx[r].fd, Polled[slot] \cap {"POLLERR", "POLLHUP"} # {}
  PROVE  host[r].st \in {"new", "dead"}
<1>1. kind[ctx[r].fd] = "HTTP"
  BY DEF Rest, Owners
<1>2. OwnerOf(ctx[r].fd) = r
  <2>1. \A q \in Alive : ctx[q].fd = ctx[r].fd => q = r
    BY DEF Rest, Owners
  <2> QED BY <2>1 DEF OwnerOf
<1>3. Ready(slotFd[slot]) = HostReady(host[r])
  BY <1>1, <1>2 DEF Ready
<1>4. Polled[slot] \subseteq HostReady(host[r])
  <2>1. ~(slot >= count_pollfds)
    BY Sizes DEF TableOK, PT!TypeOK
  <2> QED BY <1>3, <2>1 DEF Polled
<1>5. host[r].st \in {"new", "connecting", "connected", "dead"}
  BY DEF Hosted, HostOf, Alive
<1>6. CASE host[r].st \in {"connecting", "connected"}
  <2>1. HostReady(host[r]) \cap {"POLLERR", "POLLHUP"} = {}
    BY <1>6 DEF HostReady
  <2> QED BY <1>4, <2>1
<1> QED BY <1>5, <1>6

LEMMA PollDelivers ==
  ASSUME Step, Delivered, Poll PROVE Delivered'
<1>1. /\ Rest /\ TableOK /\ TableOK' /\ Hosted /\ AnsweredWhole /\ revents' = Polled
      /\ ScanFrom(-1, Polled, count_pollfds)
      /\ UNCHANGED <<ctx, host, toserver, server, taken, intact, count_pollfds, slotFd>>
  BY DEF Step, Delivered, Poll, PollFrom, table, wire
<1>2. /\ taken' \in Nat /\ taken <= taken' /\ Frames' = Frames
      /\ \A r \in Reqs : host'[r].st = "closed" => host'[r] = host[r]
  BY <1>1, Sizes DEF Rest, ContextsOK, Frames
<1>3. Hosted' /\ AnsweredWhole'
  BY <1>1, <1>2, HostedStays, AnsweredKept
<1>4. ScanFrom(-1, revents', count_pollfds') /\ -1 \in PT!Slot \cup {-1}
  <2> HIDE DEF Polled
  <2> QED BY <1>1
<1>5. ASSUME NEW slot \in PT!Slot, NEW r \in Alive',
             -1 < slot /\ slot < count_pollfds' /\ slotFd'[slot] = ctx'[r].fd
               /\ revents'[slot] \cap {"POLLERR", "POLLHUP"} # {}
      PROVE  host'[r].st \in {"new", "dead"}
  <2>1. r \in Alive
    BY <1>1 DEF Alive
  <2>2. Polled[slot] \cap {"POLLERR", "POLLHUP"} # {}
    BY <1>1, <1>5, Zenon
  <2>3. slot < count_pollfds /\ slotFd[slot] = ctx[r].fd
    BY <1>1, <1>5
  <2> QED BY <1>1, <2>1, <2>2, <2>3, PolledHangs
<1>6. Reported'
  BY <1>1, <1>4, <1>5, ReportedOn
<1> QED BY <1>3, <1>6 DEF Delivered

LEMMA WriteableDelivers ==
  ASSUME Step, Delivered, Writeable PROVE Delivered'
<1> DEFINE rev == [revents EXCEPT ![1] = @ \ {"POLLOUT"}]
<1>1. /\ Rest /\ TableOK /\ TableOK' /\ Hosted /\ Reported /\ AnsweredWhole
      /\ phase = "scan" /\ scan = 1 /\ revents' = rev
      /\ revents \in [PT!Slot -> SUBSET Flags]
      /\ server' = Append(server, Head(toserver)) /\ toserver' = Tail(toserver)
      /\ UNCHANGED main \/ ScanFrom(1, rev, count_pollfds)
      /\ UNCHANGED <<ctx, host, taken, intact, count_pollfds, slotFd>>
  BY DEF Step, Delivered, Writeable, Rest, ScanOK, table
<1>2. Frames' = Frames
  <2>1. /\ toserver # <<>> /\ toserver \in Seq(Pieces) /\ server \in Seq(Pieces)
    BY <1>1 DEF Rest, Loop, ContextsOK, Writeable
  <2> DEFINE h == Head(toserver)
             t == Tail(toserver)
  <2>2. h \in Pieces /\ t \in Seq(Pieces) /\ toserver = <<h>> \o t
    BY <2>1, HeadTailProperties
  <2>3. Append(server, h) = server \o <<h>>
    BY <2>1, <2>2
  <2>4. <<h>> \in Seq(Pieces)
    BY <2>2
  <2> HIDE DEF h, t
  <2>5. (server \o <<h>>) \o t = server \o (<<h>> \o t)
    BY <2>1, <2>2, <2>4, ConcatAssociative
  <2>6. server' \o toserver' = Append(server, h) \o t
    BY <1>1 DEF h, t
  <2> QED BY <2>2, <2>3, <2>5, <2>6 DEF Frames
<1>3. /\ taken' \in Nat /\ taken <= taken'
      /\ \A r \in Reqs : host'[r].st = "closed" => host'[r] = host[r]
  BY <1>1, Sizes DEF Rest, ContextsOK
<1>4. Hosted' /\ AnsweredWhole'
  BY <1>1, <1>2, <1>3, HostedStays, AnsweredKept
<1>5. \A slot \in PT!Slot : revents'[slot] \subseteq revents[slot]
  BY <1>1
<1>6. \A slot \in PT!Slot : HangsUpAt(slot)' => HangsUpAt(slot)
  BY <1>5 DEF HangsUpAt
<1>7. Alive' = Alive
  BY <1>1 DEF Alive
<1>8. Reported'
  <2>1. CASE UNCHANGED main
    <3>1. phase' = "scan" /\ scan' = scan
      BY <1>1, <2>1 DEF main
    <3> QED BY <1>1, <1>6, <1>7, <3>1 DEF Reported
  <2>2. CASE ScanFrom(1, rev, count_pollfds)
    <3>1. ScanFrom(1, revents', count_pollfds') /\ 1 \in PT!Slot \cup {-1}
      <4> HIDE DEF rev
      <4> QED BY <1>1, <2>2, Sizes
    <3>2. ASSUME NEW slot \in PT!Slot, NEW r \in Alive',
                 1 < slot /\ slot < count_pollfds' /\ slotFd'[slot] = ctx'[r].fd
                   /\ revents'[slot] \cap {"POLLERR", "POLLHUP"} # {}
          PROVE  host'[r].st \in {"new", "dead"}
      <4>1. scan <= slot /\ slot < count_pollfds /\ slotFd[slot] = ctx[r].fd
        BY <1>1, <3>2, Sizes
      <4>2. HangsUpAt(slot)
        BY <1>5, <3>2 DEF HangsUpAt
      <4> QED BY <1>1, <1>7, <3>2, <4>1, <4>2 DEF Reported
    <3> QED BY <1>1, <3>1, <3>2, ReportedOn
  <2> QED BY <1>1, <2>1, <2>2
<1> QED BY <1>4, <1>8 DEF Delivered

LEMMA RefusedDelivers ==
  ASSUME Step, Delivered, RequestDropped \/ NoContextLeft \/ SocketFails PROVE Delivered'
<1>1. /\ Rest /\ TableOK' /\ Hosted /\ Reported /\ AnsweredWhole /\ phase = "scan"
      /\ taken' = taken + 1 /\ ServiceDone(revents)
      /\ revents \in [PT!Slot -> SUBSET Flags]
      /\ UNCHANGED <<ctx, host, toserver, server, intact, count_pollfds, slotFd>>
  BY DEF Step, Delivered, Rest, ScanOK, RequestDropped, NoContextLeft, SocketFails, Receive, table
<1>2. taken' \in Nat /\ taken <= taken' /\ Frames' = Frames
      /\ \A r \in Reqs : host'[r].st = "closed" => host'[r] = host[r]
  BY <1>1, Sizes DEF Rest, ContextsOK, Frames
<1>3. Hosted' /\ AnsweredWhole'
  BY <1>1, <1>2, HostedStays, AnsweredKept
<1>4. ASSUME NEW slot \in PT!Slot, NEW r \in Alive',
             scan < slot /\ slot < count_pollfds' /\ slotFd'[slot] = ctx'[r].fd
               /\ revents[slot] \cap {"POLLERR", "POLLHUP"} # {}
      PROVE  host'[r].st \in {"new", "dead"}
  <2>1. r \in Alive /\ HangsUpAt(slot)
    BY <1>1, <1>4 DEF Alive, HangsUpAt
  <2>2. scan <= slot
    BY <1>1, <1>4, Sizes DEF Rest, ScanOK
  <2> QED BY <1>1, <1>4, <2>1, <2>2 DEF Reported
<1>5. Reported'
  BY <1>1, <1>4, ReportedNext
<1> QED BY <1>3, <1>5 DEF Delivered

LEMMA CreateDelivers ==
  ASSUME Step, Delivered, http_context_create PROVE Delivered'
<1> DEFINE r == taken + 1
           fd == LowestFree
           c == [NoContext EXCEPT !.alive = TRUE, !.fd = fd, !.write = RequestBufs]
           n == count_pollfds
           rev == [revents EXCEPT ![n] = {}]
           k == [host[r] EXCEPT !.st = "new"]
<1>1. /\ Rest /\ TableOK /\ TableOK' /\ Hosted /\ Reported /\ AnsweredWhole /\ phase = "scan"
      /\ PT!ContextOpen(fd, "HTTP")
      /\ ctx' = [ctx EXCEPT ![r] = c] /\ host' = [host EXCEPT ![r].st = "new"]
      /\ taken' = r /\ UNCHANGED <<toserver, server, intact>> /\ ServiceDone(rev)
  BY DEF Step, Delivered, http_context_create, Receive
<1>2. /\ scan \in PT!Slot /\ revents \in [PT!Slot -> SUBSET Flags]
      /\ ctx \in [Reqs -> Contexts] /\ host \in [Reqs -> Hosts] /\ taken \in Nat
      /\ asked \in 0..Requests /\ taken < asked /\ n \in 0..MaxFds /\ n \in Nat
      /\ slotFd \in [PT!Slot -> PT!Fd \cup {PT!Uninit}]
  <2>1. revents[1] = {"POLLIN"}
    BY DEF http_context_create, Receive
  <2> HIDE DEF r, fd, c, rev, k
  <2>2. /\ scan \in PT!Slot /\ revents \in [PT!Slot -> SUBSET Flags]
        /\ ctx \in [Reqs -> Contexts] /\ host \in [Reqs -> Hosts]
        /\ asked \in 0..Requests /\ taken \in 0..asked
    BY <1>1 DEF Rest, ScanOK, ContextsOK
  <2>3. taken < asked
    BY <1>1, <2>1 DEF Rest, Loop
  <2>4. n \in 0..MaxFds /\ slotFd \in [PT!Slot -> PT!Fd \cup {PT!Uninit}]
    BY <1>1 DEF TableOK, PT!TypeOK
  <2> HIDE DEF n
  <2> QED BY <2>2, <2>3, <2>4, Sizes
<1>3. r \in Reqs /\ r > taken /\ taken <= r
  BY <1>2, Sizes
<1>4. host[r].st = "none" /\ HostOf(ctx[r], host[r])
  BY <1>1, <1>3 DEF Hosted
<1>5. ctx[r] = NoContext
  <2>1. r \notin Alive
    <3>1. ~(r <= taken)
      BY <1>2
    <3> QED BY <1>1, <3>1 DEF Rest, Owners
  <2> QED BY <1>1, <1>3, <2>1 DEF Rest, Owners, Alive
<1>6. host' = [host EXCEPT ![r] = k]
  BY <1>1, <1>2, <1>3
<1>7. /\ k.st = "new" /\ k.reply = host[r].reply /\ k.left = host[r].left /\ k.rx = host[r].rx
      /\ k.fin = host[r].fin /\ k.whole = host[r].whole
  BY <1>2, <1>3 DEF Hosts
<1>8. c.read = NoContext.read /\ c.rbytes = NoContext.rbytes
  BY DEF NoContext
<1>9. rev \in [PT!Slot -> SUBSET Flags] /\ \A slot \in PT!Slot : rev[slot] \subseteq revents[slot]
  BY <1>2
<1>10. n \in PT!Slot => rev[n] = {}
  BY <1>2
<1>11. /\ count_pollfds' = n + 1 /\ slotFd' = [slotFd EXCEPT ![n] = fd]
  BY <1>1 DEF PT!ContextOpen, PT!mgmt_add_fd
<1> HIDE DEF c, k, rev, fd
<1>12. HostOf(c, k)
  BY <1>4, <1>5, <1>7, <1>8, HostOfSame
<1>13. Hosted'
  <2>1. taken' \in Nat /\ taken <= taken' /\ r <= taken'
    BY <1>1, <1>2
  <2> QED BY <1>1, <1>3, <1>6, <1>12, <2>1, HostedChanges
<1>14. AnsweredWhole'
  <2>1. \A q \in Reqs : host'[q].st = "closed" => host'[q] = host[q]
    BY <1>2, <1>6, <1>7
  <2>2. Frames' = Frames
    BY <1>1 DEF Frames
  <2> QED BY <1>1, <2>1, <2>2, AnsweredKept
<1>15. ASSUME NEW slot \in PT!Slot, NEW q \in Alive',
             scan < slot /\ slot < count_pollfds' /\ slotFd'[slot] = ctx'[q].fd
               /\ rev[slot] \cap {"POLLERR", "POLLHUP"} # {}
      PROVE  host'[q].st \in {"new", "dead"}
  <2>1. CASE q = r
    BY <1>2, <1>3, <1>6, <1>7, <2>1
  <2>2. CASE q # r
    <3>1. q \in Reqs /\ ctx'[q] = ctx[q] /\ host'[q] = host[q] /\ q \in Alive
      BY <1>1, <1>2, <1>15, <2>2 DEF Alive
    <3>2. slot # n
      BY <1>10, <1>15
    <3>3. slot < n /\ scan <= slot
      BY <1>2, <1>11, <1>15, <3>2, Sizes
    <3>4. slotFd[slot] = ctx[q].fd
      BY <1>2, <1>11, <1>15, <3>1, <3>2
    <3>5. HangsUpAt(slot)
      BY <1>9, <1>15 DEF HangsUpAt
    <3> QED BY <1>1, <3>1, <3>3, <3>4, <3>5 DEF Reported
  <2> QED BY <2>1, <2>2
<1>16. Reported'
  BY <1>1, <1>9, <1>15, ReportedNext
<1> QED BY <1>13, <1>14, <1>16 DEF Delivered

\* The kernel or a host changes one connection.
LEMMA KernelDelivers ==
  ASSUME Step, Delivered, NEW r \in Reqs, host[r].st \in {"connecting", "connected"},
         NEW k, k.st # "closed", HostOf(ctx[r], k), NEW n, Kernel(r, k, n)
  PROVE  Delivered'
<1>1. /\ Rest /\ Hosted /\ Reported /\ AnsweredWhole /\ host' = [host EXCEPT ![r] = k]
      /\ UNCHANGED <<table, revents, main, ctx, toserver, server, taken, intact>>
  BY DEF Step, Delivered, Kernel
<1>2. /\ host \in [Reqs -> Hosts] /\ ctx \in [Reqs -> Contexts] /\ taken \in Nat /\ r \in Nat
      /\ taken <= taken
  BY <1>1, Sizes DEF Rest, ContextsOK
<1>3. Hosted'
  <2>1. r <= taken
    <3>1. ~(r > taken)
      BY <1>1 DEF Hosted
    <3> QED BY <1>2, <3>1
  <2>2. ctx' = [ctx EXCEPT ![r] = ctx[r]]
    BY <1>1, <1>2
  <2> QED BY <1>1, <1>2, <2>1, <2>2, HostedChanges
<1>4. AnsweredWhole'
  <2>1. Frames' = Frames /\ \A q \in Reqs : host'[q].st = "closed" => host'[q] = host[q]
    BY <1>1, <1>2 DEF Frames
  <2> QED BY <1>1, <2>1, AnsweredKept
<1>5. Reported'
  <2>1. UNCHANGED <<count_pollfds, slotFd, revents, phase, scan, ctx>>
    BY <1>1 DEF table, main
  <2>2. \A q \in Reqs : host[q].st \in {"new", "dead"} => host'[q] = host[q]
    BY <1>1, <1>2
  <2>3. Alive' = Alive /\ Alive \subseteq Reqs
    BY <2>1 DEF Alive
  <2> QED BY <1>1, <2>1, <2>2, <2>3 DEF Reported, HangsUpAt
<1> QED BY <1>3, <1>4, <1>5 DEF Delivered

LEMMA HostDelivers ==
  ASSUME Step, Delivered, NEW r \in Reqs, LanHost(r) \/ RefusedOrReset(r) \/ HostGivesUp(r)
  PROVE  Delivered'
<1> DEFINE c == ctx[r]
           h == host[r]
<1>1. c \in Contexts /\ h \in Hosts /\ HostOf(c, h)
  BY DEF Step, Delivered, Rest, ContextsOK, Hosted
<1>2. ASSUME NEW k, NEW n, Kernel(r, k, n), h.st \in {"connecting", "connected"},
             k.st # "closed", HostOf(c, k)
      PROVE  Delivered'
  BY <1>2, KernelDelivers
<1>3. CASE Established(r)
  <2> DEFINE k == [h EXCEPT !.st = "connected"]
  <2>1. h.st = "connecting" /\ Kernel(r, k, 0)
    BY <1>3 DEF Established
  <2>2. /\ k.st = "connected" /\ k.reply = h.reply /\ k.left = h.left /\ k.rx = h.rx
        /\ k.fin = h.fin /\ k.whole = h.whole
    BY <1>1 DEF Hosts
  <2> HIDE DEF k, c, h
  <2>3. HostOf(c, k)
    BY <1>1, <2>1, <2>2, HostOfSame
  <2> QED BY <1>2, <2>1, <2>2, <2>3
<1>4. CASE RefusedOrReset(r)
  <2> DEFINE k == [h EXCEPT !.st = "dead", !.whole = FALSE]
  <2>1. h.st \in {"connecting", "connected"} /\ Kernel(r, k, 1)
    BY <1>4 DEF RefusedOrReset
  <2>2. k.st = "dead" /\ k.whole = FALSE
    BY <1>1 DEF Hosts
  <2> HIDE DEF k, c, h
  <2>3. HostOf(c, k)
    BY <1>1, <2>2 DEF HostOf
  <2> QED BY <1>2, <2>1, <2>2, <2>3
<1>5. CASE HostReads(r)
  <2> DEFINE k == [h EXCEPT !.full = FALSE]
  <2>1. h.st = "connected" /\ Kernel(r, k, 0)
    BY <1>5 DEF HostReads
  <2>2. /\ k.st = h.st /\ k.reply = h.reply /\ k.left = h.left /\ k.rx = h.rx
        /\ k.fin = h.fin /\ k.whole = h.whole
    BY <1>1 DEF Hosts
  <2> HIDE DEF k, c, h
  <2>3. HostOf(c, k)
    BY <1>1, <2>1, <2>2, HostOfSame
  <2> QED BY <1>2, <2>1, <2>2, <2>3
<1>6. CASE HostReplies(r)
  <2>1. PICK reply \in RepliesTo(r) :
           Kernel(r, [h EXCEPT !.reply = <<reply>>, !.left = Wire(reply)], 0)
    BY <1>6 DEF HostReplies
  <2>2. h.st = "connected" /\ h.reply = <<>>
    BY <1>6 DEF HostReplies
  <2> DEFINE k == [h EXCEPT !.reply = <<reply>>, !.left = Wire(reply)]
  <2>3. k.st = h.st
    BY <1>1 DEF Hosts
  <2>4. Kernel(r, k, 0)
    BY <2>1
  <2>5. k = [h EXCEPT !.reply = <<reply>>, !.left = Wire(reply)]
    OBVIOUS
  <2> HIDE DEF k, c, h
  <2>6. HostOf(c, k)
    BY <1>1, <2>2, <2>5, HostOfHost
  <2> QED BY <1>2, <2>2, <2>3, <2>4, <2>6
<1>7. CASE HostSends(r)
  <2> DEFINE left == h.left
             n    == IF Len(left) < Segment THEN Len(left) ELSE Segment
             sent == h.rx \o SubSeq(left, 1, n)
             rest == SubSeq(left, n + 1, Len(left))
             k    == [h EXCEPT !.rx = sent, !.left = rest]
  <2>1. Kernel(r, k, 0) /\ h.st = "connected" /\ left # <<>>
    <3> HIDE DEF n
    <3> QED BY <1>7 DEF HostSends, n
  <2>2. left \in Seq(Int)
    BY <1>1 DEF Hosts, Bytes
  <2>3. n \in 0..Len(left)
    <3> DEFINE l == Len(left)
    <3>1. l \in Nat /\ Segment \in Nat
      BY <2>2, ConstantsAssumption
    <3> HIDE DEF l
    <3>2. (IF l < Segment THEN l ELSE Segment) \in 0..l
      BY <3>1
    <3> QED BY <3>2 DEF l
  <2> HIDE DEF n
  <2>4. k.st = h.st
    BY <1>1 DEF Hosts
  <2>5. k = [h EXCEPT !.rx = h.rx \o SubSeq(h.left, 1, n),
                      !.left = SubSeq(h.left, n + 1, Len(h.left))]
    OBVIOUS
  <2>6. n \in 0..Len(h.left) /\ h.left # <<>>
    BY <2>1, <2>3
  <2> HIDE DEF k, c, h
  <2>7. HostOf(c, k)
    BY <1>1, <2>1, <2>5, <2>6, HostOfHost
  <2> QED BY <1>2, <2>1, <2>4, <2>7
<1>8. CASE HostCloses(r)
  <2> DEFINE k == [h EXCEPT !.fin = TRUE, !.whole = TRUE]
  <2>1. /\ h.st = "connected" /\ Kernel(r, k, 0) /\ ~h.fin /\ h.reply # <<>> /\ h.left = <<>>
    BY <1>8 DEF HostCloses
  <2>2. k.st = h.st /\ k = [h EXCEPT !.fin = TRUE, !.whole = TRUE]
    BY <1>1 DEF Hosts
  <2> HIDE DEF k, c, h
  <2>3. HostOf(c, k)
    BY <1>1, <2>1, <2>2, HostOfHost
  <2> QED BY <1>2, <2>1, <2>2, <2>3
<1>9. CASE HostGivesUp(r)
  <2> DEFINE k == [h EXCEPT !.fin = TRUE, !.left = <<>>]
  <2>1. h.st = "connected" /\ Kernel(r, k, 1) /\ ~h.fin /\ h.left # <<>>
    BY <1>9 DEF HostGivesUp
  <2>2. k.st = h.st /\ k = [h EXCEPT !.fin = TRUE, !.left = <<>>]
    BY <1>1 DEF Hosts
  <2> HIDE DEF k, c, h
  <2>3. HostOf(c, k)
    BY <1>1, <2>1, <2>2, HostOfHost
  <2> QED BY <1>2, <2>1, <2>2, <2>3
<1> QED BY <1>3, <1>4, <1>5, <1>6, <1>7, <1>8, <1>9 DEF LanHost

LEMMA InitDelivered ==
  ASSUME Init PROVE Delivered
<1>1. /\ phase = "reconn" /\ ctx = [r \in Reqs |-> NoContext] /\ host = [r \in Reqs |-> NoHost]
  BY DEF Init
<1>2. HostOf(NoContext, NoHost)
  <2>1. Len(NoContext.read) = 0
    BY DEF NoContext
  <2>2. Held(NoContext, NoHost) = <<>>
    <3>1. Held(NoContext, NoHost) = FlattenSeq(<<>>) \o <<>> \o <<>> \o <<>>
      BY Zenon DEF Held, NoContext, NoHost
    <3>2. <<>> \o <<>> = <<>>
      OBVIOUS
    <3> QED BY <3>1, <3>2, FlattenEmpty
  <2>3. Said(NoHost) = <<>>
    BY DEF Said, NoHost
  <2>4. ~NoContext.alive /\ ~NoHost.whole
    BY DEF NoContext, NoHost
  <2> QED BY <2>1, <2>2, <2>3, <2>4 DEF HostOf
<1>3. NoHost.st = "none"
  BY DEF NoHost
<1>4. Hosted
  BY <1>1, <1>2, <1>3 DEF Hosted
<1>5. Reported
  BY <1>1 DEF Reported
<1>6. AnsweredWhole
  BY <1>1, <1>3, AnsweredIs
<1> QED BY <1>4, <1>5, <1>6 DEF Delivered

LEMMA NextIsStep ==
  ASSUME IInv, IInv', [Next]_vars
  PROVE  Step
<1>1. TableOK /\ Rest /\ PTP!IndInv
  BY TableFacts DEF IInv
<1>2. [PT!Next]_(PT!vars)
  BY <1>1, StepTable
<1>3. TableOK'
  <2>1. (PTP!IndInv => TableOK)'
    BY TableFacts, PTL
  <2> QED BY <2>1 DEF IInv
<1> QED BY <1>1, <1>2, <1>3 DEF Step

LEMMA NextDelivered ==
  ASSUME IInv, IInv', Delivered, [Next]_vars
  PROVE  Delivered'
<1>1. Step
  BY NextIsStep
<1>2. CASE Run \/ Poll \/ Writeable \/ Reconnect \/ WebsocketLost \/ ServerAsks
  BY <1>1, <1>2, RunDelivers, PollDelivers, WriteableDelivers
<1>3. CASE RequestDropped \/ NoContextLeft \/ SocketFails \/ http_context_create
  BY <1>1, <1>3, RefusedDelivers, CreateDelivers
<1>4. ASSUME NEW r \in Reqs, Executes(r) PROVE Delivered'
  <2>1. CASE ConnectDone(r) \/ ConnectPending(r)
    BY <1>1, <2>1, CarriesDelivers
  <2>2. CASE ConnectFails(r) \/ WriteFails(r)
    BY <1>1, <2>2, FailsDelivers
  <2>3. CASE \/ WriteAll(r) \/ WriteAgain(r) \/ ReadAgain(r)
             \/ \E bufs \in 0..(RequestBufs - 1), part \in BOOLEAN : WriteSome(r, bufs, part)
    BY <1>1, <2>3, CarriesDelivers
  <2>4. CASE ReadSome(r)
    BY <1>1, <2>4, ReadSomeDelivers
  <2>5. CASE ReadEnds(r)
    BY <1>1, <2>5, EndDelivers
  <2>6. CASE ReadCrashes(r)
    BY <1>1, <2>6, CrashDelivers DEF ReadCrashes
  <2> QED BY <1>4, <2>1, <2>2, <2>3, <2>4, <2>5, <2>6 DEF Executes
<1>5. ASSUME NEW r \in Reqs, HangsUp(r) \/ ReleaseAll(r) PROVE Delivered'
  BY <1>1, <1>5, HangupDelivers, ReleaseAllDelivers
<1>6. ASSUME NEW r \in Reqs, LanHost(r) \/ RefusedOrReset(r) \/ HostGivesUp(r)
      PROVE  Delivered'
  BY <1>1, <1>6, HostDelivers
<1>7. CASE Undefined \/ UNCHANGED vars
  <2>1. /\ Rest /\ Hosted /\ Reported /\ AnsweredWhole
        /\ UNCHANGED <<table, revents, main, ctx, host, toserver, server, taken, intact>>
    BY <1>1, <1>7 DEF Step, Delivered, Undefined, vars, wire
  <2>2. taken' \in Nat /\ taken <= taken' /\ Frames' = Frames
        /\ \A r \in Reqs : host'[r].st = "closed" => host'[r] = host[r]
    BY <2>1, Sizes DEF Rest, ContextsOK, Frames
  <2>3. Hosted' /\ AnsweredWhole'
    BY <2>1, <2>2, HostedStays, AnsweredKept
  <2>4. Reported'
    BY <2>1, ReportedStays
  <2> QED BY <2>3, <2>4 DEF Delivered
<1> QED BY <1>2, <1>3, <1>4, <1>5, <1>6, <1>7 DEF Next, Client

-----------------------------------------------------------------------------
(* What http_parse keeps stays behind what it reads.                       *)

\* What the finished buffers and last_buf take up.
Space(s) == Len(s.plist) * BufSize + Len(s.last)

\* With m the bytes that the buffers read have room for: what is kept ends before
\* the place where the automaton reads, and once a size line was read, at least
\* one byte before.
Behind(s, m) ==
    /\ s.rc = 0 => Len(s.plist) * BufSize < m + BufSize
    /\ s.rc = 1 =>
         /\ s.buf \in Buffer /\ s.rest \in Seq(Buffer)
         /\ Space(s) + (Len(s.rest) + 1) * BufSize + (IF s.state = "begin" THEN 0 ELSE 1)
              <= m + s.offset

LEMMA Times ==
  ASSUME NEW a \in Nat, NEW b \in Nat
  PROVE  /\ a * BufSize \in Nat /\ (a + b) * BufSize = a * BufSize + b * BufSize
         /\ a * BufSize < b * BufSize + BufSize => a <= b
<1>1. PICK n \in Nat \ {0} : n = BufSize
  BY ParseAssumption
<1>2. a * n \in Nat /\ (a + b) * n = a * n + b * n
  OBVIOUS
<1>3. a * n < b * n + n => a <= b
  <2>1. ASSUME a > b PROVE a * n >= b * n + n
    <3>1. PICK d \in Nat : a = (b + 1) + d
      <4>1. a - (b + 1) \in Nat /\ a = (b + 1) + (a - (b + 1))
        BY <2>1
      <4> QED BY <4>1
    <3>2. a * n = (b + 1) * n + d * n /\ (b + 1) * n = b * n + n /\ d * n \in Nat /\ b * n \in Nat
      BY <3>1
    <3> QED BY <3>2
  <2>2. a * n \in Nat /\ b * n \in Nat
    OBVIOUS
  <2> DEFINE x == a * n
             y == b * n
  <2>3. x \in Nat /\ y \in Nat /\ (a > b => x >= y + n)
    BY <2>1, <2>2
  <2> HIDE DEF x, y
  <2>4. x < y + n => a <= b
    BY <2>3
  <2> QED BY <2>4 DEF x, y
<1> QED BY <1>1, <1>2, <1>3

LEMMA TimesNext ==
  ASSUME NEW a \in Nat
  PROVE  (a + 1) * BufSize = a * BufSize + BufSize /\ a * BufSize \in Nat
<1>1. (a + 1) * BufSize = a * BufSize + 1 * BufSize /\ a * BufSize \in Nat
  BY Times
<1> QED BY <1>1, ParseAssumption

LEMMA SpaceType ==
  ASSUME NEW s, Parsing(s)
  PROVE  /\ Space(s) = Len(s.plist) * BufSize + Len(s.last) /\ Space(s) \in Nat
         /\ Len(s.plist) * BufSize \in Nat /\ Len(s.last) \in Nat /\ Len(s.plist) \in Nat
<1>1. Len(s.plist) \in Nat /\ Len(s.last) \in Nat
  BY DEF Parsing, ParseState, Bytes
<1>2. Len(s.plist) * BufSize \in Nat
  BY <1>1, Times
<1> QED BY <1>1, <1>2 DEF Space

LEMMA NextBufferBehind ==
  ASSUME NEW s, Parsing(s), NEW e \in {-1, Crash}, NEW m \in Nat, s.rc = 1, Behind(s, m)
  PROVE  Behind(NextBuffer(s, e), m)
<1> DEFINE t == NextBuffer(s, e)
<1>1. s \in ParseState /\ e # 0 /\ e # 1 /\ Space(s) \in Nat
  <2>1. s \in ParseState /\ e # 0 /\ e # 1
    BY DEF Parsing, Crash
  <2> QED BY <2>1, SpaceType
<1>2. CASE s.rest = <<>>
  <2>1. t = [s EXCEPT !.rc = e]
    BY <1>2 DEF NextBuffer
  <2>2. t.rc = e
    BY <1>1, <2>1 DEF ParseState
  <2> HIDE DEF t
  <2> QED BY <1>1, <2>2 DEF Behind, t
<1>3. CASE s.rest # <<>>
  <2> DEFINE b == Head(s.rest)
             r == Tail(s.rest)
             k == Len(r)
  <2>1. t = [s EXCEPT !.buf = b, !.rest = r, !.offset = 0]
    BY <1>3 DEF NextBuffer
  <2>2. /\ s.buf \in Buffer /\ s.rest \in Seq(Buffer)
        /\ Space(s) + (Len(s.rest) + 1) * BufSize + (IF s.state = "begin" THEN 0 ELSE 1)
             <= m + s.offset
    BY DEF Behind
  <2>3. b \in Buffer /\ r \in Seq(Buffer) /\ Len(s.rest) = k + 1 /\ k \in Nat
    BY <1>3, <2>2, HeadTailProperties
  <2>4. s.offset \in Nat /\ s.offset <= BufSize /\ BufSize \in Nat
    <3>1. Len(s.buf) <= BufSize /\ Len(s.buf) \in Nat /\ BufSize \in Nat
      BY <2>2, ParseAssumption DEF Buffer, Bytes
    <3> QED BY <3>1 DEF Parsing, ParseState
  <2>5. ((k + 1) + 1) * BufSize = (k + 1) * BufSize + BufSize /\ (k + 1) * BufSize \in Nat
    <3>1. k + 1 \in Nat
      BY <2>3
    <3> HIDE DEF k
    <3> QED BY <3>1, TimesNext
  <2> HIDE DEF b, r, k, t
  <2>6. /\ t.buf = b /\ t.offset = 0 /\ t.rest = r /\ t.plist = s.plist /\ t.last = s.last
        /\ t.rc = 1 /\ t.state = s.state
    BY <1>1, <2>1 DEF ParseState
  <2> DEFINE x == (k + 1) * BufSize
             g == IF s.state = "begin" THEN 0 ELSE 1
  <2>7. Space(s) + (x + BufSize) + g <= m + s.offset /\ x \in Nat /\ g \in Nat
    BY <2>2, <2>3, <2>5
  <2>8. (Len(t.rest) + 1) * BufSize = x
    BY <2>6 DEF k
  <2> HIDE DEF x, g
  <2>9. Space(s) + x + g <= m + 0
    BY <1>1, <2>4, <2>7
  <2>10. Space(t) + x + g <= m + t.offset
    BY <2>6, <2>9 DEF Space
  <2> QED BY <2>3, <2>6, <2>8, <2>10 DEF Behind, g, t
<1> QED BY <1>2, <1>3

\* A turn that copies nothing only goes on in the buffer.
LEMMA GoesOnBehind ==
  ASSUME NEW s, Parsing(s), s.rc = 1, NEW m \in Nat, Behind(s, m), NEW t, t.rc # 0,
         t.buf = s.buf, t.rest = s.rest, t.plist = s.plist, t.last = s.last,
         t.offset \in Nat, s.offset <= t.offset,
         t.state = "begin" \/ s.state # "begin" \/ s.offset < t.offset
  PROVE  Behind(t, m)
<1> DEFINE x == (Len(s.rest) + 1) * BufSize
           g == IF s.state = "begin" THEN 0 ELSE 1
           h == IF t.state = "begin" THEN 0 ELSE 1
           o == s.offset
           p == t.offset
<1>1. /\ Space(s) + x + g <= m + o /\ s.buf \in Buffer /\ s.rest \in Seq(Buffer)
  BY DEF Behind
<1>2. x \in Nat /\ Space(s) \in Nat /\ Space(t) = Space(s) /\ o \in Nat
  <2>1. Len(s.rest) + 1 \in Nat
    BY <1>1
  <2> QED BY <2>1, Times, SpaceType DEF Space, Parsing, ParseState
<1>3. g \in {0, 1} /\ h \in {0, 1} /\ (h = 0 \/ g = 1 \/ o < p) /\ p \in Nat /\ o <= p
  OBVIOUS
<1>4. x = (Len(t.rest) + 1) * BufSize
  OBVIOUS
<1> HIDE DEF x, g, o, p
<1>5. Space(t) + x + h <= m + p
  <2> HIDE DEF h
  <2> QED BY <1>1, <1>2, <1>3
<1> QED BY <1>1, <1>4, <1>5 DEF Behind, p

LEMMA BeginBehind ==
  ASSUME NEW s, Parsing(s), s.rc = 1, s.state = "begin", NEW m \in Nat, Behind(s, m)
  PROVE  Behind(ChunkBegin(s), m)
<1> DEFINE i    == EndOf(s)
           line == s.chunk_str \o SubSeq(s.buf, s.offset + 1, i)
           t    == ChunkBegin(s)
<1>1. t = IF Len(line) >= ChunkMax THEN [s EXCEPT !.rc = -1, !.errcode = 12]
          ELSE IF i = Len(s.buf)   THEN NextBuffer([s EXCEPT !.chunk_str = line], -1)
          ELSE [s EXCEPT !.chunk_str = line, !.offset = i + 1, !.state = "lrln"]
  BY DEF ChunkBegin, EndOf, CrsOf
<1>2. i \in s.offset..Len(s.buf) /\ SubSeq(s.buf, s.offset + 1, i) \in Bytes
  BY FirstCR
<1> HIDE DEF i
<1>3. /\ s \in ParseState /\ s.offset \in Nat /\ Len(s.buf) \in Nat /\ s.chunk_str \in Bytes
  BY DEF Parsing, ParseState, Bytes
<1>4. line \in Bytes
  BY <1>2, <1>3, ConcatProperties DEF Bytes
<1> HIDE DEF line, t
<1>5. CASE Len(line) >= ChunkMax
  <2>1. t = [s EXCEPT !.rc = -1, !.errcode = 12]
    BY <1>1, <1>5
  <2>2. t.rc = -1
    BY <1>3, <2>1 DEF ParseState
  <2> QED BY <2>2 DEF Behind, t
<1>6. CASE ~(Len(line) >= ChunkMax) /\ i = Len(s.buf)
  <2> DEFINE u == [s EXCEPT !.chunk_str = line]
  <2>1. t = NextBuffer(u, -1)
    BY <1>1, <1>6
  <2>2. u \in ParseState
    BY <1>3, <1>4 DEF ParseState, Bytes
  <2>3. /\ u.buf = s.buf /\ u.offset = s.offset /\ u.state = s.state /\ u.j = s.j
        /\ u.chunk_size = s.chunk_size /\ u.plist = s.plist /\ u.last = s.last
        /\ u.new_total = s.new_total /\ u.rc = s.rc /\ u.rest = s.rest
    BY <1>3 DEF ParseState
  <2> HIDE DEF u
  <2>4. Parsing(u)
    BY <2>2, <2>3 DEF Parsing
  <2>5. Behind(u, m)
    BY <2>3 DEF Behind, Space
  <2> QED BY <2>1, <2>3, <2>4, <2>5, NextBufferBehind DEF t
<1>7. CASE ~(Len(line) >= ChunkMax) /\ i # Len(s.buf)
  <2>1. t = [s EXCEPT !.chunk_str = line, !.offset = i + 1, !.state = "lrln"]
    BY <1>1, <1>7
  <2>2. i + 1 \in Nat /\ s.offset <= i + 1 /\ s.offset < i + 1
    BY <1>2, <1>3
  <2>3. /\ t.buf = s.buf /\ t.offset = i + 1 /\ t.rest = s.rest
        /\ t.plist = s.plist /\ t.last = s.last /\ t.rc # 0
    BY <1>3, <2>1 DEF ParseState
  <2> QED BY <2>2, <2>3, GoesOnBehind DEF t
<1> QED BY <1>5, <1>6, <1>7 DEF t

LEMMA LrlnBehind ==
  ASSUME NEW s, Parsing(s), s.rc = 1, s.state = "lrln", NEW m \in Nat, Behind(s, m)
  PROVE  Behind(ChunkLrln(s), m)
<1> DEFINE t == [s EXCEPT !.offset = @ + 1, !.j = 0]
           u == ChunkLrln(s)
           n == Len(s.buf)
<1>1. /\ s \in ParseState /\ s.offset \in Nat /\ n \in Nat /\ s.offset <= n
      /\ s.plist \in Seq(Bytes) /\ s.last \in Bytes
  BY DEF Parsing, ParseState, Bytes
<1>2. CASE s.offset = n
  <2>1. u = NextBuffer(s, -1)
    BY <1>2 DEF ChunkLrln
  <2> QED BY <2>1, NextBufferBehind
<1>3. CASE s.offset # n /\ s.buf[s.offset + 1] # LF
  <2>1. u = [s EXCEPT !.rc = -1]
    BY <1>3 DEF ChunkLrln
  <2> HIDE DEF u
  <2>2. u.rc = -1
    BY <1>1, <2>1 DEF ParseState
  <2> QED BY <2>2 DEF Behind, u
<1>4. CASE s.offset # n /\ s.buf[s.offset + 1] = LF
  <2>1. u = IF t.chunk_str = <<>> THEN [t EXCEPT !.state = "begin"]
            ELSE IF Size(t.chunk_str) = 0 THEN ChunkLast(t)
            ELSE [t EXCEPT !.state = "get_size", !.chunk_size = Size(t.chunk_str)]
    BY <1>4 DEF ChunkLrln
  <2>2. DOMAIN t = DOMAIN s
    OBVIOUS
  <2>3. /\ t.buf = s.buf /\ t.offset = s.offset + 1 /\ t.plist = s.plist
        /\ t.last = s.last /\ t.rc = 1 /\ t.rest = s.rest
        /\ t = [t EXCEPT !.rc = 1]
        /\ \A p : [t EXCEPT !.rc = 0, !.plist = p].rc = 0
                  /\ [t EXCEPT !.rc = 0, !.plist = p].plist = p
        /\ \A z : LET v == [t EXCEPT !.state = z]
                  IN  /\ v.buf = t.buf /\ v.offset = t.offset /\ v.plist = t.plist
                      /\ v.last = t.last /\ v.rc = t.rc /\ v.rest = t.rest
        /\ \A z, k : LET v == [t EXCEPT !.state = z, !.chunk_size = k]
                     IN  /\ v.buf = t.buf /\ v.offset = t.offset /\ v.plist = t.plist
                         /\ v.last = t.last /\ v.rc = t.rc /\ v.rest = t.rest
    BY <1>1 DEF ParseState
  <2>4. t.offset \in Nat /\ s.offset <= t.offset
    BY <1>1, <2>3
  <2> HIDE DEF t, u
  <2>5. CASE ~(t.chunk_str # <<>> /\ Size(t.chunk_str) = 0)
    <3>1. /\ u.buf = t.buf /\ u.offset = t.offset /\ u.plist = t.plist
          /\ u.last = t.last /\ u.rc = t.rc /\ u.rest = t.rest
      BY <2>1, <2>3, <2>5
    <3>2. u.rc # 0
      BY <2>3, <3>1
    <3> QED BY <2>3, <2>4, <3>1, <3>2, GoesOnBehind DEF u
  <2>6. CASE t.chunk_str # <<>> /\ Size(t.chunk_str) = 0
    <3> DEFINE p == IF t.last = <<>> THEN t.plist ELSE Append(t.plist, t.last)
               a == Len(s.plist)
               b == Len(s.last)
    <3>1. u = [t EXCEPT !.rc = 0, !.plist = p]
      BY <2>1, <2>6 DEF ChunkLast
    <3>2. u.rc = 0 /\ u.plist = p
      BY <2>3, <3>1
    <3>3. a \in Nat /\ b \in Nat /\ (s.last # <<>> => b # 0)
      BY <1>1, EmptySeq DEF Bytes
    <3>4. Len(p) = IF b = 0 THEN a ELSE a + 1
      <4>1. b = 0 <=> s.last = <<>>
        BY <3>3
      <4>2. Len(Append(s.plist, s.last)) = a + 1
        BY <1>1, AppendProperties
      <4> HIDE DEF a, b
      <4> QED BY <2>3, <4>1, <4>2 DEF a
    <3>5. a * BufSize + b <= m /\ a * BufSize \in Nat
      <4> DEFINE x == a * BufSize
                 y == Len(s.rest)
                 z == y * BufSize
                 o == s.offset
      <4>1. /\ s.buf \in Buffer /\ s.rest \in Seq(Buffer)
            /\ Space(s) + (y + 1) * BufSize + 1 <= m + o
        BY DEF Behind
      <4>2. y \in Nat /\ x \in Nat /\ Space(s) = x + b
        BY <4>1, SpaceType
      <4>3. (y + 1) * BufSize = z + BufSize /\ z \in Nat
        <5> HIDE DEF y
        <5> QED BY <4>2, TimesNext
      <4>4. o <= BufSize /\ o \in Nat /\ BufSize \in Nat
        BY <1>1, <4>1, ParseAssumption DEF Buffer
      <4>5. Space(s) + (z + BufSize) + 1 <= m + o
        BY <4>1, <4>3
      <4> HIDE DEF x, y, z, o, a, b
      <4>6. x + b <= m
        BY <3>3, <4>2, <4>3, <4>4, <4>5
      <4> QED BY <4>2, <4>6 DEF x
    <3> HIDE DEF p, a, b
    <3>6. (a + 1) * BufSize = a * BufSize + BufSize /\ BufSize \in Nat \ {0}
      <4>1. (a + 1) * BufSize = a * BufSize + 1 * BufSize
        BY <3>3, Times
      <4> QED BY <4>1, ParseAssumption
    <3>7. Len(p) * BufSize < m + BufSize
      <4> DEFINE x == a * BufSize
      <4>1. x + b <= m /\ x \in Nat /\ (a + 1) * BufSize = x + BufSize
        BY <3>5, <3>6
      <4>2. CASE b = 0
        <5>1. Len(p) * BufSize = x
          BY <3>4, <4>2
        <5> HIDE DEF x
        <5> QED BY <3>6, <4>1, <4>2, <5>1
      <4>3. CASE b # 0
        <5>1. Len(p) * BufSize = x + BufSize
          BY <3>4, <4>1, <4>3
        <5> HIDE DEF x
        <5> QED BY <3>3, <3>6, <4>1, <4>3, <5>1
      <4> QED BY <4>2, <4>3
    <3> QED BY <3>2, <3>7 DEF Behind, u
  <2> QED BY <2>5, <2>6 DEF u
<1> QED BY <1>2, <1>3, <1>4

\* Copying takes as much space as there are bytes.
LEMMA CompactSpace ==
  ASSUME NEW s \in ParseState, NEW data \in Bytes
  PROVE  Space(Compact(s, data)) = Space(s) + Len(data)
<1> DEFINE all  == s.last \o data
           full == Len(all) \div BufSize
           c    == Compact(s, data)
           bufs == SlicesOf(all, full)
           tail == SubSeq(all, full * BufSize + 1, Len(all))
<1>1. s.last \in Bytes /\ s.plist \in Seq(Bytes)
  BY DEF ParseState, Bytes
<1>2. /\ all \in Bytes /\ Len(all) = Len(s.last) + Len(data)
      /\ Len(s.last) \in Nat /\ Len(data) \in Nat
  BY <1>1, JoinIs
<1>3. full \in Nat /\ full * BufSize <= Len(all) /\ full * BufSize \in Nat
  <2>1. Len(all) \in Nat /\ BufSize \in Nat \ {0}
    BY <1>2, ParseAssumption
  <2> HIDE DEF all
  <2> QED BY <2>1, Quotient
<1>4. c.plist = s.plist \o bufs /\ c.last = tail
  BY DEF Compact, SlicesOf, ParseState
<1> HIDE DEF c, full, all
<1>5. bufs \in Seq(Bytes) /\ Len(bufs) = full
  <2>1. bufs \in Seq(Bytes)
    BY <1>2, <1>3, SlicesLen
  <2>2. Len(bufs) = full
    BY <1>3 DEF SlicesOf
  <2> QED BY <2>1, <2>2
<1>6. Len(tail) = Len(all) - full * BufSize
  <2> DEFINE k == full * BufSize
             n == Len(all)
  <2>1. k \in Nat /\ k <= n /\ n \in Nat /\ n <= n
    BY <1>2, <1>3
  <2>2. tail = SubSeq(all, k + 1, n)
    OBVIOUS
  <2> HIDE DEF k, tail
  <2>3. Len(tail) = IF k < n THEN n - k ELSE 0
    BY <1>2, <2>1, <2>2, BytesCut
  <2> HIDE DEF n
  <2>4. Len(tail) = n - k
    BY <2>1, <2>3
  <2> QED BY <2>4 DEF k, n
<1> HIDE DEF bufs, tail
<1> DEFINE a == Len(s.plist)
<1>7. Len(c.plist) = a + full /\ a \in Nat
  <2>1. Len(s.plist \o bufs) = Len(s.plist) + Len(bufs)
    BY <1>1, <1>5
  <2>2. Len(s.plist) \in Nat
    BY <1>1
  <2> QED BY <1>4, <1>5, <2>1, <2>2
<1> HIDE DEF a
<1>8. (a + full) * BufSize = a * BufSize + full * BufSize /\ a * BufSize \in Nat
  BY <1>3, <1>7, Times
<1> DEFINE x == a * BufSize
           k == full * BufSize
           n == Len(all)
           p == Len(s.last)
           q == Len(data)
<1>9. Space(c) = (x + k) + (n - k) /\ Space(s) = x + p
  BY <1>4, <1>6, <1>7, <1>8 DEF Space, a
<1>10. x \in Nat /\ k \in Nat /\ n = p + q /\ p \in Nat /\ q \in Nat
  BY <1>2, <1>3, <1>8
<1> HIDE DEF x, k, n, p, q
<1>11. Space(c) = Space(s) + q
  BY <1>9, <1>10
<1> QED BY <1>11 DEF c, q

LEMMA GetSizeBehind ==
  ASSUME NEW s, Parsing(s), s.rc = 1, s.state = "get_size", NEW m \in Nat, Behind(s, m)
  PROVE  /\ Behind(ChunkGetSize(s), m)
         /\ Len(ChunkGetSize(s).plist) * BufSize + (Len(s.rest) + 1) * BufSize < m + BufSize
<1> DEFINE left == s.chunk_size - s.j
           room == Len(s.buf) - s.offset
           n    == IF room < left THEN room ELSE left
           data == SubSeq(s.buf, s.offset + 1, s.offset + n)
           c    == Compact(s, data)
           t    == [c EXCEPT !.offset = @ + n, !.j = @ + n]
           u    == ChunkGetSize(s)
<1>1. /\ s \in ParseState /\ s.offset \in Nat /\ Len(s.buf) \in Nat /\ s.offset <= Len(s.buf)
      /\ s.j \in Nat /\ s.chunk_size \in Nat /\ s.j <= s.chunk_size
      /\ s.rest \in Seq(Bytes) /\ s.buf \in Bytes /\ s.plist \in Seq(Bytes) /\ s.rc # 0
      /\ Len(s.last) \in Nat /\ s.new_total \in Nat
  BY DEF Parsing, ParseState, Bytes
<1>2. left \in Nat /\ room \in Nat /\ n \in Nat /\ n <= left /\ n <= room
  <2>1. left \in Nat /\ room \in Nat
    <3> DEFINE y == Len(s.buf)
    <3>1. y \in Nat /\ room = y - s.offset /\ s.offset <= y
      BY <1>1
    <3> HIDE DEF y, room
    <3> QED BY <1>1, <3>1
  <2> HIDE DEF left, room
  <2> QED BY <2>1
<1>3. u = IF t.offset = Len(t.buf) THEN NextBuffer(t, Crash)
          ELSE IF t.j = t.chunk_size
          THEN [t EXCEPT !.state = "begin", !.j = 0, !.chunk_str = <<>>]
          ELSE t
  BY Zenon DEF ChunkGetSize
<1>4. left + s.j = s.chunk_size /\ room + s.offset = Len(s.buf)
  BY <1>1
<1> HIDE DEF left, room, n, u
<1> DEFINE p == s.offset + n
           q == s.j + n
<1>5. p \in Nat /\ q \in Nat /\ p <= Len(s.buf) /\ q <= s.chunk_size
  <2> DEFINE y == Len(s.buf)
             o == s.offset
             i == s.j
             k == s.chunk_size
  <2>1. y \in Nat /\ o \in Nat /\ i \in Nat /\ k \in Nat /\ left + i = k /\ room + o = y
    BY <1>1, <1>4
  <2> HIDE DEF y, o, i, k
  <2>2. o + n \in Nat /\ i + n \in Nat /\ o + n <= y /\ i + n <= k
    BY <1>2, <2>1
  <2> QED BY <2>2 DEF y, o, i, k
<1>6. data \in Bytes /\ Len(data) = n
  <2>1. data \in Bytes
        /\ Len(data) = IF s.offset < s.offset + n THEN (s.offset + n) - s.offset ELSE 0
    BY <1>1, <1>5, BytesCut
  <2> HIDE DEF data
  <2> QED BY <1>1, <1>2, <2>1
<1> HIDE DEF data
<1>7. /\ c.plist \in Seq(Bytes) /\ c.last \in Bytes
      /\ c.new_total = s.new_total + n
      /\ Len(FlattenSeq(c.plist)) + Len(c.last) = Len(FlattenSeq(s.plist)) + Len(s.last) + n
      /\ c = [s EXCEPT !.plist = c.plist, !.last = c.last, !.new_total = c.new_total]
  BY <1>1, <1>6, CompactKeeps
<1>8. Space(c) = Space(s) + n
  BY <1>1, <1>6, CompactSpace
<1> HIDE DEF c
<1>9. c.new_total \in Nat /\ c.new_total = Len(FlattenSeq(c.plist)) + Len(c.last)
  <2> DEFINE a == Len(FlattenSeq(c.plist))
             b == Len(c.last)
             d == Len(FlattenSeq(s.plist))
             e == Len(s.last)
             v == c.new_total
             w == s.new_total
  <2>1. w = d + e
    BY <1>1, Zenon DEF Parsing
  <2>2. d \in Nat
    BY <1>1, FlattenLen
  <2>3. w \in Nat /\ e \in Nat /\ v = w + n /\ a + b = d + e + n
    BY <1>1, <1>7
  <2> HIDE DEF a, b, d, e, v, w
  <2>4. v \in Nat /\ v = a + b
    BY <1>2, <2>1, <2>2, <2>3
  <2> QED BY <2>4 DEF a, b, v
<1>10. c \in ParseState
  BY <1>1, <1>7, <1>9 DEF ParseState, Bytes
<1>11. /\ c.buf = s.buf /\ c.offset = s.offset /\ c.state = "get_size" /\ c.rest = s.rest
       /\ c.j = s.j /\ c.chunk_size = s.chunk_size /\ c.rc = 1
  BY <1>1, <1>7 DEF ParseState
<1>12. t = [c EXCEPT !.offset = p, !.j = q]
  BY <1>11
<1> HIDE DEF t, p, q
<1>13. t \in ParseState
  BY <1>5, <1>10, <1>12 DEF ParseState
<1>14. /\ t.buf = s.buf /\ t.offset = p /\ t.state = "get_size" /\ t.rest = s.rest
       /\ t.j = q /\ t.chunk_size = s.chunk_size /\ t.rc = 1
       /\ t.plist = c.plist /\ t.last = c.last /\ t.new_total = c.new_total
  BY <1>10, <1>11, <1>12 DEF ParseState
<1>15. Parsing(t)
  <2>1. t.offset <= Len(t.buf) /\ t.j <= t.chunk_size /\ t.rc # 0
    BY <1>5, <1>14
  <2>2. t.new_total = Len(FlattenSeq(t.plist)) + Len(t.last)
    BY <1>9, <1>14, Zenon
  <2> QED BY <1>13, <2>1, <2>2, Zenon DEF Parsing
<1> DEFINE x == (Len(s.rest) + 1) * BufSize
<1>16. Behind(t, m) /\ Len(t.plist) * BufSize + x < m + BufSize
  <2>1. /\ s.buf \in Buffer /\ s.rest \in Seq(Buffer)
        /\ Space(s) + x + 1 <= m + s.offset
    BY <1>1 DEF Behind
  <2>2. Space(t) = Space(s) + n
    BY <1>8, <1>14 DEF Space
  <2>3. /\ x \in Nat /\ Space(s) \in Nat /\ Len(t.plist) * BufSize \in Nat
        /\ Len(t.last) \in Nat /\ Space(t) = Len(t.plist) * BufSize + Len(t.last)
    <3>1. Len(s.rest) + 1 \in Nat
      BY <2>1
    <3> QED BY <1>15, <3>1, Times, SpaceType
  <2>4. p <= BufSize /\ p = s.offset + n /\ p \in Nat /\ BufSize \in Nat
    <3>1. Len(s.buf) <= BufSize /\ Len(s.buf) \in Nat /\ BufSize \in Nat
      BY <2>1, ParseAssumption DEF Buffer, Bytes
    <3> QED BY <1>5, <3>1 DEF p
  <2> DEFINE y == Len(t.plist) * BufSize
             z == Len(t.last)
             o == s.offset
  <2>5. o \in Nat
    BY <1>1
  <2> HIDE DEF x, y, z, o
  <2>6. Space(t) + x + 1 <= m + p /\ y + x < m + BufSize
    <3> DEFINE v == Space(s)
               w == Space(t)
    <3>1. v + x + 1 <= m + o /\ p = o + n /\ w = y + z
      BY <2>1, <2>3, <2>4 DEF y, z, o
    <3>2. x \in Nat /\ v \in Nat /\ y \in Nat /\ z \in Nat /\ w = v + n
      BY <2>2, <2>3 DEF y, z
    <3> HIDE DEF v, w
    <3>3. w + x + 1 <= m + p /\ y + x < m + BufSize
      BY <1>2, <2>4, <2>5, <3>1, <3>2
    <3> QED BY <3>3 DEF w
  <2>7. x = (Len(t.rest) + 1) * BufSize
    BY <1>14 DEF x
  <2> QED BY <1>14, <2>1, <2>6, <2>7 DEF Behind, y
<1>17. u.plist = t.plist
  <2>1. NextBuffer(t, Crash).plist = t.plist
    BY <1>13 DEF NextBuffer, ParseState
  <2>2. [t EXCEPT !.state = "begin", !.j = 0, !.chunk_str = <<>>].plist = t.plist
    BY <1>13 DEF ParseState
  <2> QED BY <1>3, <2>1, <2>2
<1>18. CASE t.offset = Len(t.buf)
  <2>1. u = NextBuffer(t, Crash)
    BY <1>3, <1>18
  <2>2. Behind(u, m)
    BY <1>14, <1>15, <1>16, <2>1, NextBufferBehind
  <2> QED BY <1>16, <1>17, <2>2 DEF u, x
<1>19. CASE t.offset # Len(t.buf)
  <2>1. u = t \/ u = [t EXCEPT !.state = "begin", !.j = 0, !.chunk_str = <<>>]
    BY <1>3, <1>19
  <2>2. /\ u.buf = t.buf /\ u.offset = t.offset /\ u.plist = t.plist
        /\ u.last = t.last /\ u.rc = t.rc /\ u.rest = t.rest
    BY <1>13, <2>1 DEF ParseState
  <2>3. u.rc # 0 /\ u.offset \in Nat /\ t.offset <= u.offset /\ t.state # "begin"
    BY <1>5, <1>14, <2>2
  <2>4. Behind(u, m)
    BY <1>14, <1>15, <1>16, <2>2, <2>3, GoesOnBehind
  <2> QED BY <1>16, <1>17, <2>4 DEF u, x
<1> QED BY <1>18, <1>19

LEMMA TurnBehind ==
  ASSUME NEW s, Parsing(s), NEW m \in Nat, Behind(s, m)
  PROVE  Parsing(ParseTurn[s]) /\ Behind(ParseTurn[s], m)
<1>1. Parsing(ParseTurn[s]) /\ (s.rc # 1 => ParseTurn[s] = s)
  <2>1. /\ s.rc # 1 => ParseTurn[s] = s
        /\ s.rc = 1 => Turns(s, ParseTurn[s])
    BY TurnTurns
  <2> QED BY <2>1 DEF Turns
<1>2. ASSUME s.rc = 1 PROVE Behind(ParseTurn[s], m)
  <2>1. /\ s.state = "begin"    => ParseTurn[s] = ChunkBegin(s)
        /\ s.state = "lrln"     => ParseTurn[s] = ChunkLrln(s)
        /\ s.state = "get_size" => ParseTurn[s] = ChunkGetSize(s)
    BY <1>2, TurnIs
  <2>2. s.state \in {"begin", "lrln", "get_size"}
    BY DEF Parsing, ParseState
  <2> QED BY <1>2, <2>1, <2>2, BeginBehind, LrlnBehind, GetSizeBehind
<1> QED BY <1>1, <1>2

LEMMA StartBehind ==
  ASSUME NEW bufs \in Seq(Buffer), bufs # <<>>
  PROVE  Parsing(ParseStart(bufs)) /\ Behind(ParseStart(bufs), Len(bufs) * BufSize)
<1> DEFINE b == Head(bufs)
           r == Tail(bufs)
           o == HeadLen(b)
           c == ParseStart(bufs)
           m == Len(bufs) * BufSize
<1>1. bufs \in Seq(Bytes)
  BY DEF Buffer
<1>2. Parsing(c) /\ c.rc = 1
  BY <1>1, StartParsing
<1>3. /\ c.buf = b /\ c.offset = o /\ c.rest = r /\ c.plist = <<>>
      /\ c.last = SubSeq(b, 1, o) /\ c.state = "begin"
  BY DEF ParseStart
<1>4. b \in Buffer /\ b \in Bytes /\ r \in Seq(Buffer) /\ Len(r) + 1 = Len(bufs)
  BY HeadTailProperties DEF Buffer
<1>5. o \in Nat /\ o <= Len(b) /\ 0 \in Nat
  BY <1>4, HeadLenIs DEF Bytes
<1>6. m \in Nat
  <2>1. Len(bufs) \in Nat
    OBVIOUS
  <2> QED BY <2>1, Times
<1> HIDE DEF c, b, r, o
<1>7. Len(c.last) = o
  <2>1. Len(SubSeq(b, 0 + 1, o)) = IF 0 < o THEN o - 0 ELSE 0
    BY <1>4, <1>5, BytesCut
  <2>2. c.last = SubSeq(b, 0 + 1, o)
    BY <1>3
  <2>3. Len(c.last) = IF 0 < o THEN o - 0 ELSE 0
    BY <2>1, <2>2, Zenon
  <2> QED BY <1>5, <2>3
<1>8. Space(c) = o
  <2>1. Len(c.plist) * BufSize = 0
    BY <1>3, ParseAssumption
  <2> QED BY <1>5, <1>7, <2>1 DEF Space
<1>9. (Len(c.rest) + 1) * BufSize = m
  BY <1>3, <1>4
<1> HIDE DEF m
<1>10. Space(c) + m + 0 <= m + c.offset
  BY <1>3, <1>5, <1>6, <1>8
<1> QED BY <1>2, <1>3, <1>4, <1>9, <1>10 DEF Behind, c, m

\* http_parse takes a response's chunks apart in the buffers it came in: what it
\* copies goes to a place that it has read past, in the first buffer (where last_buf
\* is buf_info) and in all; and where last_buf is full there is a buffer to go on in,
\* so the assertion after alloc_buf holds: with one in the pool, which
\* http_chunk_check has seen there, all that are in use are fewer.
THEOREM PacksBehind ==
  ASSUME NEW bufs \in Seq(Buffer), bufs # <<>>, NEW n \in Nat, NEW f,
         f[0] = ParseStart(bufs), \A k \in 1..n : f[k] = ParseTurn[f[k - 1]]
  PROVE  \A k \in 0..n : f[k].rc = 1 /\ f[k].state = "get_size" =>
            /\ Space(f[k]) < (Len(bufs) - Len(f[k].rest) - 1) * BufSize + f[k].offset
            /\ Len(ParseTurn[f[k]].plist) + Len(f[k].rest) + 1 <= Len(bufs)
<1> DEFINE l == Len(bufs)
           m == l * BufSize
           T == {k \in Nat : k <= n => Parsing(f[k]) /\ Behind(f[k], m)}
<1>1. l \in Nat /\ m \in Nat
  <2>1. l \in Nat
    OBVIOUS
  <2> QED BY <2>1, Times
<1>2. 0 \in T
  BY StartBehind
<1>3. ASSUME NEW k \in Nat, k \in T PROVE k + 1 \in T
  <2> SUFFICES ASSUME k + 1 <= n PROVE Parsing(f[k + 1]) /\ Behind(f[k + 1], m)
    OBVIOUS
  <2>1. k + 1 \in 1..n /\ (k + 1) - 1 = k /\ k <= n
    OBVIOUS
  <2>2. f[k + 1] = ParseTurn[f[k]]
    BY <2>1
  <2>3. Parsing(f[k]) /\ Behind(f[k], m)
    BY <1>3, <2>1
  <2> HIDE DEF m
  <2> QED BY <1>1, <2>2, <2>3, TurnBehind
<1>4. Nat \subseteq T
  BY <1>2, <1>3, AllNat
<1>5. ASSUME NEW k \in 0..n, f[k].rc = 1, f[k].state = "get_size"
      PROVE  /\ Space(f[k]) < (l - Len(f[k].rest) - 1) * BufSize + f[k].offset
             /\ Len(ParseTurn[f[k]].plist) + Len(f[k].rest) + 1 <= l
  <2> DEFINE s == f[k]
             q == Len(s.rest) + 1
             o == s.offset
             u == ParseTurn[s]
             a == Len(u.plist)
  <2>1. Parsing(s) /\ Behind(s, m)
    BY <1>4
  <2> HIDE DEF s, m
  <2>2. u = ChunkGetSize(s) /\ Parsing(u)
    BY <1>1, <1>5, <2>1, TurnIs, TurnBehind DEF s
  <2>3. a * BufSize + q * BufSize < m + BufSize
    BY <1>1, <1>5, <2>1, <2>2, GetSizeBehind DEF s
  <2>4. s.rest \in Seq(Buffer) /\ Space(s) + q * BufSize + 1 <= m + o
    BY <1>5, <2>1 DEF Behind, s
  <2>5. a \in Nat /\ q \in Nat /\ o \in Nat /\ Space(s) \in Nat
    <3>1. a \in Nat /\ Space(s) \in Nat
      BY <2>1, <2>2, SpaceType
    <3>2. q \in Nat
      BY <2>4
    <3>3. o \in Nat
      BY <2>1 DEF Parsing, ParseState
    <3> QED BY <3>1, <3>2, <3>3
  <2> HIDE DEF a, u, q, o
  <2>6. a + q <= l
    <3>1. a + q \in Nat /\ (a + q) * BufSize = a * BufSize + q * BufSize
      BY <2>5, Times
    <3>2. (a + q) * BufSize < l * BufSize + BufSize
      BY <2>3, <3>1 DEF m
    <3> HIDE DEF l
    <3> QED BY <1>1, <3>1, <3>2, Times
  <2>7. Space(s) < (l - q) * BufSize + o
    <3>1. l - q \in Nat /\ (l - q) + q = l
      BY <1>1, <2>5, <2>6
    <3>2. m = (l - q) * BufSize + q * BufSize /\ (l - q) * BufSize \in Nat /\ q * BufSize \in Nat
      BY <2>5, <3>1, Times DEF m
    <3> DEFINE x == (l - q) * BufSize
               y == q * BufSize
    <3> HIDE DEF x, y
    <3>3. m = x + y /\ x \in Nat /\ y \in Nat /\ Space(s) + y + 1 <= m + o
      BY <2>4, <3>2 DEF x, y
    <3>4. Space(s) < x + o
      BY <2>5, <3>3
    <3> QED BY <3>4 DEF x
  <2>8. l - q = l - Len(s.rest) - 1
    BY <1>1, <2>4 DEF q
  <2>9. a + Len(s.rest) + 1 <= l
    <3>1. Len(s.rest) \in Nat /\ q = Len(s.rest) + 1
      BY <2>4 DEF q
    <3> QED BY <2>5, <2>6, <3>1
  <2> QED BY <2>7, <2>8, <2>9 DEF s, o, a, u
<1> QED BY <1>5 DEF l

\* http_parse makes no more buffers than it was given.
LEMMA ParsedFits ==
  ASSUME NEW bufs \in Seq(Buffer), NEW memory, http_parse(bufs, memory).rc = 0
  PROVE  /\ Len(http_parse(bufs, memory).bufs) <= Len(bufs)
         /\ bufs # <<>> /\ (memory \/ HeadLen(Head(bufs)) = 0)
<1> DEFINE p == http_parse(bufs, memory)
           e == ParseLoop(bufs)
           n == Len(bufs)
           m == n * BufSize
<1>1. bufs \in Seq(Bytes) /\ n \in Nat
  BY DEF Buffer
<1>2. m \in Nat
  BY <1>1, Times
<1>3. p = IF bufs = <<>> THEN Parsed(-1, 15, <<>>, 0)
          ELSE IF HeadLen(Head(bufs)) > 0 /\ ~memory THEN Parsed(-1, 11, <<>>, 0)
          ELSE IF ~IsChunked(Head(bufs))
          THEN Parsed(0, 0, bufs, Len(FlattenSeq(bufs)))
          ELSE Parsed(e.rc, e.errcode, e.plist, e.new_total)
  BY Zenon DEF http_parse
<1>4. \A rc, errcode, b, len : /\ Parsed(rc, errcode, b, len).rc = rc
                               /\ Parsed(rc, errcode, b, len).bufs = b
  BY DEF Parsed
<1>5. p.rc = 0 /\ 0 # -1
  OBVIOUS
<1> HIDE DEF p, e, m
<1>6. bufs # <<>> /\ ~(HeadLen(Head(bufs)) > 0 /\ ~memory)
  BY <1>3, <1>4, <1>5
<1>7. memory \/ HeadLen(Head(bufs)) = 0
  <2>1. HeadLen(Head(bufs)) \in 0..Len(Head(bufs)) /\ Len(Head(bufs)) \in Nat
    <3>1. Head(bufs) \in Bytes
      BY <1>1, <1>6, HeadTailProperties
    <3> QED BY <3>1, HeadLenIs DEF Bytes
  <2> QED BY <1>6, <2>1
<1>8. Len(p.bufs) <= n
  <2>1. CASE ~IsChunked(Head(bufs))
    <3>1. p.bufs = bufs
      BY <1>3, <1>4, <1>6, <2>1
    <3> QED BY <1>1, <3>1
  <2>2. CASE IsChunked(Head(bufs))
    <3>1. e.rc = 0 /\ p.bufs = e.plist
      BY <1>3, <1>4, <1>5, <1>6, <2>2
    <3> DEFINE S == {s \in ParseState : Parsing(s) /\ Behind(s, m)}
               c == ParseStart(bufs)
    <3>2. c \in S
      <4>1. Parsing(c) /\ Behind(c, m)
        BY <1>6, StartBehind DEF m
      <4> QED BY <4>1 DEF Parsing
    <3>3. ASSUME NEW s \in S PROVE ParseTurn[s] \in S
      <4>1. Parsing(s) /\ Behind(s, m)
        BY <3>3
      <4>2. Parsing(ParseTurn[s]) /\ Behind(ParseTurn[s], m)
        BY <1>2, <4>1, TurnBehind
      <4> QED BY <4>2 DEF Parsing
    <3> HIDE DEF c, S
    <3>4. e \in S
      BY <1>1, <1>6, <3>2, <3>3, LoopKeeps DEF c, e
    <3>5. Parsing(e) /\ Behind(e, m)
      BY <3>4 DEF S
    <3>6. Len(e.plist) * BufSize < n * BufSize + BufSize /\ Len(e.plist) \in Nat
      BY <3>1, <3>5, SpaceType DEF Behind, m
    <3>7. Len(e.plist) <= n
      BY <1>1, <3>6, Times
    <3> QED BY <3>1, <3>7
  <2> QED BY <2>1, <2>2
<1> QED BY <1>6, <1>7, <1>8 DEF p

-----------------------------------------------------------------------------
(* The buffers there are.                                                  *)

\* What a context has read of a response begins with the response's head, in
\* buffers of their size, and one that is being filled is its own.
StoredBy(c, h) ==
    /\ c.read \in Seq(Buffer) /\ (c.rbytes # <<>> => c.rcurr)
    /\ Held(c, h) # <<>> => /\ h.reply # <<>>
                            /\ Held(c, h)[1] \in {PlainHead, ChunkedHead}
Stored  == \A r \in Reqs : StoredBy(ctx[r], host[r])
Stocked == Stored /\ buf_caches >= 0

LEMMA WireHead ==
  ASSUME NEW r \in Reqs, NEW reply \in RepliesTo(r)
  PROVE  Wire(reply) # <<>> /\ Wire(reply)[1] \in {PlainHead, ChunkedHead}
<1>1. Wire(reply) \in Bytes /\ Wire(reply) # <<>>
  BY WireIs, WireStarts
<1>2. CASE reply.chunked
  <2>1. PICK m, at, end, size, keep : Laid(Wire(reply), m, at, end, size, keep)
    BY <1>2, WireLaid
  <2>2. SubSeq(Wire(reply), 0 + 1, 1) = <<ChunkedHead>>
    BY <2>1 DEF Laid, Part
  <2> DEFINE w == Wire(reply)
  <2>3. w \in Bytes /\ Len(w) # 0 /\ Len(w) \in Nat
    BY <1>1, EmptySeq DEF Bytes
  <2> HIDE DEF w
  <2>4. w[1] = ChunkedHead
    <3>1. 1 <= Len(w) /\ 0 \in Nat /\ 1 \in Nat /\ 1 \in 1..(1 - 0)
      BY <2>3
    <3>2. Part(w, 0, 1)[1] = w[0 + 1]
      BY <2>3, <3>1, PartIs
    <3>3. Part(w, 0, 1) = <<ChunkedHead>>
      BY <2>2 DEF w, Part
    <3> QED BY <3>2, <3>3
  <2> QED BY <1>1, <2>4 DEF w
<1>3. CASE ~reply.chunked
  <2>1. Wire(reply) = <<PlainHead>> \o DataBytes(0, reply.length) /\ reply.length \in Nat
    <3>1. 0..MaxLength \subseteq Nat
      BY ConstantsAssumption
    <3>2. reply.length \in 0..MaxLength
      BY <1>3 DEF RepliesTo
    <3> QED BY <1>3, <3>1, <3>2 DEF Wire
  <2>2. <<PlainHead>> \in Bytes /\ Len(<<PlainHead>>) = 1 /\ <<PlainHead>>[1] = PlainHead
    BY DEF PlainHead, Bytes
  <2>3. 0 \in Nat /\ 1 \in 1..1
    OBVIOUS
  <2>4. DataBytes(0, reply.length) \in Bytes
    BY <2>1, <2>3, DataIs
  <2>5. (<<PlainHead>> \o DataBytes(0, reply.length))[1] = PlainHead
    BY <2>2, <2>3, <2>4, JoinIs
  <2> QED BY <1>1, <2>1, <2>5
<1> QED BY <1>2, <1>3

\* The beginning of what is held.
LEMMA FirstIs ==
  ASSUME NEW x \in Bytes, NEW y \in Bytes, x # <<>>
  PROVE  x \o y # <<>> /\ (x \o y)[1] = x[1]
<1>1. x \o y # <<>>
  BY JoinNothing
<1>2. 1 \in 1..Len(x)
  <2>1. Len(x) \in Nat /\ Len(x) # 0
    BY EmptySeq DEF Bytes
  <2> QED BY <2>1
<1> QED BY <1>1, <1>2, JoinIs

LEMMA StoredSame ==
  ASSUME NEW c, NEW h, NEW d, NEW k, StoredBy(c, h), d.read = c.read, d.rbytes = c.rbytes,
         c.rcurr => d.rcurr, k.reply = h.reply, k.rx = h.rx, k.left = h.left
  PROVE  StoredBy(d, k)
<1>1. Held(d, k) = Held(c, h)
  BY DEF Held
<1> QED BY <1>1 DEF StoredBy

LEMMA StoredChanges ==
  ASSUME Stored, Rest, NEW r \in Reqs, NEW c, NEW h,
         ctx' = [ctx EXCEPT ![r] = c], host' = [host EXCEPT ![r] = h], StoredBy(c, h)
  PROVE  Stored'
<1>1. ctx \in [Reqs -> Contexts] /\ host \in [Reqs -> Hosts]
  BY DEF Rest, ContextsOK
<1>2. ASSUME NEW q \in Reqs PROVE StoredBy(ctx'[q], host'[q])
  <2>1. CASE q = r
    BY <1>1, <2>1
  <2>2. CASE q # r
    <3>1. ctx'[q] = ctx[q] /\ host'[q] = host[q]
      BY <1>1, <2>2
    <3> QED BY <3>1 DEF Stored
  <2> QED BY <2>1, <2>2
<1> QED BY <1>2 DEF Stored

LEMMA StoredStays ==
  ASSUME Stored, UNCHANGED <<ctx, host>>
  PROVE  Stored'
BY DEF Stored

\* A released context holds nothing.
LEMMA StoredNothing ==
  ASSUME NEW k, k.rx = <<>>, k.left = <<>>
  PROVE  StoredBy(NoContext, k)
<1>1. NoContext.read = <<>> /\ NoContext.rbytes = <<>> /\ <<>> \in Seq(Buffer)
  BY DEF NoContext
<1>2. Held(NoContext, k) = <<>>
  <2>1. Held(NoContext, k) = FlattenSeq(<<>>) \o <<>> \o <<>> \o <<>>
    BY <1>1, Zenon DEF Held
  <2>2. <<>> \o <<>> = <<>>
    OBVIOUS
  <2> QED BY <2>1, <2>2, FlattenEmpty
<1> QED BY <1>1, <1>2 DEF StoredBy

\* What is read goes to the end of what is held.
LEMMA HeldRead ==
  ASSUME NEW c \in Contexts, NEW h \in Hosts, NEW n, NEW got, NEW d, NEW k,
         Takes(c, h, n, got, d, k)
  PROVE  Held(d, k) = Held(c, h)
<1> DEFINE f == FlattenSeq(c.read)
           b == c.rbytes
           x == SubSeq(h.rx, 1, n)
           y == SubSeq(h.rx, n + 1, Len(h.rx))
           l == h.left
<1>0. /\ n \in 0..Len(h.rx) /\ got = c.rbytes \o x /\ k = [h EXCEPT !.rx = y]
      /\ \/ d.read = Append(c.read, got) /\ d.rbytes = <<>>
         \/ d.read = c.read /\ d.rbytes = got
  BY DEF Takes
<1>1. k.left = l /\ k.rx = y
  BY <1>0 DEF Hosts
<1>2. f \in Bytes /\ b \in Bytes /\ l \in Bytes /\ c.read \in Seq(Bytes) /\ h.rx \in Bytes
  BY HostTypes
<1>3. x \in Bytes /\ y \in Bytes /\ h.rx = x \o y
  BY <1>0, <1>2, SplitSeq DEF Bytes
<1>4. got = b \o x /\ got \in Bytes
  BY <1>0, <1>2, <1>3, JoinIs
<1> HIDE DEF f, b, x, y, l
<1>5. f \o got = (f \o b) \o x
  <2>1. (f \o b) \o x = f \o (b \o x)
    BY <1>2, <1>3, JoinAssociates
  <2> QED BY <1>4, <2>1
<1>6. ((f \o b) \o x) \o y = (f \o b) \o (x \o y)
  <2>1. f \o b \in Bytes
    BY <1>2, JoinIs
  <2> QED BY <1>3, <2>1, JoinAssociates
<1>7. Held(d, k) = ((f \o got) \o y) \o l
  <2>1. CASE d.read = Append(c.read, got) /\ d.rbytes = <<>>
    <3>1. FlattenSeq(d.read) = f \o got
      BY <1>2, <1>4, <2>1, FlattenAppend DEF f, Bytes
    <3>2. (f \o got) \o <<>> = f \o got
      <4>1. f \o got \in Seq(Int)
        BY <1>2, <1>4, JoinIs DEF Bytes
      <4> QED BY <4>1
    <3> QED BY <1>1, <2>1, <3>1, <3>2 DEF Held
  <2>2. CASE d.read = c.read /\ d.rbytes = got
    BY <1>1, <2>2 DEF Held, f
  <2> QED BY <1>0, <2>1, <2>2
<1>8. Held(c, h) = ((f \o b) \o h.rx) \o l
  BY DEF Held, f, b, l
<1>9. ((f \o got) \o y) \o l = ((f \o b) \o h.rx) \o l
  <2>1. (f \o got) \o y = (f \o b) \o (x \o y)
    BY <1>5, <1>6, Zenon
  <2> QED BY <1>3, <2>1, Zenon
<1> QED BY <1>4, <1>7, <1>8, <1>9, Zenon

\* What the kernel takes from a host goes from the one end to the other.
LEMMA HeldSent ==
  ASSUME NEW c \in Contexts, NEW h \in Hosts, NEW n \in 0..Len(h.left), NEW k,
         k = [h EXCEPT !.rx = h.rx \o SubSeq(h.left, 1, n),
                       !.left = SubSeq(h.left, n + 1, Len(h.left))]
  PROVE  Held(c, k) = Held(c, h)
<1> DEFINE f == FlattenSeq(c.read)
           b == c.rbytes
           x == SubSeq(h.left, 1, n)
           y == SubSeq(h.left, n + 1, Len(h.left))
<1>1. f \in Bytes /\ b \in Bytes /\ h.rx \in Bytes /\ h.left \in Bytes
  BY HostTypes
<1>2. x \in Bytes /\ y \in Bytes /\ h.left = x \o y
  BY <1>1, SplitSeq DEF Bytes
<1>3. k.left = y /\ k.rx = h.rx \o x
  BY DEF Hosts
<1> HIDE DEF x, y
<1>4. Held(c, k) = ((f \o b) \o (h.rx \o x)) \o y /\ Held(c, h) = ((f \o b) \o h.rx) \o h.left
  BY <1>3 DEF Held
<1>5. f \o b \in Bytes
  BY <1>1, JoinIs
<1> HIDE DEF f, b
<1>6. (f \o b) \o (h.rx \o x) = ((f \o b) \o h.rx) \o x
  BY <1>1, <1>2, <1>5, JoinAssociates
<1>7. (f \o b) \o h.rx \in Bytes
  BY <1>1, <1>5, JoinIs
<1>8. (((f \o b) \o h.rx) \o x) \o y = ((f \o b) \o h.rx) \o (x \o y)
  BY <1>2, <1>7, JoinAssociates
<1> QED BY <1>2, <1>4, <1>6, <1>8

\* A host replies, says some of it, closes or gives up.
LEMMA StoredHost ==
  ASSUME NEW c \in Contexts, NEW h \in Hosts, StoredBy(c, h), NEW k,
         \/ /\ h.reply = <<>>
            /\ \E r \in Reqs : \E reply \in RepliesTo(r) :
                  k = [h EXCEPT !.reply = <<reply>>, !.left = Wire(reply)]
         \/ \E n \in 0..Len(h.left) :
               k = [h EXCEPT !.rx = h.rx \o SubSeq(h.left, 1, n),
                             !.left = SubSeq(h.left, n + 1, Len(h.left))]
         \/ k = [h EXCEPT !.fin = TRUE, !.left = <<>>]
  PROVE  StoredBy(c, k)
<1> DEFINE x == (FlattenSeq(c.read) \o c.rbytes) \o h.rx
<1>1. x \in Bytes /\ h.left \in Bytes
  <2>1. FlattenSeq(c.read) \in Bytes /\ c.rbytes \in Bytes /\ h.rx \in Bytes /\ h.left \in Bytes
    BY HostTypes
  <2> QED BY <2>1, JoinIs
<1>2. Held(c, h) = x \o h.left
  BY DEF Held
<1>3. ASSUME NEW r \in Reqs, NEW reply \in RepliesTo(r), h.reply = <<>>,
             k = [h EXCEPT !.reply = <<reply>>, !.left = Wire(reply)]
      PROVE  StoredBy(c, k)
  <2>1. k.reply = <<reply>> /\ k.left = Wire(reply) /\ k.rx = h.rx
    BY <1>3 DEF Hosts
  <2>2. x \o h.left = <<>>
    BY <1>2, <1>3 DEF StoredBy
  <2>3. Held(c, k) = x \o Wire(reply)
    BY <2>1 DEF Held
  <2> HIDE DEF x
  <2>4. x = <<>>
    BY <1>1, <2>2, JoinNothing
  <2>5. Wire(reply) \in Bytes /\ Wire(reply)[1] \in {PlainHead, ChunkedHead}
    BY WireIs, WireHead
  <2>6. Held(c, k) = Wire(reply)
    BY <2>3, <2>4, <2>5, JoinNothing
  <2>7. k.reply # <<>>
    <3>1. <<reply>> # <<>>
      OBVIOUS
    <3> QED BY <2>1, <3>1, Zenon
  <2> QED BY <2>5, <2>6, <2>7 DEF StoredBy
<1>4. ASSUME NEW n \in 0..Len(h.left),
             k = [h EXCEPT !.rx = h.rx \o SubSeq(h.left, 1, n),
                           !.left = SubSeq(h.left, n + 1, Len(h.left))]
      PROVE  StoredBy(c, k)
  <2>1. Held(c, k) = Held(c, h)
    BY <1>4, HeldSent
  <2>2. k.reply = h.reply
    BY <1>4 DEF Hosts
  <2> QED BY <2>1, <2>2 DEF StoredBy
<1>5. CASE k = [h EXCEPT !.fin = TRUE, !.left = <<>>]
  <2>1. k.reply = h.reply /\ k.rx = h.rx /\ k.left = <<>>
    BY <1>5 DEF Hosts
  <2>2. Held(c, k) = x \o <<>>
    BY <2>1 DEF Held
  <2> HIDE DEF x
  <2>3. Held(c, k) = x
    BY <1>1, <2>2, JoinNothing, EmptySeq DEF Bytes
  <2>4. x # <<>> => Held(c, h) # <<>> /\ Held(c, h)[1] = x[1]
    <3>1. x # <<>> => x \o h.left # <<>> /\ (x \o h.left)[1] = x[1]
      BY <1>1, FirstIs
    <3> QED BY <1>2, <3>1
  <2> QED BY <2>1, <2>3, <2>4 DEF StoredBy
<1> QED BY <1>3, <1>4, <1>5

\* What a context gives to http_parse begins with the head of the response.
LEMMA HeadHeld ==
  ASSUME NEW c \in Contexts, NEW h \in Hosts, HostOf(c, h), StoredBy(c, h), NEW bufs, bufs # <<>>,
         \/ bufs = c.read
         \/ bufs = Append(c.read, c.rbytes) /\ c.rbytes # <<>>
  PROVE  bufs \in Seq(Buffer) /\ HeadLen(Head(bufs)) = 1
<1> DEFINE f  == FlattenSeq(c.read)
           rb == c.rbytes
           b  == Head(bufs)
           t  == Tail(bufs)
           g  == FlattenSeq(t)
           x  == f \o rb
<1>1. /\ f \in Bytes /\ rb \in Bytes /\ c.read \in Seq(Bytes) /\ h.rx \in Bytes
      /\ h.left \in Bytes /\ c.read \in Seq(Buffer) /\ rb \in Buffer
      /\ \A i \in 1..Len(c.read) : c.read[i] # <<>>
  BY HostTypes DEF StoredBy, HostOf, Contexts
<1>2. bufs \in Seq(Buffer) /\ bufs \in Seq(Bytes)
  BY <1>1, AppendProperties
<1>3. \A i \in 1..Len(bufs) : bufs[i] # <<>>
  <2>1. CASE bufs = c.read
    BY <1>1, <2>1
  <2>2. CASE bufs = Append(c.read, rb) /\ rb # <<>>
    BY <1>1, <2>2, Appended
  <2> QED BY <2>1, <2>2
<1>4. b \in Bytes /\ t \in Seq(Bytes) /\ b # <<>>
  <2>1. 1 \in 1..Len(bufs) /\ b = bufs[1]
    BY <1>2
  <2>2. b \in Bytes /\ t \in Seq(Bytes)
    BY <1>2, HeadTailProperties
  <2> QED BY <1>3, <2>1, <2>2
<1>5. g \in Bytes /\ FlattenSeq(bufs) = b \o g
  <2>1. FlattenSeq(bufs) = b \o g
    BY <1>2, FlattenTail DEF Bytes
  <2>2. g \in Bytes
    BY <1>4, FlattenLen
  <2> QED BY <2>1, <2>2
<1> HIDE DEF b, t, g
<1>6. FlattenSeq(bufs) # <<>> /\ FlattenSeq(bufs)[1] = b[1]
  <2>1. b \o g # <<>> /\ (b \o g)[1] = b[1]
    BY <1>4, <1>5, FirstIs
  <2> QED BY <1>5, <2>1
<1>7. x \in Bytes /\ x # <<>> /\ x[1] = b[1]
  <2>1. CASE bufs = c.read
    <3>1. x # <<>> /\ x[1] = f[1]
      <4> HIDE DEF f, rb
      <4>1. f # <<>>
        BY <1>6, <2>1 DEF f
      <4> QED BY <1>1, <4>1, FirstIs
    <3>2. x \in Bytes
      BY <1>1, JoinIs
    <3> QED BY <1>6, <2>1, <3>1, <3>2
  <2>2. CASE bufs = Append(c.read, rb)
    <3>1. FlattenSeq(bufs) = x
      BY <1>1, <2>2, FlattenAppend DEF Bytes
    <3>2. x \in Bytes
      BY <1>1, JoinIs
    <3> HIDE DEF x
    <3> QED BY <1>6, <3>1, <3>2
  <2> QED BY <2>1, <2>2
<1>8. Held(c, h) = (x \o h.rx) \o h.left
  BY DEF Held
<1> HIDE DEF x
<1> DEFINE y == x \o h.rx
<1>9. y \in Bytes /\ y # <<>> /\ y[1] = b[1]
  <2>1. y # <<>> /\ y[1] = x[1]
    BY <1>1, <1>7, FirstIs
  <2>2. y \in Bytes
    BY <1>1, <1>7, JoinIs
  <2> QED BY <1>7, <2>1, <2>2
<1>10. Held(c, h) = y \o h.left
  BY <1>8
<1> HIDE DEF y
<1>11. y \o h.left # <<>> /\ (y \o h.left)[1] = y[1]
  BY <1>1, <1>9, FirstIs
<1>12. b[1] \in {PlainHead, ChunkedHead}
  <2>1. Held(c, h) # <<>> /\ Held(c, h)[1] = b[1]
    BY <1>9, <1>10, <1>11
  <2> QED BY <2>1 DEF StoredBy
<1>13. HeadLen(b) = 1
  BY <1>4, <1>12, HeadFirst
<1> QED BY <1>2, <1>13 DEF b

\* An answer is a header and the buffers.
LEMMA ResponseLen ==
  ASSUME NEW r, NEW p, Outcome(p)
  PROVE  Len(ResponseFrame(r, p)) = Len(p.bufs) + 1 /\ Len(p.bufs) \in Nat
<1> DEFINE m == Len(p.bufs)
           h == Header(r, p.len)
           d == [i \in 1..m |-> Piece(r, p.bufs[i])]
           S == {h} \cup {d[i] : i \in 1..m}
<1>1. m \in Nat
  BY DEF Outcome
<1>2. ResponseFrame(r, p) = <<h>> \o d
  BY DEF ResponseFrame
<1>3. d \in Seq(S) /\ Len(d) = m
  <2>1. d = [i \in 1..m |-> d[i]] /\ \A i \in 1..m : d[i] \in S
    OBVIOUS
  <2> HIDE DEF d, m, S
  <2> QED BY <1>1, <2>1
<1>4. <<h>> \in Seq(S) /\ Len(<<h>>) = 1
  <2>1. h \in S
    OBVIOUS
  <2> HIDE DEF h, S
  <2> QED BY <2>1
<1> HIDE DEF h, d, S, m
<1>5. Len(<<h>> \o d) = 1 + m
  BY <1>3, <1>4, ConcatProperties
<1>6. Len(ResponseFrame(r, p)) = m + 1
  BY <1>1, <1>2, <1>5
<1> QED BY <1>1, <1>6 DEF m

\* Its answer takes a buffer for the header, and no more than it had for the rest.
LEMMA ParsedHeld ==
  ASSUME NEW c \in Contexts, NEW h \in Hosts, HostOf(c, h), StoredBy(c, h), NEW bufs,
         \/ bufs = c.read
         \/ bufs = Append(c.read, c.rbytes) /\ c.rbytes # <<>>,
         NEW memory, http_parse(bufs, memory).rc = 0, NEW r
  PROVE  /\ memory /\ Len(bufs) \in Nat
         /\ Len(ResponseFrame(r, http_parse(bufs, memory))) \in Nat
         /\ Len(ResponseFrame(r, http_parse(bufs, memory))) <= Len(bufs) + 1
<1> DEFINE p == http_parse(bufs, memory)
<1>1. bufs \in Seq(Buffer)
  <2>1. c.read \in Seq(Buffer) /\ c.rbytes \in Buffer
    BY DEF StoredBy, Contexts
  <2> QED BY <2>1, AppendProperties
<1>2. Len(p.bufs) <= Len(bufs) /\ bufs # <<>> /\ (memory \/ HeadLen(Head(bufs)) = 0)
  BY <1>1, ParsedFits
<1>3. HeadLen(Head(bufs)) = 1
  BY <1>2, HeadHeld
<1>4. memory
  BY <1>2, <1>3
<1>5. Outcome(p)
  <2>1. bufs \in Seq(Bytes)
    BY <1>1 DEF Buffer
  <2> QED BY <2>1, ParsedIs
<1> HIDE DEF p
<1> DEFINE q == ResponseFrame(r, p)
<1>6. Len(q) = Len(p.bufs) + 1 /\ Len(p.bufs) \in Nat
  BY <1>5, ResponseLen
<1>7. Len(bufs) \in Nat
  BY <1>1
<1> HIDE DEF q
<1>8. Len(q) \in Nat /\ Len(q) <= Len(bufs) + 1
  BY <1>2, <1>6, <1>7
<1> QED BY <1>4, <1>7, <1>8 DEF p, q

\* The buffers a released context had pay for what it queued.
LEMMA ReleaseStocks ==
  ASSUME Rest, Stocked, NEW r \in Reqs, NEW queued, NEW writing, NEW owed,
         http_context_release(r, queued, writing, owed),
         Len(queued) \in Nat, Len(queued) <= buf_caches + BufsOf(ctx[r])
  PROVE  Stocked'
<1>1. /\ ctx \in [Reqs -> Contexts] /\ host \in [Reqs -> Hosts] /\ buf_caches \in Int
      /\ ctx[r] \in Contexts /\ host[r] \in Hosts
  BY DEF Rest, ContextsOK
<1> DEFINE k == [host[r] EXCEPT !.st = "closed", !.left = <<>>, !.rx = <<>>,
                                !.whole = @ /\ owed]
<1>2. ctx' = [ctx EXCEPT ![r] = NoContext] /\ buf_caches' = buf_caches + BufsOf(ctx[r]) - Len(queued)
  BY DEF http_context_release
<1>3. host' = [host EXCEPT ![r] = k]
  <2>1. host' = [host EXCEPT ![r].st = "closed", ![r].left = <<>>, ![r].rx = <<>>,
                             ![r].whole = @ /\ owed]
    BY DEF http_context_release
  <2> QED BY <1>1, <2>1
<1>4. k.rx = <<>> /\ k.left = <<>>
  BY <1>1 DEF Hosts
<1> HIDE DEF k
<1>5. StoredBy(NoContext, k)
  BY <1>4, StoredNothing
<1>6. Stored'
  BY <1>2, <1>3, <1>5, StoredChanges DEF Stocked
<1>7. buf_caches' >= 0
  <2> DEFINE n == BufsOf(ctx[r])
             m == Len(queued)
  <2>1. n \in Nat /\ m \in Nat /\ m <= buf_caches + n /\ buf_caches' = buf_caches + n - m
    BY <1>1, <1>2, BufsAre
  <2> HIDE DEF n, m
  <2> QED BY <1>1, <2>1
<1> QED BY <1>6, <1>7 DEF Stocked

-----------------------------------------------------------------------------
(* What each step does to the buffers there are.                           *)

\* What a context holds, in buffers.
LEMMA Holding ==
  ASSUME Rest, Stocked, NEW r \in Reqs
  PROVE  LET c == ctx[r]
         IN  /\ buf_caches \in Nat /\ c.write \in Nat /\ Len(c.read) \in Nat
             /\ BufsOf(c) = c.write + Len(c.read) + (IF c.rcurr THEN 1 ELSE 0)
             /\ c \in Contexts /\ host[r] \in Hosts /\ StoredBy(c, host[r])
<1>1. buf_caches \in Int /\ buf_caches >= 0 /\ ctx[r] \in Contexts /\ host[r] \in Hosts
      /\ StoredBy(ctx[r], host[r])
  BY DEF Rest, ContextsOK, Stocked, Stored
<1>2. ctx[r].write \in Nat /\ Len(ctx[r].read) \in Nat
  BY <1>1, Sizes DEF Contexts
<1> QED BY <1>1, <1>2 DEF BufsOf

\* A step that leaves the contexts alone.
LEMMA OthersStock ==
  ASSUME Step, Stocked,
         Run \/ Poll \/ Reconnect \/ WebsocketLost \/ ServerAsks \/ Writeable
           \/ RequestDropped \/ NoContextLeft \/ SocketFails
  PROVE  Stocked'
<1>1. UNCHANGED <<ctx, host>> /\ Stored
  BY DEF Stocked, Run, Poll, PollFrom, Reconnect, WebsocketLost, ServerAsks, Writeable,
         RequestDropped, NoContextLeft, SocketFails
<1>2. Stored'
  BY <1>1, StoredStays
<1>3. buf_caches \in Nat /\ prepared \in Nat /\ RequestBufs \in Nat \ {0}
  BY Sizes DEF Step, Rest, ContextsOK, Stocked
<1>4. CASE Run \/ Poll \/ Reconnect \/ ServerAsks
  <2>1. buf_caches' = buf_caches
    BY <1>4 DEF Run, Poll, PollFrom, Reconnect, ServerAsks, pools
  <2> QED BY <1>2, <1>3, <2>1 DEF Stocked
<1>5. CASE WebsocketLost \/ RequestDropped \/ SocketFails
  <2>1. buf_caches' = buf_caches + prepared
    BY <1>5 DEF WebsocketLost, RequestDropped, SocketFails
  <2> QED BY <1>2, <1>3, <2>1 DEF Stocked
<1>6. CASE Writeable
  <2>1. buf_caches' = buf_caches + 1
    BY <1>6 DEF Writeable
  <2> QED BY <1>2, <1>3, <2>1 DEF Stocked
<1>7. CASE NoContextLeft
  <2>1. Receive(RequestBufs) /\ buf_caches' = buf_caches + prepared - RequestBufs
    BY <1>7 DEF NoContextLeft
  <2>2. buf_caches + prepared >= RequestBufs
    BY <1>3, <2>1 DEF Receive
  <2> QED BY <1>2, <1>3, <2>1, <2>2 DEF Stocked
<1> QED BY <1>4, <1>5, <1>6, <1>7

LEMMA CreateStocks ==
  ASSUME Step, Stocked, Hosted, http_context_create PROVE Stocked'
<1> DEFINE r == taken + 1
           c == [NoContext EXCEPT !.alive = TRUE, !.fd = LowestFree, !.write = RequestBufs]
           k == [host[r] EXCEPT !.st = "new"]
<1>1. /\ Rest /\ Receive(RequestBufs) /\ ctx' = [ctx EXCEPT ![r] = c]
      /\ host' = [host EXCEPT ![r].st = "new"]
      /\ buf_caches' = buf_caches + prepared - RequestBufs
  BY DEF Step, http_context_create
<1>2. taken \in Nat /\ asked \in 0..Requests /\ taken < asked
  <2>1. phase = "scan" /\ "POLLIN" \in revents[1]
    BY <1>1 DEF Receive
  <2> QED BY <1>1, <2>1, Sizes DEF Rest, Loop, ContextsOK
<1>3. r \in Reqs /\ host \in [Reqs -> Hosts] /\ host[r] \in Hosts
  <2>1. r \in Reqs
    <3>1. Requests \in Nat /\ Reqs = 1..Requests
      BY Sizes
    <3> QED BY <1>2, <3>1
  <2>2. host \in [Reqs -> Hosts]
    BY <1>1 DEF Rest, ContextsOK
  <2> QED BY <2>1, <2>2
<1>4. ctx[r] = NoContext /\ StoredBy(ctx[r], host[r])
  <2>1. r \notin Alive
    <3>1. ~(r <= taken)
      BY <1>2
    <3> QED BY <1>1, <3>1 DEF Rest, Owners
  <2> QED BY <1>1, <1>3, <2>1 DEF Rest, Owners, Alive, Stocked, Stored
<1>5. host' = [host EXCEPT ![r] = k]
  BY <1>1, <1>3
<1>6. k.reply = host[r].reply /\ k.left = host[r].left /\ k.rx = host[r].rx
  BY <1>3 DEF Hosts
<1>7. c.read = NoContext.read /\ c.rbytes = NoContext.rbytes /\ ~NoContext.rcurr
  BY DEF NoContext
<1> HIDE DEF c, k
<1>8. StoredBy(c, k)
  BY <1>4, <1>6, <1>7, StoredSame
<1> HIDE DEF r
<1>9. Stored'
  BY <1>1, <1>3, <1>5, <1>8, StoredChanges DEF Stocked
<1>10. buf_caches' >= 0
  <2>1. buf_caches \in Nat /\ prepared \in Nat /\ RequestBufs \in Nat \ {0}
    BY <1>1, Sizes DEF Rest, ContextsOK, Stocked
  <2>2. buf_caches + prepared >= RequestBufs
    BY <1>1, <2>1 DEF Receive
  <2> QED BY <1>1, <2>1, <2>2
<1> QED BY <1>9, <1>10 DEF Stocked

LEMMA CarriesStocks ==
  ASSUME Step, Hosted, Stocked, NEW r \in Reqs,
         \/ ConnectDone(r) \/ ConnectPending(r)
         \/ WriteAll(r) \/ WriteAgain(r) \/ ReadAgain(r)
         \/ \E bufs \in 0..(RequestBufs - 1), part \in BOOLEAN : WriteSome(r, bufs, part)
  PROVE  Stocked'
<1>1. Rest /\ Stored /\ StoredBy(ctx[r], host[r])
  BY DEF Step, Stocked, Stored
<1>2. PICK d, k : Changed(r, d, k) /\ Carries(ctx[r], host[r], d, k)
  BY ConnectCarries, WriteCarries
<1>3. StoredBy(d, k)
  BY <1>1, <1>2, StoredSame DEF Carries
<1>4. Stored'
  BY <1>1, <1>2, <1>3, StoredChanges DEF Changed
<1>5. buf_caches \in Nat /\ ctx[r].write \in Nat
  BY <1>1, Holding
<1>6. buf_caches' >= 0
  <2>1. CASE ConnectDone(r) \/ ConnectPending(r) \/ WriteAgain(r)
    <3>1. buf_caches' = buf_caches
      BY <2>1 DEF ConnectDone, ConnectPending, WriteAgain, pools
    <3> QED BY <1>5, <3>1
  <2>2. CASE WriteAll(r)
    <3>1. buf_caches' = buf_caches + ctx[r].write
      BY <2>2 DEF WriteAll
    <3> QED BY <1>5, <3>1
  <2>3. CASE ReadAgain(r)
    <3>1. buf_caches' = buf_caches - Taken(r) /\ CanRead(r)
      BY <2>3 DEF ReadAgain
    <3> QED BY <1>5, <3>1 DEF Taken, CanRead
  <2>4. CASE \E bufs \in 0..(RequestBufs - 1), part \in BOOLEAN : WriteSome(r, bufs, part)
    <3>1. PICK bufs \in 0..(RequestBufs - 1) : buf_caches' = buf_caches + bufs
      BY <2>4 DEF WriteSome
    <3>2. bufs \in Nat
      BY Sizes
    <3> QED BY <1>5, <3>1, <3>2
  <2> QED BY <2>1, <2>2, <2>3, <2>4
<1> QED BY <1>4, <1>6 DEF Stocked

LEMMA ReadStocks ==
  ASSUME Step, Hosted, Stocked, NEW r \in Reqs, ReadSome(r) PROVE Stocked'
<1>1. Rest /\ Stored
  BY DEF Step, Stocked
<1>2. /\ buf_caches \in Nat /\ ctx[r] \in Contexts /\ host[r] \in Hosts
      /\ StoredBy(ctx[r], host[r])
  BY <1>1, Holding
<1>3. PICK n, got, d, k : Changed(r, d, k) /\ Takes(ctx[r], host[r], n, got, d, k)
  BY ReadTakes
<1>4. Held(d, k) = Held(ctx[r], host[r])
  <2> DEFINE c == ctx[r]
             h == host[r]
  <2>1. c \in Contexts /\ h \in Hosts /\ Takes(c, h, n, got, d, k)
    BY <1>2, <1>3
  <2> HIDE DEF c, h
  <2>2. Held(d, k) = Held(c, h)
    BY <2>1, HeldRead
  <2> QED BY <2>2 DEF c, h
<1>5. d.read \in Seq(Buffer) /\ (d.rbytes # <<>> => d.rcurr)
  <2>1. ctx[r].read \in Seq(Buffer) /\ got \in Buffer
    BY <1>2, <1>3 DEF StoredBy, Takes
  <2>2. Append(ctx[r].read, got) \in Seq(Buffer)
    BY <2>1, AppendIn
  <2> QED BY <1>3, <2>1, <2>2 DEF Takes
<1>6. k.reply = host[r].reply
  BY <1>2, <1>3 DEF Takes, Hosts
<1>7. StoredBy(d, k)
  BY <1>2, <1>4, <1>5, <1>6 DEF StoredBy
<1>8. Stored'
  BY <1>1, <1>3, <1>7, StoredChanges DEF Changed
<1>9. buf_caches' >= 0
  <2>1. buf_caches' = buf_caches - Taken(r) /\ CanRead(r)
    BY DEF ReadSome
  <2> QED BY <1>2, <2>1 DEF Taken, CanRead
<1> QED BY <1>8, <1>9 DEF Stocked

LEMMA FinishStocks ==
  ASSUME Step, Stocked, NEW r \in Reqs, NEW queued, NEW writing, NEW owed,
         Finishes(r, queued, writing, owed),
         Len(queued) \in Nat, Len(queued) <= buf_caches + BufsOf(ctx[r])
  PROVE  Stocked'
<1>1. Rest /\ http_context_release(r, queued, writing, owed)
  BY DEF Step, Finishes
<1> QED BY <1>1, ReleaseStocks

LEMMA CrashStocks ==
  ASSUME Stocked, Crashes PROVE Stocked'
<1>1. UNCHANGED <<ctx, host>> /\ buf_caches' = buf_caches
  BY DEF Crashes, pools
<1>2. Stored'
  BY <1>1, StoredStays DEF Stocked
<1> QED BY <1>1, <1>2 DEF Stocked

LEMMA Lengths == \A r : Len(<<>>) = 0 /\ Len(<<Error(r)>>) = 1
OBVIOUS

\* Connecting or writing fails.
LEMMA FailsStock ==
  ASSUME Step, Stocked, NEW r \in Reqs, ConnectFails(r) \/ WriteFails(r) PROVE Stocked'
<1>1. buf_caches \in Nat /\ BufsOf(ctx[r]) \in Nat
  <2>1. buf_caches \in Nat /\ ctx[r] \in Contexts
    BY Holding DEF Step
  <2> QED BY <2>1, BufsAre
<1>2. CASE ConnectFails(r)
  <2> DEFINE q == IF buf_caches > 0 THEN <<Error(r)>> ELSE <<>>
  <2>1. Finishes(r, q, FALSE, TRUE)
    BY <1>2 DEF ConnectFails
  <2>2. Len(q) \in Nat /\ Len(q) <= buf_caches
    BY <1>1, Lengths
  <2> HIDE DEF q
  <2>3. Len(q) <= buf_caches + BufsOf(ctx[r])
    BY <1>1, <2>2
  <2> QED BY <2>1, <2>2, <2>3, FinishStocks
<1>3. CASE WriteFails(r)
  <2> DEFINE q == <<>>
  <2>1. Finishes(r, q, TRUE, TRUE)
    BY <1>3 DEF WriteFails
  <2>2. Len(q) \in Nat /\ Len(q) <= buf_caches + BufsOf(ctx[r])
    BY <1>1, Lengths
  <2> HIDE DEF q
  <2> QED BY <2>1, <2>2, FinishStocks
<1> QED BY <1>2, <1>3

LEMMA ReleaseAllStocks ==
  ASSUME Step, Stocked, NEW r \in Reqs, ReleaseAll(r) PROVE Stocked'
<1> DEFINE q == <<>>
<1>1. Rest /\ http_context_release(r, q, ctx[r].wcurr, FALSE)
  BY DEF Step, ReleaseAll
<1>2. buf_caches \in Nat /\ BufsOf(ctx[r]) \in Nat
  <2>1. buf_caches \in Nat /\ ctx[r] \in Contexts
    BY <1>1, Holding
  <2> QED BY <2>1, BufsAre
<1>3. Len(q) \in Nat /\ Len(q) <= buf_caches + BufsOf(ctx[r])
  BY <1>2, Lengths
<1> HIDE DEF q
<1> QED BY <1>1, <1>3, ReleaseStocks

\* POLLERR or POLLHUP: buf_read.curr is not used.
LEMMA HangupStocks ==
  ASSUME Step, Hosted, Stocked, NEW r \in Reqs, HangsUp(r) PROVE Stocked'
<1> DEFINE c == ctx[r]
           memory == buf_caches > 0
           p == IF c.func = "read" THEN http_parse(c.read, memory)
                ELSE Parsed(-1, 0, <<>>, 0)
           q == IF p.rc = 0 THEN ResponseFrame(r, p) ELSE <<>>
           b == BufsOf(c)
<1>1. IF p.rc = Crash THEN Crashes ELSE Finishes(r, q, c.wcurr, TRUE)
  BY Zenon DEF HangsUp
<1>2. /\ buf_caches \in Nat /\ c.write \in Nat /\ Len(c.read) \in Nat
      /\ b = c.write + Len(c.read) + (IF c.rcurr THEN 1 ELSE 0)
      /\ c \in Contexts /\ host[r] \in Hosts /\ StoredBy(c, host[r]) /\ HostOf(c, host[r])
  BY Holding DEF Step, Hosted
<1> HIDE DEF b
<1>3. Len(q) \in Nat /\ Len(q) <= buf_caches + b
  <2>1. CASE p.rc = 0
    <3>1. c.func = "read"
      <4>1. Parsed(-1, 0, <<>>, 0).rc = -1 /\ -1 # 0
        BY DEF Parsed
      <4> QED BY <2>1, <4>1
    <3> DEFINE bufs == c.read
    <3>2. p = http_parse(bufs, memory)
      BY <3>1
    <3>3. http_parse(bufs, memory).rc = 0
      BY <2>1, <3>2
    <3> HIDE DEF p, memory
    <3>4. bufs = c.read
      OBVIOUS
    <3> HIDE DEF bufs, c
    <3>5. /\ memory /\ Len(bufs) \in Nat
          /\ Len(ResponseFrame(r, http_parse(bufs, memory))) \in Nat
          /\ Len(ResponseFrame(r, http_parse(bufs, memory))) <= Len(bufs) + 1
      BY <1>2, <3>3, <3>4, ParsedHeld
    <3> DEFINE m == Len(ResponseFrame(r, p))
    <3>6. m \in Nat /\ m <= Len(bufs) + 1 /\ Len(q) = m
      BY <2>1, <3>2, <3>5
    <3> HIDE DEF m, q
    <3>7. buf_caches > 0
      BY <3>5 DEF memory
    <3>8. b >= Len(bufs) /\ b \in Nat
      BY <1>2, <3>4
    <3> QED BY <1>2, <3>5, <3>6, <3>7, <3>8
  <2>2. CASE p.rc # 0
    <3>1. Len(q) = 0
      BY <2>2
    <3>2. b \in Nat
      BY <1>2
    <3> HIDE DEF q
    <3> QED BY <1>2, <3>1, <3>2
  <2> QED BY <2>1, <2>2
<1> HIDE DEF p, q
<1>4. CASE Crashes
  BY <1>4, CrashStocks
<1>5. CASE Finishes(r, q, c.wcurr, TRUE)
  BY <1>3, <1>5, FinishStocks DEF b
<1> QED BY <1>1, <1>4, <1>5

\* http_context_read ends.
LEMMA EndStocks ==
  ASSUME Step, Hosted, Stocked, NEW r \in Reqs, ReadEnds(r) PROVE Stocked'
<1> DEFINE c == ctx[r]
           bufs == IF c.rbytes = <<>> THEN c.read ELSE Append(c.read, c.rbytes)
           memory == buf_caches > 0 \/ (c.rcurr /\ c.rbytes = <<>>)
           p == http_parse(bufs, memory)
           q == IF p.rc = 0 THEN ResponseFrame(r, p)
                ELSE IF p.errcode \in {12, 15} THEN <<Error(r)>> ELSE <<>>
           b == BufsOf(c)
<1>1. (IF p.rc = Crash THEN Crashes ELSE Finishes(r, q, FALSE, memory)) /\ CanRead(r)
  BY Zenon DEF ReadEnds
<1>2. /\ buf_caches \in Nat /\ c.write \in Nat /\ Len(c.read) \in Nat
      /\ b = c.write + Len(c.read) + (IF c.rcurr THEN 1 ELSE 0)
      /\ c \in Contexts /\ host[r] \in Hosts /\ StoredBy(c, host[r]) /\ HostOf(c, host[r])
  BY Holding DEF Step, Hosted
<1> HIDE DEF b
<1>3. /\ c.rcurr \/ buf_caches > 0
      /\ c.rbytes # <<>> => c.rcurr
      /\ c.read \in Seq(Buffer) /\ c.rbytes \in Buffer
  BY <1>1, <1>2 DEF CanRead, StoredBy, Contexts
<1>4. Len(bufs) = IF c.rbytes = <<>> THEN Len(c.read) ELSE Len(c.read) + 1
  <2>1. Len(Append(c.read, c.rbytes)) = Len(c.read) + 1
    BY <1>3, AppendProperties
  <2> QED BY <2>1
<1>5. b \in Nat /\ b >= Len(c.read) /\ (c.rcurr => b >= Len(c.read) + 1)
  <2> DEFINE l == Len(c.read)
             w == c.write
  <2>1. l \in Nat /\ w \in Nat /\ b = w + l + (IF c.rcurr THEN 1 ELSE 0)
    BY <1>2
  <2> HIDE DEF l, w
  <2>2. b \in Nat /\ b >= l /\ (c.rcurr => b >= l + 1)
    BY <2>1
  <2> QED BY <2>2 DEF l
<1>6. \/ bufs = c.read
      \/ bufs = Append(c.read, c.rbytes) /\ c.rbytes # <<>>
  OBVIOUS
<1>7. memory => \/ Len(bufs) + 1 <= b
                \/ Len(bufs) <= b /\ buf_caches > 0
  <2> DEFINE l == Len(c.read)
             m == Len(bufs)
  <2>1. l \in Nat /\ m = (IF c.rbytes = <<>> THEN l ELSE l + 1)
    BY <1>2, <1>4
  <2>2. b >= l /\ (c.rcurr => b >= l + 1)
    BY <1>5
  <2> HIDE DEF l, bufs
  <2> QED BY <1>3, <1>5, <2>1, <2>2
<1> HIDE DEF bufs, memory
<1>8. Len(q) \in Nat /\ Len(q) <= buf_caches + b
  <2>1. CASE p.rc = 0
    <3>1. http_parse(bufs, memory).rc = 0
      BY <2>1
    <3> HIDE DEF c
    <3>2. /\ memory /\ Len(bufs) \in Nat
          /\ Len(ResponseFrame(r, http_parse(bufs, memory))) \in Nat
          /\ Len(ResponseFrame(r, http_parse(bufs, memory))) <= Len(bufs) + 1
      BY <1>2, <1>6, <3>1, ParsedHeld
    <3> DEFINE m == Len(ResponseFrame(r, p))
               n == Len(bufs)
    <3>3. m \in Nat /\ m <= n + 1 /\ Len(q) = m /\ n \in Nat
      BY <2>1, <3>2
    <3>4. n + 1 <= b \/ (n <= b /\ buf_caches > 0)
      BY <1>7, <3>2
    <3> HIDE DEF m, n, q
    <3> QED BY <1>2, <1>5, <3>3, <3>4
  <2>2. CASE p.rc # 0
    <3>1. Len(q) \in {0, 1}
      BY <2>2, Lengths
    <3>2. b + buf_caches >= 1
      BY <1>2, <1>3, <1>5
    <3> DEFINE n == Len(q)
    <3>3. n \in {0, 1} /\ b \in Nat /\ buf_caches \in Nat
      BY <1>2, <1>5, <3>1
    <3> HIDE DEF n, q
    <3>4. n \in Nat /\ n <= buf_caches + b
      BY <3>2, <3>3
    <3> QED BY <3>4 DEF n
  <2> QED BY <2>1, <2>2
<1> HIDE DEF p, q
<1>9. CASE Crashes
  BY <1>9, CrashStocks
<1>10. CASE Finishes(r, q, FALSE, memory)
  BY <1>8, <1>10, FinishStocks DEF b
<1> QED BY <1>1, <1>9, <1>10

\* The kernel or a host.
LEMMA HostStocks ==
  ASSUME Step, Hosted, Stocked, NEW r \in Reqs,
         LanHost(r) \/ RefusedOrReset(r) \/ HostGivesUp(r)
  PROVE  Stocked'
<1> DEFINE c == ctx[r]
           h == host[r]
<1>1. /\ Rest /\ Stored /\ buf_caches >= 0 /\ c \in Contexts /\ h \in Hosts /\ StoredBy(c, h)
      /\ ctx \in [Reqs -> Contexts]
  BY DEF Step, Rest, ContextsOK, Stocked, Stored
<1>2. ASSUME NEW k, NEW n, Kernel(r, k, n), StoredBy(c, k)
      PROVE  Stocked'
  <2>1. ctx' = ctx /\ buf_caches' = buf_caches /\ host' = [host EXCEPT ![r] = k]
    BY <1>2 DEF Kernel, pools
  <2>2. ctx' = [ctx EXCEPT ![r] = c]
    BY <1>1, <2>1
  <2> HIDE DEF c, h
  <2>3. Stored'
    BY <1>1, <1>2, <2>1, <2>2, StoredChanges
  <2> QED BY <1>1, <2>1, <2>3 DEF Stocked
<1>3. ASSUME NEW k, NEW n, Kernel(r, k, n), k.reply = h.reply, k.rx = h.rx, k.left = h.left
      PROVE  Stocked'
  <2> HIDE DEF c, h
  <2>1. StoredBy(c, k)
    BY <1>1, <1>3, StoredSame
  <2> QED BY <1>2, <1>3, <2>1
<1>4. CASE Established(r) \/ RefusedOrReset(r) \/ HostReads(r) \/ HostCloses(r)
  <2>1. PICK k, n : /\ Kernel(r, k, n)
                    /\ \/ k = [h EXCEPT !.st = "connected"]
                       \/ k = [h EXCEPT !.st = "dead", !.whole = FALSE]
                       \/ k = [h EXCEPT !.full = FALSE]
                       \/ k = [h EXCEPT !.fin = TRUE, !.whole = TRUE]
    BY <1>4 DEF Established, RefusedOrReset, HostReads, HostCloses
  <2>2. k.reply = h.reply /\ k.rx = h.rx /\ k.left = h.left
    BY <1>1, <2>1 DEF Hosts
  <2> HIDE DEF h
  <2> QED BY <1>3, <2>1, <2>2
<1>5. CASE HostReplies(r)
  <2>1. h.reply = <<>> /\ \E reply \in RepliesTo(r) :
           Kernel(r, [h EXCEPT !.reply = <<reply>>, !.left = Wire(reply)], 0)
    BY <1>5 DEF HostReplies
  <2>2. PICK reply \in RepliesTo(r) :
           Kernel(r, [h EXCEPT !.reply = <<reply>>, !.left = Wire(reply)], 0)
    BY <2>1
  <2> DEFINE k == [h EXCEPT !.reply = <<reply>>, !.left = Wire(reply)]
  <2>3. Kernel(r, k, 0) /\ k = [h EXCEPT !.reply = <<reply>>, !.left = Wire(reply)]
    BY <2>2
  <2> HIDE DEF k, c, h
  <2>4. StoredBy(c, k)
    BY <1>1, <2>1, <2>3, StoredHost
  <2> QED BY <1>2, <2>3, <2>4
<1>6. CASE HostSends(r)
  <2> DEFINE left == h.left
             n    == IF Len(left) < Segment THEN Len(left) ELSE Segment
             k    == [h EXCEPT !.rx = h.rx \o SubSeq(left, 1, n),
                               !.left = SubSeq(left, n + 1, Len(left))]
  <2>1. Kernel(r, k, 0)
    <3> HIDE DEF n
    <3> QED BY <1>6 DEF HostSends, n
  <2>2. left \in Seq(Int)
    BY <1>1 DEF Hosts, Bytes
  <2>3. n \in 0..Len(left)
    <3> DEFINE l == Len(left)
    <3>1. l \in Nat /\ Segment \in Nat
      BY <2>2, ConstantsAssumption
    <3> HIDE DEF l
    <3>2. (IF l < Segment THEN l ELSE Segment) \in 0..l
      BY <3>1
    <3> QED BY <3>2 DEF l
  <2> HIDE DEF n
  <2>4. n \in 0..Len(h.left)
        /\ k = [h EXCEPT !.rx = h.rx \o SubSeq(h.left, 1, n),
                         !.left = SubSeq(h.left, n + 1, Len(h.left))]
    BY <2>3
  <2> HIDE DEF k, c, h
  <2>5. StoredBy(c, k)
    BY <1>1, <2>4, StoredHost
  <2> QED BY <1>2, <2>1, <2>5
<1>7. CASE HostGivesUp(r)
  <2> DEFINE k == [h EXCEPT !.fin = TRUE, !.left = <<>>]
  <2>1. Kernel(r, k, 1) /\ k = [h EXCEPT !.fin = TRUE, !.left = <<>>]
    BY <1>7 DEF HostGivesUp
  <2> HIDE DEF k, c, h
  <2>2. StoredBy(c, k)
    BY <1>1, <2>1, StoredHost
  <2> QED BY <1>2, <2>1, <2>2
<1> QED BY <1>4, <1>5, <1>6, <1>7 DEF LanHost

LEMMA InitStocked ==
  ASSUME Init PROVE Stocked
<1>1. /\ ctx = [r \in Reqs |-> NoContext] /\ host = [r \in Reqs |-> NoHost]
      /\ buf_caches = NumBufs
  BY DEF Init
<1>2. NoHost.rx = <<>> /\ NoHost.left = <<>>
  BY DEF NoHost
<1>3. StoredBy(NoContext, NoHost)
  BY <1>2, StoredNothing
<1>4. buf_caches >= 0
  BY <1>1, Sizes
<1> QED BY <1>1, <1>3, <1>4 DEF Stocked, Stored

LEMMA NextStocked ==
  ASSUME IInv, IInv', Hosted, Stocked, [Next]_vars
  PROVE  Stocked'
<1>1. Step
  BY NextIsStep
<1>2. CASE Run \/ Poll \/ Reconnect \/ WebsocketLost \/ ServerAsks \/ Writeable
             \/ RequestDropped \/ NoContextLeft \/ SocketFails
  BY <1>1, <1>2, OthersStock
<1>3. CASE http_context_create
  BY <1>1, <1>3, CreateStocks
<1>4. ASSUME NEW r \in Reqs, Executes(r) PROVE Stocked'
  <2>1. CASE \/ ConnectDone(r) \/ ConnectPending(r)
             \/ WriteAll(r) \/ WriteAgain(r) \/ ReadAgain(r)
             \/ \E bufs \in 0..(RequestBufs - 1), part \in BOOLEAN : WriteSome(r, bufs, part)
    BY <1>1, <2>1, CarriesStocks
  <2>2. CASE ConnectFails(r) \/ WriteFails(r)
    BY <1>1, <2>2, FailsStock
  <2>3. CASE ReadSome(r)
    BY <1>1, <2>3, ReadStocks
  <2>4. CASE ReadEnds(r)
    BY <1>1, <2>4, EndStocks
  <2>5. CASE ReadCrashes(r)
    BY <2>5, CrashStocks DEF ReadCrashes
  <2> QED BY <1>4, <2>1, <2>2, <2>3, <2>4, <2>5 DEF Executes
<1>5. ASSUME NEW r \in Reqs, HangsUp(r) \/ ReleaseAll(r) PROVE Stocked'
  BY <1>1, <1>5, HangupStocks, ReleaseAllStocks
<1>6. ASSUME NEW r \in Reqs, LanHost(r) \/ RefusedOrReset(r) \/ HostGivesUp(r)
      PROVE  Stocked'
  BY <1>1, <1>6, HostStocks
<1>7. CASE Undefined \/ UNCHANGED vars
  <2>1. UNCHANGED <<ctx, host>> /\ buf_caches' = buf_caches
    BY <1>7 DEF Undefined, vars, pools
  <2>2. Stored'
    BY <2>1, StoredStays DEF Stocked
  <2> QED BY <2>1, <2>2 DEF Stocked
<1> QED BY <1>2, <1>3, <1>4, <1>5, <1>6, <1>7 DEF Next, Client

\* No more buffers are held than there are.
LEMMA TotalNat ==
  ASSUME NEW n \in Nat, NEW f, \A k \in 1..n : f[k] \in Nat
  PROVE  Total(f, n) \in Nat
<1> DEFINE s == Sums(f, n)
           T == {k \in Nat : k <= n => s[k] \in Nat}
<1>1. Total(f, n) = s[n] /\ SumOf(s, f, n)
  BY SumsAre
<1> HIDE DEF s
<1>2. s[0] = 0 /\ \A k \in 1..n : s[k] = s[k - 1] + f[k]
  <2>1. \A k \in 1..n : k \in 0..n /\ k # 0
    OBVIOUS
  <2>2. 0 \in 0..n
    OBVIOUS
  <2> QED BY <1>1, <2>1, <2>2 DEF SumOf
<1>3. 0 \in T
  BY <1>2
<1>4. ASSUME NEW k \in Nat, k \in T PROVE k + 1 \in T
  <2> SUFFICES ASSUME k + 1 <= n PROVE s[k + 1] \in Nat
    OBVIOUS
  <2>1. k + 1 \in 1..n /\ s[k] \in Nat /\ (k + 1) - 1 = k
    BY <1>4
  <2> QED BY <1>2, <2>1
<1>5. Nat \subseteq T
  BY <1>3, <1>4, AllNat
<1>6. n \in T /\ n <= n
  BY <1>5
<1> QED BY <1>1, <1>6

LEMMA HeldNat ==
  ASSUME ContextsOK PROVE HeldOf(ctx) \in Nat
<1> DEFINE f == [r \in Reqs |-> BufsOf(ctx[r])]
<1>1. Requests \in Nat /\ Reqs = 1..Requests
  BY Sizes
<1>2. \A r \in Reqs : BufsOf(ctx[r]) \in Nat
  BY BufsAre DEF ContextsOK
<1>3. \A r \in 1..Requests : f[r] \in Nat
  BY <1>1, <1>2
<1> HIDE DEF f
<1>4. Total(f, Requests) \in Nat
  BY <1>1, <1>3, TotalNat
<1> QED BY <1>4 DEF HeldOf, f

\* No pool gives more than it has, or gets back more than it gave.
LEMMA StockedTypes ==
  ASSUME IInv, Stocked PROVE TypeOK
<1>1. PT!TypeOK /\ Rest
  BY TableFacts DEF IInv, TableOK
<1>2. ScanOK /\ ContextsOK /\ Loop /\ Linked /\ Accounts
  BY <1>1 DEF Rest
<1>3. ctx_caches \in 0..NumCtx
  <2> DEFINE n == Cardinality(Alive)
  <2>1. n \in Nat /\ ctx_caches \in Nat /\ leaked \in Nat /\ NumCtx \in Nat
        /\ ctx_caches + n + leaked = NumCtx
    BY <1>2, AliveFinite, Sizes DEF ContextsOK, Accounts
  <2> HIDE DEF n
  <2> QED BY <2>1
<1>4. buf_caches \in 0..NumBufs
  <2> DEFINE n == HeldOf(ctx)
             m == Len(toserver)
  <2>1. n \in Nat /\ m \in Nat /\ prepared \in Nat /\ buf_caches \in Int /\ buf_caches >= 0
        /\ NumBufs \in Nat /\ buf_caches + prepared + m + n = NumBufs
    BY <1>2, HeldNat, Sizes DEF ContextsOK, Accounts, Stocked
  <2> HIDE DEF n, m
  <2> QED BY <2>1
<1>5. \A r \in Reqs : /\ ctx[r].fd \in PT!Fd \cup {PT!Uninit}
                      /\ ctx[r].status \in {"READY", "PENDING"}
                      /\ ctx[r].write \in 0..RequestBufs
  <2>1. \A r \in Reqs : ctx[r] \in Contexts
    BY <1>2 DEF ContextsOK
  <2> QED BY <2>1 DEF Contexts
<1>6. ready_len \in Int
  BY <1>2 DEF Linked
<1>7. /\ revents \in [PT!Slot -> SUBSET {"POLLIN", "POLLOUT", "POLLERR", "POLLHUP"}]
      /\ phase \in {"reconn", "run", "running", "scan", "closing"} /\ scan \in PT!Slot
      /\ running \in Seq(Reqs) /\ list_ready \in Seq(Reqs)
      /\ taken \in 0..asked /\ asked \in 0..Requests
  BY <1>2 DEF ScanOK, Flags, Loop, Linked, ContextsOK
<1> QED BY <1>1, <1>3, <1>4, <1>5, <1>6, <1>7 DEF TypeOK

-----------------------------------------------------------------------------
(* The theorems.                                                           *)

\* Whatever requests come, whatever the LAN hosts, the kernel and the websocket
\* do to them and in whatever order main() finds out, its contexts, lists,
\* pools and queue keep the invariant above.
THEOREM Invariant == Spec => []IInv
<1>1. Init => IInv
  BY InitIInv
<1>2. IInv /\ [Next]_vars => IInv'
  BY NextIInv
<1> QED BY <1>1, <1>2, PTL DEF Spec

\* http_context_execute, http_mgmt_service and http_mgmt_release_all unlink a
\* context by its status and insert_ready_prio links it unseen, and still each
\* ready context is in one list, once, and no other is.
THEOREM ReadyOnce == Spec => []ReadyExactly
<1>1. IInv => ReadyExactly
  <2> SUFFICES ASSUME Linked
               PROVE  LET linked == running \o list_ready
                      IN  /\ IsInjective(linked) /\ Range(linked) = ReadyCtx
                          /\ ready_len = Len(linked)
    BY DEF ReadyExactly, ReadyCtx, IInv, Rest
  <2>1. /\ running \in Seq(Reqs) /\ list_ready \in Seq(Reqs)
        /\ IsInjective(running) /\ IsInjective(list_ready)
        /\ Range(running) \cap Range(list_ready) = {}
        /\ Range(running) \cup Range(list_ready) = ReadyCtx
        /\ ready_len = Len(running) + Len(list_ready)
    BY DEF Linked
  <2> QED BY <2>1, ConcatInjective
<1> QED BY <1>1, Invariant, PTL

\* What http_context_finish and generate_error queue is whole frames, each
\* counted right, and one for a request at most.
THEOREM AnswersAreFrames == Spec => []FramesWhole
<1>1. IInv => FramesWhole
  <2> SUFFICES ASSUME AllWhole(Frames), Frames \in Seq(Pieces) PROVE FramesWhole
    <3>1. IInv => Frames \in Seq(Pieces)
      BY ConcatProperties DEF IInv, Rest, ContextsOK, Frames
    <3> QED BY <3>1 DEF IInv, Rest, Sent
  <2>1. DOMAIN Frames = 1..Len(Frames)
    OBVIOUS
  <2> HIDE DEF Frames
  <2> QED BY <2>1, Zenon DEF AllWhole, HeadsBlock, FramesWhole
<1> QED BY <1>1, Invariant, PTL

\* Whatever bytes a host's response is read in, whatever else comes between, when
\* the host said it all and http_context_read had a buffer for it, then what
\* http_parse made of it and http_context_finish queued is that response, without
\* its chunks' size lines, and is all that the server is ever sent of the request.
THEOREM AnswersAreWhole == Spec => []AnsweredWhole
<1>1. IInv /\ Delivered /\ [Next]_vars => (IInv /\ Delivered)'
  BY NextIInv, NextDelivered
<1>2. Init => IInv /\ Delivered
  BY InitIInv, InitDelivered
<1>3. Delivered => AnsweredWhole
  BY DEF Delivered
<1> QED BY <1>1, <1>2, <1>3, PTL DEF Spec

\* What the variables hold is what the program can store in them: above all the
\* pools never give more than they have nor get back more than they gave, for
\* pools, buffers and responses of any size (alloc_buf, free_buf, list_splice).
THEOREM TypeCorrect == Spec => []TypeOK
<1> DEFINE J == IInv /\ Hosted /\ Reported /\ AnsweredWhole /\ Stocked
<1>1. Init => J
  BY InitIInv, InitDelivered, InitStocked DEF Delivered
<1>2. J /\ [Next]_vars => J'
  <2> SUFFICES ASSUME J, [Next]_vars PROVE J'
    OBVIOUS
  <2>1. IInv'
    BY NextIInv
  <2>2. Delivered'
    BY <2>1, NextDelivered DEF Delivered
  <2>3. Stocked'
    BY <2>1, NextStocked
  <2> QED BY <2>1, <2>2, <2>3 DEF Delivered
<1>3. J => TypeOK
  BY StockedTypes
<1> QED BY <1>1, <1>2, <1>3, PTL DEF Spec

\* The buffers and contexts handed out and given back by http_mgmt_prepare, the
\* coroutines, http_context_release and http_mgmt_writable add up, for pools and
\* requests of any size; and there is a buffer whenever one is taken unseen:
\* http_context_finish's for a header is the one that http_chunk_check had just
\* taken and given back, since http_parse keeps no more buffers than it was given.
THEOREM PoolsAddUp == Spec => []PoolsConserved
<1>1. IInv /\ TypeOK => PoolsConserved
  BY ConstantsAssumption DEF IInv, Rest, Accounts, HeldOf, PoolsConserved, TypeOK
<1> QED BY <1>1, Invariant, TypeCorrect, PTL

\* Contexts and the main loop implement the poll table: each of their steps is
\* one of its operations or leaves it alone.
THEOREM UsesPollTable == Spec => PT!Spec
<1>1. Init => PT!Init
  BY DEF Init
<1>2. IInv /\ [Next]_vars => [PT!Next]_(PT!vars)
  BY TableFacts, StepTable DEF IInv
<1> QED BY <1>1, <1>2, Invariant, PTL DEF Spec, PT!Spec

\* main() services the websocket only for what is there: http_mgmt_writable
\* finds a piece queued, and a request that was announced has come.
THEOREM WebsocketInSlot1 ==
    Spec => [](phase = "scan" =>
                 /\ slotFd[1] = Websocket
                 /\ "POLLOUT" \in revents[1] => toserver # <<>>
                 /\ "POLLIN" \in revents[1] => taken < asked)
<1>1. IInv => (phase = "scan" =>
                 /\ slotFd[1] = Websocket
                 /\ "POLLOUT" \in revents[1] => toserver # <<>>
                 /\ "POLLIN" \in revents[1] => taken < asked)
  BY DEF IInv, Rest, Loop, InSlot1
<1> QED BY <1>1, Invariant, PTL
=============================================================================
