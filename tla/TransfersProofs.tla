--------------------------- MODULE TransfersProofs ---------------------------
(***************************************************************************)
(* Proofs about file transfers: how prepareFileChunks() covers a file,     *)
(* what the loops over the chunks come to, and what the client says of it. *)
(***************************************************************************)
EXTENDS Transfers, LoopTheorems

(***************************************************************************)
(* The chunks of a file.                                                   *)
(***************************************************************************)

ChunkOf(B) == [chunkIndex : Nat, offset : Nat, totalSize : Nat, data : Seq(B),
               sha256Hash : Seq(B \cup {"sha256"}), isLastChunk : BOOLEAN]

\* Where chunk c ends in its file, and where chunk i has to begin.
End(c) == c.offset + Len(c.data)
Begin(chunks, i) == IF i = 1 THEN 0 ELSE End(chunks[i - 1])

\* c is a piece of bytes, and says truly whether it is the last one.
Piece(c, bytes) ==
    /\ c.totalSize = Len(bytes)
    /\ Len(c.data) >= 1
    /\ End(c) <= Len(bytes)
    /\ c.data = SubSeq(bytes, c.offset + 1, End(c))
    /\ c.isLastChunk <=> End(c) = Len(bytes)

\* The chunks follow one another from the first byte to the one before offset.
Covers(chunks, bytes, offset) ==
    /\ \A i \in 1 .. Len(chunks) :
           Piece(chunks[i], bytes) /\ chunks[i].offset = Begin(chunks, i)
    /\ offset = Begin(chunks, Len(chunks) + 1)

\* The states of the loop of prepareFileChunks().
ChunkLoop(B, bytes) ==
    {s \in [offset : 0 .. Len(bytes), chunks : Seq(ChunkOf(B))] :
         Covers(s.chunks, bytes, s.offset)}

LEMMA ChunkFields ==
    ASSUME NEW B, NEW c \in ChunkOf(B)
    PROVE  c.offset \in Nat /\ c.data \in Seq(B) /\ Len(c.data) \in Nat
<1>1. c.offset \in Nat /\ c.data \in Seq(B)
  BY DEF ChunkOf
<1> QED
  BY <1>1

LEMMA MinTwo ==
    ASSUME NEW a \in Nat, NEW b \in Nat
    PROVE  Min({a, b}) = IF a <= b THEN a ELSE b
<1>1. Min({a, b}) = CHOOSE x \in {a, b} : \A y \in {a, b} : x <= y
  BY DEF Min
<1> QED
  BY <1>1

LEMMA MaxTwo ==
    ASSUME NEW a \in Nat, NEW b \in Nat
    PROVE  Max({a, b}) = IF a >= b THEN a ELSE b
<1>1. Max({a, b}) = CHOOSE x \in {a, b} : \A y \in {a, b} : x >= y
  BY DEF Max
<1> QED
  BY <1>1

LEMMA PartType ==
    ASSUME NEW B, NEW bytes \in Seq(B), NEW a \in 0 .. Len(bytes), NEW e \in a .. Len(bytes)
    PROVE  /\ SubSeq(bytes, a + 1, e) \in Seq(B)
           /\ Len(SubSeq(bytes, a + 1, e)) = e - a
           /\ \A i \in 1 .. e - a : SubSeq(bytes, a + 1, e)[i] = bytes[a + i]
OBVIOUS

LEMMA HashType ==
    ASSUME NEW B, NEW data \in Seq(B)
    PROVE  CalculateSha256(data) \in Seq(B \cup {"sha256"})
<1> DEFINE D == B \cup {"sha256"}
<1>1. \A i \in 1 .. Len(data) : data[i] \in D
  OBVIOUS
<1>2. data \in Seq(D)
  BY <1>1
<1>3. <<"sha256">> \in Seq(D)
  OBVIOUS
<1> HIDE DEF D
<1>4. <<"sha256">> \o data \in Seq(D)
  BY <1>2, <1>3
<1> QED
  BY <1>4 DEF CalculateSha256, D

\* A chunk more at the end.
LEMMA CoversMore ==
    ASSUME NEW B, NEW bytes \in Seq(B), NEW chunks \in Seq(ChunkOf(B)), NEW offset \in Nat,
           Covers(chunks, bytes, offset), NEW c \in ChunkOf(B), Piece(c, bytes), c.offset = offset
    PROVE  /\ Append(chunks, c) \in Seq(ChunkOf(B))
           /\ Covers(Append(chunks, c), bytes, End(c))
<1> DEFINE n == Len(chunks)
           more == Append(chunks, c)
<1>1. /\ more \in Seq(ChunkOf(B)) /\ n \in Nat /\ Len(more) = n + 1
      /\ \A i \in 1 .. n : more[i] = chunks[i]
      /\ more[n + 1] = c
  OBVIOUS
<1>2. n = Len(chunks)
  OBVIOUS
<1> HIDE DEF n, more
<1>3. \A i \in 1 .. n + 1 : Begin(more, i) = Begin(chunks, i)
  <2> SUFFICES ASSUME NEW i \in 1 .. n + 1
               PROVE  Begin(more, i) = Begin(chunks, i)
    OBVIOUS
  <2>1. CASE i = 1
    BY <2>1 DEF Begin
  <2>2. CASE i # 1
    <3>1. i - 1 \in 1 .. n
      BY <1>1, <2>2
    <3>2. more[i - 1] = chunks[i - 1]
      BY <1>1, <3>1
    <3> QED
      BY <2>2, <3>2 DEF Begin
  <2> QED
    BY <2>1, <2>2
<1>4. ASSUME NEW i \in 1 .. Len(more)
      PROVE  Piece(more[i], bytes) /\ more[i].offset = Begin(more, i)
  <2>0. i \in 1 .. n + 1
    BY <1>1
  <2>1. CASE i = n + 1
    <3>1. offset = Begin(chunks, n + 1)
      BY <1>2 DEF Covers
    <3> QED
      BY <1>1, <1>3, <2>0, <2>1, <3>1
  <2>2. CASE i # n + 1
    <3>1. i \in 1 .. n
      BY <1>1, <2>0, <2>2
    <3>2. Piece(chunks[i], bytes) /\ chunks[i].offset = Begin(chunks, i)
      BY <1>2, <3>1 DEF Covers
    <3> QED
      BY <1>1, <1>3, <2>0, <3>1, <3>2
  <2> QED
    BY <2>1, <2>2
<1>5. End(c) = Begin(more, Len(more) + 1)
  <2>1. Len(more) + 1 # 1 /\ (Len(more) + 1) - 1 = n + 1
    BY <1>1
  <2> QED
    BY <1>1, <2>1 DEF Begin
<1>6. Covers(more, bytes, End(c))
  BY <1>4, <1>5 DEF Covers
<1> QED
  BY <1>1, <1>6 DEF more

\* A round of the loop.
LEMMA NextChunkType ==
    ASSUME NEW B, NEW bytes \in Seq(B), NEW size \in Nat \ {0}, NEW s \in ChunkLoop(B, bytes),
           s.offset < Len(bytes)
    PROVE  /\ NextChunk(s, bytes, size) \in ChunkLoop(B, bytes)
           /\ NextChunk(s, bytes, size).offset > s.offset
<1> DEFINE total == Len(bytes)
           current == Min({size, total - s.offset})
           e == s.offset + current
           data == SubSeq(bytes, s.offset + 1, e)
           c == [chunkIndex  |-> Len(s.chunks), offset |-> s.offset, totalSize |-> total,
                 data        |-> data, sha256Hash |-> CalculateSha256(data),
                 isLastChunk |-> e >= total]
<1>1. /\ s.offset \in 0 .. total /\ s.chunks \in Seq(ChunkOf(B)) /\ s.offset \in Nat
      /\ total \in Nat /\ Covers(s.chunks, bytes, s.offset) /\ s.offset < total
  BY DEF ChunkLoop
<1>2. current \in 1 .. total - s.offset
  <2>1. total - s.offset \in Nat /\ total - s.offset >= 1
    BY <1>1
  <2>2. current = IF size <= total - s.offset THEN size ELSE total - s.offset
    BY <2>1, MinTwo
  <2> QED
    BY <2>1, <2>2
<1>3. NextChunk(s, bytes, size) = [offset |-> e, chunks |-> Append(s.chunks, c)]
  BY DEF NextChunk
<1>4. total = Len(bytes)
  OBVIOUS
<1> HIDE DEF total, current
<1>5. e \in s.offset .. total /\ e > s.offset /\ e \in Nat
  BY <1>1, <1>2
<1>6. e \in s.offset .. Len(bytes)
  BY <1>4, <1>5
<1> HIDE DEF e
<1>7. data \in Seq(B) /\ Len(data) = e - s.offset
  <2>1. s.offset \in 0 .. Len(bytes)
    BY <1>1, <1>4
  <2> QED
    BY <1>6, <2>1, PartType
<1>8. CalculateSha256(data) \in Seq(B \cup {"sha256"})
  BY <1>7, HashType
<1>9. c \in ChunkOf(B)
  <2>1. Len(s.chunks) \in Nat /\ (e >= total) \in BOOLEAN
    BY <1>1
  <2> HIDE DEF data
  <2> QED
    BY <1>1, <1>7, <1>8, <2>1 DEF ChunkOf
<1>10. End(c) = e
  BY <1>1, <1>5, <1>7 DEF End
<1>11. /\ c.totalSize = total /\ c.data = data /\ c.offset = s.offset
       /\ c.isLastChunk = (e >= total)
  OBVIOUS
<1>12. Piece(c, bytes)
  <2>1. Len(c.data) >= 1 /\ End(c) <= Len(bytes)
    BY <1>1, <1>4, <1>5, <1>7, <1>10, <1>11
  <2>2. c.isLastChunk <=> End(c) = Len(bytes)
    <3>1. (e >= total) <=> e = total
      BY <1>1, <1>5
    <3> HIDE DEF c
    <3> QED
      BY <1>4, <1>10, <1>11, <3>1, Zenon
  <2>3. c.data = SubSeq(bytes, c.offset + 1, End(c))
    BY <1>10, <1>11
  <2> QED
    BY <1>4, <1>11, <2>1, <2>2, <2>3 DEF Piece
<1> HIDE DEF c
<1>13. /\ Append(s.chunks, c) \in Seq(ChunkOf(B))
       /\ Covers(Append(s.chunks, c), bytes, e)
  BY <1>1, <1>9, <1>10, <1>11, <1>12, CoversMore
<1> DEFINE d == [offset |-> e, chunks |-> Append(s.chunks, c)]
<1>14. d \in ChunkLoop(B, bytes)
  <2>1. e \in 0 .. Len(bytes)
    BY <1>1, <1>4, <1>5
  <2> QED
    BY <1>13, <2>1 DEF ChunkLoop
<1> QED
  BY <1>3, <1>5, <1>14

\* f holds the states of the loop of prepareFileChunks().
Prepares(f, B, file, size) ==
    LET total == Len(file.bytes)
    IN  /\ f \in [0 .. total -> ChunkLoop(B, file.bytes)]
        /\ f[0].offset = 0
        /\ \A i \in 1 .. total :
               f[i] = IF f[i - 1].offset < total THEN NextChunk(f[i - 1], file.bytes, size)
                      ELSE f[i - 1]
        /\ PrepareFileChunks(file, size) = f[total].chunks

LEMMA NoChunks ==
    ASSUME NEW B, NEW bytes \in Seq(B)
    PROVE  [offset |-> 0, chunks |-> << >>] \in ChunkLoop(B, bytes)
<1>1. Covers(<< >>, bytes, 0)
  BY DEF Covers, Begin
<1>2. 0 \in 0 .. Len(bytes) /\ << >> \in Seq(ChunkOf(B))
  OBVIOUS
<1> QED
  BY <1>1, <1>2 DEF ChunkLoop

LEMMA PrepareLoop ==
    ASSUME NEW B, NEW file, file.bytes \in Seq(B), NEW size \in Nat \ {0}
    PROVE  \E f : Prepares(f, B, file, size)
<1> DEFINE b == file.bytes
           n == Len(b)
           S == ChunkLoop(B, b)
           base == [offset |-> 0, chunks |-> << >>]
           Round(s) == IF s.offset < n THEN NextChunk(s, b, size) ELSE s
           step == [x \in (1 .. n) \X S |-> Round(x[2])]
           Runs(f) == f = [i \in 0 .. n |->
                              IF i = 0 THEN [offset |-> 0, chunks |-> << >>]
                              ELSE IF f[i - 1].offset < n THEN NextChunk(f[i - 1], b, size)
                              ELSE f[i - 1]]
<1>1. n \in Nat /\ base \in S
  BY NoChunks
<1>2. \A s \in S : Round(s) \in S
  BY NextChunkType
<1>3. step \in [(1 .. n) \X S -> S]
  <2> HIDE DEF Round, S, n
  <2> QED
    BY <1>2
<1> HIDE DEF S, n, base
<1>4. PICK f \in [0 .. n -> S] : f[0] = base /\ \A i \in 1 .. n : f[i] = step[<<i, f[i - 1]>>]
  <2> HIDE DEF step
  <2>1. \E f : IsLoop(f, n, S, base, step)
    BY <1>1, <1>3, LoopExists
  <2> QED
    BY <2>1 DEF IsLoop
<1>5. ASSUME NEW i \in 1 .. n
      PROVE  f[i] = Round(f[i - 1])
  <2>1. i - 1 \in 0 .. n /\ f[i - 1] \in S /\ <<i, f[i - 1]>> \in (1 .. n) \X S
    BY <1>1
  <2> HIDE DEF Round
  <2> QED
    BY <1>4, <2>1
<1>6. Runs(f)
  <2> HIDE DEF step
  <2>1. ASSUME NEW i \in 0 .. n
        PROVE  f[i] = IF i = 0 THEN base ELSE Round(f[i - 1])
    <3>1. i # 0 => i \in 1 .. n
      BY <1>1
    <3> HIDE DEF Round
    <3> QED
      BY <1>4, <1>5, <3>1
  <2> QED
    BY <2>1 DEF base
<1> DEFINE g == CHOOSE h : Runs(h)
<1>7. Runs(g)
  <2> HIDE DEF Runs
  <2> QED
    BY <1>6
<1>8. PrepareFileChunks(file, size) = g[n].chunks
  BY DEF PrepareFileChunks, n
<1> HIDE DEF g
<1>9. g[0] = base /\ \A i \in 1 .. n : g[i] = Round(g[i - 1])
  <2>1. 0 \in 0 .. n /\ \A i \in 1 .. n : i \in 0 .. n /\ i # 0
    BY <1>1
  <2> QED
    BY <1>7, <2>1 DEF base
<1>10. g = [i \in 0 .. n |-> g[i]]
  BY <1>7
<1>11. \A i \in 0 .. n : g[i] \in S
  <2>1. ASSUME NEW i \in 1 .. n, g[i - 1] \in S
        PROVE  g[i] \in S
    <3> HIDE DEF Round
    <3> QED
      BY <1>2, <1>9, <2>1
  <2> HIDE DEF Round, Runs
  <2>2. g[0] \in S
    BY <1>1, <1>9
  <2> QED
    BY <1>1, <2>1, <2>2, LoopKeeps
<1>12. g \in [0 .. n -> S]
  <2> HIDE DEF Runs, Round
  <2> QED
    BY <1>10, <1>11
<1>13. g[0].offset = 0
  BY <1>9 DEF base
<1> QED
  <2> HIDE DEF Runs
  <2> QED
    BY <1>8, <1>9, <1>12, <1>13 DEF Prepares, n, S

\* prepareFileChunks() cuts the whole file into pieces that follow one another.
LEMMA ChunksCover ==
    ASSUME NEW B, NEW file, file.bytes \in Seq(B), NEW size \in Nat \ {0}
    PROVE  /\ PrepareFileChunks(file, size) \in Seq(ChunkOf(B))
           /\ Covers(PrepareFileChunks(file, size), file.bytes, Len(file.bytes))
<1>1. PICK f : Prepares(f, B, file, size)
  BY PrepareLoop
<1> DEFINE b == file.bytes
           n == Len(b)
           S == ChunkLoop(B, b)
<1>2. /\ f \in [0 .. n -> S] /\ f[0].offset = 0
      /\ \A i \in 1 .. n : f[i] = IF f[i - 1].offset < n THEN NextChunk(f[i - 1], b, size)
                                  ELSE f[i - 1]
      /\ PrepareFileChunks(file, size) = f[n].chunks
  BY <1>1 DEF Prepares
<1>3. n \in Nat
  OBVIOUS
<1>4. ASSUME NEW s \in S
      PROVE  /\ s.offset \in 0 .. n /\ s.chunks \in Seq(ChunkOf(B))
             /\ Covers(s.chunks, b, s.offset)
  BY DEF ChunkLoop
<1>5. ASSUME NEW s \in S, s.offset < n
      PROVE  NextChunk(s, b, size) \in S /\ NextChunk(s, b, size).offset > s.offset
  BY <1>5, NextChunkType
<1> HIDE DEF n, S
<1> DEFINE T == {i \in 0 .. n : f[i].offset >= i}
<1>6. 0 \in T
  BY <1>2, <1>3
<1>7. ASSUME NEW i \in T, i \in 0 .. n - 1
      PROVE  i + 1 \in T
  <2>1. /\ i \in 0 .. n /\ i + 1 \in 1 .. n /\ i + 1 \in 0 .. n /\ (i + 1) - 1 = i /\ i \in Nat
    BY <1>3, <1>7
  <2>2. /\ f[i] \in S /\ f[i + 1] \in S
        /\ f[i + 1] = IF f[i].offset < n THEN NextChunk(f[i], b, size) ELSE f[i]
    BY <1>2, <2>1
  <2>3. f[i].offset \in 0 .. n /\ f[i + 1].offset \in 0 .. n /\ f[i].offset >= i
    BY <1>4, <2>2
  <2>4. CASE f[i].offset < n
    <3>1. f[i + 1].offset > f[i].offset
      BY <1>5, <2>2, <2>4
    <3> QED
      BY <1>3, <2>1, <2>3, <3>1
  <2>5. CASE ~ (f[i].offset < n)
    <3>1. f[i + 1].offset = f[i].offset
      BY <2>2, <2>5
    <3> QED
      BY <1>3, <1>7, <2>1, <2>3, <2>5, <3>1
  <2> QED
    BY <2>4, <2>5
<1>8. n \in T
  <2> HIDE DEF T
  <2>1. \A i \in 0 .. n : i \in T
    BY <1>3, <1>6, <1>7, BoundedInduction
  <2> QED
    BY <1>3, <2>1
<1>9. f[n] \in S
  BY <1>2, <1>3
<1>10. f[n].offset = n
  BY <1>3, <1>4, <1>8, <1>9
<1> QED
  BY <1>2, <1>4, <1>9, <1>10 DEF n

\* What the callers rely on: the ends of the pieces lead up to the end of the file, and
\* exactly the last chunk says that it is the last.
LEMMA PiecesLead ==
    ASSUME NEW B, NEW bytes \in Seq(B), NEW chunks \in Seq(ChunkOf(B)),
           Covers(chunks, bytes, Len(bytes))
    PROVE  /\ \A i \in 1 .. Len(chunks) :
                  /\ chunks[i] \in ChunkOf(B) /\ Len(chunks[i].data) \in Nat
                  /\ chunks[i].offset \in 0 .. Len(bytes)
                  /\ End(chunks[i]) \in chunks[i].offset + 1 .. Len(bytes)
                  /\ chunks[i].data = SubSeq(bytes, chunks[i].offset + 1, End(chunks[i]))
                  /\ chunks[i].totalSize = Len(bytes)
                  /\ chunks[i].isLastChunk <=> i = Len(chunks)
           /\ \A i \in 1 .. Len(chunks) : chunks[i].offset = Begin(chunks, i)
           /\ chunks # << >> => End(chunks[Len(chunks)]) = Len(bytes) /\ Len(bytes) # 0
           /\ chunks = << >> => Len(bytes) = 0
<1> DEFINE n == Len(chunks)
           total == Len(bytes)
<1>1. n \in Nat /\ total \in Nat /\ \A i \in 1 .. n : chunks[i] \in ChunkOf(B)
  OBVIOUS
<1>2. /\ \A i \in 1 .. n : Piece(chunks[i], bytes) /\ chunks[i].offset = Begin(chunks, i)
      /\ total = Begin(chunks, n + 1)
  BY DEF Covers
<1>3. ASSUME NEW i \in 1 .. n
      PROVE  /\ chunks[i].offset \in Nat /\ Len(chunks[i].data) \in Nat
             /\ Len(chunks[i].data) >= 1 /\ End(chunks[i]) <= total
             /\ chunks[i].data = SubSeq(bytes, chunks[i].offset + 1, End(chunks[i]))
             /\ chunks[i].totalSize = total
             /\ chunks[i].isLastChunk <=> End(chunks[i]) = total
  <2>1. chunks[i].offset \in Nat /\ Len(chunks[i].data) \in Nat
    BY <1>1, ChunkFields
  <2> QED
    BY <1>2, <2>1 DEF Piece
<1>4. ASSUME NEW i \in 1 .. n
      PROVE  /\ chunks[i].offset \in 0 .. total /\ End(chunks[i]) \in chunks[i].offset + 1 .. total
  BY <1>1, <1>3 DEF End
<1>5. n >= 1 => End(chunks[n]) = total
  <2> SUFFICES ASSUME n >= 1 PROVE End(chunks[n]) = total
    OBVIOUS
  <2>1. n + 1 # 1 /\ (n + 1) - 1 = n
    BY <1>1
  <2> QED
    BY <1>2, <2>1 DEF Begin
<1>6. ASSUME NEW i \in 1 .. n
      PROVE  End(chunks[i]) = total <=> i = n
  <2>1. CASE i = n
    BY <1>1, <1>5, <2>1
  <2>2. CASE i # n
    <3>1. i + 1 \in 1 .. n /\ i + 1 # 1 /\ (i + 1) - 1 = i
      BY <1>1, <2>2
    <3>2. chunks[i + 1].offset = End(chunks[i])
      BY <1>2, <3>1 DEF Begin
    <3>3. /\ chunks[i + 1].offset \in 0 .. total
          /\ End(chunks[i + 1]) \in chunks[i + 1].offset + 1 .. total
      BY <1>4, <3>1
    <3> QED
      BY <1>1, <2>2, <3>2, <3>3
  <2> QED
    BY <2>1, <2>2
<1>7. chunks # << >> => n \in 1 .. n /\ n >= 1
  BY <1>1
<1>8. chunks # << >> => End(chunks[n]) = total /\ total # 0
  <2> SUFFICES ASSUME chunks # << >> PROVE End(chunks[n]) = total /\ total # 0
    OBVIOUS
  <2>1. /\ chunks[n].offset \in 0 .. total /\ End(chunks[n]) \in chunks[n].offset + 1 .. total
    BY <1>4, <1>7
  <2> QED
    BY <1>1, <1>5, <1>7, <2>1
<1>9. chunks = << >> => total = 0
  BY <1>2 DEF Begin
<1> QED
  BY <1>1, <1>2, <1>3, <1>4, <1>6, <1>8, <1>9

-----------------------------------------------------------------------------
(***************************************************************************)
(* The loop of the transfer calls.                                         *)
(***************************************************************************)

\* The members of SessionClient; of some only that they are there.
XferLike(x, progress, paused, total, current) ==
    [status : {x.status}, progress : progress, paused : paused, total : total,
     current : current, queue : {x.queue},
     remotePath : {x.remotePath}, remoteList : {x.remoteList},
     localPath  : {x.localPath},  localList  : {x.localList}]

XferOK(x) == x \in XferLike(x, Nat \X Nat, BOOLEAN, Nat, Nat)

\* The states of the loop that starts with x.
Going(x) == XferLike(x, Nat \X Nat, {x.paused}, {x.total}, Nat)

LEMMA GoingFacts ==
    ASSUME NEW x, XferOK(x)
    PROVE  /\ x \in Going(x) /\ x.total \in Nat /\ x.current \in Nat /\ x.paused \in BOOLEAN
           /\ \A y \in Going(x) : /\ XferOK(y) /\ y.paused = x.paused /\ y.total = x.total
                                  /\ y.remotePath = x.remotePath /\ y.current \in Nat
BY DEF XferOK, Going, XferLike

LEMMA ChunkMoves ==
    ASSUME NEW B, NEW x, XferOK(x), NEW y \in Going(x), NEW c \in ChunkOf(B)
    PROVE  /\ TransferChunk(y, c) \in Going(x)
           /\ x.paused => TransferChunk(y, c) = y
           /\ ~ x.paused =>
                  /\ TransferChunk(y, c).current = y.current + Len(c.data)
                  /\ TransferChunk(y, c).progress = <<y.current + Len(c.data), x.total>>
<1>1. y.paused = x.paused /\ y.total = x.total /\ y.current \in Nat /\ x.total \in Nat
  BY GoingFacts
<1>2. CASE x.paused
  BY <1>1, <1>2 DEF TransferChunk
<1>3. CASE ~ x.paused
  <2> DEFINE k == y.current + Len(c.data)
             q == <<k, x.total>>
  <2>1. k \in Nat
    BY <1>1, ChunkFields
  <2>2. TransferChunk(y, c) = [y EXCEPT !.current = k, !.progress = q]
    BY <1>1, <1>3 DEF TransferChunk
  <2> HIDE DEF k
  <2>3. q \in Nat \X Nat
    BY <1>1, <2>1
  <2> HIDE DEF q
  <2> DEFINE z == [y EXCEPT !.current = k]
  <2>4. z = [status |-> y.status, progress |-> y.progress, paused |-> y.paused, total |-> y.total,
             current |-> k, queue |-> y.queue,
             remotePath |-> y.remotePath, remoteList |-> y.remoteList,
             localPath  |-> y.localPath,  localList  |-> y.localList]
    BY DEF Going, XferLike
  <2>5. TransferChunk(y, c) = [z EXCEPT !.progress = q]
    BY <2>2
  <2> HIDE DEF z
  <2>6. [z EXCEPT !.progress = q]
            = [status |-> y.status, progress |-> q, paused |-> y.paused, total |-> y.total,
               current |-> k, queue |-> y.queue,
               remotePath |-> y.remotePath, remoteList |-> y.remoteList,
               localPath  |-> y.localPath,  localList  |-> y.localList]
    BY <2>4
  <2>7. TransferChunk(y, c) \in Going(x)
    BY <2>1, <2>3, <2>5, <2>6 DEF Going, XferLike
  <2>8. TransferChunk(y, c).current = k /\ TransferChunk(y, c).progress = q
    BY <2>5, <2>6
  <2> QED
    BY <1>3, <2>7, <2>8 DEF k, q
<1> QED
  BY <1>2, <1>3

\* f holds the states of the loop of TransferLoop().
Moves(f, x, chunks) ==
    /\ f \in [0 .. Len(chunks) -> Going(x)]
    /\ f[0] = x
    /\ \A i \in 1 .. Len(chunks) : f[i] = TransferChunk(f[i - 1], chunks[i])
    /\ TransferLoop(x, chunks) = f[Len(chunks)]

LEMMA MovesLoop ==
    ASSUME NEW B, NEW x, XferOK(x), NEW chunks \in Seq(ChunkOf(B))
    PROVE  \E f : Moves(f, x, chunks)
<1> DEFINE n == Len(chunks)
           S == Going(x)
           step == [z \in (1 .. n) \X S |-> TransferChunk(z[2], chunks[z[1]])]
           Runs(f) == f = [i \in 0 .. n |-> IF i = 0 THEN x ELSE TransferChunk(f[i - 1], chunks[i])]
<1>1. n \in Nat /\ x \in S /\ \A i \in 1 .. n : chunks[i] \in ChunkOf(B)
  BY GoingFacts
<1>2. \A y \in S : \A i \in 1 .. n : TransferChunk(y, chunks[i]) \in S
  BY <1>1, ChunkMoves
<1> HIDE DEF n, S
<1>3. step \in [(1 .. n) \X S -> S]
  BY <1>2
<1>4. PICK f \in [0 .. n -> S] : f[0] = x /\ \A i \in 1 .. n : f[i] = step[<<i, f[i - 1]>>]
  <2> HIDE DEF step
  <2>1. \E f : IsLoop(f, n, S, x, step)
    BY <1>1, <1>3, LoopExists
  <2> QED
    BY <2>1 DEF IsLoop
<1>5. ASSUME NEW i \in 1 .. n
      PROVE  f[i] = TransferChunk(f[i - 1], chunks[i])
  <2>1. i - 1 \in 0 .. n /\ f[i - 1] \in S /\ <<i, f[i - 1]>> \in (1 .. n) \X S
    BY <1>1
  <2> QED
    BY <1>4, <2>1
<1>6. Runs(f)
  <2> HIDE DEF step
  <2>1. ASSUME NEW i \in 0 .. n
        PROVE  f[i] = IF i = 0 THEN x ELSE TransferChunk(f[i - 1], chunks[i])
    <3>1. i # 0 => i \in 1 .. n
      BY <1>1
    <3> QED
      BY <1>4, <1>5, <3>1
  <2> QED
    BY <2>1
<1> DEFINE g == CHOOSE h : Runs(h)
<1>7. Runs(g)
  <2> HIDE DEF Runs
  <2> QED
    BY <1>6
<1>8. TransferLoop(x, chunks) = g[n]
  BY DEF TransferLoop, n
<1> HIDE DEF g
<1>9. g[0] = x /\ \A i \in 1 .. n : g[i] = TransferChunk(g[i - 1], chunks[i])
  <2>1. 0 \in 0 .. n /\ \A i \in 1 .. n : i \in 0 .. n /\ i # 0
    BY <1>1
  <2> QED
    BY <1>7, <2>1
<1>10. g = [i \in 0 .. n |-> g[i]]
  BY <1>7
<1> HIDE DEF Runs
<1>11. \A i \in 0 .. n : g[i] \in S
  <2>1. ASSUME NEW i \in 1 .. n, g[i - 1] \in S
        PROVE  g[i] \in S
    BY <1>2, <1>9, <2>1
  <2>2. g[0] \in S
    BY <1>1, <1>9
  <2> QED
    BY <1>1, <2>1, <2>2, LoopKeeps
<1> QED
  BY <1>8, <1>9, <1>10, <1>11 DEF Moves, n, S

\* The loop moves the whole file, or nothing if it finds the pause flag set.
LEMMA LoopMovesAll ==
    ASSUME NEW B, NEW bytes \in Seq(B), NEW chunks \in Seq(ChunkOf(B)),
           Covers(chunks, bytes, Len(bytes)), NEW x, XferOK(x), x.current = 0
    PROVE  /\ TransferLoop(x, chunks) \in Going(x)
           /\ x.paused \/ chunks = << >> => TransferLoop(x, chunks) = x
           /\ ~ x.paused /\ chunks # << >> =>
                  /\ TransferLoop(x, chunks).current = Len(bytes)
                  /\ TransferLoop(x, chunks).progress = <<Len(bytes), x.total>>
<1>1. PICK f : Moves(f, x, chunks)
  BY MovesLoop
<1> DEFINE n == Len(chunks)
<1>2. /\ f \in [0 .. n -> Going(x)] /\ f[0] = x
      /\ \A i \in 1 .. n : f[i] = TransferChunk(f[i - 1], chunks[i])
      /\ TransferLoop(x, chunks) = f[n]
  BY <1>1 DEF Moves
<1>3. n \in Nat /\ \A i \in 1 .. n : chunks[i] \in ChunkOf(B)
  OBVIOUS
<1>4. /\ \A i \in 1 .. n : End(chunks[i]) = chunks[i].offset + Len(chunks[i].data)
      /\ \A i \in 1 .. n : chunks[i].offset = Begin(chunks, i)
      /\ chunks # << >> => End(chunks[n]) = Len(bytes)
  BY PiecesLead DEF End
<1>5. chunks = << >> <=> n = 0
  OBVIOUS
<1> HIDE DEF n
<1>6. TransferLoop(x, chunks) \in Going(x)
  BY <1>2, <1>3
<1> DEFINE Moved(i) == IF i = 0 THEN 0 ELSE End(chunks[i])
<1>7. ASSUME NEW i \in 1 .. n
      PROVE  Moved(i) = Moved(i - 1) + Len(chunks[i].data)
  <2>1. Moved(i - 1) = Begin(chunks, i)
    <3>1. i - 1 = 0 <=> i = 1
      BY <1>3
    <3> QED
      BY <3>1 DEF Begin
  <2>2. Moved(i) = End(chunks[i])
    BY <1>3
  <2> QED
    BY <1>4, <2>1, <2>2
<1> DEFINE T == {i \in 0 .. n :
                     /\ x.paused => f[i] = x
                     /\ ~ x.paused =>
                            /\ f[i].current = Moved(i)
                            /\ i # 0 => f[i].progress = <<Moved(i), x.total>>}
<1>8. 0 \in T
  BY <1>2, <1>3
<1>9. ASSUME NEW i \in T, i \in 0 .. n - 1
      PROVE  i + 1 \in T
  <2>1. i \in 0 .. n /\ i + 1 \in 1 .. n /\ i + 1 \in 0 .. n /\ (i + 1) - 1 = i /\ i + 1 # 0
    BY <1>3, <1>9
  <2>2. f[i] \in Going(x) /\ f[i + 1] = TransferChunk(f[i], chunks[i + 1])
    BY <1>2, <2>1
  <2>3. /\ x.paused => f[i + 1] = f[i]
        /\ ~ x.paused =>
               /\ f[i + 1].current = f[i].current + Len(chunks[i + 1].data)
               /\ f[i + 1].progress = <<f[i].current + Len(chunks[i + 1].data), x.total>>
    <3> DEFINE y == f[i]
               c == chunks[i + 1]
    <3>1. y \in Going(x) /\ c \in ChunkOf(B) /\ f[i + 1] = TransferChunk(y, c)
      BY <1>3, <2>1, <2>2
    <3> HIDE DEF y, c
    <3>2. /\ x.paused => TransferChunk(y, c) = y
          /\ ~ x.paused =>
                 /\ TransferChunk(y, c).current = y.current + Len(c.data)
                 /\ TransferChunk(y, c).progress = <<y.current + Len(c.data), x.total>>
      BY <3>1, ChunkMoves
    <3> QED
      BY <3>1, <3>2 DEF y, c
  <2>4. Moved(i + 1) = Moved(i) + Len(chunks[i + 1].data)
    BY <1>7, <2>1
  <2> HIDE DEF Moved
  <2> QED
    BY <1>9, <2>1, <2>3, <2>4
<1>10. n \in T
  <2> HIDE DEF T
  <2>1. \A i \in 0 .. n : i \in T
    BY <1>3, <1>8, <1>9, BoundedInduction
  <2> QED
    BY <1>3, <2>1
<1>11. chunks # << >> => Moved(n) = Len(bytes) /\ n # 0
  BY <1>4, <1>5
<1> HIDE DEF Moved
<1>12. chunks = << >> => f[n] = x
  BY <1>2, <1>5
<1> QED
  BY <1>2, <1>6, <1>10, <1>11, <1>12

-----------------------------------------------------------------------------
(***************************************************************************)
(* Writing the chunks.                                                     *)
(***************************************************************************)

FileOf(B) == [kind : {"none", "file", "dir"}, bytes : Seq(B)]

\* A gap holds zeros.
Gapped(B) == FileOf(B \cup {0})

LEMMA WriteType ==
    ASSUME NEW B, NEW file \in Gapped(B), NEW offset \in Nat, NEW data \in Seq(B)
    PROVE  WriteChunkToFile(file, offset, data) \in Gapped(B)
<1> DEFINE C == B \cup {0}
           old == file.bytes
           e == offset + Len(data)
           top == Max({Len(old), e})
           new == [i \in 1 .. top |-> IF i \in offset + 1 .. e THEN data[i - offset]
                                      ELSE IF i <= Len(old) THEN old[i] ELSE 0]
<1>1. /\ old \in Seq(C) /\ Len(old) \in Nat /\ Len(data) \in Nat /\ e \in Nat
      /\ \A i \in 1 .. Len(old) : old[i] \in C
      /\ \A i \in 1 .. Len(data) : data[i] \in C
  BY DEF Gapped, FileOf
<1>2. top \in Nat
  BY <1>1, MaxTwo
<1>3. WriteChunkToFile(file, offset, data)
          = IF offset = 0 THEN File(data) ELSE IF file.kind # "file" THEN file ELSE File(new)
  BY DEF WriteChunkToFile
<1> HIDE DEF top
<1>4. ASSUME NEW i \in 1 .. top
      PROVE  (IF i \in offset + 1 .. e THEN data[i - offset]
              ELSE IF i <= Len(old) THEN old[i] ELSE 0) \in C
  <2>1. CASE i \in offset + 1 .. e
    <3>1. i - offset \in 1 .. Len(data)
      BY <1>1, <1>2, <2>1
    <3> QED
      BY <1>1, <2>1, <3>1
  <2>2. CASE i \notin offset + 1 .. e /\ i <= Len(old)
    <3>1. i \in 1 .. Len(old)
      BY <1>1, <1>2, <2>2
    <3> QED
      BY <1>1, <2>2, <3>1
  <2>3. CASE i \notin offset + 1 .. e /\ ~ (i <= Len(old))
    BY <2>3
  <2> QED
    BY <2>1, <2>2, <2>3
<1>5. data \in Seq(C)
  BY <1>1
<1> HIDE DEF C
<1>6. new \in Seq(C)
  <2>1. new \in [1 .. top -> C]
    BY <1>4
  <2> HIDE DEF new
  <2> QED
    BY <1>2, <2>1
<1> HIDE DEF new
<1>7. File(data) \in Gapped(B) /\ File(new) \in Gapped(B)
  BY <1>5, <1>6 DEF File, Gapped, FileOf, C
<1> QED
  BY <1>3, <1>7

\* A piece written over a file that holds what comes before it, or that and the piece.
LEMMA WriteOnto ==
    ASSUME NEW B, NEW bytes \in Seq(B), NEW a \in 0 .. Len(bytes), NEW e \in a + 1 .. Len(bytes),
           NEW file,
           \/ a = 0
           \/ file = File(SubSeq(bytes, 1, a))
           \/ file = File(SubSeq(bytes, 1, e))
    PROVE  WriteChunkToFile(file, a, SubSeq(bytes, a + 1, e)) = File(SubSeq(bytes, 1, e))
<1> DEFINE data == SubSeq(bytes, a + 1, e)
           whole == SubSeq(bytes, 1, e)
<1>1. a \in Nat /\ e \in Nat /\ Len(bytes) \in Nat /\ a < e /\ e <= Len(bytes)
  OBVIOUS
<1>2. Len(data) = e - a /\ \A i \in 1 .. e - a : data[i] = bytes[a + i]
  BY <1>1, PartType
<1>3. /\ whole \in Seq(B) /\ Len(whole) = e /\ \A i \in 1 .. e : whole[i] = bytes[i]
  BY <1>1
<1>4. CASE a = 0
  BY <1>4 DEF WriteChunkToFile
<1>5. ASSUME a # 0, NEW m \in {a, e}, file = File(SubSeq(bytes, 1, m))
      PROVE  WriteChunkToFile(file, a, data) = File(whole)
  <2> DEFINE old == SubSeq(bytes, 1, m)
             new == [i \in 1 .. e |-> IF i \in a + 1 .. e THEN data[i - a]
                                      ELSE IF i <= m THEN old[i] ELSE 0]
  <2>1. m \in Nat /\ m <= e /\ a <= m
    BY <1>1
  <2>2. Len(old) = m /\ \A i \in 1 .. m : old[i] = bytes[i]
    BY <1>1, <2>1
  <2>3. file.kind = "file" /\ file.bytes = old
    BY <1>5 DEF File
  <2>4. a + Len(data) = e
    <3> HIDE DEF data, whole, old, new
    <3> QED
      BY <1>1, <1>2
  <2>5. Max({Len(old), a + Len(data)}) = e
    BY <1>1, <2>1, <2>2, <2>4, MaxTwo
  <2> HIDE DEF data, old, whole
  <2>6. WriteChunkToFile(file, a, data) = File(new)
    BY <1>5, <2>2, <2>3, <2>4, <2>5 DEF WriteChunkToFile
  <2>7. ASSUME NEW i \in 1 .. e
        PROVE  new[i] = whole[i]
    <3>1. CASE i \in a + 1 .. e
      <4>1. i - a \in 1 .. e - a /\ a + (i - a) = i
        BY <1>1, <3>1
      <4>2. data[i - a] = bytes[i]
        BY <1>2, <4>1
      <4> QED
        BY <1>3, <3>1, <4>2
    <3>2. CASE i \notin a + 1 .. e
      <4>1. i <= m /\ i \in 1 .. m
        BY <1>1, <2>1, <3>2
      <4> QED
        BY <1>3, <2>2, <3>2, <4>1
    <3> QED
      BY <3>1, <3>2
  <2>8. whole = [i \in 1 .. e |-> whole[i]]
    BY <1>1, <1>3
  <2>9. new = whole
    BY <2>7, <2>8
  <2> QED
    BY <2>6, <2>9
<1> QED
  BY <1>4, <1>5

\* f holds the states of the loop of WriteChunks().
WritesAll(f, file, chunks, times) ==
    /\ f[0] = file
    /\ \A i \in 1 .. Len(chunks) : f[i] = WriteChunk(f[i - 1], chunks[i], times)
    /\ WriteChunks(file, chunks, times) = f[Len(chunks)]

LEMMA WritesLoop ==
    ASSUME NEW B, NEW file \in Gapped(B), NEW chunks \in Seq(ChunkOf(B)), NEW times \in {1, 2}
    PROVE  \E f : WritesAll(f, file, chunks, times)
<1> DEFINE n == Len(chunks)
           S == Gapped(B)
           step == [z \in (1 .. n) \X S |-> WriteChunk(z[2], chunks[z[1]], times)]
           Runs(f) == f = [i \in 0 .. n |-> IF i = 0 THEN file
                                            ELSE WriteChunk(f[i - 1], chunks[i], times)]
<1>1. n \in Nat /\ file \in S /\ \A i \in 1 .. n : chunks[i] \in ChunkOf(B)
  OBVIOUS
<1>2. ASSUME NEW y \in S, NEW i \in 1 .. n
      PROVE  WriteChunk(y, chunks[i], times) \in S
  <2> DEFINE c == chunks[i]
  <2>1. c.offset \in Nat /\ c.data \in Seq(B)
    BY <1>1, ChunkFields
  <2> HIDE DEF c
  <2> DEFINE w == WriteChunkToFile(y, c.offset, c.data)
  <2>2. w \in S
    BY <2>1, WriteType
  <2> HIDE DEF w
  <2>3. WriteChunkToFile(w, c.offset, c.data) \in S
    BY <2>1, <2>2, WriteType
  <2> QED
    BY <2>2, <2>3 DEF WriteChunk, w, c
<1> HIDE DEF n, S
<1>3. step \in [(1 .. n) \X S -> S]
  BY <1>2
<1>4. PICK f \in [0 .. n -> S] : f[0] = file /\ \A i \in 1 .. n : f[i] = step[<<i, f[i - 1]>>]
  <2> HIDE DEF step
  <2>1. \E f : IsLoop(f, n, S, file, step)
    BY <1>1, <1>3, LoopExists
  <2> QED
    BY <2>1 DEF IsLoop
<1>5. ASSUME NEW i \in 1 .. n
      PROVE  f[i] = WriteChunk(f[i - 1], chunks[i], times)
  <2>1. i - 1 \in 0 .. n /\ f[i - 1] \in S /\ <<i, f[i - 1]>> \in (1 .. n) \X S
    BY <1>1
  <2> QED
    BY <1>4, <2>1
<1>6. Runs(f)
  <2> HIDE DEF step
  <2>1. ASSUME NEW i \in 0 .. n
        PROVE  f[i] = IF i = 0 THEN file ELSE WriteChunk(f[i - 1], chunks[i], times)
    <3>1. i # 0 => i \in 1 .. n
      BY <1>1
    <3> QED
      BY <1>4, <1>5, <3>1
  <2> QED
    BY <2>1
<1> DEFINE g == CHOOSE h : Runs(h)
<1>7. Runs(g)
  <2> HIDE DEF Runs
  <2> QED
    BY <1>6
<1>8. WriteChunks(file, chunks, times) = g[n]
  BY DEF WriteChunks, n
<1> HIDE DEF g
<1>9. g[0] = file /\ \A i \in 1 .. n : g[i] = WriteChunk(g[i - 1], chunks[i], times)
  <2>1. 0 \in 0 .. n /\ \A i \in 1 .. n : i \in 0 .. n /\ i # 0
    BY <1>1
  <2> QED
    BY <1>7, <2>1
<1> QED
  BY <1>8, <1>9 DEF WritesAll, n

\* The chunks of a file, written in their order over any other, give the file.
LEMMA ChunksGiveFile ==
    ASSUME NEW B, NEW bytes \in Seq(B), NEW chunks \in Seq(ChunkOf(B)),
           Covers(chunks, bytes, Len(bytes)), chunks # << >>,
           NEW file \in Gapped(B), NEW times \in {1, 2}
    PROVE  WriteChunks(file, chunks, times) = File(bytes)
<1>1. PICK f : WritesAll(f, file, chunks, times)
  BY WritesLoop
<1> DEFINE n == Len(chunks)
<1>2. /\ f[0] = file
      /\ \A i \in 1 .. n : f[i] = WriteChunk(f[i - 1], chunks[i], times)
      /\ WriteChunks(file, chunks, times) = f[n]
  BY <1>1 DEF WritesAll
<1>3. n \in Nat /\ n # 0
  OBVIOUS
<1>4. /\ \A i \in 1 .. n :
             /\ chunks[i].offset \in 0 .. Len(bytes)
             /\ End(chunks[i]) \in chunks[i].offset + 1 .. Len(bytes)
             /\ chunks[i].data = SubSeq(bytes, chunks[i].offset + 1, End(chunks[i]))
             /\ chunks[i].offset = Begin(chunks, i)
      /\ End(chunks[n]) = Len(bytes)
  BY PiecesLead
<1> HIDE DEF n
<1> DEFINE Upto(e) == File(SubSeq(bytes, 1, e))
           T == {i \in 0 .. n : i # 0 => f[i] = Upto(End(chunks[i]))}
<1>5. 0 \in T
  BY <1>3
<1>6. ASSUME NEW i \in T, i \in 0 .. n - 1
      PROVE  i + 1 \in T
  <2>1. i \in 0 .. n /\ i + 1 \in 1 .. n /\ i + 1 \in 0 .. n /\ (i + 1) - 1 = i /\ i + 1 # 0
    BY <1>3, <1>6
  <2> DEFINE c == chunks[i + 1]
             a == c.offset
             e == End(c)
             w == WriteChunkToFile(f[i], a, c.data)
  <2>2. /\ a \in 0 .. Len(bytes) /\ e \in a + 1 .. Len(bytes)
        /\ c.data = SubSeq(bytes, a + 1, e) /\ a = Begin(chunks, i + 1)
    BY <1>4, <2>1
  <2>3. f[i + 1] = WriteChunk(f[i], c, times)
    BY <1>2, <2>1
  <2>4. a = 0 \/ f[i] = Upto(a)
    <3>1. CASE i = 0
      BY <2>2, <3>1 DEF Begin
    <3>2. CASE i # 0
      <4>1. i + 1 # 1
        BY <2>1, <3>2
      <4>2. a = End(chunks[i])
        BY <2>1, <2>2, <4>1 DEF Begin
      <4> QED
        BY <3>2, <4>2
    <3> QED
      BY <3>1, <3>2
  <2>5. f[i + 1] = IF times = 1 THEN w ELSE WriteChunkToFile(w, a, c.data)
    BY <2>3 DEF WriteChunk
  <2> HIDE DEF c, a, e
  <2>6. w = Upto(e)
    BY <2>2, <2>4, WriteOnto
  <2> HIDE DEF w
  <2>7. WriteChunkToFile(w, a, c.data) = Upto(e)
    BY <2>2, <2>6, WriteOnto
  <2>8. f[i + 1] = Upto(e)
    BY <2>5, <2>6, <2>7
  <2> QED
    BY <2>1, <2>8 DEF c, e
<1>7. n \in T
  <2> HIDE DEF T
  <2>1. \A i \in 0 .. n : i \in T
    BY <1>3, <1>5, <1>6, BoundedInduction
  <2> QED
    BY <1>3, <2>1
<1>8. f[n] = File(SubSeq(bytes, 1, Len(bytes)))
  BY <1>3, <1>4, <1>7
<1>9. SubSeq(bytes, 1, Len(bytes)) = bytes
  OBVIOUS
<1> QED
  BY <1>2, <1>8, <1>9

-----------------------------------------------------------------------------
(***************************************************************************)
(* The inductive invariant.                                                *)
(***************************************************************************)

Byte == Paths \X Nat

\* Only a file has bytes.
DiskOK(d) ==
    /\ d \in [Paths -> FileOf(Byte)]
    /\ \A p \in Paths : d[p].kind # "file" => d[p].bytes = << >>

\* The size startFileDownload() gives a file that it cannot read.
Unread(total) == total = 1024

\* What a completed download has counted.
Downloaded(x) ==
    \/ x.paused /\ x.current = 0
    \/ ~ x.paused /\ x.current = x.total
    \/ Unread(x.total) /\ x.current = 0

\* What the client says of a transfer: CompletionCounts, and a progress that is none or
\* the one the counters give.
Told(x) ==
    /\ x.status = "Upload Completed" => x.current = x.total
    /\ x.status = "Download Completed" => Downloaded(x)
    /\ x.progress = NoProgress \/ x.progress = <<x.current, x.total>>

TransferInv == DiskOK(disk) /\ XferOK(xfer) /\ Told(xfer)

LEMMA NoProgressType == NoProgress \in Nat \X Nat
BY DEF NoProgress

\* The chunks of what is at a path.
LEMMA DiskChunks ==
    ASSUME NEW d, DiskOK(d), NEW p \in Paths, NEW size \in Nat \ {0}, NEW chunks,
           chunks = PrepareFileChunks(d[p], size)
    PROVE  /\ d[p] \in FileOf(Byte) /\ d[p].bytes \in Seq(Byte)
           /\ chunks \in Seq(ChunkOf(Byte))
           /\ Covers(chunks, d[p].bytes, Len(d[p].bytes))
           /\ chunks # << >> => /\ chunks[1].totalSize = Len(d[p].bytes)
                                /\ d[p] = File(d[p].bytes)
<1> DEFINE file == d[p]
<1>1. file \in FileOf(Byte) /\ (file.kind # "file" => file.bytes = << >>)
  BY DEF DiskOK
<1> HIDE DEF file
<1>2. file.bytes \in Seq(Byte)
  BY <1>1 DEF FileOf
<1>3. chunks = PrepareFileChunks(file, size)
  BY DEF file
<1>4. chunks \in Seq(ChunkOf(Byte)) /\ Covers(chunks, file.bytes, Len(file.bytes))
  BY <1>2, <1>3, ChunksCover
<1>5. ASSUME chunks # << >>
      PROVE  chunks[1].totalSize = Len(file.bytes) /\ file = File(file.bytes)
  <2>1. 1 \in 1 .. Len(chunks)
    BY <1>4, <1>5
  <2>2. chunks[1].totalSize = Len(file.bytes)
    BY <1>2, <1>4, <2>1, PiecesLead
  <2>3. Len(file.bytes) # 0
    BY <1>2, <1>4, <1>5, PiecesLead
  <2>4. file.kind = "file"
    BY <1>1, <2>3
  <2>5. file = File(file.bytes)
    BY <1>1, <2>4 DEF FileOf, File
  <2> QED
    BY <2>2, <2>5
<1> QED
  BY <1>1, <1>2, <1>4, <1>5 DEF file

\* y counts like x.
SameCounts(y, x) ==
    /\ XferOK(y)
    /\ y.progress = x.progress /\ y.paused = x.paused
    /\ y.total = x.total /\ y.current = x.current

LEMMA SetStatus ==
    ASSUME NEW x, XferOK(x), NEW status, NEW y, y = [x EXCEPT !.status = status]
    PROVE  SameCounts(y, x) /\ y.status = status
BY DEF XferOK, XferLike, SameCounts

\* What is told of x is told of y, if y has its status or one that tells nothing.
LEMMA ToldAgain ==
    ASSUME NEW x, NEW y, Told(x), SameCounts(y, x),
           y.status = x.status \/ y.status \notin {"Upload Completed", "Download Completed"}
    PROVE  Told(y)
<1>1. CASE y.status = x.status
  <2>1. /\ y.progress = x.progress /\ y.total = x.total /\ y.current = x.current
        /\ y.paused = x.paused /\ y.paused \in BOOLEAN
    BY GoingFacts DEF SameCounts
  <2>2. y.paused <=> x.paused
    BY <2>1
  <2>3. y.status = "Upload Completed" => y.current = y.total
    BY <1>1, <2>1 DEF Told
  <2>4. y.status = "Download Completed" => Downloaded(y)
    <3>1. x.status = "Download Completed" => Downloaded(x)
      BY DEF Told
    <3>2. Downloaded(x) => Downloaded(y)
      BY <2>1, <2>2, Zenon DEF Downloaded
    <3> QED
      BY <1>1, <3>1, <3>2
  <2>5. y.progress = NoProgress \/ y.progress = <<y.current, y.total>>
    BY <2>1 DEF Told
  <2> QED
    BY <2>3, <2>4, <2>5 DEF Told
<1>2. CASE y.status \notin {"Upload Completed", "Download Completed"}
  BY <1>2 DEF Told, SameCounts
<1> QED
  BY <1>1, <1>2

LEMMA SetRemote ==
    ASSUME NEW x, XferOK(x), NEW d, NEW path, NEW y, y = RequestDirectoryListing(x, d, path)
    PROVE  SameCounts(y, x) /\ y.status = x.status
<1> DEFINE list == ListingOf(d, path)
<1>1. y = [x EXCEPT !.remotePath = path, !.remoteList = list]
  BY DEF RequestDirectoryListing
<1> HIDE DEF list
<1> QED
  BY <1>1 DEF XferOK, XferLike, SameCounts

LEMMA SetLocal ==
    ASSUME NEW x, XferOK(x), NEW d, NEW path, NEW y, y = RequestLocalDirectoryListing(x, d, path)
    PROVE  SameCounts(y, x) /\ y.status = x.status
<1> DEFINE list == ListingOf(d, path)
<1>1. y = [x EXCEPT !.localPath = path, !.localList = list]
  BY DEF RequestLocalDirectoryListing
<1> HIDE DEF list
<1> QED
  BY <1>1 DEF XferOK, XferLike, SameCounts

LEMMA SetQueue ==
    ASSUME NEW x, XferOK(x), NEW queue, NEW y, y = [x EXCEPT !.queue = queue]
    PROVE  SameCounts(y, x) /\ y.status = x.status
BY DEF XferOK, XferLike, SameCounts

\* What startFileUpload() says is so, whatever came before it.
LEMMA UploadTells ==
    ASSUME NEW x, XferOK(x), NEW d, DiskOK(d), NEW p \in Paths
    PROVE  XferOK(StartFileUpload(x, d, p)) /\ Told(StartFileUpload(x, d, p))
<1> DEFINE started == [x EXCEPT !.status = "Uploading", !.progress = NoProgress, !.paused = FALSE]
           chunks == PrepareFileChunks(d[p], ChunkSize)
           failed == [started EXCEPT !.status = "Error"]
           begun == [started EXCEPT !.total = chunks[1].totalSize, !.current = 0]
           moved == TransferLoop(begun, chunks)
           done == [moved EXCEPT !.status = "Upload Completed"]
           listed == RequestDirectoryListing(done, d, x.remotePath)
<1>1. StartFileUpload(x, d, p) = IF chunks = << >> THEN failed ELSE listed
  BY DEF StartFileUpload
<1>2. ChunkSize \in Nat \ {0}
  BY TransferAssumption
<1>3. /\ d[p].bytes \in Seq(Byte) /\ chunks \in Seq(ChunkOf(Byte))
      /\ Covers(chunks, d[p].bytes, Len(d[p].bytes))
      /\ chunks # << >> => chunks[1].totalSize = Len(d[p].bytes)
  BY <1>2, DiskChunks
<1> HIDE DEF chunks
<1>4. XferOK(started) /\ started.progress = NoProgress /\ started.paused = FALSE
  BY NoProgressType DEF XferOK, XferLike
<1> HIDE DEF started
<1>5. CASE chunks = << >>
  <2>1. failed = [started EXCEPT !.status = "Error"]
    OBVIOUS
  <2> HIDE DEF failed
  <2>2. SameCounts(failed, started) /\ failed.status = "Error"
    BY <1>4, <2>1, SetStatus
  <2>3. XferOK(failed) /\ failed.progress = NoProgress
    BY <1>4, <2>2 DEF SameCounts
  <2> QED
    BY <1>1, <1>5, <2>2, <2>3 DEF Told
<1>6. CASE chunks # << >>
  <2> DEFINE total == Len(d[p].bytes)
  <2>1. total \in Nat /\ chunks[1].totalSize = total
    BY <1>3, <1>6
  <2>2. /\ XferOK(begun) /\ begun.paused = FALSE /\ begun.total = total /\ begun.current = 0
    BY <1>4, <2>1 DEF XferOK, XferLike
  <2> HIDE DEF begun
  <2>3. /\ moved \in Going(begun) /\ moved.current = total /\ moved.progress = <<total, begun.total>>
    BY <1>3, <1>6, <2>2, LoopMovesAll
  <2>4. XferOK(moved) /\ moved.total = total
    BY <2>2, <2>3, GoingFacts
  <2> HIDE DEF moved, total
  <2> DEFINE path == x.remotePath
  <2>5. done = [moved EXCEPT !.status = "Upload Completed"]
    OBVIOUS
  <2>6. listed = RequestDirectoryListing(done, d, path)
    OBVIOUS
  <2> HIDE DEF done, listed, path
  <2>7. SameCounts(done, moved) /\ done.status = "Upload Completed"
    BY <2>4, <2>5, SetStatus
  <2>8. XferOK(done)
    BY <2>7 DEF SameCounts
  <2>9. SameCounts(listed, done) /\ listed.status = done.status
    BY <2>6, <2>8, SetRemote
  <2>10. /\ XferOK(listed) /\ listed.status = "Upload Completed" /\ listed.current = total
        /\ listed.total = total /\ listed.progress = <<total, total>>
    BY <2>2, <2>3, <2>4, <2>7, <2>9 DEF SameCounts
  <2> QED
    BY <1>1, <1>6, <2>10 DEF Told
<1> QED
  BY <1>5, <1>6

\* What startFileDownload() has counted, with the pause flag set or not and with a file
\* that can be read or not.
LEMMA DownloadTells ==
    ASSUME NEW x, XferOK(x), NEW d, DiskOK(d), NEW p \in Paths
    PROVE  XferOK(StartFileDownload(x, d, p)) /\ Told(StartFileDownload(x, d, p))
<1> DEFINE chunks == PrepareFileChunks(d[p], ChunkSize)
           total == IF chunks = << >> THEN 1024 ELSE chunks[1].totalSize
           begun == [x EXCEPT !.progress = NoProgress, !.total = total, !.current = 0]
           moved == TransferLoop(begun, chunks)
           done == [moved EXCEPT !.status = "Download Completed"]
<1>1. StartFileDownload(x, d, p) = done
  BY DEF StartFileDownload
<1>2. ChunkSize \in Nat \ {0}
  BY TransferAssumption
<1>3. /\ d[p].bytes \in Seq(Byte) /\ chunks \in Seq(ChunkOf(Byte))
      /\ Covers(chunks, d[p].bytes, Len(d[p].bytes))
      /\ chunks # << >> => chunks[1].totalSize = Len(d[p].bytes)
  BY <1>2, DiskChunks
<1> HIDE DEF chunks
<1>4. /\ total \in Nat
      /\ chunks = << >> => total = 1024
      /\ chunks # << >> => total = Len(d[p].bytes)
  BY <1>3
<1> HIDE DEF total
<1>5. /\ XferOK(begun) /\ begun.paused = x.paused /\ begun.total = total /\ begun.current = 0
      /\ begun.progress = NoProgress
  BY <1>4, NoProgressType DEF XferOK, XferLike
<1> HIDE DEF begun
<1>6. /\ moved \in Going(begun)
      /\ begun.paused \/ chunks = << >> => moved = begun
      /\ ~ begun.paused /\ chunks # << >> =>
             moved.current = Len(d[p].bytes) /\ moved.progress = <<Len(d[p].bytes), begun.total>>
  BY <1>3, <1>5, LoopMovesAll
<1>7. XferOK(moved) /\ moved.total = total /\ moved.paused = x.paused
  BY <1>5, <1>6, GoingFacts
<1> HIDE DEF moved
<1>8. done = [moved EXCEPT !.status = "Download Completed"]
  OBVIOUS
<1> HIDE DEF done
<1>9. SameCounts(done, moved) /\ done.status = "Download Completed"
  BY <1>7, <1>8, SetStatus
<1>10. XferOK(done)
  BY <1>9 DEF SameCounts
<1>11. begun.paused \in BOOLEAN /\ done.paused \in BOOLEAN /\ done.paused = begun.paused
  BY <1>5, <1>7, <1>9, <1>10, GoingFacts DEF SameCounts
<1>12. CASE begun.paused \/ chunks = << >>
  <2>1. done.progress = NoProgress
    BY <1>5, <1>6, <1>9, <1>12 DEF SameCounts
  <2>2. done.total = total /\ done.current = 0
    BY <1>5, <1>6, <1>7, <1>9, <1>12 DEF SameCounts
  <2>3. Downloaded(done)
    <3>1. done.paused \/ Unread(done.total)
      BY <1>4, <1>11, <1>12, <2>2 DEF Unread
    <3> QED
      BY <2>2, <3>1, Zenon DEF Downloaded
  <2>4. Told(done)
    BY <1>9, <2>1, <2>3 DEF Told
  <2> QED
    BY <1>1, <1>10, <2>4
<1>13. CASE ~ begun.paused /\ chunks # << >>
  <2>1. moved.current = total /\ moved.progress = <<total, total>> /\ moved.total = total
    BY <1>4, <1>5, <1>6, <1>7, <1>13
  <2>2. done.current = total /\ done.progress = <<total, total>> /\ done.total = total
    BY <1>9, <2>1 DEF SameCounts
  <2>3. done.current = done.total /\ done.progress = <<done.current, done.total>>
    BY <2>2
  <2>4. Downloaded(done)
    <3>1. ~ done.paused
      BY <1>11, <1>13
    <3> QED
      BY <2>3, <3>1, Zenon DEF Downloaded
  <2>5. Told(done)
    BY <1>9, <2>3, <2>4 DEF Told
  <2> QED
    BY <1>1, <1>10, <2>5
<1> QED
  BY <1>12, <1>13

-----------------------------------------------------------------------------
(***************************************************************************)
(* Every call keeps the invariant.                                         *)
(***************************************************************************)

LEMMA BytesType ==
    ASSUME NEW p \in Paths, NEW n \in Nat
    PROVE  BytesOf(p, n) \in Seq(Byte)
<1>1. BytesOf(p, n) \in [1 .. n -> Byte]
  BY DEF BytesOf, Byte
<1> HIDE DEF Byte
<1> QED
  BY <1>1

LEMMA TransferInit == Init => TransferInv
<1> SUFFICES ASSUME Init PROVE TransferInv
  OBVIOUS
<1> DEFINE D == {Nothing, [kind |-> "dir", bytes |-> << >>]}
                    \cup {File(BytesOf(p, n)) : p \in Paths, n \in Sizes}
<1>1. disk \in [Paths -> D]
  BY DEF Init
<1>2. ASSUME NEW f \in D
      PROVE  f \in FileOf(Byte) /\ (f.kind # "file" => f.bytes = << >>)
  <2>1. CASE f \in {Nothing, [kind |-> "dir", bytes |-> << >>]}
    <3>1. << >> \in Seq(Byte)
      OBVIOUS
    <3>2. Nothing \in FileOf(Byte) /\ Nothing.bytes = << >>
      BY <3>1 DEF Nothing, FileOf
    <3> DEFINE dir == [kind |-> "dir", bytes |-> << >>]
    <3>3. dir \in FileOf(Byte) /\ dir.bytes = << >>
      BY <3>1 DEF FileOf
    <3>4. f = Nothing \/ f = dir
      BY <2>1
    <3> HIDE DEF dir
    <3> QED
      BY <3>2, <3>3, <3>4
  <2>2. CASE f \in {File(BytesOf(p, n)) : p \in Paths, n \in Sizes}
    <3>1. PICK p \in Paths, n \in Sizes : f = File(BytesOf(p, n))
      BY <2>2
    <3>2. BytesOf(p, n) \in Seq(Byte)
      BY BytesType, TransferAssumption
    <3> QED
      BY <3>1, <3>2 DEF File, FileOf
  <2> QED
    BY <2>1, <2>2
<1> HIDE DEF D
<1>3. DiskOK(disk)
  BY <1>1, <1>2 DEF DiskOK
<1>4. XferOK(xfer) /\ Told(xfer)
  BY NoProgressType DEF Init, XferOK, XferLike, Told
<1> QED
  BY <1>3, <1>4 DEF TransferInv

LEMMA DiskForgets ==
    ASSUME NEW d, DiskOK(d), NEW p \in Paths
    PROVE  DiskOK([d EXCEPT ![p] = Nothing])
<1>1. Nothing \in FileOf(Byte) /\ Nothing.kind # "file" /\ Nothing.bytes = << >>
  BY DEF Nothing, FileOf
<1> HIDE DEF FileOf
<1> QED
  BY <1>1 DEF DiskOK

LEMMA TransferStep == TransferInv /\ [Next]_transferVars => TransferInv'
<1> SUFFICES ASSUME TransferInv, [Next]_transferVars
             PROVE  TransferInv'
  OBVIOUS
<1>1. DiskOK(disk) /\ XferOK(xfer) /\ Told(xfer)
  BY DEF TransferInv
<1>2. \A p \in Transferable : p \in Paths
  BY DEF Transferable
<1>3. CASE \E p \in Transferable : Upload(p)
  BY <1>1, <1>2, <1>3, UploadTells DEF Upload, TransferInv
<1>4. CASE \E p \in Transferable : Download(p)
  BY <1>1, <1>2, <1>4, DownloadTells DEF Download, TransferInv
<1>5. CASE \E p \in Transferable : \E isUpload \in BOOLEAN : EnQueueTransfer(p, isUpload)
  <2>1. PICK p \in Transferable, isUpload \in BOOLEAN : EnQueueTransfer(p, isUpload)
    BY <1>5
  <2> DEFINE queued == [xfer EXCEPT !.queue = Append(xfer.queue, isUpload)]
  <2>2. /\ disk' = disk
        /\ \/ xfer' = queued
           \/ xfer' = StartFileUpload(queued, disk, p)
           \/ xfer' = StartFileDownload(queued, disk, p)
    BY <2>1 DEF EnQueueTransfer
  <2>3. queued = [xfer EXCEPT !.queue = Append(xfer.queue, isUpload)]
    OBVIOUS
  <2> HIDE DEF queued
  <2>4. SameCounts(queued, xfer) /\ queued.status = xfer.status
    BY <1>1, <2>3, SetQueue
  <2>5. XferOK(queued) /\ Told(queued)
    BY <1>1, <2>4, ToldAgain DEF SameCounts
  <2>6. p \in Paths
    BY <1>2
  <2> QED
    BY <1>1, <2>2, <2>5, <2>6, UploadTells, DownloadTells DEF TransferInv
<1>6. CASE PauseFileTransfer
  <2>1. /\ disk' = disk /\ XferOK(xfer') /\ xfer'.status = "Transfer Paused"
        /\ xfer'.progress = xfer.progress /\ xfer'.total = xfer.total /\ xfer'.current = xfer.current
    BY <1>1, <1>6 DEF PauseFileTransfer, XferOK, XferLike
  <2> QED
    BY <1>1, <2>1 DEF Told, TransferInv
<1>7. CASE ResumeFileTransfer
  <2>1. /\ disk' = disk /\ XferOK(xfer') /\ xfer'.status = "Resuming Transfer"
        /\ xfer'.progress = xfer.progress /\ xfer'.total = xfer.total /\ xfer'.current = xfer.current
    BY <1>1, <1>7 DEF ResumeFileTransfer, XferOK, XferLike
  <2> QED
    BY <1>1, <2>1 DEF Told, TransferInv
<1>8. CASE CancelFileTransfer
  <2>1. /\ disk' = disk /\ XferOK(xfer') /\ xfer'.status = "Transfer Canceled"
        /\ xfer'.progress = NoProgress
    BY <1>1, <1>8, NoProgressType DEF CancelFileTransfer, XferOK, XferLike
  <2> QED
    BY <1>1, <2>1 DEF Told, TransferInv
<1>9. CASE \E path \in {Here, Elsewhere} : ListRemote(path) \/ ListLocal(path)
  <2>1. PICK path \in {Here, Elsewhere} : ListRemote(path) \/ ListLocal(path)
    BY <1>9
  <2>2. /\ disk' = disk
        /\ \/ xfer' = RequestDirectoryListing(xfer, disk, path)
           \/ xfer' = RequestLocalDirectoryListing(xfer, disk, path)
    BY <2>1 DEF ListRemote, ListLocal
  <2>3. SameCounts(xfer', xfer) /\ xfer'.status = xfer.status
    BY <1>1, <2>2, SetRemote, SetLocal
  <2>4. XferOK(xfer') /\ Told(xfer')
    BY <1>1, <2>3, ToldAgain DEF SameCounts
  <2> QED
    BY <1>1, <2>2, <2>4 DEF TransferInv
<1>10. CASE \E path \in Paths : DeleteLocalFile(path)
  <2>1. PICK path \in Paths : DeleteLocalFile(path)
    BY <1>10
  <2> DEFINE x == [xfer EXCEPT !.status = "Deleted local item"]
  <2>2. /\ disk' = disk \/ disk' = [disk EXCEPT ![path] = Nothing]
        /\ xfer' = RequestLocalDirectoryListing(x, disk', xfer.localPath)
    BY <2>1 DEF DeleteLocalFile, RemoveAll
  <2>3. x = [xfer EXCEPT !.status = "Deleted local item"]
    OBVIOUS
  <2> HIDE DEF x
  <2>4. SameCounts(x, xfer) /\ x.status = "Deleted local item"
    BY <1>1, <2>3, SetStatus
  <2>5. XferOK(x) /\ Told(x)
    BY <1>1, <2>4, ToldAgain DEF SameCounts
  <2>6. SameCounts(xfer', x) /\ xfer'.status = x.status
    BY <2>2, <2>5, SetLocal
  <2>7. XferOK(xfer') /\ Told(xfer')
    BY <2>5, <2>6, ToldAgain DEF SameCounts
  <2>8. DiskOK(disk')
    BY <1>1, <2>2, DiskForgets
  <2> QED
    BY <2>7, <2>8 DEF TransferInv
<1>11. CASE \E path \in Paths : DeleteRemoteFile(path)
  <2>1. PICK path \in Paths : DeleteRemoteFile(path)
    BY <1>11
  <2> DEFINE x == [xfer EXCEPT !.status = "Deleted remote item"]
  <2>2. /\ disk' = disk \/ disk' = [disk EXCEPT ![path] = Nothing]
        /\ xfer' = RequestDirectoryListing(x, disk', xfer.remotePath)
    BY <2>1 DEF DeleteRemoteFile, RemoveAll
  <2>3. x = [xfer EXCEPT !.status = "Deleted remote item"]
    OBVIOUS
  <2> HIDE DEF x
  <2>4. SameCounts(x, xfer) /\ x.status = "Deleted remote item"
    BY <1>1, <2>3, SetStatus
  <2>5. XferOK(x) /\ Told(x)
    BY <1>1, <2>4, ToldAgain DEF SameCounts
  <2>6. SameCounts(xfer', x) /\ xfer'.status = x.status
    BY <2>2, <2>5, SetRemote
  <2>7. XferOK(xfer') /\ Told(xfer')
    BY <2>5, <2>6, ToldAgain DEF SameCounts
  <2>8. DiskOK(disk')
    BY <1>1, <2>2, DiskForgets
  <2> QED
    BY <2>7, <2>8 DEF TransferInv
<1>12. CASE ClearQueue \/ \E index \in 1 .. MaxQueue : CancelQueueItem(index)
  <2>1. disk' = disk /\ \E queue : xfer' = [xfer EXCEPT !.queue = queue]
    BY <1>12 DEF ClearQueue, CancelQueueItem
  <2>2. PICK queue : xfer' = [xfer EXCEPT !.queue = queue]
    BY <2>1
  <2>3. SameCounts(xfer', xfer) /\ xfer'.status = xfer.status
    BY <1>1, <2>2, SetQueue
  <2>4. XferOK(xfer') /\ Told(xfer')
    BY <1>1, <2>3, ToldAgain DEF SameCounts
  <2> QED
    BY <1>1, <2>1, <2>4 DEF TransferInv
<1>13. CASE UNCHANGED transferVars
  BY <1>1, <1>13 DEF transferVars, TransferInv
<1> QED
  BY <1>3, <1>4, <1>5, <1>6, <1>7, <1>8, <1>9, <1>10, <1>11, <1>12, <1>13 DEF Next

-----------------------------------------------------------------------------
(***************************************************************************)
(* Theorems.                                                               *)
(***************************************************************************)

\* The inductive invariant: the disk holds files, directories and nothing else, and the
\* status, the counters and the progress of SessionClient agree after every call.
THEOREM TransferInvHolds == Spec => []TransferInv
<1>1. Init => TransferInv
  BY TransferInit
<1>2. TransferInv /\ [Next]_transferVars => TransferInv'
  BY TransferStep
<1> QED
  BY <1>1, <1>2, PTL DEF Spec

\* What the counters of startFileUpload() and startFileDownload() hold when they call a
\* transfer completed, for every chunk size, every file and every call before it.
THEOREM CompletionIsCounted == Spec => []CompletionCounts
<1>1. TransferInv => CompletionCounts
  BY Zenon DEF TransferInv, Told, Downloaded, CompletionCounts, Unread
<1> QED
  BY <1>1, TransferInvHolds, PTL

\* The progress that the client shows is that of its byte counters.
THEOREM ProgressIsTrue == Spec => []ProgressMatchesBytes
<1>1. TransferInv => ProgressMatchesBytes
  <2> SUFFICES ASSUME TransferInv, xfer.progress # NoProgress
               PROVE  xfer.progress[1] * xfer.total = xfer.current * xfer.progress[2]
    BY DEF ProgressMatchesBytes
  <2>1. xfer.progress = <<xfer.current, xfer.total>>
    BY DEF TransferInv, Told
  <2>2. xfer.progress[1] = xfer.current /\ xfer.progress[2] = xfer.total
    BY <2>1
  <2> QED
    BY <2>2
<1> QED
  BY <1>1, TransferInvHolds, PTL

\* The chunks of prepareFileChunks(), written in their order by writeChunkToFile() over
\* any file, each once or twice, give the file they were cut from, for every chunk size.
THEOREM ChunksRebuild == Spec => []ChunksRebuildFile
<1>1. TransferInv => ChunksRebuildFile
  <2> SUFFICES ASSUME TransferInv, NEW p \in Transferable, NEW q \in Transferable,
                      NEW size \in 1 .. 2 * ChunkSize, NEW times \in {1, 2},
                      PrepareFileChunks(disk[p], size) # << >>
               PROVE  LET chunks == PrepareFileChunks(disk[p], size)
                          result == WriteChunks(disk[q], chunks, times)
                      IN  /\ result = disk[p]
                          /\ VerifyIntegrity(result, CalculateFileSha256(disk[p]))
                          /\ \A i \in DOMAIN chunks : chunks[i].isLastChunk <=> i = Len(chunks)
    BY DEF ChunksRebuildFile
  <2> DEFINE chunks == PrepareFileChunks(disk[p], size)
             result == WriteChunks(disk[q], chunks, times)
  <2>1. p \in Paths /\ q \in Paths /\ size \in Nat \ {0} /\ DiskOK(disk)
    <3>1. 2 * ChunkSize \in Nat
      BY TransferAssumption
    <3> QED
      BY <3>1 DEF Transferable, TransferInv
  <2>2. /\ disk[p].bytes \in Seq(Byte) /\ chunks \in Seq(ChunkOf(Byte))
        /\ Covers(chunks, disk[p].bytes, Len(disk[p].bytes)) /\ disk[p] = File(disk[p].bytes)
    BY <2>1, DiskChunks
  <2>3. chunks # << >>
    OBVIOUS
  <2> HIDE DEF chunks
  <2>4. disk[q] \in Gapped(Byte)
    <3>1. disk[q] \in FileOf(Byte)
      BY <2>1 DEF DiskOK
    <3> DEFINE f == disk[q]
    <3> HIDE DEF f
    <3>2. f.bytes \in Seq(Byte) /\ f \in FileOf(Byte)
      BY <3>1 DEF FileOf, f
    <3>3. f.bytes \in Seq(Byte \cup {0})
      BY <3>2
    <3>4. f \in Gapped(Byte)
      BY <3>2, <3>3 DEF Gapped, FileOf
    <3> QED
      BY <3>4 DEF f
  <2>5. result = File(disk[p].bytes)
    BY <2>2, <2>3, <2>4, ChunksGiveFile
  <2>6. result = disk[p]
    BY <2>2, <2>5
  <2> HIDE DEF result
  <2>7. VerifyIntegrity(result, CalculateFileSha256(disk[p]))
    BY <2>6 DEF VerifyIntegrity
  <2>8. DOMAIN chunks = 1 .. Len(chunks)
    BY <2>2
  <2>9. \A i \in 1 .. Len(chunks) : chunks[i].isLastChunk <=> i = Len(chunks)
    BY <2>2, PiecesLead
  <2> QED
    BY <2>6, <2>7, <2>8, <2>9 DEF chunks, result
<1> QED
  BY <1>1, TransferInvHolds, PTL

=============================================================================
