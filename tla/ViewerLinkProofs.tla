-------------------------- MODULE ViewerLinkProofs ---------------------------
(***************************************************************************)
(* Proofs about the two ends of a viewer's connection: what is lost on the *)
(* way and what is granted.                                                *)
(***************************************************************************)
EXTENDS ViewerLink, LoopTheorems

-----------------------------------------------------------------------------
(***************************************************************************)
(* Streams of cells.                                                       *)
(***************************************************************************)

\* The cells of packets in P.
Cells(P) == [packet : P, at : 1 .. PacketSize]

\* The places of consecutive cells follow one another, and after the last cell of a
\* packet comes the first one of the next.
ChainIn(b) ==
    \A i \in 1 .. Len(b) - 1 :
        b[i + 1].at = IF b[i].at < PacketSize THEN b[i].at + 1 ELSE 1

\* Moreover no packet is cut at the end.
Whole(b) == ChainIn(b) /\ (b # << >> => b[Len(b)].at = PacketSize)

LEMMA SizeType == PacketSize \in Nat /\ PacketSize >= 1 /\ HeaderSize \in Nat
                  /\ HeaderSize >= 1 /\ HeaderSize <= PacketSize
BY CodecAssumption DEF PacketSize

LEMMA CellAt ==
    ASSUME NEW P, NEW cells \in Seq(Cells(P)), NEW i \in 1 .. Len(cells)
    PROVE  /\ cells[i] \in Cells(P)
           /\ cells[i].packet \in P
           /\ cells[i].at \in 1 .. PacketSize
<1>1. cells[i] \in Cells(P)
  OBVIOUS
<1> QED
  BY <1>1 DEF Cells

\* f holds the states of the loop of StartedIn().
Started(f, cells, P) ==
    /\ StartedIn(cells) = f[Len(cells)]
    /\ f[0] = << >>
    /\ \A i \in 1 .. Len(cells) :
           f[i] = IF cells[i].at = 1 THEN Append(f[i - 1], cells[i].packet) ELSE f[i - 1]
    /\ \A i \in 0 .. Len(cells) : f[i] \in Seq(P)

LEMMA StartedLoop ==
    ASSUME NEW P, NEW cells \in Seq(Cells(P))
    PROVE  \E f : Started(f, cells, P)
<1> DEFINE n == Len(cells)
           First(i) == cells[i].at = 1
           pk(i) == cells[i].packet
           step == [x \in (1 .. n) \X Seq(P) |->
                       IF First(x[1]) THEN Append(x[2], pk(x[1])) ELSE x[2]]
           Runs(f) == f = [i \in 0 .. n |-> IF i = 0 THEN << >>
                                            ELSE IF First(i) THEN Append(f[i - 1], pk(i))
                                            ELSE f[i - 1]]
<1>1. n \in Nat /\ << >> \in Seq(P) /\ \A i \in 1 .. n : pk(i) \in P
  BY CellAt
<1> HIDE DEF n, First, pk
<1>2. step \in [(1 .. n) \X Seq(P) -> Seq(P)]
  <2>1. ASSUME NEW x \in (1 .. n) \X Seq(P)
        PROVE  (IF First(x[1]) THEN Append(x[2], pk(x[1])) ELSE x[2]) \in Seq(P)
    BY <1>1
  <2> QED
    BY <2>1
<1>3. PICK f \in [0 .. n -> Seq(P)] :
          f[0] = << >> /\ \A i \in 1 .. n : f[i] = step[<<i, f[i - 1]>>]
  <2> HIDE DEF step
  <2>1. \E f : IsLoop(f, n, Seq(P), << >>, step)
    BY <1>1, <1>2, LoopExists
  <2> QED
    BY <2>1 DEF IsLoop
<1>4. ASSUME NEW i \in 1 .. n
      PROVE  f[i] = IF First(i) THEN Append(f[i - 1], pk(i)) ELSE f[i - 1]
  <2>1. i - 1 \in 0 .. n /\ f[i - 1] \in Seq(P) /\ <<i, f[i - 1]>> \in (1 .. n) \X Seq(P)
    BY <1>1
  <2> QED
    BY <1>3, <2>1
<1>5. Runs(f)
  <2> HIDE DEF step
  <2>1. ASSUME NEW i \in 0 .. n
        PROVE  f[i] = IF i = 0 THEN << >> ELSE IF First(i) THEN Append(f[i - 1], pk(i))
                      ELSE f[i - 1]
    <3>1. i # 0 => i \in 1 .. n
      BY <1>1
    <3> QED
      BY <1>3, <1>4, <3>1
  <2> QED
    BY <2>1
<1> DEFINE g == CHOOSE h : Runs(h)
<1>6. Runs(g)
  <2> HIDE DEF Runs
  <2> QED
    BY <1>5
<1>7. StartedIn(cells) = g[n]
  BY DEF StartedIn, n, First, pk
<1>8. g[0] = << >> /\ \A i \in 1 .. n :
          g[i] = IF First(i) THEN Append(g[i - 1], pk(i)) ELSE g[i - 1]
  <2> HIDE DEF g
  <2>1. 0 \in 0 .. n /\ \A i \in 1 .. n : i \in 0 .. n /\ i # 0
    BY <1>1
  <2> QED
    BY <1>6, <2>1
<1>9. \A i \in 0 .. n : g[i] \in Seq(P)
  <2> HIDE DEF g
  <2>1. ASSUME NEW i \in 1 .. n, g[i - 1] \in Seq(P)
        PROVE  g[i] \in Seq(P)
    <3>1. pk(i) \in P
      BY <1>1
    <3>2. g[i] = Append(g[i - 1], pk(i)) \/ g[i] = g[i - 1]
      BY <1>8
    <3>3. Append(g[i - 1], pk(i)) \in Seq(P)
      BY <2>1, <3>1
    <3> QED
      BY <2>1, <3>2, <3>3
  <2> QED
    BY <1>1, <1>8, <2>1, LoopKeeps
<1> QED
  <2> HIDE DEF g
  <2> QED
    BY <1>7, <1>8, <1>9 DEF n, First, pk, Started

LEMMA StartedType ==
    ASSUME NEW P, NEW cells \in Seq(Cells(P))
    PROVE  StartedIn(cells) \in Seq(P)
<1>1. PICK f : Started(f, cells, P)
  BY StartedLoop
<1>2. Len(cells) \in 0 .. Len(cells)
  OBVIOUS
<1> QED
  BY <1>1, <1>2 DEF Started

\* Sequences, as the provers need to be told.
LEMMA ConcatType ==
    ASSUME NEW S, NEW a \in Seq(S), NEW b \in Seq(S)
    PROVE  /\ a \o b \in Seq(S)
           /\ Len(a \o b) = Len(a) + Len(b)
           /\ \A i \in 1 .. Len(a) : (a \o b)[i] = a[i]
           /\ \A i \in 1 .. Len(b) : (a \o b)[Len(a) + i] = b[i]
OBVIOUS

LEMMA AppendConcat ==
    ASSUME NEW S, NEW a \in Seq(S), NEW b \in Seq(S), NEW x \in S
    PROVE  a \o Append(b, x) = Append(a \o b, x)
OBVIOUS

LEMMA ConcatAssoc ==
    ASSUME NEW S, NEW a \in Seq(S), NEW b \in Seq(S), NEW c \in Seq(S)
    PROVE  a \o (b \o c) = (a \o b) \o c
OBVIOUS

LEMMA ConcatEmpty ==
    ASSUME NEW S, NEW a \in Seq(S)
    PROVE  a \o << >> = a /\ << >> \o a = a
OBVIOUS

\* The packets begun in a stream are those begun in its first part, then those begun
\* in its second.
LEMMA StartedConcat ==
    ASSUME NEW P, NEW a \in Seq(Cells(P)), NEW b \in Seq(Cells(P))
    PROVE  StartedIn(a \o b) = StartedIn(a) \o StartedIn(b)
<1> DEFINE la == Len(a)
           lb == Len(b)
           ab == a \o b
<1>1. /\ ab \in Seq(Cells(P)) /\ Len(ab) = la + lb /\ la \in Nat /\ lb \in Nat
      /\ \A i \in 1 .. la : ab[i] = a[i]
      /\ \A i \in 1 .. lb : ab[la + i] = b[i]
  BY ConcatType
<1> HIDE DEF ab, la, lb
<1>2. PICK f : Started(f, a, P)
  BY StartedLoop
<1>3. PICK g : Started(g, b, P)
  BY StartedLoop
<1>4. PICK h : Started(h, ab, P)
  BY <1>1, StartedLoop
<1> DEFINE T == {m \in 0 .. la : h[m] = f[m]}
           U == {m \in 0 .. lb : h[la + m] = f[la] \o g[m]}
<1>5. h[la] = f[la]
  <2>1. 0 \in T
    BY <1>1, <1>2, <1>4 DEF Started
  <2>2. ASSUME NEW m \in T, m \in 0 .. la - 1
        PROVE  m + 1 \in T
    <3>1. m + 1 \in 1 .. la /\ (m + 1) - 1 = m /\ m + 1 \in 1 .. Len(ab)
      BY <1>1, <2>2
    <3>2. ab[m + 1] = a[m + 1]
      BY <1>1, <3>1
    <3> QED
      BY <1>2, <1>4, <3>1, <3>2 DEF Started, la
  <2>3. la \in T
    <3> HIDE DEF T
    <3>1. \A m \in 0 .. la : m \in T
      BY <1>1, <2>1, <2>2, BoundedInduction
    <3> QED
      BY <1>1, <3>1
  <2> QED
    BY <2>3
<1>6. f[la] \in Seq(P)
  BY <1>1, <1>2 DEF Started, la
<1>7. h[la + lb] = f[la] \o g[lb]
  <2>1. 0 \in U
    <3>1. f[la] \o << >> = f[la]
      BY <1>6, ConcatEmpty
    <3>2. g[0] = << >>
      BY <1>3 DEF Started
    <3>3. la + 0 = la /\ 0 \in 0 .. lb
      BY <1>1
    <3> QED
      BY <1>5, <3>1, <3>2, <3>3
  <2>2. ASSUME NEW m \in U, m \in 0 .. lb - 1
        PROVE  m + 1 \in U
    <3>1. m + 1 \in 1 .. lb /\ (m + 1) - 1 = m /\ la + (m + 1) \in 1 .. Len(ab)
          /\ (la + (m + 1)) - 1 = la + m /\ m \in 0 .. lb
      BY <1>1, <2>2
    <3>2. ab[la + (m + 1)] = b[m + 1]
      BY <1>1, <3>1
    <3>3. g[m] \in Seq(P) /\ b[m + 1].packet \in P
      BY <1>3, <3>1, CellAt DEF Started, lb
    <3>4. h[la + m] = f[la] \o g[m]
      BY <2>2
    <3>5. h[la + (m + 1)] = IF b[m + 1].at = 1 THEN Append(h[la + m], b[m + 1].packet)
                            ELSE h[la + m]
      BY <1>4, <3>1, <3>2 DEF Started
    <3>6. g[m + 1] = IF b[m + 1].at = 1 THEN Append(g[m], b[m + 1].packet) ELSE g[m]
      BY <1>3, <3>1 DEF Started, lb
    <3>7. f[la] \o Append(g[m], b[m + 1].packet) = Append(f[la] \o g[m], b[m + 1].packet)
      <4>1. \A u, v \in Seq(P), x \in P : u \o Append(v, x) = Append(u \o v, x)
        BY AppendConcat
      <4> QED
        BY <1>6, <3>3, <4>1, Zenon
    <3>8. h[la + (m + 1)] = f[la] \o g[m + 1]
      BY <3>4, <3>5, <3>6, <3>7
    <3>9. m + 1 \in 0 .. lb
      BY <3>1, <1>1
    <3> QED
      BY <3>8, <3>9
  <2>3. lb \in U
    <3> HIDE DEF U
    <3>1. \A m \in 0 .. lb : m \in U
      BY <1>1, <2>1, <2>2, BoundedInduction
    <3> QED
      BY <1>1, <3>1
  <2> QED
    BY <2>3
<1> QED
  BY <1>1, <1>2, <1>3, <1>4, <1>7 DEF Started, ab, la, lb

\* Cells in the middle of packets begin none.
LEMMA StartedNone ==
    ASSUME NEW P, NEW b \in Seq(Cells(P)), \A i \in 1 .. Len(b) : b[i].at # 1
    PROVE  StartedIn(b) = << >>
<1>1. PICK f : Started(f, b, P)
  BY StartedLoop
<1>2. f[0] \in {<< >>} /\ \A i \in 1 .. Len(b) : f[i - 1] \in {<< >>} => f[i] \in {<< >>}
  BY <1>1 DEF Started
<1>4. Len(b) \in 0 .. Len(b) /\ Len(b) \in Nat
  OBVIOUS
<1>3. \A i \in 0 .. Len(b) : f[i] \in {<< >>}
  BY <1>2, <1>4, LoopKeeps
<1> QED
  BY <1>1, <1>3, <1>4 DEF Started

LEMMA StartedEmpty == StartedIn(<< >>) = << >>
<1> DEFINE e == << >>
<1>1. e \in Seq(Cells({})) /\ \A i \in 1 .. Len(e) : e[i].at # 1
  OBVIOUS
<1> HIDE DEF e
<1>2. StartedIn(e) = << >>
  BY <1>1, StartedNone
<1> QED
  BY <1>2 DEF e

\* One cell.
LEMMA StartedOne ==
    ASSUME NEW P, NEW c \in Cells(P)
    PROVE  StartedIn(<<c>>) = IF c.at = 1 THEN <<c.packet>> ELSE << >>
<1> DEFINE s == <<c>>
<1>1. s \in Seq(Cells(P)) /\ Len(s) = 1 /\ s[1] = c
  OBVIOUS
<1> HIDE DEF s
<1>2. PICK f : Started(f, s, P)
  BY <1>1, StartedLoop
<1>3. 1 \in 1 .. Len(s) /\ 1 - 1 = 0
  BY <1>1
<1>4. f[1] = IF s[1].at = 1 THEN Append(f[1 - 1], s[1].packet) ELSE f[1 - 1]
  BY <1>2, <1>3 DEF Started
<1>5. f[0] = << >> /\ StartedIn(s) = f[1]
  BY <1>1, <1>2 DEF Started
<1>6. Append(<< >>, c.packet) = <<c.packet>>
  OBVIOUS
<1>7. StartedIn(s) = IF c.at = 1 THEN <<c.packet>> ELSE << >>
  BY <1>1, <1>3, <1>4, <1>5, <1>6
<1> QED
  BY <1>7 DEF s

\* What is left of a stream, and how it is cut.
LEMMA AfterType ==
    ASSUME NEW S, NEW b \in Seq(S), NEW d \in 0 .. Len(b)
    PROVE  /\ After(b, d) \in Seq(S)
           /\ Len(After(b, d)) = Len(b) - d
           /\ \A i \in 1 .. Len(b) - d : After(b, d)[i] = b[d + i]
BY DEF After

LEMMA AfterCut ==
    ASSUME NEW S, NEW b \in Seq(S), NEW d \in 0 .. Len(b), NEW e \in d .. Len(b)
    PROVE  /\ SubSeq(b, d + 1, e) \in Seq(S)
           /\ Len(SubSeq(b, d + 1, e)) = e - d
           /\ \A i \in 1 .. e - d : SubSeq(b, d + 1, e)[i] = b[d + i]
           /\ After(b, d) = SubSeq(b, d + 1, e) \o After(b, e)
<1> DEFINE mid == SubSeq(b, d + 1, e)
           l == After(b, d)
           t == After(b, e)
           r == mid \o t
<1>1. mid \in Seq(S) /\ Len(mid) = e - d /\ \A i \in 1 .. e - d : mid[i] = b[d + i]
  OBVIOUS
<1>2. l \in Seq(S) /\ Len(l) = Len(b) - d /\ \A i \in 1 .. Len(b) - d : l[i] = b[d + i]
  BY AfterType
<1>3. /\ e \in 0 .. Len(b) /\ e \in Nat /\ d \in Nat /\ Len(b) \in Nat /\ d <= e /\ e <= Len(b)
      /\ t \in Seq(S) /\ Len(t) = Len(b) - e
      /\ \A i \in 1 .. Len(b) - e : t[i] = b[e + i]
  BY AfterType
<1> HIDE DEF mid, t, l
<1>4. /\ r \in Seq(S) /\ Len(r) = Len(mid) + Len(t)
      /\ \A i \in 1 .. Len(mid) : r[i] = mid[i]
      /\ \A i \in 1 .. Len(t) : r[Len(mid) + i] = t[i]
  <2>1. mid \in Seq(S) /\ t \in Seq(S)
    BY <1>1, <1>3
  <2> QED
    BY <2>1, ConcatType
<1> HIDE DEF r
<1>5. ASSUME NEW i \in 1 .. Len(b) - d
      PROVE  l[i] = r[i]
  <2>1. CASE i <= e - d
    <3>1. i \in 1 .. Len(mid) /\ i \in 1 .. e - d
      BY <1>1, <1>3, <2>1
    <3> QED
      BY <1>1, <1>2, <1>4, <3>1
  <2>2. CASE i > e - d
    <3>1. i - (e - d) \in 1 .. Len(t) /\ Len(mid) + (i - (e - d)) = i
          /\ e + (i - (e - d)) = d + i /\ Len(t) = Len(b) - e
      BY <1>1, <1>3, <2>2
    <3>2. r[Len(mid) + (i - (e - d))] = t[i - (e - d)]
      BY <1>4, <3>1
    <3>3. t[i - (e - d)] = b[e + (i - (e - d))]
      BY <1>3, <3>1
    <3> QED
      BY <1>2, <3>1, <3>2, <3>3
  <2> QED
    BY <1>3, <2>1, <2>2
<1>6. l = r
  <2>1. Len(l) = Len(r) /\ 1 .. Len(l) = 1 .. Len(b) - d
    BY <1>1, <1>2, <1>3, <1>4
  <2> QED
    BY <1>2, <1>4, <1>5, <2>1
<1> QED
  BY <1>1, <1>6 DEF mid, l, r, t

LEMMA AfterHead ==
    ASSUME NEW S, NEW b \in Seq(S), NEW d \in 0 .. Len(b) - 1
    PROVE  After(b, d) = <<b[d + 1]>> \o After(b, d + 1)
<1>1. d \in 0 .. Len(b) /\ d + 1 \in d .. Len(b) /\ (d + 1) - d = 1 /\ Len(b) \in Nat
      /\ 1 \in 1 .. 1 /\ d \in Nat
  OBVIOUS
<1> DEFINE m == SubSeq(b, d + 1, d + 1)
<1>2. m \in Seq(S) /\ Len(m) = 1 /\ m[1] = b[d + 1]
  BY <1>1
<1>3. After(b, d) = m \o After(b, d + 1)
  BY ZenonT(40), <1>1, AfterCut
<1>4. m = <<b[d + 1]>>
  <2> HIDE DEF m
  <2> QED
    BY <1>2
<1> QED
  BY <1>3, <1>4

\* From the first cell of a packet on, the cells are counted up to the last.
LEMMA ChainRun ==
    ASSUME NEW P, NEW b \in Seq(Cells(P)), ChainIn(b), NEW d \in 1 .. Len(b), b[d].at = 1
    PROVE  \A k \in 0 .. PacketSize - 1 : d + k <= Len(b) => b[d + k].at = 1 + k
<1> DEFINE T == {k \in 0 .. PacketSize - 1 : d + k <= Len(b) => b[d + k].at = 1 + k}
<1>1. PacketSize \in Nat /\ PacketSize >= 1 /\ PacketSize - 1 \in Nat /\ d \in Nat /\ Len(b) \in Nat
  BY SizeType
<1>2. 0 \in T
  BY <1>1
<1>3. ASSUME NEW k \in T, k \in 0 .. (PacketSize - 1) - 1
      PROVE  k + 1 \in T
  <2>1. k \in Nat /\ k + 1 \in 0 .. PacketSize - 1
    BY <1>1, <1>3
  <2>2. ASSUME d + (k + 1) <= Len(b)
        PROVE  b[d + (k + 1)].at = 1 + (k + 1)
    <3>1. d + k \in 1 .. Len(b) - 1 /\ (d + k) + 1 = d + (k + 1) /\ d + k <= Len(b)
      BY <1>1, <2>1, <2>2
    <3>2. b[d + k].at = 1 + k
      BY <3>1
    <3>3. b[(d + k) + 1].at = IF b[d + k].at < PacketSize THEN b[d + k].at + 1 ELSE 1
      BY <3>1 DEF ChainIn
    <3>4. 1 + k < PacketSize
      BY <1>1, <2>1
    <3> QED
      BY <2>1, <3>1, <3>2, <3>3, <3>4
  <2> QED
    BY <2>1, <2>2
<1>4. \A k \in 0 .. PacketSize - 1 : k \in T
  <2> HIDE DEF T
  <2> QED
    BY <1>1, <1>2, <1>3, BoundedInduction
<1> QED
  BY <1>4

\* A whole packet at the head of a stream.
LEMMA StartedPacket ==
    ASSUME NEW P, NEW b \in Seq(Cells(P)), ChainIn(b), NEW d \in Nat,
           d + PacketSize <= Len(b), b[d + 1].at = 1
    PROVE  StartedIn(After(b, d)) = <<b[d + 1].packet>> \o StartedIn(After(b, d + PacketSize))
<1> DEFINE e == d + PacketSize
           mid == SubSeq(b, (d + 1) + 1, e)
<1>1. PacketSize \in Nat /\ PacketSize >= 1 /\ d \in Nat /\ Len(b) \in Nat
      /\ d \in 0 .. Len(b) - 1 /\ d + 1 \in 0 .. Len(b) /\ e \in d + 1 .. Len(b)
      /\ d + 1 \in 1 .. Len(b) /\ e \in 0 .. Len(b)
  BY SizeType
<1>2. b[d + 1] \in Cells(P)
  BY <1>1
<1>3. After(b, d) = <<b[d + 1]>> \o After(b, d + 1)
  BY <1>1, AfterHead
<1>4. /\ mid \in Seq(Cells(P)) /\ Len(mid) = e - (d + 1)
      /\ \A i \in 1 .. e - (d + 1) : mid[i] = b[(d + 1) + i]
      /\ After(b, d + 1) = mid \o After(b, e)
  BY <1>1, AfterCut
<1>5. After(b, e) \in Seq(Cells(P)) /\ After(b, d + 1) \in Seq(Cells(P))
  BY <1>1, AfterType
<1>6. StartedIn(mid) = << >>
  <2>1. ASSUME NEW i \in 1 .. Len(mid)
        PROVE  mid[i].at # 1
    <3>1. i \in 1 .. e - (d + 1) /\ i \in 0 .. PacketSize - 1 /\ (d + 1) + i <= Len(b)
          /\ 1 + i # 1
      BY <1>1, <1>4
    <3>2. b[(d + 1) + i].at = 1 + i
      BY <1>1, <3>1, ChainRun
    <3> QED
      BY <1>4, <3>1, <3>2
  <2> QED
    BY <1>4, <2>1, StartedNone
<1>7. StartedIn(<<b[d + 1]>>) = <<b[d + 1].packet>>
  BY <1>2, StartedOne
<1> DEFINE one == <<b[d + 1]>>
<1>8. one \in Seq(Cells(P))
  BY <1>2
<1> HIDE DEF one, mid, e
<1>9. StartedIn(After(b, d)) = StartedIn(one) \o StartedIn(After(b, d + 1))
  BY <1>3, <1>5, <1>8, StartedConcat DEF one
<1>10. StartedIn(After(b, d + 1)) = StartedIn(mid) \o StartedIn(After(b, e))
  BY <1>4, <1>5, StartedConcat
<1>11. StartedIn(After(b, d + 1)) = StartedIn(After(b, e))
  <2>1. StartedIn(After(b, e)) \in Seq(P)
    BY <1>5, StartedType
  <2> QED
    BY <1>6, <1>10, <2>1, ConcatEmpty
<1> QED
  BY <1>7, <1>9, <1>11 DEF one, e

\* Whole packets after whole packets.
LEMMA WholeConcat ==
    ASSUME NEW P, NEW a \in Seq(Cells(P)), NEW b \in Seq(Cells(P)), Whole(a), Whole(b),
           b # << >> => b[1].at = 1
    PROVE  Whole(a \o b)
<1> DEFINE r == a \o b
           la == Len(a)
           lb == Len(b)
<1>1. /\ r \in Seq(Cells(P)) /\ Len(r) = la + lb /\ la \in Nat /\ lb \in Nat
      /\ \A i \in 1 .. la : r[i] = a[i]
      /\ \A i \in 1 .. lb : r[la + i] = b[i]
  BY ConcatType
<1>2. (la > 0 => a # << >>) /\ (lb > 0 => b # << >>)
  OBVIOUS
<1>3. (la = 0 => a = << >>) /\ (lb = 0 => b = << >>)
  OBVIOUS
<1>4. /\ \A i \in 1 .. la - 1 : a[i + 1].at = IF a[i].at < PacketSize THEN a[i].at + 1 ELSE 1
      /\ \A i \in 1 .. lb - 1 : b[i + 1].at = IF b[i].at < PacketSize THEN b[i].at + 1 ELSE 1
      /\ la > 0 => a[la].at = PacketSize
      /\ lb > 0 => b[lb].at = PacketSize /\ b[1].at = 1
  BY <1>2 DEF Whole, ChainIn
<1>5. PacketSize \in Nat
  BY SizeType
<1> HIDE DEF r, la, lb
<1>6. ASSUME NEW i \in 1 .. Len(r) - 1
      PROVE  r[i + 1].at = IF r[i].at < PacketSize THEN r[i].at + 1 ELSE 1
  <2>1. CASE i < la
    <3>1. i \in 1 .. la /\ i + 1 \in 1 .. la /\ i \in 1 .. la - 1
      BY <1>1, <2>1
    <3> QED
      BY <1>1, <1>4, <3>1
  <2>2. CASE i = la
    <3>1. la > 0 /\ lb > 0 /\ i \in 1 .. la /\ 1 \in 1 .. lb
      BY <1>1, <2>2
    <3>2. r[i] = a[la] /\ r[i + 1] = b[1]
      <4>1. r[la] = a[la]
        BY <1>1, <2>2, <3>1
      <4>2. r[la + 1] = b[1]
        BY <1>1, <3>1
      <4> QED
        BY <2>2, <4>1, <4>2
    <3>3. ~ (PacketSize < PacketSize)
      BY <1>5
    <3> QED
      BY <1>4, <3>1, <3>2, <3>3
  <2>3. CASE i > la
    <3>1. Len(r) = la + lb /\ la \in Nat /\ lb \in Nat
      BY <1>1
    <3>2. PICK j \in 1 .. lb - 1 : i = la + j
      <4>1. i - la \in 1 .. lb - 1 /\ i = la + (i - la)
        BY <2>3, <3>1
      <4> QED
        BY <4>1
    <3>3. j \in 1 .. lb /\ j + 1 \in 1 .. lb /\ i + 1 = la + (j + 1)
      BY <3>1, <3>2
    <3>4. r[i] = b[j] /\ r[i + 1] = b[j + 1]
      BY <1>1, <3>2, <3>3
    <3> QED
      BY <1>4, <3>2, <3>4
  <2> QED
    BY <1>1, <2>1, <2>2, <2>3
<1>7. ASSUME r # << >>
      PROVE  r[Len(r)].at = PacketSize
  <2>1. CASE lb > 0
    <3>1. lb \in 1 .. lb
      BY <1>1, <2>1
    <3> QED
      BY <1>1, <1>4, <2>1, <3>1
  <2>2. CASE lb = 0
    <3>1. Len(r) = la /\ Len(r) # 0
      BY <1>1, <1>7, <2>2
    <3>2. la \in 1 .. la /\ la > 0
      BY <1>1, <3>1
    <3> QED
      BY <1>1, <1>4, <3>1, <3>2
  <2> QED
    BY <1>1, <2>1, <2>2
<1> QED
  BY <1>6, <1>7 DEF Whole, ChainIn, r

\* What is left of whole packets ends with a whole packet.
LEMMA WholeAfter ==
    ASSUME NEW P, NEW b \in Seq(Cells(P)), Whole(b), NEW d \in 0 .. Len(b)
    PROVE  Whole(After(b, d))
<1> DEFINE r == After(b, d)
<1>0. r \in Seq(Cells(P)) /\ Len(r) = Len(b) - d /\ \A i \in 1 .. Len(b) - d : r[i] = b[d + i]
  BY AfterType
<1>1. /\ r \in Seq(Cells(P)) /\ Len(r) = Len(b) - d /\ Len(b) \in Nat /\ d \in Nat /\ d <= Len(b)
      /\ \A i \in 1 .. Len(b) - d : r[i] = b[d + i]
  BY <1>0
<1> HIDE DEF r
<1>2. ASSUME NEW i \in 1 .. Len(r) - 1
      PROVE  r[i + 1].at = IF r[i].at < PacketSize THEN r[i].at + 1 ELSE 1
  <2>1. /\ i \in 1 .. Len(b) - d /\ i + 1 \in 1 .. Len(b) - d
        /\ d + (i + 1) = (d + i) + 1 /\ d + i \in 1 .. Len(b) - 1
    BY <1>1
  <2>2. r[i] = b[d + i] /\ r[i + 1] = b[d + (i + 1)]
    BY <1>0, <2>1
  <2> QED
    BY <2>1, <2>2 DEF Whole, ChainIn
<1>3. ASSUME r # << >>
      PROVE  r[Len(r)].at = PacketSize
  <2>1. Len(r) # 0
    BY <1>1, <1>3
  <2>2. Len(r) \in 1 .. Len(b) - d /\ d + Len(r) = Len(b) /\ Len(b) # 0
    BY <1>1, <2>1
  <2>3. b # << >>
    BY <2>2
  <2> QED
    BY <1>1, <2>2, <2>3 DEF Whole
<1> QED
  BY <1>2, <1>3 DEF Whole, ChainIn, r

\* The first cells of a stream.
LEMMA ChainFirst ==
    ASSUME NEW P, NEW b \in Seq(Cells(P)), ChainIn(b), NEW n \in 0 .. Len(b)
    PROVE  ChainIn(SubSeq(b, 1, n))
<1> DEFINE r == SubSeq(b, 1, n)
<1>1. Len(r) = n /\ (\A i \in 1 .. n : r[i] = b[i]) /\ n \in Nat /\ Len(b) \in Nat /\ n <= Len(b)
  OBVIOUS
<1> HIDE DEF r
<1>2. ASSUME NEW i \in 1 .. Len(r) - 1
      PROVE  r[i + 1].at = IF r[i].at < PacketSize THEN r[i].at + 1 ELSE 1
  <2>1. i \in 1 .. n /\ i + 1 \in 1 .. n /\ i \in 1 .. Len(b) - 1
    BY <1>1
  <2> QED
    BY <1>1, <2>1 DEF ChainIn
<1> QED
  BY <1>2 DEF ChainIn, r

\* The cells of one packet.
LEMMA EncodeType ==
    ASSUME NEW P, NEW p \in P
    PROVE  /\ Encode(p) \in Seq(Cells(P)) /\ Len(Encode(p)) = PacketSize
           /\ \A i \in 1 .. PacketSize : Encode(p)[i] = [packet |-> p, at |-> i]
<1> DEFINE b == Encode(p)
<1>1. PacketSize \in Nat
  BY SizeType
<1>2. \A i \in 1 .. PacketSize : [packet |-> p, at |-> i] \in Cells(P)
  BY DEF Cells
<1>3. b = [i \in 1 .. PacketSize |-> [packet |-> p, at |-> i]]
  BY DEF Encode
<1>4. b \in [1 .. PacketSize -> Cells(P)]
  BY <1>2, <1>3
<1>5. b \in Seq(Cells(P)) /\ Len(b) = PacketSize
  <2> HIDE DEF b
  <2> QED
    BY <1>1, <1>4
<1> QED
  BY <1>3, <1>5

LEMMA EncodeWhole ==
    ASSUME NEW P, NEW p \in P
    PROVE  /\ Whole(Encode(p)) /\ Encode(p)[1].at = 1
           /\ StartedIn(Encode(p)) = <<p>>
<1> DEFINE b == Encode(p)
<1>1. /\ b \in Seq(Cells(P)) /\ Len(b) = PacketSize
      /\ \A i \in 1 .. PacketSize : b[i] = [packet |-> p, at |-> i]
  BY EncodeType
<1>2. PacketSize \in Nat /\ PacketSize >= 1 /\ 1 \in 1 .. PacketSize /\ PacketSize \in 1 .. PacketSize
  BY SizeType
<1>3. \A i \in 1 .. PacketSize : b[i].at = i /\ b[i].packet = p
  BY <1>1
<1> HIDE DEF b
<1>4. ChainIn(b)
  <2>1. ASSUME NEW i \in 1 .. Len(b) - 1
        PROVE  b[i + 1].at = IF b[i].at < PacketSize THEN b[i].at + 1 ELSE 1
    <3>1. i \in 1 .. PacketSize /\ i + 1 \in 1 .. PacketSize /\ i < PacketSize
      BY <1>1, <1>2
    <3> QED
      BY <1>3, <3>1
  <2> QED
    BY <2>1 DEF ChainIn
<1>5. b[Len(b)].at = PacketSize /\ b[1].at = 1 /\ b[0 + 1].at = 1 /\ b[0 + 1].packet = p
  BY <1>1, <1>2, <1>3
<1>6. StartedIn(b) = <<p>>
  <2>1. 0 + PacketSize <= Len(b) /\ 0 + PacketSize = Len(b) /\ 0 \in Nat
    BY <1>1, <1>2
  <2>2. StartedIn(After(b, 0)) = <<b[0 + 1].packet>> \o StartedIn(After(b, 0 + PacketSize))
    BY <1>1, <1>4, <1>5, <2>1, StartedPacket
  <2>3. After(b, 0) = b
    BY <1>1 DEF After
  <2>4. After(b, 0 + PacketSize) = << >>
    BY <1>1, <2>1 DEF After
  <2>5. StartedIn(<< >>) = << >>
    BY StartedEmpty
  <2>6. <<p>> \o << >> = <<p>>
    OBVIOUS
  <2> QED
    BY <1>5, <2>2, <2>3, <2>4, <2>5, <2>6
<1> QED
  BY <1>4, <1>5, <1>6 DEF Whole, b

\* f holds the states of the loop of Stream().
Writes(f, packets) ==
    /\ Stream(packets) = f[Len(packets)]
    /\ f[0] = << >>
    /\ \A i \in 1 .. Len(packets) : f[i] = f[i - 1] \o Encode(packets[i])

LEMMA StreamLoop ==
    ASSUME NEW P, NEW packets \in Seq(P)
    PROVE  \E f : Writes(f, packets)
<1> DEFINE n == Len(packets)
           S == Seq(Cells(P))
           enc(i) == Encode(packets[i])
           step == [x \in (1 .. n) \X S |-> x[2] \o enc(x[1])]
           Runs(f) == f = [i \in 0 .. n |-> IF i = 0 THEN << >> ELSE f[i - 1] \o enc(i)]
<1>1. n \in Nat /\ << >> \in S /\ \A i \in 1 .. n : enc(i) \in S
  BY EncodeType
<1>2. \A u, v \in S : u \o v \in S
  BY ConcatType
<1> HIDE DEF n, enc, S
<1>3. step \in [(1 .. n) \X S -> S]
  BY <1>1, <1>2
<1>4. PICK f \in [0 .. n -> S] :
          f[0] = << >> /\ \A i \in 1 .. n : f[i] = step[<<i, f[i - 1]>>]
  <2> HIDE DEF step
  <2>1. \E f : IsLoop(f, n, S, << >>, step)
    BY <1>1, <1>3, LoopExists
  <2> QED
    BY <2>1 DEF IsLoop
<1>5. ASSUME NEW i \in 1 .. n
      PROVE  f[i] = f[i - 1] \o enc(i)
  <2>1. i - 1 \in 0 .. n /\ f[i - 1] \in S /\ <<i, f[i - 1]>> \in (1 .. n) \X S
    BY <1>1
  <2> QED
    BY <1>4, <2>1
<1>6. Runs(f)
  <2> HIDE DEF step
  <2>1. ASSUME NEW i \in 0 .. n
        PROVE  f[i] = IF i = 0 THEN << >> ELSE f[i - 1] \o enc(i)
    <3>1. i # 0 => i \in 1 .. n
      BY <1>1
    <3> QED
      BY <1>4, <1>5, <3>1
  <2> QED
    BY <2>1
<1> DEFINE g == CHOOSE h : Runs(h)
<1>7. Runs(g)
  <2> HIDE DEF Runs
  <2> QED
    BY <1>6
<1>8. Stream(packets) = g[n]
  BY DEF Stream, n, enc
<1>9. g[0] = << >> /\ \A i \in 1 .. n : g[i] = g[i - 1] \o enc(i)
  <2> HIDE DEF g
  <2>1. 0 \in 0 .. n /\ \A i \in 1 .. n : i \in 0 .. n /\ i # 0
    BY <1>1
  <2> QED
    BY <1>7, <2>1
<1> QED
  <2> HIDE DEF g
  <2> QED
    BY <1>8, <1>9 DEF n, enc, Writes

\* What Stream() writes is whole packets, and the packets it was given.
LEMMA StreamWhole ==
    ASSUME NEW P, NEW packets \in Seq(P)
    PROVE  /\ Stream(packets) \in Seq(Cells(P))
           /\ Whole(Stream(packets))
           /\ Stream(packets) # << >> => Stream(packets)[1].at = 1
           /\ StartedIn(Stream(packets)) = packets
<1> DEFINE n == Len(packets)
           Sent(i) == SubSeq(packets, 1, i)
<1>1. PICK f : Writes(f, packets)
  BY StreamLoop
<1> DEFINE Good(i) ==
               /\ f[i] \in Seq(Cells(P))
               /\ Whole(f[i])
               /\ f[i] # << >> => f[i][1].at = 1
               /\ StartedIn(f[i]) = Sent(i)
           T == {i \in 0 .. n : Good(i)}
<1>2. n \in Nat /\ Sent(n) = packets /\ Sent(0) = << >>
  OBVIOUS
<1>3. 0 \in T
  <2>1. f[0] = << >>
    BY <1>1 DEF Writes
  <2>2. Whole(<< >>) /\ << >> \in Seq(Cells(P))
    BY DEF Whole, ChainIn
  <2>3. Good(0)
    BY <1>2, <2>1, <2>2, StartedEmpty
  <2> QED
    BY <1>2, <2>3
<1>4. ASSUME NEW m \in T, m \in 0 .. n - 1
      PROVE  m + 1 \in T
  <2> DEFINE p == packets[m + 1]
             e == Encode(p)
             a == f[m]
  <2>1. m + 1 \in 1 .. n /\ (m + 1) - 1 = m /\ p \in P /\ m + 1 \in 0 .. n
    BY <1>2, <1>4
  <2>2. f[m + 1] = a \o e
    BY <1>1, <2>1 DEF Writes
  <2>3. Good(m)
    BY <1>4
  <2>4. /\ e \in Seq(Cells(P)) /\ Whole(e) /\ e[1].at = 1 /\ StartedIn(e) = <<p>>
        /\ Len(e) = PacketSize
    BY <2>1, EncodeType, EncodeWhole
  <2>5. a \in Seq(Cells(P)) /\ Whole(a) /\ (a # << >> => a[1].at = 1) /\ StartedIn(a) = Sent(m)
    BY <2>3
  <2>6. Sent(m + 1) = Sent(m) \o <<p>>
    BY <1>2, <1>4
  <2> HIDE DEF e, p, a, Sent
  <2>7. a \o e \in Seq(Cells(P)) /\ Whole(a \o e)
    BY <2>4, <2>5, ConcatType, WholeConcat
  <2>8. (a \o e)[1].at = 1
    <3>1. CASE a = << >>
      <4>1. a \o e = e
        BY <2>4, <3>1, ConcatEmpty
      <4> QED
        BY <2>4, <4>1
    <3>2. CASE a # << >>
      <4>1. 1 \in 1 .. Len(a)
        BY <2>5, <3>2
      <4>2. (a \o e)[1] = a[1]
        BY <2>4, <2>5, <4>1, ConcatType
      <4> QED
        BY <2>5, <3>2, <4>2
    <3> QED
      BY <3>1, <3>2
  <2>9. StartedIn(a \o e) = Sent(m + 1)
    <3>1. StartedIn(a \o e) = StartedIn(a) \o StartedIn(e)
      BY <2>4, <2>5, StartedConcat
    <3> QED
      BY <2>4, <2>5, <2>6, <3>1
  <2>10. Good(m + 1)
    BY <2>2, <2>7, <2>8, <2>9
  <2> QED
    BY <2>1, <2>10
<1>5. n \in T
  <2> HIDE DEF T
  <2>1. \A m \in 0 .. n : m \in T
    BY <1>2, <1>3, <1>4, BoundedInduction
  <2> QED
    BY <1>2, <2>1
<1>6. Good(n)
  BY <1>5
<1> QED
  BY <1>1, <1>2, <1>6 DEF Writes

-----------------------------------------------------------------------------
(***************************************************************************)
(* The loops that take packets off a stream.                               *)
(***************************************************************************)

\* A whole packet lies in b behind the first d cells.
HeadAt(b, d) == d + PacketSize <= Len(b) /\ b[d + 1].at = 1

\* There, decode() asks for more cells, and there it finds no magic number.
Waits(b, d) == Decode(After(b, d)) \in {IncompleteHeader, IncompletePayload}

Skips(b, d) == Decode(After(b, d)) = InvalidMagic

LEMMA PacketIsNoError ==
    ASSUME NEW p
    PROVE  Packet(p) \notin ParseError /\ Packet(p).packet = p
<1>1. /\ Packet(p).error = "None" /\ Packet(p).packet = p
      /\ IncompleteHeader.error # "None" /\ InvalidMagic.error # "None"
      /\ IncompletePayload.error # "None"
  BY DEF Packet, IncompleteHeader, InvalidMagic, IncompletePayload
<1> QED
  BY <1>1 DEF ParseError

LEMMA ErrorsDiffer ==
    /\ InvalidMagic # IncompleteHeader
    /\ InvalidMagic # IncompletePayload
<1>1. /\ IncompleteHeader.error = "IncompleteHeader" /\ InvalidMagic.error = "InvalidMagicHeader"
      /\ IncompletePayload.error = "IncompletePayload"
  BY DEF IncompleteHeader, InvalidMagic, IncompletePayload
<1> QED
  BY <1>1

\* What decode() says of the cells behind the first d.
LEMMA DecodeAt ==
    ASSUME NEW P, NEW b \in Seq(Cells(P)), NEW d \in 0 .. Len(b)
    PROVE  /\ Decode(After(b, d)) \in ParseError <=> ~ HeadAt(b, d)
           /\ HeadAt(b, d) => /\ Decode(After(b, d)).packet = b[d + 1].packet
                              /\ b[d + 1].packet \in P
                              /\ d + PacketSize \in d + 1 .. Len(b)
           /\ Skips(b, d) => /\ ~ Waits(b, d)
                             /\ d + 1 \in d + 1 .. Len(b)
                             /\ b[d + 1].at # 1
           /\ ~ Waits(b, d) /\ ~ Skips(b, d) => HeadAt(b, d)
<1> DEFINE r == After(b, d)
<1>1. /\ r \in Seq(Cells(P)) /\ Len(r) = Len(b) - d
      /\ \A i \in 1 .. Len(b) - d : r[i] = b[d + i]
  BY AfterType
<1>2. /\ PacketSize \in Nat /\ PacketSize >= 1 /\ HeaderSize \in Nat /\ HeaderSize >= 1
      /\ HeaderSize <= PacketSize /\ Len(b) \in Nat /\ d \in Nat /\ d <= Len(b)
  BY SizeType
<1>3. Len(r) >= 1 => /\ r[1] = b[d + 1] /\ d + 1 \in d + 1 .. Len(b)
                     /\ b[d + 1].packet \in P
  <2> SUFFICES ASSUME Len(r) >= 1
               PROVE  r[1] = b[d + 1] /\ d + 1 \in d + 1 .. Len(b) /\ b[d + 1].packet \in P
    OBVIOUS
  <2> HIDE DEF r
  <2>1. 1 \in 1 .. Len(b) - d /\ d + 1 \in 1 .. Len(b) /\ d + 1 \in d + 1 .. Len(b)
    BY <1>1, <1>2
  <2> QED
    BY <1>1, <2>1, CellAt
<1> HIDE DEF r
<1>4. /\ IncompleteHeader \in ParseError /\ InvalidMagic \in ParseError
      /\ IncompletePayload \in ParseError
  BY DEF ParseError
<1>5. CASE Len(r) < HeaderSize
  <2>1. Decode(r) = IncompleteHeader
    BY <1>5 DEF Decode
  <2>2. ~ (d + PacketSize <= Len(b))
    BY <1>1, <1>2, <1>5
  <2> QED
    BY <1>4, <2>1, <2>2, ErrorsDiffer DEF HeadAt, Waits, Skips, r
<1>6. CASE ~ (Len(r) < HeaderSize) /\ r[1].at # 1
  <2>1. Decode(r) = InvalidMagic
    BY <1>6 DEF Decode
  <2>2. Len(r) >= 1
    BY <1>1, <1>2, <1>6
  <2> QED
    BY <1>3, <1>4, <1>6, <2>1, <2>2, ErrorsDiffer DEF HeadAt, Waits, Skips, r
<1>7. CASE ~ (Len(r) < HeaderSize) /\ r[1].at = 1 /\ Len(r) < PacketSize
  <2>1. Decode(r) = IncompletePayload
    BY <1>7 DEF Decode
  <2>2. ~ (d + PacketSize <= Len(b))
    BY <1>1, <1>2, <1>7
  <2> QED
    BY <1>4, <2>1, <2>2, ErrorsDiffer DEF HeadAt, Waits, Skips, r
<1>8. CASE ~ (Len(r) < HeaderSize) /\ r[1].at = 1 /\ ~ (Len(r) < PacketSize)
  <2>1. Decode(r) = Packet(r[1].packet)
    BY <1>8 DEF Decode
  <2>2. Len(r) >= 1 /\ d + PacketSize <= Len(b) /\ d + PacketSize \in d + 1 .. Len(b)
    BY <1>1, <1>2, <1>8
  <2>3. Decode(r) \notin ParseError /\ Decode(r).packet = b[d + 1].packet
    BY <1>3, <2>1, <2>2, PacketIsNoError
  <2> QED
    BY <1>3, <1>4, <1>8, <2>2, <2>3 DEF HeadAt, Waits, Skips, r
<1> QED
  BY <1>5, <1>6, <1>7, <1>8

\* f holds what the loop of AgentPackets() takes from behind each place.
Takes(f, b, P) ==
    /\ AgentPackets(b) = f[0]
    /\ \A d \in 0 .. Len(b) :
           f[d] = IF HeadAt(b, d) THEN <<b[d + 1].packet>> \o f[d + PacketSize] ELSE << >>
    /\ \A d \in 0 .. Len(b) : f[d] \in Seq(P)

LEMMA AgentLoop ==
    ASSUME NEW P, NEW b \in Seq(Cells(P))
    PROVE  \E f : Takes(f, b, P)
<1> DEFINE L == Len(b)
           D == 0 .. L
           Ends(d) == Decode(After(b, d)) \in ParseError
           one(d) == <<Decode(After(b, d)).packet>>
           Body(d, g) == IF Ends(d) THEN << >> ELSE one(d) \o g[d + PacketSize]
           body == [x \in D \X [D -> Seq(P)] |-> Body(x[1], x[2])]
           rank == [d \in D |-> L - d]
           Runs(f) == f = [d \in D |-> Body(d, f)]
<1>1. L \in Nat /\ PacketSize \in Nat /\ PacketSize >= 1
  BY SizeType
<1>2. ASSUME NEW d \in D, ~ Ends(d)
      PROVE  /\ HeadAt(b, d) /\ one(d) = <<b[d + 1].packet>> /\ one(d) \in Seq(P)
             /\ d + PacketSize \in d + 1 .. L
  <2>1. HeadAt(b, d)
    BY <1>2, DecodeAt
  <2>2. /\ Decode(After(b, d)).packet = b[d + 1].packet /\ b[d + 1].packet \in P
        /\ d + PacketSize \in d + 1 .. L
    BY <2>1, DecodeAt
  <2> QED
    BY <2>1, <2>2
<1>3. ASSUME NEW d \in D
      PROVE  Ends(d) <=> ~ HeadAt(b, d)
  BY DecodeAt
<1> HIDE DEF Ends, one, L
<1>4. ASSUME NEW d \in D, NEW g, \A e \in d + 1 .. L : g[e] \in Seq(P)
      PROVE  Body(d, g) \in Seq(P)
  <2>1. CASE Ends(d)
    BY <2>1
  <2>2. CASE ~ Ends(d)
    <3>1. one(d) \in Seq(P) /\ g[d + PacketSize] \in Seq(P)
      BY <1>2, <1>4, <2>2
    <3> QED
      BY <2>2, <3>1
  <2> QED
    BY <2>1, <2>2
<1>5. \A d \in D : \A e \in d + 1 .. L : e \in D /\ L - e < L - d
  BY <1>1
<1> HIDE DEF Body
<1>6. body \in [D \X [D -> Seq(P)] -> Seq(P)]
  <2>1. ASSUME NEW d \in D, NEW g \in [D -> Seq(P)]
        PROVE  Body(d, g) \in Seq(P)
    <3>1. \A e \in d + 1 .. L : g[e] \in Seq(P)
      BY <1>5
    <3> QED
      BY <1>4, <3>1
  <2> QED
    BY <2>1
<1>7. rank \in [D -> 0 .. L]
  BY <1>1
<1>8. LooksBelow(body, rank, D, Seq(P))
  <2>1. ASSUME NEW d \in D, NEW g \in [D -> Seq(P)], NEW h \in [D -> Seq(P)],
               \A e \in D : rank[e] < rank[d] => g[e] = h[e]
        PROVE  Body(d, g) = Body(d, h)
    <3>1. \A e \in d + 1 .. L : g[e] = h[e]
      BY <1>5, <2>1
    <3>2. ~ Ends(d) => g[d + PacketSize] = h[d + PacketSize]
      BY <1>2, <3>1
    <3> QED
      BY <3>2 DEF Body
  <2> QED
    BY <2>1 DEF LooksBelow
<1>9. PICK f \in [D -> Seq(P)] : \A d \in D : f[d] = body[<<d, f>>]
  <2> HIDE DEF body, rank, D
  <2>1. << >> \in Seq(P)
    OBVIOUS
  <2>2. \E f : IsRecursion(f, body, D, Seq(P))
    BY <1>1, <1>6, <1>7, <1>8, <2>1, RecursionExists
  <2> QED
    BY <2>2 DEF IsRecursion
<1>10. Runs(f)
  <2>1. \A d \in D : f[d] = Body(d, f)
    BY <1>9
  <2> QED
    BY <2>1
<1> DEFINE g == CHOOSE h : Runs(h)
<1>11. Runs(g)
  <2> HIDE DEF Runs
  <2> QED
    BY <1>10
<1>12. AgentPackets(b) = g[0]
  BY DEF AgentPackets, Body, Ends, one, L
<1> HIDE DEF g
<1>13. \A d \in D : g[d] = Body(d, g)
  BY <1>11
<1>14. \A d \in D : g[d] \in Seq(P)
  <2> DEFINE T == {d \in D : g[d] \in Seq(P)}
  <2>1. ASSUME NEW d \in 0 .. L, \A e \in d + 1 .. L : e \in T
        PROVE  d \in T
    <3>1. Body(d, g) \in Seq(P)
      BY <1>4, <2>1
    <3> QED
      BY <1>13, <3>1
  <2>2. \A d \in 0 .. L : d \in T
    <3> HIDE DEF T
    <3> QED
      BY <1>1, <2>1, DownwardInduction
  <2> QED
    BY <2>2
<1>15. ASSUME NEW d \in D
       PROVE  g[d] = IF HeadAt(b, d) THEN <<b[d + 1].packet>> \o g[d + PacketSize] ELSE << >>
  BY <1>2, <1>3, <1>13 DEF Body
<1> QED
  BY <1>12, <1>14, <1>15 DEF Takes, L

\* Every packet the agent takes begins in what it read, and all but the first of them
\* behind the first cell.
LEMMA AgentTakesWhatBegins ==
    ASSUME NEW P, NEW b \in Seq(Cells(P))
    PROVE  /\ AgentPackets(b) \in Seq(P)
           /\ AgentPackets(b) # << >> =>
                  Len(b) >= 1 /\ b[1].at = 1 /\ AgentPackets(b)[1] = b[1].packet
           /\ \A i \in 2 .. Len(AgentPackets(b)) :
                  \E j \in 2 .. Len(b) : b[j].at = 1 /\ AgentPackets(b)[i] = b[j].packet
<1>1. PICK f : Takes(f, b, P)
  BY AgentLoop
<1> DEFINE L == Len(b)
           T == {d \in 0 .. L : \A i \in 1 .. Len(f[d]) :
                    \E j \in d + 1 .. L : b[j].at = 1 /\ f[d][i] = b[j].packet}
<1>2. L \in Nat /\ PacketSize \in Nat /\ PacketSize >= 1
  BY SizeType
<1>3. ASSUME NEW d \in 0 .. L
      PROVE  /\ f[d] = IF HeadAt(b, d) THEN <<b[d + 1].packet>> \o f[d + PacketSize] ELSE << >>
             /\ f[d] \in Seq(P)
             /\ HeadAt(b, d) => /\ d + PacketSize \in d + 1 .. L /\ d + PacketSize \in 0 .. L
                                /\ f[d + PacketSize] \in Seq(P) /\ b[d + 1].packet \in P
                                /\ d + 1 \in d + 1 .. L /\ b[d + 1].at = 1
  <2>1. /\ f[d] = IF HeadAt(b, d) THEN <<b[d + 1].packet>> \o f[d + PacketSize] ELSE << >>
        /\ f[d] \in Seq(P)
    BY <1>1 DEF Takes
  <2>2. ASSUME HeadAt(b, d)
        PROVE  /\ d + PacketSize \in d + 1 .. L /\ d + PacketSize \in 0 .. L
               /\ d + 1 \in d + 1 .. L /\ b[d + 1].at = 1
               /\ b[d + 1].packet \in P
    <3>1. d + PacketSize \in d + 1 .. L /\ b[d + 1].packet \in P
      BY <2>2, DecodeAt
    <3> QED
      BY <1>2, <2>2, <3>1 DEF HeadAt
  <2>3. HeadAt(b, d) => f[d + PacketSize] \in Seq(P)
    BY <1>1, <2>2 DEF Takes
  <2> QED
    BY <2>1, <2>2, <2>3
<1> HIDE DEF L
<1>4. ASSUME NEW d \in 0 .. L, HeadAt(b, d), NEW i \in 1 .. Len(f[d])
      PROVE  IF i = 1 THEN f[d][i] = b[d + 1].packet
             ELSE i - 1 \in 1 .. Len(f[d + PacketSize]) /\ f[d][i] = f[d + PacketSize][i - 1]
  <2> DEFINE x == b[d + 1].packet
             r == f[d + PacketSize]
  <2>1. f[d] = <<x>> \o r /\ r \in Seq(P) /\ x \in P
    BY <1>3, <1>4
  <2> HIDE DEF x, r
  <2> QED
    BY <2>1, <1>4 DEF x, r
<1>5. ASSUME NEW d \in 0 .. L, \A e \in d + 1 .. L : e \in T
      PROVE  d \in T
  <2>1. CASE ~ HeadAt(b, d)
    <3>1. f[d] = << >>
      BY <1>3, <2>1
    <3> QED
      BY <3>1
  <2>2. CASE HeadAt(b, d)
    <3>1. d + PacketSize \in T /\ d + 1 \in d + 1 .. L /\ b[d + 1].at = 1
      BY <1>3, <1>5, <2>2
    <3>2. ASSUME NEW i \in 1 .. Len(f[d])
          PROVE  \E j \in d + 1 .. L : b[j].at = 1 /\ f[d][i] = b[j].packet
      <4>1. CASE i = 1
        BY <1>4, <2>2, <3>1, <4>1
      <4>2. CASE i # 1
        <5>1. i - 1 \in 1 .. Len(f[d + PacketSize]) /\ f[d][i] = f[d + PacketSize][i - 1]
          BY <1>4, <2>2, <4>2
        <5>2. PICK j \in (d + PacketSize) + 1 .. L :
                  b[j].at = 1 /\ f[d + PacketSize][i - 1] = b[j].packet
          BY <3>1, <5>1
        <5>3. j \in d + 1 .. L
          BY <1>2, <5>2
        <5> QED
          BY <5>1, <5>2, <5>3
      <4> QED
        BY <4>1, <4>2
    <3> QED
      BY <3>2
  <2> QED
    BY <2>1, <2>2
<1>6. \A d \in 0 .. L : d \in T
  <2> HIDE DEF T
  <2> QED
    BY <1>2, <1>5, DownwardInduction
<1>7. 0 \in 0 .. L /\ AgentPackets(b) = f[0] /\ 0 + 1 = 1 /\ 0 + PacketSize = PacketSize
  BY <1>1, <1>2 DEF Takes
<1>8. AgentPackets(b) # << >> => HeadAt(b, 0)
  BY <1>3, <1>7
<1>9. AgentPackets(b) # << >> =>
          Len(b) >= 1 /\ b[1].at = 1 /\ AgentPackets(b)[1] = b[1].packet
  <2> SUFFICES ASSUME AgentPackets(b) # << >>
               PROVE  Len(b) >= 1 /\ b[1].at = 1 /\ AgentPackets(b)[1] = b[1].packet
    OBVIOUS
  <2>1. HeadAt(b, 0) /\ f[0] \in Seq(P) /\ f[0] # << >>
    BY <1>3, <1>7, <1>8
  <2>2. 1 \in 1 .. Len(f[0])
    BY <2>1
  <2>3. f[0][1] = b[0 + 1].packet
    BY <1>4, <1>7, <2>1, <2>2
  <2>4. b[0 + 1].at = 1 /\ 0 + PacketSize <= L
    BY <2>1 DEF HeadAt, L
  <2> QED
    BY <1>2, <1>7, <2>3, <2>4 DEF L
<1>10. ASSUME NEW i \in 2 .. Len(f[0])
       PROVE  \E j \in 2 .. L : b[j].at = 1 /\ f[0][i] = b[j].packet
  <2>0. f[0] \in Seq(P)
    BY <1>3, <1>7
  <2>1. f[0] \in Seq(P) /\ i \in 1 .. Len(f[0]) /\ i # 1
    BY <2>0
  <2>2. HeadAt(b, 0)
    <3>1. f[0] # << >>
      BY <2>1
    <3> QED
      BY <1>7, <1>8, <3>1
  <2>3. i - 1 \in 1 .. Len(f[PacketSize]) /\ f[0][i] = f[PacketSize][i - 1]
    BY <1>4, <1>7, <2>1, <2>2
  <2>4. PacketSize \in 0 .. L
    BY <1>3, <1>7, <2>2
  <2>5. PacketSize \in T
    BY <1>6, <2>4
  <2>6. PICK j \in PacketSize + 1 .. L : b[j].at = 1 /\ f[PacketSize][i - 1] = b[j].packet
    BY <2>3, <2>5
  <2>7. j \in 2 .. L
    BY <1>2, <2>6
  <2> QED
    BY <2>3, <2>6, <2>7
<1>11. f[0] \in Seq(P)
  BY <1>3, <1>7
<1> QED
  BY <1>7, <1>9, <1>10, <1>11 DEF L

\* A read that begins and ends with a packet loses none.
LEMMA AgentTakesAll ==
    ASSUME NEW P, NEW b \in Seq(Cells(P)), Whole(b), b # << >> => b[1].at = 1
    PROVE  AgentPackets(b) = StartedIn(b)
<1>1. PICK f : Takes(f, b, P)
  BY AgentLoop
<1> DEFINE L == Len(b)
           T == {d \in 0 .. L : d = L \/ b[d + 1].at = 1 => f[d] = StartedIn(After(b, d))}
<1>2. L \in Nat /\ PacketSize \in Nat /\ PacketSize >= 1
  BY SizeType
<1>3. ASSUME NEW d \in 0 .. L, d < L, b[d + 1].at = 1
      PROVE  /\ HeadAt(b, d) /\ d + PacketSize \in d + 1 .. L /\ d + PacketSize \in 0 .. L
             /\ d + PacketSize = L \/ b[(d + PacketSize) + 1].at = 1
  <2>1. d + 1 \in 1 .. L /\ L # 0 /\ d \in Nat
    BY <1>2, <1>3
  <2>2. b[L].at = PacketSize
    BY <2>1 DEF Whole
  <2>3. \A k \in 0 .. PacketSize - 1 : (d + 1) + k <= L => b[(d + 1) + k].at = 1 + k
    BY <1>3, <2>1, ChainRun DEF Whole
  <2> HIDE DEF L
  <2>4. d + PacketSize <= L
    <3> SUFFICES ASSUME d + PacketSize > L
                 PROVE  FALSE
      BY <1>2, <2>1
    <3> DEFINE k == L - (d + 1)
    <3>1. k \in 0 .. PacketSize - 1 /\ (d + 1) + k = L /\ 1 + k # PacketSize
      BY <1>2, <2>1
    <3>2. (d + 1) + k <= L
      BY <1>2, <3>1
    <3>3. b[(d + 1) + k].at = 1 + k
      <4> HIDE DEF k
      <4> QED
        BY <2>3, <3>1, <3>2
    <3> QED
      BY <2>2, <3>1, <3>3
  <2>5. d + PacketSize \in d + 1 .. L /\ d + PacketSize \in 0 .. L
    BY <1>2, <2>1, <2>4
  <2>6. ASSUME d + PacketSize # L
        PROVE  b[(d + PacketSize) + 1].at = 1
    <3>1. /\ d + PacketSize \in 1 .. L - 1 /\ PacketSize - 1 \in 0 .. PacketSize - 1
          /\ (d + 1) + (PacketSize - 1) = d + PacketSize /\ 1 + (PacketSize - 1) = PacketSize
      BY <1>2, <2>1, <2>4, <2>6
    <3>2. b[d + PacketSize].at = PacketSize
      <4>1. (d + 1) + (PacketSize - 1) <= L
        BY <2>4, <3>1
      <4>2. b[(d + 1) + (PacketSize - 1)].at = 1 + (PacketSize - 1)
        BY <2>3, <3>1, <4>1
      <4> QED
        BY <3>1, <4>2
    <3>3. b[(d + PacketSize) + 1].at =
              IF b[d + PacketSize].at < PacketSize THEN b[d + PacketSize].at + 1 ELSE 1
      BY <3>1 DEF Whole, ChainIn, L
    <3>4. ~ (PacketSize < PacketSize)
      BY <1>2
    <3> QED
      BY <3>2, <3>3, <3>4
  <2> QED
    BY <1>3, <2>4, <2>5, <2>6 DEF HeadAt, L
<1>4. ASSUME NEW d \in 0 .. L, \A e \in d + 1 .. L : e \in T
      PROVE  d \in T
  <2>1. CASE d = L
    <3>1. ~ HeadAt(b, d)
      BY <1>2, <2>1 DEF HeadAt
    <3>2. f[d] = << >>
      BY <1>1, <3>1 DEF Takes
    <3>3. After(b, d) = << >>
      BY <2>1 DEF After
    <3> QED
      BY <3>2, <3>3, StartedEmpty
  <2>2. CASE d # L /\ b[d + 1].at = 1
    <3> DEFINE e == d + PacketSize
    <3>1. d < L /\ d \in Nat
      BY <1>2, <2>2
    <3>2. HeadAt(b, d) /\ e \in d + 1 .. L /\ e \in 0 .. L /\ (e = L \/ b[e + 1].at = 1)
      BY <1>3, <2>2, <3>1
    <3>3. f[d] = <<b[d + 1].packet>> \o f[e]
      BY <1>1, <3>2 DEF Takes
    <3>4. e \in T
      BY <1>4, <3>2
    <3>5. f[e] = StartedIn(After(b, e))
      BY <3>2, <3>4
    <3>6. StartedIn(After(b, d)) = <<b[d + 1].packet>> \o StartedIn(After(b, e))
      BY <3>1, <3>2, StartedPacket DEF HeadAt, Whole
    <3> QED
      BY <3>3, <3>5, <3>6
  <2> QED
    BY <2>1, <2>2
<1>5. 0 \in T
  <2>1. \A d \in 0 .. L : d \in T
    <3> HIDE DEF T, L
    <3> QED
      BY <1>2, <1>4, DownwardInduction
  <2> QED
    BY <1>2, <2>1
<1>6. 0 = L \/ b[0 + 1].at = 1
  OBVIOUS
<1>7. After(b, 0) = b
  BY DEF After
<1> QED
  BY <1>1, <1>5, <1>6, <1>7 DEF Takes

\* What the client's loop comes to.
LoopResult(P) == [packets : Seq(P), rest : Seq(Cells(P))]

Waiting(b, d) == [packets |-> << >>, rest |-> After(b, d)]

Taking(p, more) == [more EXCEPT !.packets = <<p>> \o @]

LEMMA TakingType ==
    ASSUME NEW P, NEW p \in P, NEW more \in LoopResult(P)
    PROVE  /\ Taking(p, more) \in LoopResult(P)
           /\ Taking(p, more).packets = <<p>> \o more.packets
           /\ Taking(p, more).rest = more.rest
<1>1. more.packets \in Seq(P) /\ more.rest \in Seq(Cells(P)) /\ <<p>> \in Seq(P)
  BY DEF LoopResult
<1>2. <<p>> \o more.packets \in Seq(P)
  BY <1>1
<1>3. Taking(p, more) = [packets |-> <<p>> \o more.packets, rest |-> more.rest]
  <2>1. \A y : [more EXCEPT !.packets = y] = [packets |-> y, rest |-> more.rest]
    BY DEF LoopResult
  <2> QED
    BY <2>1, Zenon DEF Taking
<1> QED
  BY <1>1, <1>2, <1>3 DEF LoopResult

\* f holds what the loop of ClientLoop() makes of the cells behind each place.
Loops(f, b, P) ==
    /\ ClientLoop(b) = f[0]
    /\ \A d \in 0 .. Len(b) :
           f[d] = IF Waits(b, d) THEN Waiting(b, d)
                  ELSE IF Skips(b, d) THEN f[d + 1]
                  ELSE Taking(b[d + 1].packet, f[d + PacketSize])
    /\ \A d \in 0 .. Len(b) : f[d] \in LoopResult(P)

LEMMA ClientLoopRuns ==
    ASSUME NEW P, NEW b \in Seq(Cells(P))
    PROVE  \E f : Loops(f, b, P)
<1> DEFINE L == Len(b)
           D == 0 .. L
           S == LoopResult(P)
           result(d) == Decode(After(b, d))
           Raw(d, g) ==
               CASE result(d) \in {IncompleteHeader, IncompletePayload} ->
                        [packets |-> << >>, rest |-> After(b, d)]
                 [] result(d) = InvalidMagic -> g[d + 1]
                 [] OTHER -> [g[d + PacketSize] EXCEPT !.packets = <<result(d).packet>> \o @]
           Body(d, g) == IF Waits(b, d) THEN Waiting(b, d)
                         ELSE IF Skips(b, d) THEN g[d + 1]
                         ELSE Taking(result(d).packet, g[d + PacketSize])
           body == [x \in D \X [D -> S] |-> Body(x[1], x[2])]
           rank == [d \in D |-> L - d]
           Runs(f) == f = [d \in D |-> Raw(d, f)]
<1>1. L \in Nat /\ PacketSize \in Nat /\ PacketSize >= 1
  BY SizeType
<1>2. ASSUME NEW d \in D
      PROVE  /\ Waiting(b, d) \in S
             /\ Skips(b, d) => ~ Waits(b, d) /\ d + 1 \in d + 1 .. L
             /\ ~ Waits(b, d) /\ ~ Skips(b, d) =>
                    /\ result(d).packet = b[d + 1].packet /\ b[d + 1].packet \in P
                    /\ d + PacketSize \in d + 1 .. L
  <2>1. After(b, d) \in Seq(Cells(P)) /\ << >> \in Seq(P)
    BY AfterType
  <2>2. Waiting(b, d) \in S
    BY <2>1 DEF Waiting, LoopResult
  <2>3. Skips(b, d) => ~ Waits(b, d) /\ d + 1 \in d + 1 .. L
    BY DecodeAt
  <2>4. ~ Waits(b, d) /\ ~ Skips(b, d) => HeadAt(b, d)
    BY DecodeAt
  <2>5. HeadAt(b, d) => /\ Decode(After(b, d)).packet = b[d + 1].packet /\ b[d + 1].packet \in P
                        /\ d + PacketSize \in d + 1 .. Len(b)
    BY DecodeAt
  <2> QED
    BY <2>2, <2>3, <2>4, <2>5
<1>3. ASSUME NEW d \in D, NEW g
      PROVE  Raw(d, g) = Body(d, g)
  <2>1. CASE Waits(b, d)
    <3>1. result(d) # InvalidMagic
      BY <2>1, ErrorsDiffer DEF Waits
    <3> HIDE DEF result
    <3> QED
      BY <2>1, <3>1 DEF Waits, Waiting, result
  <2>2. CASE ~ Waits(b, d) /\ Skips(b, d)
    BY <2>2 DEF Waits, Skips
  <2>3. CASE ~ Waits(b, d) /\ ~ Skips(b, d)
    BY <2>3 DEF Waits, Skips, Taking
  <2> QED
    BY <2>1, <2>2, <2>3
<1> HIDE DEF L, Raw, S, result
<1>4. ASSUME NEW d \in D, NEW g, \A e \in d + 1 .. L : g[e] \in S
      PROVE  Body(d, g) \in S
  <2>1. CASE Waits(b, d)
    BY <1>2, <2>1
  <2>2. CASE ~ Waits(b, d) /\ Skips(b, d)
    BY <1>2, <1>4, <2>2
  <2>3. CASE ~ Waits(b, d) /\ ~ Skips(b, d)
    <3>1. result(d).packet \in P /\ g[d + PacketSize] \in S
      BY <1>2, <1>4, <2>3
    <3>2. Taking(result(d).packet, g[d + PacketSize]) \in S
      BY <3>1, TakingType DEF S
    <3> QED
      BY <2>3, <3>2
  <2> QED
    BY <2>1, <2>2, <2>3
<1>5. \A d \in D : \A e \in d + 1 .. L : e \in D /\ L - e < L - d
  BY <1>1
<1> HIDE DEF Body
<1>6. body \in [D \X [D -> S] -> S]
  <2>1. ASSUME NEW d \in D, NEW g \in [D -> S]
        PROVE  Body(d, g) \in S
    <3>1. \A e \in d + 1 .. L : g[e] \in S
      BY <1>5
    <3> QED
      BY <1>4, <3>1
  <2> QED
    BY <2>1
<1>7. rank \in [D -> 0 .. L]
  BY <1>1
<1>8. LooksBelow(body, rank, D, S)
  <2>1. ASSUME NEW d \in D, NEW g \in [D -> S], NEW h \in [D -> S],
               \A e \in D : rank[e] < rank[d] => g[e] = h[e]
        PROVE  Body(d, g) = Body(d, h)
    <3>1. \A e \in d + 1 .. L : g[e] = h[e]
      BY <1>5, <2>1
    <3>2. Skips(b, d) => g[d + 1] = h[d + 1]
      BY <1>2, <3>1
    <3>3. ~ Waits(b, d) /\ ~ Skips(b, d) => g[d + PacketSize] = h[d + PacketSize]
      BY <1>2, <3>1
    <3> QED
      BY <3>2, <3>3 DEF Body
  <2> QED
    BY <2>1 DEF LooksBelow
<1>9. PICK f \in [D -> S] : \A d \in D : f[d] = body[<<d, f>>]
  <2> HIDE DEF body, rank, D
  <2>1. [packets |-> << >>, rest |-> << >>] \in S
    BY DEF LoopResult, S
  <2>2. \E f : IsRecursion(f, body, D, S)
    BY <1>1, <1>6, <1>7, <1>8, <2>1, RecursionExists
  <2> QED
    BY <2>2 DEF IsRecursion
<1>10. Runs(f)
  <2>1. \A d \in D : f[d] = Body(d, f)
    BY <1>9
  <2>2. \A d \in D : f[d] = Raw(d, f)
    BY <1>3, <2>1
  <2> QED
    BY <2>2
<1> DEFINE g == CHOOSE h : Runs(h)
<1>11. Runs(g)
  <2> HIDE DEF Runs
  <2> QED
    BY <1>10
<1>12. ClientLoop(b) = g[0]
  BY DEF ClientLoop, Raw, result, L
<1> HIDE DEF g
<1>13. \A d \in D : g[d] = Body(d, g)
  <2>1. \A d \in D : g[d] = Raw(d, g)
    BY <1>11
  <2> QED
    BY <1>3, <2>1
<1>14. \A d \in D : g[d] \in S
  <2> DEFINE T == {d \in D : g[d] \in S}
  <2>1. ASSUME NEW d \in 0 .. L, \A e \in d + 1 .. L : e \in T
        PROVE  d \in T
    <3>1. Body(d, g) \in S
      BY <1>4, <2>1
    <3> QED
      BY <1>13, <3>1
  <2>2. \A d \in 0 .. L : d \in T
    <3> HIDE DEF T
    <3> QED
      BY <1>1, <2>1, DownwardInduction
  <2> QED
    BY <2>2
<1>15. ASSUME NEW d \in D
       PROVE  g[d] = IF Waits(b, d) THEN Waiting(b, d)
                     ELSE IF Skips(b, d) THEN g[d + 1]
                     ELSE Taking(b[d + 1].packet, g[d + PacketSize])
  BY <1>2, <1>13 DEF Body
<1> QED
  BY <1>12, <1>14, <1>15 DEF Loops, L, S

\* A stream is the cells read from it and what is left.
LEMMA ReadCut ==
    ASSUME NEW S, NEW b \in Seq(S), NEW n \in 1 .. Len(b)
    PROVE  /\ SubSeq(b, 1, n) \in Seq(S) /\ Len(SubSeq(b, 1, n)) = n
           /\ \A i \in 1 .. n : SubSeq(b, 1, n)[i] = b[i]
           /\ b = SubSeq(b, 1, n) \o After(b, n)
<1>1. /\ SubSeq(b, 1, n) \in Seq(S) /\ Len(SubSeq(b, 1, n)) = n
      /\ \A i \in 1 .. n : SubSeq(b, 1, n)[i] = b[i]
  OBVIOUS
<1>2. After(b, n) \in Seq(S) /\ Len(After(b, n)) = Len(b) - n
      /\ \A i \in 1 .. Len(b) - n : After(b, n)[i] = b[n + i]
  BY AfterType
<1> DEFINE x == SubSeq(b, 1, n)
           y == After(b, n)
<1>3. x \in Seq(S) /\ y \in Seq(S) /\ Len(x) = n /\ Len(y) = Len(b) - n
  BY <1>1, <1>2
<1>4. /\ \A i \in 1 .. n : x[i] = b[i]
      /\ \A i \in 1 .. Len(b) - n : y[i] = b[n + i]
  BY <1>1, <1>2
<1> HIDE DEF x, y
<1>5. b = x \o y
  BY <1>3, <1>4
<1> QED
  BY <1>1, <1>5 DEF x, y

\* decode() asks for more cells only of less than a packet.
LEMMA WaitsShort ==
    ASSUME NEW P, NEW b \in Seq(Cells(P)), NEW d \in 0 .. Len(b), Waits(b, d)
    PROVE  Len(After(b, d)) < PacketSize
<1> DEFINE a == After(b, d)
<1>1. a \in Seq(Cells(P)) /\ Len(a) \in Nat
  BY AfterType
<1>2. PacketSize \in Nat /\ HeaderSize \in Nat /\ HeaderSize <= PacketSize
  BY CodecAssumption DEF PacketSize
<1>3. Decode(a) \in {IncompleteHeader, IncompletePayload}
  BY DEF Waits
<1> HIDE DEF a
<1>4. SUFFICES ASSUME ~ (Len(a) < PacketSize) PROVE FALSE
  BY DEF a
<1>5. ~ (Len(a) < HeaderSize)
  BY <1>1, <1>2, <1>4
<1>6. Decode(a) = InvalidMagic \/ Decode(a) = Packet(a[1].packet)
  BY <1>4, <1>5 DEF Decode
<1>7. Packet(a[1].packet) \notin ParseError
  BY PacketIsNoError
<1> QED
  BY <1>3, <1>6, <1>7, ErrorsDiffer DEF ParseError

\* Less than a packet begins at most one.
LEMMA ShortBeginsOne ==
    ASSUME NEW P, NEW b \in Seq(Cells(P)), ChainIn(b), Len(b) < PacketSize
    PROVE  Len(StartedIn(b)) <= 1
<1>1. PacketSize \in Nat /\ PacketSize >= 1 /\ Len(b) \in Nat
  BY SizeType
<1>2. CASE \A i \in 1 .. Len(b) : b[i].at # 1
  <2>1. StartedIn(b) = << >>
    BY <1>2, StartedNone
  <2> QED
    BY <2>1
<1>3. CASE \E i \in 1 .. Len(b) : b[i].at = 1
  <2>1. PICK d \in 1 .. Len(b) : b[d].at = 1
    BY <1>3
  <2>2. ASSUME NEW i \in 1 .. Len(b), NEW j \in 1 .. Len(b), i < j, b[i].at = 1
        PROVE  b[j].at # 1
    <3> DEFINE l == Len(b)
    <3>0. i \in Nat /\ j \in Nat /\ l \in Nat /\ j <= l /\ l < PacketSize /\ 1 <= i /\ i < j
      BY <1>1, <2>2
    <3> HIDE DEF l
    <3>1. j - i \in 0 .. PacketSize - 1 /\ i + (j - i) = j /\ j - i >= 1
      BY <1>1, <3>0
    <3>2. \A k \in 0 .. PacketSize - 1 : i + k <= Len(b) => b[i + k].at = 1 + k
      BY <2>2, ChainRun
    <3>3. b[i + (j - i)].at = 1 + (j - i)
      BY <3>1, <3>2
    <3> QED
      BY <3>1, <3>3
  <2> DEFINE x == SubSeq(b, 1, d)
             y == After(b, d)
             h == SubSeq(b, 1, d - 1)
             c == b[d]
  <2>3. /\ x \in Seq(Cells(P)) /\ Len(x) = d
        /\ \A i \in 1 .. d : x[i] = b[i]
        /\ b = x \o y
    BY ReadCut
  <2>4. /\ y \in Seq(Cells(P)) /\ Len(y) = Len(b) - d
        /\ \A i \in 1 .. Len(b) - d : y[i] = b[d + i]
    BY <1>1, AfterType
  <2>5. c \in Cells(P) /\ c.at = 1
    BY <2>1
  <2>6. /\ h \in Seq(Cells(P)) /\ Len(h) = d - 1
        /\ \A i \in 1 .. d - 1 : h[i] = b[i]
    BY <1>1
  <2> HIDE DEF x, y, h, c
  <2>7. x = h \o <<c>>
    <3>1. <<c>> \in Seq(Cells(P)) /\ Len(<<c>>) = 1 /\ <<c>>[1] = c
      BY <2>5
    <3> DEFINE z == h \o <<c>>
    <3>2. /\ z \in Seq(Cells(P)) /\ Len(z) = Len(h) + 1
          /\ \A i \in 1 .. Len(h) : z[i] = h[i]
          /\ z[Len(h) + 1] = c
      BY <2>6, <3>1
    <3> HIDE DEF z
    <3>3. Len(z) = d /\ d \in Nat /\ (d - 1) + 1 = d
      BY <2>6, <3>2
    <3>4. ASSUME NEW i \in 1 .. d PROVE z[i] = x[i]
      <4>1. CASE i = d
        BY <2>3, <2>6, <3>2, <3>3, <4>1 DEF c
      <4>2. CASE i # d
        <5>1. i \in 1 .. d - 1
          BY <3>3, <4>2
        <5> QED
          BY <2>3, <2>6, <3>2, <5>1
      <4> QED
        BY <4>1, <4>2
    <3>5. z = x
      BY <2>3, <3>2, <3>3, <3>4
    <3> QED
      BY <3>5 DEF z
  <2>8. StartedIn(h) = << >>
    <3>1. ASSUME NEW i \in 1 .. Len(h) PROVE h[i].at # 1
      <4>1. i \in 1 .. d - 1 /\ i \in 1 .. Len(b) /\ i < d
        BY <1>1, <2>6
      <4>2. b[i].at # 1
        BY <2>1, <2>2, <4>1
      <4> QED
        BY <2>6, <4>1, <4>2
    <3> QED
      BY <2>6, <3>1, StartedNone
  <2>9. StartedIn(y) = << >>
    <3>1. ASSUME NEW i \in 1 .. Len(y) PROVE y[i].at # 1
      <4>1. i \in 1 .. Len(b) - d /\ d + i \in 1 .. Len(b) /\ d < d + i
        BY <1>1, <2>4
      <4>2. b[d + i].at # 1
        BY <2>1, <2>2, <4>1
      <4> QED
        BY <2>4, <4>1, <4>2
    <3> QED
      BY <2>4, <3>1, StartedNone
  <2> DEFINE one == <<c>>
  <2>10. one \in Seq(Cells(P)) /\ StartedIn(one) = <<c.packet>>
    <3>1. one \in Seq(Cells(P))
      BY <2>5
    <3>2. StartedIn(<<c>>) = IF c.at = 1 THEN <<c.packet>> ELSE << >>
      BY <2>5, StartedOne
    <3> QED
      BY <2>5, <3>1, <3>2, Zenon
  <2> HIDE DEF one
  <2>11. StartedIn(x) = StartedIn(h) \o StartedIn(one)
    BY <2>6, <2>7, <2>10, StartedConcat DEF one
  <2>12. StartedIn(b) = StartedIn(x) \o StartedIn(y)
    BY <2>3, <2>4, StartedConcat
  <2>13. StartedIn(b) = (<< >> \o <<c.packet>>) \o << >>
    BY <2>8, <2>9, <2>10, <2>11, <2>12
  <2>14. Len((<< >> \o <<c.packet>>) \o << >>) = 1
    OBVIOUS
  <2> QED
    BY <2>13, <2>14
<1> QED
  BY <1>2, <1>3

\* The client's loop leaves the end of its buffer, less than a packet, and no packet is
\* lost: the ones it has taken and the ones begun in what it leaves are all there were.
LEMMA ClientKeepsAll ==
    ASSUME NEW P, NEW b \in Seq(Cells(P)), ChainIn(b)
    PROVE  /\ ClientLoop(b) \in LoopResult(P)
           /\ ClientLoop(b).packets \o StartedIn(ClientLoop(b).rest) = StartedIn(b)
           /\ \E e \in 0 .. Len(b) : ClientLoop(b).rest = After(b, e)
           /\ Len(ClientLoop(b).rest) < PacketSize
<1>1. PICK f : Loops(f, b, P)
  BY ClientLoopRuns
<1> DEFINE L == Len(b)
           Good(d) == /\ f[d].packets \o StartedIn(f[d].rest) = StartedIn(After(b, d))
                      /\ \E e \in 0 .. L : f[d].rest = After(b, e)
                      /\ Len(f[d].rest) < PacketSize
           T == {d \in 0 .. L : Good(d)}
<1>2. L \in Nat /\ PacketSize \in Nat /\ PacketSize >= 1
  BY SizeType
<1>3. ASSUME NEW d \in 0 .. L
      PROVE  /\ f[d] = IF Waits(b, d) THEN Waiting(b, d)
                       ELSE IF Skips(b, d) THEN f[d + 1]
                       ELSE Taking(b[d + 1].packet, f[d + PacketSize])
             /\ f[d] \in LoopResult(P)
             /\ f[d].packets \in Seq(P) /\ f[d].rest \in Seq(Cells(P))
             /\ After(b, d) \in Seq(Cells(P)) /\ StartedIn(After(b, d)) \in Seq(P)
             /\ StartedIn(f[d].rest) \in Seq(P)
  <2>1. /\ f[d] = IF Waits(b, d) THEN Waiting(b, d)
                  ELSE IF Skips(b, d) THEN f[d + 1]
                  ELSE Taking(b[d + 1].packet, f[d + PacketSize])
        /\ f[d] \in LoopResult(P)
    BY <1>1 DEF Loops
  <2>2. f[d].packets \in Seq(P) /\ f[d].rest \in Seq(Cells(P))
    BY <2>1 DEF LoopResult
  <2>3. After(b, d) \in Seq(Cells(P))
    BY AfterType
  <2> QED
    BY <2>1, <2>2, <2>3, StartedType
<1>4. ASSUME NEW d \in 0 .. L, \A e \in d + 1 .. L : e \in T
      PROVE  Good(d)
  <2>1. CASE Waits(b, d)
    <3>1. f[d] = Waiting(b, d)
      BY <1>3, <2>1
    <3>2. f[d].packets = << >> /\ f[d].rest = After(b, d)
      BY <3>1 DEF Waiting
    <3>3. << >> \o StartedIn(After(b, d)) = StartedIn(After(b, d))
      BY <1>3, ConcatEmpty
    <3>4. Len(After(b, d)) < PacketSize
      BY <2>1, WaitsShort
    <3> QED
      BY <3>2, <3>3, <3>4
  <2>2. CASE ~ Waits(b, d) /\ Skips(b, d)
    <3>1. d + 1 \in d + 1 .. L /\ b[d + 1].at # 1
      BY <2>2, DecodeAt
    <3>2. f[d] = f[d + 1]
      BY <1>3, <2>2
    <3>3. Good(d + 1)
      BY <1>4, <3>1
    <3>4. d \in 0 .. Len(b) - 1 /\ d + 1 \in 0 .. L /\ d + 1 \in 1 .. Len(b)
      BY <1>2, <3>1
    <3>5. After(b, d) = <<b[d + 1]>> \o After(b, d + 1)
      BY <3>4, AfterHead
    <3>6. b[d + 1] \in Cells(P)
      BY <3>4
    <3> DEFINE one == <<b[d + 1]>>
    <3>7. one \in Seq(Cells(P)) /\ StartedIn(one) = << >>
      <4>1. StartedIn(<<b[d + 1]>>) = IF b[d + 1].at = 1 THEN <<b[d + 1].packet>> ELSE << >>
        BY <3>6, StartedOne
      <4>2. StartedIn(one) = << >>
        BY <3>1, <4>1
      <4>3. one \in Seq(Cells(P))
        BY <3>6
      <4> QED
        BY <4>2, <4>3
    <3>8. After(b, d + 1) \in Seq(Cells(P)) /\ StartedIn(After(b, d + 1)) \in Seq(P)
      BY <1>3, <3>4
    <3> HIDE DEF one
    <3>9. StartedIn(one \o After(b, d + 1)) = StartedIn(one) \o StartedIn(After(b, d + 1))
      BY <3>7, <3>8, StartedConcat
    <3>10. StartedIn(After(b, d)) = StartedIn(After(b, d + 1))
      BY <3>5, <3>7, <3>8, <3>9, ConcatEmpty DEF one
    <3> QED
      BY <3>2, <3>3, <3>10
  <2>3. CASE ~ Waits(b, d) /\ ~ Skips(b, d)
    <3> DEFINE e == d + PacketSize
               p == b[d + 1].packet
    <3>1. HeadAt(b, d)
      BY <2>3, DecodeAt
    <3>2. p \in P /\ e \in d + 1 .. L
      BY <3>1, DecodeAt
    <3>3. e \in 0 .. L /\ d \in Nat
      BY <1>2, <3>2
    <3>4. f[d] = Taking(p, f[e])
      BY <1>3, <2>3
    <3>5. f[d].packets = <<p>> \o f[e].packets /\ f[d].rest = f[e].rest
      <4>1. f[e] \in LoopResult(P)
        BY <1>3, <3>3
      <4> HIDE DEF p, e
      <4>2. p \in P
        BY <3>2
      <4>3. Taking(p, f[e]).packets = <<p>> \o f[e].packets /\ Taking(p, f[e]).rest = f[e].rest
        BY <4>1, <4>2, TakingType
      <4> QED
        BY <3>4, <4>3, Zenon
    <3>6. Good(e)
      BY <1>4, <3>2
    <3>7. StartedIn(After(b, d)) = <<p>> \o StartedIn(After(b, e))
      BY <3>1, <3>3, StartedPacket DEF HeadAt
    <3>8. f[e].packets \in Seq(P) /\ StartedIn(f[e].rest) \in Seq(P)
      BY <1>3, <3>3
    <3>9. <<p>> \in Seq(P)
      BY <3>2
    <3> DEFINE x == <<p>>
               y == f[e].packets
               z == StartedIn(f[e].rest)
    <3> HIDE DEF x, y, z, p, e
    <3>10. x \o (y \o z) = (x \o y) \o z
      <4>1. x \in Seq(P) /\ y \in Seq(P) /\ z \in Seq(P)
        BY <3>8, <3>9 DEF x, y, z
      <4> QED
        BY <4>1, ConcatAssoc
    <3>11. f[d].packets \o StartedIn(f[d].rest) = StartedIn(After(b, d))
      BY <3>5, <3>6, <3>7, <3>10 DEF x, y, z
    <3>12. (\E k \in 0 .. L : f[d].rest = After(b, k)) /\ Len(f[d].rest) < PacketSize
      BY <3>5, <3>6
    <3> QED
      BY <3>11, <3>12
  <2> QED
    BY <2>1, <2>2, <2>3
<1>5. 0 \in T
  <2>1. \A d \in 0 .. L : d \in T
    <3>1. ASSUME NEW d \in 0 .. L, \A e \in d + 1 .. L : e \in T
          PROVE  d \in T
      BY <1>4, <3>1
    <3> HIDE DEF T, L
    <3> QED
      BY <1>2, <3>1, DownwardInduction
  <2>2. 0 \in 0 .. L
    BY <1>2
  <2> HIDE DEF T
  <2> QED
    BY <2>1, <2>2
<1>6. After(b, 0) = b
  BY DEF After
<1>7. Good(0) /\ 0 \in 0 .. L
  BY <1>5
<1>8. ClientLoop(b) = f[0]
  BY <1>1 DEF Loops
<1> QED
  BY <1>3, <1>6, <1>7, <1>8

-----------------------------------------------------------------------------
(***************************************************************************)
(* The inductive invariant.                                                *)
(***************************************************************************)

UpPacket == [type : {"AuthRequest"}, seq : Nat, body : Passwords]
            \cup [type : {"InputEvent", "SessionControl"}, seq : Nat, body : {"action"}]

DownPacket == [type : {"AuthResponse"}, seq : Nat, body : {"granted", "denied"}]
              \cup [type : {"FrameHeader"}, seq : Nat, body : {"frame"}]

AgentSocket == [sock : {"closed", "pending", "open"}, authenticated : BOOLEAN, isLoopback : BOOLEAN]

ClientState == [sock : {"closed", "open", "closing"},
                status : {"Disconnected", "Connected", "Verified", "Authentication Failed",
                          "Connection lost", "Socket Error"},
                password : Passwords, receiveBuffer : Seq(Cells(DownPacket)),
                inputSequence : Nat, renderGated : BOOLEAN, receivedFrames : Nat,
                reconnectTimer : BOOLEAN]

Trace == [sentUp : Seq(UpPacket), handled : Seq(UpPacket), applied : Seq(UpPacket),
          split : BOOLEAN, broken : BOOLEAN, sentDown : Seq(DownPacket), got : Seq(DownPacket),
          before : Seq(DownPacket), lost : Seq(DownPacket)]

LinkTypeOK ==
    /\ client \in ClientState
    /\ agent \in AgentSocket
    /\ up \in Seq(Cells(UpPacket))
    /\ down \in Seq(Cells(DownPacket))
    /\ frameNumber \in Nat
    /\ connections \in Nat
    /\ trace \in Trace

\* What is on the way ends with a whole packet, with what the client holds back counted
\* to the stream towards it; the client holds back less than a packet.
StreamInv ==
    /\ Whole(client.receiveBuffer \o down)
    /\ Whole(up)
    /\ Len(client.receiveBuffer) < PacketSize

\* What the client is done with.
Taken(t) == (t.before \o t.lost) \o t.got

\* A timer that has not fired into this connection has cost it nothing.
TimerInv ==
    client.sock # "closed" /\ client.reconnectTimer => trace.before = << >> /\ trace.lost = << >>

\* Until the agent has cut a packet, the stream towards it begins with one.
AgentInv ==
    agent.sock # "closed" /\ ~ trace.split =>
        /\ up # << >> => up[1].at = 1
        /\ trace.handled \o StartedIn(up) = trace.sentUp

IsRequest(c) == c.at = 1 /\ c.packet.type = "AuthRequest"

\* A request for authentication begins the stream or is no longer on the way, and is on
\* the way only before anything was sent to a viewer that is not taken for local.
RequestInv ==
    \A j \in 1 .. Len(up) : IsRequest(up[j]) =>
        /\ j = 1
        /\ up[j].packet.body = client.password
        /\ agent.isLoopback \/ trace.sentDown = << >>

IsGrant(p) == p.type = "AuthResponse" /\ p.body = "granted"

HasGrant(packets) == \E i \in 1 .. Len(packets) : IsGrant(packets[i])

\* A grant that was sent stays true while both ends are there, and the client knows of
\* none that was not sent.
VerifyInv ==
    client.sock # "closed" =>
        /\ HasGrant(trace.sentDown) =>
               /\ AuthSuccess(client.password)
               /\ agent.sock # "pending"
               /\ agent.sock = "open" => agent.authenticated
        /\ client.status = "Verified" => HasGrant(trace.sentDown)

\* A viewer not taken for local to which nothing was sent is not authenticated and did
\* nothing; one that was refused is sent nothing more.
GrantInv ==
    ~ agent.isLoopback =>
        /\ trace.sentDown = << >> => ~ agent.authenticated /\ trace.applied = << >>
        /\ trace.sentDown # << >> =>
               /\ trace.sentDown[1].type = "AuthResponse"
               /\ trace.sentDown[1].body # "granted" =>
                      /\ Len(trace.sentDown) = 1
                      /\ trace.applied = << >>
                      /\ ~ agent.authenticated

LinkInv ==
    /\ LinkTypeOK
    /\ StreamInv
    /\ ClientLosesAtMostOne
    /\ TimerInv
    /\ AgentInv
    /\ RequestInv
    /\ VerifyInv
    /\ GrantInv

-----------------------------------------------------------------------------
(***************************************************************************)
(* The packets that one read yields, handled one after the other.          *)
(***************************************************************************)

Handling == [socket : AgentSocket, out : Seq(DownPacket), applied : Seq(UpPacket)]

LEMMA UpTypes ==
    ASSUME NEW p \in UpPacket
    PROVE  /\ p.type \in {"AuthRequest", "InputEvent", "SessionControl"} /\ p.seq \in Nat
           /\ p.type = "AuthRequest" => p.body \in Passwords
BY DEF UpPacket

LEMMA ResponseType ==
    ASSUME NEW n \in Nat, NEW ok \in BOOLEAN
    PROVE  /\ AuthResponse(n, ok) \in DownPacket
           /\ AuthResponse(n, ok).type = "AuthResponse"
           /\ IsGrant(AuthResponse(n, ok)) <=> ok
           /\ ~ ok => AuthResponse(n, ok).body = "denied"
BY DEF AuthResponse, PacketOf, DownPacket, IsGrant

LEMMA FrameType ==
    ASSUME NEW n \in Nat
    PROVE  FrameHeader(n) \in DownPacket /\ ~ IsGrant(FrameHeader(n))
BY DEF FrameHeader, PacketOf, DownPacket, IsGrant

\* A packet that is not a request for authentication.
LEMMA HandleOther ==
    ASSUME NEW acc \in Handling, NEW p \in UpPacket, p.type # "AuthRequest",
           NEW after, after = HandleClientPacket(acc, p)
    PROVE  /\ after \in Handling
           /\ after.socket = acc.socket /\ after.out = acc.out
           /\ ~ acc.socket.authenticated => after.applied = acc.applied
<1>1. \/ after = acc
      \/ acc.socket.authenticated /\ after = [acc EXCEPT !.applied = Append(@, p)]
  BY Zenon DEF HandleClientPacket
<1>2. CASE after = acc
  BY <1>2
<1>3. CASE acc.socket.authenticated /\ after = [acc EXCEPT !.applied = Append(@, p)]
  <2>1. \A y : [acc EXCEPT !.applied = y] = [socket |-> acc.socket, out |-> acc.out, applied |-> y]
    BY DEF Handling
  <2>2. after = [socket |-> acc.socket, out |-> acc.out, applied |-> Append(acc.applied, p)]
    BY <1>3, <2>1, Zenon
  <2>3. acc.applied \in Seq(UpPacket) /\ acc.socket \in AgentSocket /\ acc.out \in Seq(DownPacket)
    BY DEF Handling
  <2>4. Append(acc.applied, p) \in Seq(UpPacket)
    BY <2>3
  <2>5. after \in Handling
    BY <2>2, <2>3, <2>4 DEF Handling
  <2>6. after.socket = acc.socket /\ after.out = acc.out
    BY <2>2
  <2> QED
    BY <1>3, <2>5, <2>6
<1> QED
  BY <1>1, <1>2, <1>3

\* A socket to which nothing has been written.
Fresh(socket) == [socket |-> socket, out |-> << >>, applied |-> << >>]

\* The answer to a request.
Answered(after, socket, p) ==
    /\ after \in Handling
    /\ after.applied = << >>
    /\ after.socket.isLoopback = socket.isLoopback
    /\ \/ p.body = "empty" /\ after.socket = socket /\ after.out = << >>
       \/ /\ AuthSuccess(p.body)
          /\ after.socket.authenticated = TRUE /\ after.socket.sock = socket.sock
          /\ after.out = <<AuthResponse(p.seq, TRUE)>>
       \/ /\ p.body = "wrong"
          /\ after.socket.authenticated = FALSE
          /\ after.out = <<AuthResponse(p.seq, FALSE)>>

LEMMA HandleRequest ==
    ASSUME NEW socket \in AgentSocket, NEW p \in UpPacket, p.type = "AuthRequest",
           NEW after, after = HandleClientPacket(Fresh(socket), p)
    PROVE  Answered(after, socket, p)
<1>1. p.body \in Passwords /\ p.seq \in Nat
  BY UpTypes
<1>2. Fresh(socket) \in Handling
  <2>1. << >> \in Seq(DownPacket) /\ << >> \in Seq(UpPacket)
    OBVIOUS
  <2> QED
    BY <2>1 DEF Handling, Fresh
<1>3. \A z, y : [[Fresh(socket) EXCEPT !.socket = z] EXCEPT !.out = y]
                   = [socket |-> z, out |-> y, applied |-> << >>]
  <2> TAKE z, y
  <2> DEFINE e == << >>
             x == [Fresh(socket) EXCEPT !.socket = z]
  <2>1. Fresh(socket) = [socket |-> socket, out |-> e, applied |-> e]
    BY Zenon DEF Fresh
  <2> HIDE DEF e
  <2>4. x = [socket |-> z, out |-> e, applied |-> e]
    BY <2>1
  <2> HIDE DEF x
  <2>5. [x EXCEPT !.out = y] = [socket |-> z, out |-> y, applied |-> e]
    BY <2>4
  <2> QED
    BY <2>5, Zenon DEF x, e
<1>4. Fresh(socket).out = << >> /\ Fresh(socket).socket = socket /\ Fresh(socket).applied = << >>
  BY DEF Fresh
<1>5. \A r : Append(<< >>, r) = <<r>>
  OBVIOUS
<1>6. ASSUME NEW s \in AgentSocket, NEW r \in DownPacket
      PROVE  [socket |-> s, out |-> <<r>>, applied |-> << >>] \in Handling
  BY DEF Handling
<1>7. CASE p.body = "empty"
  <2>1. ~ AuthSuccess(p.body) /\ p.body # "wrong"
    BY <1>7 DEF AuthSuccess
  <2>2. after = Fresh(socket)
    BY <1>7, <2>1, Zenon DEF HandleClientPacket
  <2> QED
    BY <1>2, <1>4, <1>7, <2>2 DEF Answered
<1>8. CASE AuthSuccess(p.body)
  <2> DEFINE s == [socket EXCEPT !.authenticated = TRUE]
             r == AuthResponse(p.seq, TRUE)
  <2>1. after = [[Fresh(socket) EXCEPT !.socket = [Fresh(socket).socket EXCEPT !.authenticated = TRUE]]
                     EXCEPT !.out = Append(Fresh(socket).out, r)]
    <3>1. p.body \in {"right", "blank"}
      BY <1>8 DEF AuthSuccess
    <3> QED
      BY <1>8, <3>1 DEF HandleClientPacket
  <2>2. after = [socket |-> s, out |-> <<r>>, applied |-> << >>]
    <3> HIDE DEF r
    <3> QED
      BY <1>3, <1>4, <1>5, <2>1, ZenonT(40)
  <2>3. s \in AgentSocket /\ s.authenticated = TRUE /\ s.sock = socket.sock
        /\ s.isLoopback = socket.isLoopback
    BY DEF AgentSocket
  <2>4. r \in DownPacket
    BY <1>1, ResponseType
  <2> HIDE DEF s, r
  <2>5. after \in Handling
    BY <1>6, <2>2, <2>3, <2>4
  <2>6. after.socket = s /\ after.out = <<r>> /\ after.applied = << >>
    BY <2>2
  <2> QED
    BY <1>8, <2>3, <2>5, <2>6 DEF Answered, r
<1>9. CASE p.body = "wrong"
  <2> DEFINE s == [socket EXCEPT !.authenticated = FALSE, !.sock = "closed"]
             r == AuthResponse(p.seq, FALSE)
  <2>1. after = [[Fresh(socket) EXCEPT !.socket = [Fresh(socket).socket EXCEPT
                                           !.authenticated = FALSE, !.sock = "closed"]]
                     EXCEPT !.out = Append(Fresh(socket).out, r)]
    BY <1>9 DEF HandleClientPacket, AuthSuccess
  <2>2. after = [socket |-> s, out |-> <<r>>, applied |-> << >>]
    <3> HIDE DEF r
    <3> QED
      BY <1>3, <1>4, <1>5, <2>1, ZenonT(40)
  <2>3. s \in AgentSocket /\ s.authenticated = FALSE /\ s.isLoopback = socket.isLoopback
    BY DEF AgentSocket
  <2>4. r \in DownPacket
    BY <1>1, ResponseType
  <2> HIDE DEF s, r
  <2>5. after \in Handling
    BY <1>6, <2>2, <2>3, <2>4
  <2>6. after.socket = s /\ after.out = <<r>> /\ after.applied = << >>
    BY <2>2
  <2> QED
    BY <1>9, <2>3, <2>5, <2>6 DEF Answered, r
<1> QED
  BY <1>1, <1>7, <1>8, <1>9 DEF Passwords, AuthSuccess

\* f holds the states of the loop of HandleClientPackets().
AgentHandles(f, socket, packets) ==
    /\ HandleClientPackets(socket, packets) = f[Len(packets)]
    /\ f[0] = Fresh(socket)
    /\ \A i \in 1 .. Len(packets) : f[i] = HandleClientPacket(f[i - 1], packets[i])

LEMMA HandlingType ==
    ASSUME NEW acc \in Handling, NEW p \in UpPacket
    PROVE  HandleClientPacket(acc, p) \in Handling
<1> DEFINE after == HandleClientPacket(acc, p)
<1>1. CASE p.type # "AuthRequest"
  BY <1>1, HandleOther
<1>2. CASE p.type = "AuthRequest"
  <2>1. acc.socket \in AgentSocket /\ acc.out \in Seq(DownPacket) /\ acc.applied \in Seq(UpPacket)
    BY DEF Handling
  <2>2. p.body \in Passwords /\ p.seq \in Nat
    BY <1>2, UpTypes
  <2>3. \A z, y : [[acc EXCEPT !.socket = z] EXCEPT !.out = y]
                     = [socket |-> z, out |-> y, applied |-> acc.applied]
    <3> TAKE z, y
    <3> DEFINE x == [acc EXCEPT !.socket = z]
    <3>1. x = [socket |-> z, out |-> acc.out, applied |-> acc.applied]
      BY DEF Handling
    <3> HIDE DEF x
    <3>2. [x EXCEPT !.out = y] = [socket |-> z, out |-> y, applied |-> acc.applied]
      BY <3>1
    <3> QED
      BY <3>2, Zenon DEF x
  <2>4. ASSUME NEW z \in AgentSocket, NEW r \in DownPacket
        PROVE  [socket |-> z, out |-> Append(acc.out, r), applied |-> acc.applied] \in Handling
    <3> DEFINE o == Append(acc.out, r)
    <3>1. o \in Seq(DownPacket)
      BY <2>1
    <3> HIDE DEF o
    <3> QED
      BY <2>1, <3>1 DEF Handling
  <2>5. CASE p.body = "empty"
    <3>1. ~ AuthSuccess(p.body) /\ p.body # "wrong"
      BY <2>5 DEF AuthSuccess
    <3>2. after = acc
      BY <1>2, <2>5, <3>1, Zenon DEF HandleClientPacket
    <3> QED
      BY <3>2
  <2>6. CASE AuthSuccess(p.body)
    <3> DEFINE s == [acc.socket EXCEPT !.authenticated = TRUE]
               r == AuthResponse(p.seq, TRUE)
    <3>1. after = [[acc EXCEPT !.socket = s] EXCEPT !.out = Append(acc.out, r)]
      <4>1. p.body \in {"right", "blank"}
        BY <2>6 DEF AuthSuccess
      <4> QED
        BY <1>2, <2>6, <4>1 DEF HandleClientPacket
    <3>2. s \in AgentSocket
      BY <2>1 DEF AgentSocket
    <3>3. r \in DownPacket
      BY <2>2, ResponseType
    <3> HIDE DEF s, r, after
    <3>4. after = [socket |-> s, out |-> Append(acc.out, r), applied |-> acc.applied]
      BY <2>3, <3>1, Zenon
    <3>5. after \in Handling
      BY <2>4, <3>2, <3>3, <3>4
    <3> QED
      BY <3>5 DEF after
  <2>7. CASE p.body = "wrong"
    <3> DEFINE s == [acc.socket EXCEPT !.authenticated = FALSE, !.sock = "closed"]
               r == AuthResponse(p.seq, FALSE)
    <3>1. after = [[acc EXCEPT !.socket = s] EXCEPT !.out = Append(acc.out, r)]
      BY <1>2, <2>7 DEF HandleClientPacket, AuthSuccess
    <3>2. s \in AgentSocket
      BY <2>1 DEF AgentSocket
    <3>3. r \in DownPacket
      BY <2>2, ResponseType
    <3> HIDE DEF s, r, after
    <3>4. after = [socket |-> s, out |-> Append(acc.out, r), applied |-> acc.applied]
      BY <2>3, <3>1, Zenon
    <3>5. after \in Handling
      BY <2>4, <3>2, <3>3, <3>4
    <3> QED
      BY <3>5 DEF after
  <2> QED
    BY <2>2, <2>5, <2>6, <2>7 DEF Passwords, AuthSuccess
<1> QED
  BY <1>1, <1>2

LEMMA FreshType ==
    ASSUME NEW socket \in AgentSocket
    PROVE  /\ Fresh(socket) \in Handling /\ Fresh(socket).socket = socket
           /\ Fresh(socket).out = << >> /\ Fresh(socket).applied = << >>
<1>1. << >> \in Seq(DownPacket) /\ << >> \in Seq(UpPacket)
  OBVIOUS
<1> QED
  BY <1>1 DEF Handling, Fresh

LEMMA AgentHandlesLoop ==
    ASSUME NEW socket \in AgentSocket, NEW packets \in Seq(UpPacket)
    PROVE  \E f : AgentHandles(f, socket, packets)
<1> DEFINE n == Len(packets)
           step == [x \in (1 .. n) \X Handling |-> HandleClientPacket(x[2], packets[x[1]])]
           Runs(f) == f = [i \in 0 .. n |-> IF i = 0 THEN [socket |-> socket, out |-> << >>, applied |-> << >>]
                                            ELSE HandleClientPacket(f[i - 1], packets[i])]
<1>1. n \in Nat /\ Fresh(socket) \in Handling /\ \A i \in 1 .. n : packets[i] \in UpPacket
  BY FreshType
<1> HIDE DEF n
<1>2. step \in [(1 .. n) \X Handling -> Handling]
  <2>1. ASSUME NEW x \in (1 .. n) \X Handling
        PROVE  HandleClientPacket(x[2], packets[x[1]]) \in Handling
    BY <1>1, HandlingType
  <2> QED
    BY <2>1
<1>3. PICK f \in [0 .. n -> Handling] :
          f[0] = Fresh(socket) /\ \A i \in 1 .. n : f[i] = step[<<i, f[i - 1]>>]
  <2> HIDE DEF step
  <2>1. \E f : IsLoop(f, n, Handling, Fresh(socket), step)
    BY <1>1, <1>2, LoopExists
  <2> QED
    BY <2>1 DEF IsLoop
<1>4. ASSUME NEW i \in 1 .. n
      PROVE  f[i] = HandleClientPacket(f[i - 1], packets[i])
  <2>1. i - 1 \in 0 .. n /\ f[i - 1] \in Handling /\ <<i, f[i - 1]>> \in (1 .. n) \X Handling
    BY <1>1
  <2> QED
    BY <1>3, <2>1
<1>5. Runs(f)
  <2> HIDE DEF step
  <2>1. ASSUME NEW i \in 0 .. n
        PROVE  f[i] = IF i = 0 THEN Fresh(socket) ELSE HandleClientPacket(f[i - 1], packets[i])
    <3>1. i # 0 => i \in 1 .. n
      BY <1>1
    <3> QED
      BY <1>3, <1>4, <3>1
  <2> QED
    BY <2>1 DEF Fresh
<1> DEFINE g == CHOOSE h : Runs(h)
<1>6. Runs(g)
  <2> HIDE DEF Runs
  <2> QED
    BY <1>5
<1>7. HandleClientPackets(socket, packets) = g[n]
  BY DEF HandleClientPackets, n
<1>8. g[0] = Fresh(socket) /\ \A i \in 1 .. n : g[i] = HandleClientPacket(g[i - 1], packets[i])
  <2> HIDE DEF g
  <2>1. 0 \in 0 .. n /\ \A i \in 1 .. n : i \in 0 .. n /\ i # 0
    BY <1>1
  <2> QED
    BY <1>6, <2>1 DEF Fresh
<1> QED
  <2> HIDE DEF g
  <2> QED
    BY <1>7, <1>8 DEF n, AgentHandles

\* What the packets of one read do, when only the first may be a request.
Outcome(acc, socket, packets) ==
    /\ acc \in Handling
    /\ acc.socket.isLoopback = socket.isLoopback
    /\ \/ /\ acc.socket = socket /\ acc.out = << >>
          /\ ~ socket.authenticated => acc.applied = << >>
       \/ /\ packets # << >> /\ packets[1].type = "AuthRequest" /\ AuthSuccess(packets[1].body)
          /\ acc.socket.authenticated = TRUE /\ acc.socket.sock = socket.sock
          /\ acc.out = <<AuthResponse(packets[1].seq, TRUE)>>
       \/ /\ packets # << >> /\ packets[1].type = "AuthRequest" /\ packets[1].body = "wrong"
          /\ acc.socket.authenticated = FALSE
          /\ acc.out = <<AuthResponse(packets[1].seq, FALSE)>>
          /\ acc.applied = << >>

LEMMA AgentOutcome ==
    ASSUME NEW socket \in AgentSocket, NEW packets \in Seq(UpPacket),
           \A i \in 2 .. Len(packets) : packets[i].type # "AuthRequest"
    PROVE  Outcome(HandleClientPackets(socket, packets), socket, packets)
<1>1. PICK f : AgentHandles(f, socket, packets)
  BY AgentHandlesLoop
<1> DEFINE n == Len(packets)
<1>2. n \in Nat /\ \A i \in 1 .. n : packets[i] \in UpPacket
  OBVIOUS
<1>3. f[0] = Fresh(socket) /\ \A i \in 1 .. n : f[i] = HandleClientPacket(f[i - 1], packets[i])
  BY <1>1 DEF AgentHandles
<1>4. HandleClientPackets(socket, packets) = f[n]
  BY <1>1 DEF AgentHandles
<1>5. (n = 0 => packets = << >>) /\ (n # 0 => packets # << >>)
  OBVIOUS
<1> HIDE DEF n
<1>6. CASE n = 0
  <2>1. f[n] = Fresh(socket)
    BY <1>3, <1>6
  <2> QED
    BY <1>4, <2>1, FreshType DEF Outcome
<1>7. CASE n # 0
  <2> DEFINE a == f[1]
             Like(acc) == /\ acc \in Handling
                          /\ acc.socket = a.socket /\ acc.out = a.out
                          /\ ~ a.socket.authenticated => acc.applied = a.applied
             T == {i \in 0 .. n : i >= 1 => Like(f[i])}
  <2>1. 1 \in 1 .. n /\ 1 - 1 = 0
    BY <1>2, <1>7
  <2>2. a = HandleClientPacket(Fresh(socket), packets[1]) /\ packets[1] \in UpPacket
    BY <1>2, <1>3, <2>1
  <2>3. a \in Handling
    BY <2>2, FreshType, HandlingType
  <2> HIDE DEF a
  <2>4. ASSUME NEW m \in T, m \in 0 .. n - 1
        PROVE  m + 1 \in T
    <3>1. m + 1 \in 1 .. n /\ (m + 1) - 1 = m /\ m + 1 \in 0 .. n
      BY <1>2, <2>4
    <3>2. f[m + 1] = HandleClientPacket(f[m], packets[m + 1]) /\ packets[m + 1] \in UpPacket
      BY <1>2, <1>3, <3>1
    <3>3. CASE m = 0
      <4>1. Like(f[1])
        BY <2>3 DEF a
      <4> QED
        BY <3>1, <3>3, <4>1
    <3>4. CASE m # 0
      <4>1. m >= 1 /\ m + 1 \in 2 .. n
        BY <1>2, <2>4, <3>1, <3>4
      <4>2. Like(f[m])
        BY <2>4, <4>1
      <4>3. packets[m + 1].type # "AuthRequest"
        BY <4>1 DEF n
      <4>4. /\ f[m + 1] \in Handling
            /\ f[m + 1].socket = f[m].socket /\ f[m + 1].out = f[m].out
            /\ ~ f[m].socket.authenticated => f[m + 1].applied = f[m].applied
        BY <3>2, <4>2, <4>3, HandleOther
      <4>5. Like(f[m + 1])
        BY <4>2, <4>4
      <4> QED
        BY <3>1, <4>5
    <3> QED
      BY <3>3, <3>4
  <2>5. \A m \in 0 .. n : m \in T
    <3>1. 0 \in T
      BY <1>2
    <3> HIDE DEF T
    <3> QED
      BY <1>2, <2>4, <3>1, BoundedInduction
  <2> DEFINE acc == f[n]
  <2>6. Like(acc)
    BY <1>2, <1>7, <2>5
  <2> HIDE DEF acc
  <2>7. CASE packets[1].type # "AuthRequest"
    <3>1. /\ a.socket = socket /\ a.out = << >>
          /\ ~ socket.authenticated => a.applied = << >>
      BY <2>2, <2>7, FreshType, HandleOther
    <3>2. Outcome(acc, socket, packets)
      BY <2>6, <3>1 DEF Outcome
    <3> QED
      BY <1>4, <3>2 DEF acc
  <2>8. CASE packets[1].type = "AuthRequest"
    <3>1. Answered(a, socket, packets[1])
      BY <2>2, <2>8, HandleRequest
    <3>2. acc \in Handling /\ acc.socket.isLoopback = socket.isLoopback
      BY <2>6, <3>1 DEF Answered
    <3>3. CASE packets[1].body = "empty" /\ a.socket = socket /\ a.out = << >>
      BY <1>4, <2>6, <3>1, <3>2, <3>3 DEF Outcome, Answered, acc
    <3>4. CASE /\ AuthSuccess(packets[1].body)
               /\ a.socket.authenticated = TRUE /\ a.socket.sock = socket.sock
               /\ a.out = <<AuthResponse(packets[1].seq, TRUE)>>
      BY <1>4, <1>5, <1>7, <2>6, <2>8, <3>2, <3>4 DEF Outcome, acc
    <3>5. CASE /\ packets[1].body = "wrong"
               /\ a.socket.authenticated = FALSE
               /\ a.out = <<AuthResponse(packets[1].seq, FALSE)>>
      BY <1>4, <1>5, <1>7, <2>6, <2>8, <3>1, <3>2, <3>5 DEF Outcome, Answered, acc
    <3> QED
      BY <3>1, <3>3, <3>4, <3>5 DEF Answered
  <2> QED
    BY <2>7, <2>8
<1> QED
  BY <1>6, <1>7

LEMMA DownTypes ==
    ASSUME NEW p \in DownPacket
    PROVE  /\ p.type \in {"AuthResponse", "FrameHeader"}
           /\ p.type = "AuthResponse" => p.body \in {"granted", "denied"}
BY DEF DownPacket

\* What is left of the client c when it has become d: the loop of onReadyRead() empties the
\* buffer of a connection it ends, arms no timer for one that goes on, and says that the
\* session is verified only if it was or if it was told so.
Left(d, c, told) ==
    /\ d \in ClientState
    /\ d.password = c.password
    /\ d.sock = "closed" => d.receiveBuffer = << >>
    /\ d.sock # "closed" => /\ c.sock # "closed"
                            /\ d.receiveBuffer = c.receiveBuffer
                            /\ d.reconnectTimer => c.reconnectTimer
    /\ d.status = "Verified" => c.status = "Verified" \/ told

LEMMA CloseType ==
    ASSUME NEW c \in ClientState, NEW pending \in BOOLEAN, NEW d, d = DisconnectFromHost(c, pending)
    PROVE  Left(d, c, FALSE) \/ c.sock = "closed"
<1> SUFFICES ASSUME c.sock # "closed" PROVE Left(d, c, FALSE)
  OBVIOUS
<1>1. CASE pending
  <2>1. d = [c EXCEPT !.sock = "closing", !.reconnectTimer = FALSE]
    BY <1>1 DEF DisconnectFromHost
  <2>2. /\ d \in ClientState /\ d.password = c.password /\ d.sock = "closing"
        /\ d.receiveBuffer = c.receiveBuffer /\ d.status = c.status
    BY <2>1 DEF ClientState
  <2>3. ~ d.reconnectTimer
    BY <2>1 DEF ClientState
  <2> QED
    BY <2>2, <2>3 DEF Left
<1>2. CASE ~ pending
  <2> DEFINE e == << >>
  <2>1. d = [c EXCEPT !.sock = "closed", !.receiveBuffer = e, !.status = "Disconnected",
                      !.reconnectTimer = FALSE]
    BY <1>2 DEF DisconnectFromHost, OnDisconnected
  <2>2. e \in Seq(Cells(DownPacket))
    OBVIOUS
  <2> HIDE DEF e
  <2>3. /\ d \in ClientState /\ d.password = c.password /\ d.sock = "closed"
        /\ d.receiveBuffer = e /\ d.status = "Disconnected"
    BY <2>1, <2>2 DEF ClientState
  <2> QED
    BY <2>3 DEF Left, e
<1> QED
  BY <1>1, <1>2

\* What handling a packet changes of the client.
LEMMA HandlePacketType ==
    ASSUME NEW c \in ClientState, c.sock = "closed" => c.receiveBuffer = << >>,
           NEW p \in DownPacket, NEW pending \in BOOLEAN,
           NEW d, d = HandlePacket(c, p, pending)
    PROVE  Left(d, c, IsGrant(p))
<1>0. c.receivedFrames + 1 \in Nat
  <2>1. c.receivedFrames \in Nat
    BY DEF ClientState
  <2> QED
    BY <2>1
<1>1. CASE c.sock = "closed"
  <2>1. d = c
    BY <1>1, Zenon DEF HandlePacket
  <2> QED
    BY <1>1, <2>1 DEF Left
<1>2. CASE c.sock # "closed" /\ p.type = "FrameHeader"
  <2>1. d = c \/ d = [c EXCEPT !.receivedFrames = c.receivedFrames + 1]
    BY <1>2 DEF HandlePacket
  <2> DEFINE n == c.receivedFrames + 1
  <2>2. n \in Nat
    BY <1>0
  <2> HIDE DEF n
  <2>3. d = c \/ d = [c EXCEPT !.receivedFrames = n]
    BY <2>1, Zenon DEF n
  <2>4. /\ d \in ClientState /\ d.receiveBuffer = c.receiveBuffer /\ d.password = c.password
        /\ d.status = c.status /\ d.sock = c.sock
    BY <2>2, <2>3 DEF ClientState
  <2>5. d.reconnectTimer = c.reconnectTimer
    BY <2>2, <2>3 DEF ClientState
  <2> QED
    BY <1>2, <2>4, <2>5 DEF Left
<1>3. CASE c.sock # "closed" /\ p.type = "AuthResponse" /\ p.body = "granted"
  <2>1. d = [c EXCEPT !.status = "Verified"]
    BY <1>3 DEF HandlePacket
  <2>2. /\ d \in ClientState /\ d.receiveBuffer = c.receiveBuffer /\ d.password = c.password
        /\ d.sock = c.sock
    BY <2>1 DEF ClientState
  <2>3. d.reconnectTimer = c.reconnectTimer
    BY <2>1 DEF ClientState
  <2> QED
    BY <1>3, <2>2, <2>3 DEF Left, IsGrant
<1>4. CASE c.sock # "closed" /\ p.type = "AuthResponse" /\ p.body # "granted"
  <2> DEFINE b == [c EXCEPT !.status = "Authentication Failed"]
  <2>1. d = DisconnectFromHost(b, pending)
    BY <1>4 DEF HandlePacket
  <2>2. /\ b \in ClientState /\ b.receiveBuffer = c.receiveBuffer /\ b.password = c.password
        /\ b.sock = c.sock /\ b.status = "Authentication Failed"
    BY DEF ClientState
  <2>3. b.reconnectTimer = c.reconnectTimer
    BY DEF ClientState
  <2> HIDE DEF b
  <2>4. Left(d, b, FALSE)
    BY <1>4, <2>1, <2>2, CloseType
  <2> QED
    BY <2>2, <2>3, <2>4 DEF Left
<1> QED
  BY <1>1, <1>2, <1>3, <1>4, DownTypes

\* f holds the states of the loop of HandlePackets().
ClientHandles(f, c, packets, pending) ==
    /\ HandlePackets(c, packets, pending) = f[Len(packets)]
    /\ f[0] = c
    /\ \A i \in 1 .. Len(packets) : f[i] = HandlePacket(f[i - 1], packets[i], pending)

\* A client without a connection has an empty buffer.
Clean == {c \in ClientState : c.sock = "closed" => c.receiveBuffer = << >>}

LEMMA ClientHandlesLoop ==
    ASSUME NEW c \in ClientState, c.sock = "closed" => c.receiveBuffer = << >>,
           NEW packets \in Seq(DownPacket), NEW pending \in BOOLEAN
    PROVE  \E f : ClientHandles(f, c, packets, pending)
<1> DEFINE n == Len(packets)
           step == [x \in (1 .. n) \X Clean |-> HandlePacket(x[2], packets[x[1]], pending)]
           Runs(f) == f = [i \in 0 .. n |-> IF i = 0 THEN c ELSE HandlePacket(f[i - 1], packets[i], pending)]
<1>1. n \in Nat /\ c \in Clean /\ \A i \in 1 .. n : packets[i] \in DownPacket
  BY DEF Clean
<1> HIDE DEF n
<1>2. step \in [(1 .. n) \X Clean -> Clean]
  <2>1. ASSUME NEW x \in (1 .. n) \X Clean
        PROVE  HandlePacket(x[2], packets[x[1]], pending) \in Clean
    <3>1. x[2] \in ClientState /\ (x[2].sock = "closed" => x[2].receiveBuffer = << >>)
      BY DEF Clean
    <3> DEFINE d == HandlePacket(x[2], packets[x[1]], pending)
    <3>2. packets[x[1]] \in DownPacket
      BY <1>1
    <3>3. d = HandlePacket(x[2], packets[x[1]], pending)
      OBVIOUS
    <3> HIDE DEF d
    <3>4. Left(d, x[2], IsGrant(packets[x[1]]))
      BY <3>1, <3>2, <3>3, HandlePacketType
    <3>5. d \in Clean
      BY <3>4 DEF Left, Clean
    <3> QED
      BY <3>3, <3>5
  <2> QED
    BY <2>1
<1>3. PICK f \in [0 .. n -> Clean] :
          f[0] = c /\ \A i \in 1 .. n : f[i] = step[<<i, f[i - 1]>>]
  <2> HIDE DEF step
  <2>1. \E f : IsLoop(f, n, Clean, c, step)
    BY <1>1, <1>2, LoopExists
  <2> QED
    BY <2>1 DEF IsLoop
<1>4. ASSUME NEW i \in 1 .. n
      PROVE  f[i] = HandlePacket(f[i - 1], packets[i], pending)
  <2>1. i - 1 \in 0 .. n /\ f[i - 1] \in Clean /\ <<i, f[i - 1]>> \in (1 .. n) \X Clean
    BY <1>1
  <2> QED
    BY <1>3, <2>1
<1>5. Runs(f)
  <2> HIDE DEF step
  <2>1. ASSUME NEW i \in 0 .. n
        PROVE  f[i] = IF i = 0 THEN c ELSE HandlePacket(f[i - 1], packets[i], pending)
    <3>1. i # 0 => i \in 1 .. n
      BY <1>1
    <3> QED
      BY <1>3, <1>4, <3>1
  <2> QED
    BY <2>1
<1> DEFINE g == CHOOSE h : Runs(h)
<1>6. Runs(g)
  <2> HIDE DEF Runs
  <2> QED
    BY <1>5
<1>7. HandlePackets(c, packets, pending) = g[n]
  BY DEF HandlePackets, n
<1>8. g[0] = c /\ \A i \in 1 .. n : g[i] = HandlePacket(g[i - 1], packets[i], pending)
  <2> HIDE DEF g
  <2>1. 0 \in 0 .. n /\ \A i \in 1 .. n : i \in 0 .. n /\ i # 0
    BY <1>1
  <2> QED
    BY <1>6, <2>1
<1> QED
  <2> HIDE DEF g
  <2> QED
    BY <1>7, <1>8 DEF n, ClientHandles

\* What a read leaves of the client: it is verified only if it was or was told so.
LEMMA ClientOutcome ==
    ASSUME NEW c \in ClientState, c.sock # "closed", NEW packets \in Seq(DownPacket),
           NEW pending \in BOOLEAN, NEW d, d = HandlePackets(c, packets, pending)
    PROVE  Left(d, c, HasGrant(packets))
<1>1. PICK f : ClientHandles(f, c, packets, pending)
  BY ClientHandlesLoop
<1> DEFINE n == Len(packets)
           told == HasGrant(packets)
           S == {x \in ClientState : Left(x, c, told)}
<1>2. n \in Nat /\ n \in 0 .. n /\ \A i \in 1 .. n : packets[i] \in DownPacket
  OBVIOUS
<1>3. f[0] \in S
  BY <1>1 DEF ClientHandles, Left
<1>4. ASSUME NEW i \in 1 .. n, f[i - 1] \in S
      PROVE  f[i] \in S
  <2> DEFINE b == f[i - 1]
             x == f[i]
             q == packets[i]
  <2>1. x = HandlePacket(b, q, pending) /\ q \in DownPacket
    BY <1>1 DEF ClientHandles
  <2>2. IsGrant(q) => told
    BY DEF HasGrant
  <2>3. b \in ClientState /\ Left(b, c, told)
    BY <1>4
  <2> HIDE DEF b, x, q, told
  <2>4. b.sock = "closed" => b.receiveBuffer = << >>
    BY <2>3 DEF Left
  <2>5. Left(x, b, IsGrant(q))
    BY <2>1, <2>3, <2>4, HandlePacketType
  <2>6. Left(x, c, told)
    BY <2>2, <2>3, <2>5 DEF Left
  <2>7. x \in S
    BY <2>5, <2>6 DEF Left
  <2> QED
    BY <2>7 DEF x
<1>5. f[n] \in S
  <2> HIDE DEF S
  <2>1. \A i \in 0 .. n : f[i] \in S
    BY <1>2, <1>3, <1>4, LoopKeeps
  <2> QED
    BY <1>2, <2>1
<1>6. d = f[n]
  BY <1>1 DEF ClientHandles
<1> QED
  BY <1>5, <1>6

-----------------------------------------------------------------------------
(***************************************************************************)
(* Every step keeps the invariant.                                         *)
(***************************************************************************)

\* Cutting the front part of two.
LEMMA AfterConcat ==
    ASSUME NEW S, NEW a \in Seq(S), NEW b \in Seq(S), NEW e \in 0 .. Len(a)
    PROVE  After(a, e) \o b = After(a \o b, e)
<1> DEFINE r == a \o b
           x == After(a, e)
           y == After(r, e)
<1>1. /\ r \in Seq(S) /\ Len(r) = Len(a) + Len(b)
      /\ \A i \in 1 .. Len(a) : r[i] = a[i]
      /\ \A i \in 1 .. Len(b) : r[Len(a) + i] = b[i]
  BY ConcatType
<1> HIDE DEF r
<1>2. Len(a) \in Nat /\ Len(b) \in Nat /\ e \in Nat /\ e <= Len(a) /\ e \in 0 .. Len(r)
  BY <1>1
<1>3. /\ x \in Seq(S) /\ Len(x) = Len(a) - e
      /\ \A i \in 1 .. Len(a) - e : x[i] = a[e + i]
  BY AfterType
<1>4. /\ y \in Seq(S) /\ Len(y) = Len(r) - e
      /\ \A i \in 1 .. Len(r) - e : y[i] = r[e + i]
  BY <1>1, <1>2, AfterType
<1> HIDE DEF x, y
<1> DEFINE z == x \o b
<1>5. /\ z \in Seq(S) /\ Len(z) = Len(x) + Len(b)
      /\ \A i \in 1 .. Len(x) : z[i] = x[i]
      /\ \A i \in 1 .. Len(b) : z[Len(x) + i] = b[i]
  <2>1. x \in Seq(S) /\ b \in Seq(S)
    BY <1>3
  <2> QED
    BY <2>1
<1> HIDE DEF z
<1>6. Len(z) = Len(y)
  BY <1>1, <1>2, <1>3, <1>4, <1>5
<1>7. ASSUME NEW i \in 1 .. Len(z)
      PROVE  z[i] = y[i]
  <2>1. i \in 1 .. Len(r) - e
    BY <1>1, <1>2, <1>3, <1>5
  <2>2. y[i] = r[e + i]
    BY <1>4, <2>1
  <2>3. CASE i <= Len(a) - e
    <3>1. i \in 1 .. Len(a) - e /\ i \in 1 .. Len(x) /\ e + i \in 1 .. Len(a)
      BY <1>2, <1>3, <2>1, <2>3
    <3>2. z[i] = x[i] /\ x[i] = a[e + i] /\ r[e + i] = a[e + i]
      BY <1>1, <1>3, <1>5, <3>1
    <3> QED
      BY <2>2, <3>2
  <2>4. CASE i > Len(a) - e
    <3>1. PICK k \in 1 .. Len(b) : i = (Len(a) - e) + k
      <4>1. i - (Len(a) - e) \in 1 .. Len(b) /\ i = (Len(a) - e) + (i - (Len(a) - e))
        BY <1>1, <1>2, <2>1, <2>4
      <4> QED
        BY <4>1
    <3>2. i = Len(x) + k /\ e + i = Len(a) + k
      BY <1>2, <1>3, <3>1
    <3>3. z[i] = b[k] /\ r[e + i] = b[k]
      BY <1>1, <1>5, <3>1, <3>2
    <3> QED
      BY <2>2, <3>3
  <2> QED
    BY <1>2, <2>1, <2>3, <2>4
<1>8. z = y
  BY <1>4, <1>5, <1>6, <1>7
<1> QED
  BY <1>8 DEF x, y, z, r

\* The first of two parts of a stream.
LEMMA ChainPart ==
    ASSUME NEW P, NEW a \in Seq(Cells(P)), NEW b \in Seq(Cells(P)), ChainIn(a \o b)
    PROVE  ChainIn(a)
<1> DEFINE r == a \o b
<1>1. /\ r \in Seq(Cells(P)) /\ Len(r) = Len(a) + Len(b)
      /\ \A i \in 1 .. Len(a) : r[i] = a[i]
  BY ConcatType
<1>2. ChainIn(r)
  OBVIOUS
<1> HIDE DEF r
<1>3. Len(a) \in Nat /\ Len(b) \in Nat
  OBVIOUS
<1>4. ASSUME NEW i \in 1 .. Len(a) - 1
      PROVE  a[i + 1].at = IF a[i].at < PacketSize THEN a[i].at + 1 ELSE 1
  <2>1. i \in 1 .. Len(r) - 1 /\ i \in 1 .. Len(a) /\ i + 1 \in 1 .. Len(a)
    BY <1>1, <1>3
  <2>2. r[i] = a[i] /\ r[i + 1] = a[i + 1]
    BY <1>1, <2>1
  <2> QED
    BY <1>2, <2>1, <2>2 DEF ChainIn
<1> QED
  BY <1>4 DEF ChainIn

LEMMA LinkTypes ==
    ASSUME LinkTypeOK
    PROVE  /\ client.receiveBuffer \in Seq(Cells(DownPacket)) /\ client.password \in Passwords
           /\ client.inputSequence \in Nat /\ client.reconnectTimer \in BOOLEAN
           /\ agent.isLoopback \in BOOLEAN /\ agent.authenticated \in BOOLEAN
           /\ agent.sock \in {"closed", "pending", "open"}
           /\ trace.sentUp \in Seq(UpPacket) /\ trace.handled \in Seq(UpPacket)
           /\ trace.applied \in Seq(UpPacket) /\ trace.split \in BOOLEAN
           /\ trace.sentDown \in Seq(DownPacket) /\ trace.got \in Seq(DownPacket)
           /\ trace.before \in Seq(DownPacket) /\ trace.lost \in Seq(DownPacket)
           /\ trace.broken \in BOOLEAN
BY DEF LinkTypeOK, ClientState, AgentSocket, Trace

LEMMA TakenType ==
    ASSUME LinkTypeOK
    PROVE  Taken(trace) \in Seq(DownPacket)
<1>1. /\ trace.before \in Seq(DownPacket) /\ trace.lost \in Seq(DownPacket)
      /\ trace.got \in Seq(DownPacket)
  BY LinkTypes
<1>2. trace.before \o trace.lost \in Seq(DownPacket)
  BY <1>1, ConcatType
<1>3. (trace.before \o trace.lost) \o trace.got \in Seq(DownPacket)
  BY <1>1, <1>2, ConcatType
<1> QED
  BY <1>3 DEF Taken

\* ClientLosesAtMostOne in terms of Taken.
LEMMA LosesOne ==
    ClientLosesAtMostOne <=>
        (client.sock # "closed" =>
            /\ Taken(trace) \o StartedIn(client.receiveBuffer \o down) = trace.sentDown
            /\ Len(trace.lost) <= 1)
BY DEF ClientLosesAtMostOne, Taken

\* What is left of a stream when the client throws its buffer away.
LEMMA DropFront ==
    ASSUME NEW P, NEW a \in Seq(Cells(P)), NEW b \in Seq(Cells(P)), Whole(a \o b)
    PROVE  Whole(<< >> \o b)
<1> DEFINE n == Len(a)
<1>1. n \in 0 .. Len(a) /\ n \in Nat
  OBVIOUS
<1>2. After(a, n) = << >>
  BY DEF After
<1>3. After(a, n) \o b = After(a \o b, n)
  BY <1>1, AfterConcat
<1>4. a \o b \in Seq(Cells(P)) /\ Len(a \o b) = Len(a) + Len(b) /\ Len(b) \in Nat
  BY ConcatType
<1>5. n \in 0 .. Len(a \o b)
  BY <1>1, <1>4
<1>6. Whole(After(a \o b, n))
  BY <1>4, <1>5, WholeAfter
<1> QED
  BY <1>2, <1>3, <1>6

LEMMA EmptyWhole == << >> \o << >> = << >> /\ Whole(<< >>)
<1>1. << >> \o << >> = << >> /\ Len(<< >>) = 0
  OBVIOUS
<1>2. ChainIn(<< >>)
  BY DEF ChainIn
<1> QED
  BY <1>1, <1>2 DEF Whole

LEMMA LinkInit == Init => LinkInv
<1> SUFFICES ASSUME Init PROVE LinkInv
  OBVIOUS
<1>1. /\ client.receiveBuffer = << >> /\ client.sock = "closed" /\ agent.sock = "closed"
      /\ agent.authenticated = FALSE /\ up = << >> /\ down = << >>
      /\ trace.sentDown = << >> /\ trace.applied = << >>
  BY DEF Init, NewTrace
<1>2. client \in ClientState /\ agent \in AgentSocket
  BY DEF Init, ClientState, AgentSocket, Passwords
<1>3. trace \in Trace
  <2>1. << >> \in Seq(UpPacket) /\ << >> \in Seq(DownPacket)
    OBVIOUS
  <2> QED
    BY <2>1 DEF Init, NewTrace, Trace
<1>4. LinkTypeOK
  BY <1>1, <1>2, <1>3 DEF LinkTypeOK, Init
<1>5. StreamInv
  <2>1. Len(<< >>) < PacketSize
    BY SizeType
  <2> QED
    BY <1>1, <2>1, EmptyWhole DEF StreamInv
<1>6. RequestInv
  BY <1>1 DEF RequestInv
<1> QED
  BY <1>1, <1>4, <1>5, <1>6
     DEF LinkInv, ClientLosesAtMostOne, TimerInv, AgentInv, VerifyInv, GrantInv

LEMMA ConnectStep ==
    ASSUME LinkInv, NEW password \in Passwords, NEW peer \in Peers, NEW stale \in BOOLEAN,
           OnConnected(password, peer, stale)
    PROVE  LinkInv'
<1> DEFINE p == AuthRequest(1, password)
           e == Encode(p)
           s == <<p>>
           isLoopback == IsLoopback(peer)
<1>1. /\ client' = [client EXCEPT !.sock = "open", !.status = "Connected",
                                  !.password = password, !.inputSequence = 1,
                                  !.receiveBuffer = << >>, !.receivedFrames = 0,
                                  !.reconnectTimer = stale]
      /\ agent' = [sock |-> "pending", authenticated |-> FALSE, isLoopback |-> isLoopback]
      /\ up' = e /\ down' = << >>
      /\ trace' = [NewTrace EXCEPT !.sentUp = s]
      /\ connections' = connections + 1 /\ frameNumber' = frameNumber
  BY DEF OnConnected
<1>0. isLoopback \in BOOLEAN
  BY DEF IsLoopback
<1>2. p \in UpPacket /\ p.type = "AuthRequest" /\ p.body = password
  BY DEF AuthRequest, PacketOf, UpPacket
<1>3. /\ e \in Seq(Cells(UpPacket)) /\ Len(e) = PacketSize
      /\ \A i \in 1 .. PacketSize : e[i] = [packet |-> p, at |-> i]
  BY <1>2, EncodeType
<1>4. Whole(e) /\ e[1].at = 1 /\ StartedIn(e) = <<p>>
  BY <1>2, EncodeWhole
<1>5. s \in Seq(UpPacket) /\ << >> \in Seq(UpPacket) /\ << >> \in Seq(DownPacket)
      /\ << >> \in Seq(Cells(DownPacket)) /\ << >> \o s = s
  BY <1>2
<1> HIDE DEF p, e, s, isLoopback
<1>6. /\ client' \in ClientState /\ client'.receiveBuffer = << >> /\ client'.password = password
      /\ client'.status = "Connected"
  <2>1. client \in ClientState
    BY DEF LinkInv, LinkTypeOK
  <2> QED
    BY <1>1, <1>5, <2>1 DEF ClientState
<1>7. agent' \in AgentSocket /\ agent'.authenticated = FALSE /\ agent'.isLoopback = isLoopback
  BY <1>0, <1>1 DEF AgentSocket
<1>8. /\ trace' \in Trace /\ trace'.sentUp = s /\ trace'.handled = << >> /\ trace'.sentDown = << >>
      /\ trace'.got = << >> /\ trace'.applied = << >>
      /\ trace'.before = << >> /\ trace'.lost = << >>
  BY <1>1, <1>5 DEF NewTrace, Trace
<1>9. LinkTypeOK'
  <2>1. connections + 1 \in Nat /\ frameNumber \in Nat
    BY DEF LinkInv, LinkTypeOK
  <2> QED
    BY <1>1, <1>3, <1>5, <1>6, <1>7, <1>8, <2>1 DEF LinkTypeOK
<1>10. StreamInv'
  <2>1. Len(<< >>) < PacketSize
    BY SizeType
  <2> QED
    BY <1>1, <1>4, <1>6, <2>1, EmptyWhole DEF StreamInv
<1>11. ClientLosesAtMostOne' /\ TimerInv'
  <2>1. Len(<< >>) <= 1
    OBVIOUS
  <2> QED
    BY <1>1, <1>6, <1>8, <2>1, EmptyWhole, StartedEmpty DEF ClientLosesAtMostOne, TimerInv
<1>12. AgentInv'
  BY <1>1, <1>4, <1>5, <1>8 DEF AgentInv, s
<1>13. RequestInv'
  <2>1. ASSUME NEW j \in 1 .. PacketSize, IsRequest(e[j])
        PROVE  j = 1 /\ e[j].packet.body = password
    BY <1>2, <1>3, <2>1 DEF IsRequest
  <2> QED
    BY <1>1, <1>3, <1>6, <1>8, <2>1 DEF RequestInv
<1>14. VerifyInv'
  BY <1>6, <1>8 DEF VerifyInv, HasGrant
<1>15. GrantInv'
  BY <1>7, <1>8 DEF GrantInv
<1> QED
  BY <1>9, <1>10, <1>11, <1>12, <1>13, <1>14, <1>15 DEF LinkInv

LEMMA AcceptStep ==
    ASSUME LinkInv, NewConnection
    PROVE  LinkInv'
<1>1. /\ agent.sock = "pending"
      /\ agent' = [agent EXCEPT !.sock = "open", !.authenticated = agent.isLoopback]
      /\ UNCHANGED <<client, up, down, frameNumber, connections, trace>>
  BY DEF NewConnection
<1>2. LinkTypeOK
  BY DEF LinkInv
<1>3. /\ agent' \in AgentSocket /\ agent'.isLoopback = agent.isLoopback /\ agent'.sock = "open"
      /\ agent'.authenticated = agent.isLoopback
  BY <1>1, <1>2 DEF LinkTypeOK, AgentSocket
<1>4. LinkTypeOK'
  BY <1>1, <1>2, <1>3 DEF LinkTypeOK
<1>5. StreamInv' /\ ClientLosesAtMostOne' /\ TimerInv'
  BY <1>1 DEF LinkInv, StreamInv, ClientLosesAtMostOne, TimerInv
<1>6. AgentInv'
  BY <1>1 DEF LinkInv, AgentInv
<1>7. RequestInv'
  BY <1>1, <1>3 DEF LinkInv, RequestInv
<1>8. VerifyInv'
  BY <1>1, <1>3 DEF LinkInv, VerifyInv
<1>9. GrantInv'
  <2>1. trace' = trace /\ agent'.isLoopback = agent.isLoopback
        /\ (~ agent.isLoopback => ~ agent'.authenticated)
    BY <1>1, <1>3
  <2> QED
    BY <2>1 DEF LinkInv, GrantInv
<1> QED
  BY <1>4, <1>5, <1>6, <1>7, <1>8, <1>9 DEF LinkInv

LEMMA SendStep ==
    ASSUME LinkInv, NEW type \in {"InputEvent", "SessionControl"}, Send(type)
    PROVE  LinkInv'
<1> DEFINE seq == client.inputSequence + 1
           p == PacketOf(type, seq, "action")
           e == Encode(p)
           sent == Append(trace.sentUp, p)
<1>1. /\ client' = [client EXCEPT !.inputSequence = seq]
      /\ up' = up \o e
      /\ trace' = [trace EXCEPT !.sentUp = sent]
      /\ UNCHANGED <<agent, down, frameNumber, connections>>
  BY DEF Send
<1>2. LinkTypeOK
  BY DEF LinkInv
<1>3. seq \in Nat
  BY <1>2, LinkTypes
<1> HIDE DEF seq
<1>4. p \in UpPacket /\ p.type # "AuthRequest"
  BY <1>3 DEF PacketOf, UpPacket
<1>5. /\ e \in Seq(Cells(UpPacket)) /\ Len(e) = PacketSize
      /\ \A i \in 1 .. PacketSize : e[i] = [packet |-> p, at |-> i]
  BY <1>4, EncodeType
<1>6. Whole(e) /\ e[1].at = 1 /\ StartedIn(e) = <<p>>
  BY <1>4, EncodeWhole
<1>7. sent \in Seq(UpPacket) /\ sent = trace.sentUp \o <<p>> /\ <<p>> \in Seq(UpPacket)
  <2> HIDE DEF p
  <2>1. trace.sentUp \in Seq(UpPacket)
    BY <1>2, LinkTypes
  <2>2. \A s \in Seq(UpPacket) : Append(s, p) \in Seq(UpPacket) /\ Append(s, p) = s \o <<p>>
    BY <1>4
  <2>3. <<p>> \in Seq(UpPacket)
    BY <1>4
  <2> QED
    BY <2>1, <2>2, <2>3
<1> HIDE DEF p, e, sent
<1>8. /\ client' \in ClientState /\ client'.receiveBuffer = client.receiveBuffer
      /\ client'.password = client.password /\ client'.sock = client.sock
      /\ client'.status = client.status /\ client'.reconnectTimer = client.reconnectTimer
  BY <1>1, <1>2, <1>3 DEF LinkTypeOK, ClientState
<1>9. /\ trace' \in Trace /\ trace'.sentUp = sent /\ trace'.handled = trace.handled
      /\ trace'.sentDown = trace.sentDown /\ trace'.got = trace.got
      /\ trace'.before = trace.before /\ trace'.lost = trace.lost
      /\ trace'.applied = trace.applied /\ trace'.split = trace.split
  BY <1>1, <1>2, <1>7 DEF LinkTypeOK, Trace
<1>10. up \in Seq(Cells(UpPacket)) /\ Whole(up)
  BY <1>2 DEF LinkTypeOK, LinkInv, StreamInv
<1>11. /\ up' \in Seq(Cells(UpPacket)) /\ Len(up') = Len(up) + PacketSize
       /\ \A i \in 1 .. Len(up) : up'[i] = up[i]
       /\ \A i \in 1 .. PacketSize : up'[Len(up) + i] = e[i]
  <2>1. up \in Seq(Cells(UpPacket)) /\ e \in Seq(Cells(UpPacket)) /\ Len(e) = PacketSize
    BY <1>5, <1>10
  <2>2. /\ up \o e \in Seq(Cells(UpPacket)) /\ Len(up \o e) = Len(up) + Len(e)
        /\ \A i \in 1 .. Len(up) : (up \o e)[i] = up[i]
        /\ \A i \in 1 .. Len(e) : (up \o e)[Len(up) + i] = e[i]
    BY <2>1
  <2>3. up' = up \o e
    BY <1>1
  <2> QED
    BY <2>1, <2>2, <2>3
<1>12. LinkTypeOK'
  BY <1>1, <1>2, <1>8, <1>9, <1>11 DEF LinkTypeOK
<1>13. StreamInv'
  <2>1. Whole(up')
    BY <1>1, <1>5, <1>6, <1>10, WholeConcat
  <2> QED
    BY <1>1, <1>8, <2>1 DEF LinkInv, StreamInv
<1>14. ClientLosesAtMostOne' /\ TimerInv'
  BY <1>1, <1>8, <1>9 DEF LinkInv, ClientLosesAtMostOne, TimerInv
<1>15. AgentInv'
  <2> SUFFICES ASSUME agent.sock # "closed", ~ trace.split
               PROVE  /\ up' # << >> => up'[1].at = 1
                      /\ trace.handled \o StartedIn(up') = sent
    BY <1>1, <1>9 DEF AgentInv
  <2>1. (up # << >> => up[1].at = 1) /\ trace.handled \o StartedIn(up) = trace.sentUp
    BY DEF LinkInv, AgentInv
  <2>2. up' # << >> => up'[1].at = 1
    <3>1. CASE up = << >>
      <4>1. up' = e
        BY <1>1, <1>5, <3>1, ConcatEmpty
      <4> QED
        BY <1>6, <4>1
    <3>2. CASE up # << >>
      <4>1. 1 \in 1 .. Len(up)
        BY <1>10, <3>2
      <4> QED
        BY <1>11, <2>1, <3>2, <4>1
    <3> QED
      BY <3>1, <3>2
  <2>3. StartedIn(up') = StartedIn(up) \o <<p>>
    <3>1. up \in Seq(Cells(UpPacket)) /\ e \in Seq(Cells(UpPacket)) /\ up' = up \o e
      BY <1>1, <1>5, <1>10
    <3>2. StartedIn(up \o e) = StartedIn(up) \o StartedIn(e)
      BY <3>1, StartedConcat
    <3> QED
      BY <1>6, <3>1, <3>2
  <2>4. trace.handled \in Seq(UpPacket) /\ StartedIn(up) \in Seq(UpPacket)
    BY <1>2, <1>10, LinkTypes, StartedType
  <2> DEFINE x == trace.handled
             y == StartedIn(up)
             z == <<p>>
  <2> HIDE DEF x, y, z
  <2>5. x \o (y \o z) = (x \o y) \o z
    <3>1. x \in Seq(UpPacket) /\ y \in Seq(UpPacket) /\ z \in Seq(UpPacket)
      BY <1>7, <2>4 DEF x, y, z
    <3> QED
      BY <3>1, ConcatAssoc
  <2> QED
    BY <1>7, <2>1, <2>2, <2>3, <2>5 DEF x, y, z
<1>16. RequestInv'
  <2> SUFFICES ASSUME NEW j \in 1 .. Len(up'), IsRequest(up'[j])
               PROVE  /\ j = 1 /\ up'[j].packet.body = client.password
                      /\ agent.isLoopback \/ trace.sentDown = << >>
    BY <1>1, <1>8, <1>9 DEF RequestInv
  <2>1. Len(up) \in Nat /\ PacketSize \in Nat /\ Len(up') = Len(up) + PacketSize
    BY <1>10, <1>11, SizeType
  <2>2. CASE j <= Len(up)
    <3>1. j \in 1 .. Len(up) /\ up'[j] = up[j]
      BY <1>11, <2>1, <2>2
    <3> QED
      BY <3>1 DEF LinkInv, RequestInv
  <2>3. CASE j > Len(up)
    <3>1. PICK i \in 1 .. PacketSize : j = Len(up) + i
      <4>1. j - Len(up) \in 1 .. PacketSize /\ j = Len(up) + (j - Len(up))
        BY <2>1, <2>3
      <4> QED
        BY <4>1
    <3>2. up'[j] = e[i] /\ e[i] = [packet |-> p, at |-> i]
      BY <1>5, <1>11, <3>1
    <3>3. up'[j].packet = p
      BY <3>2
    <3> QED
      BY <1>4, <3>3 DEF IsRequest
  <2> QED
    BY <2>1, <2>2, <2>3
<1>17. VerifyInv' /\ GrantInv'
  BY <1>1, <1>8, <1>9 DEF LinkInv, VerifyInv, GrantInv
<1> QED
  BY <1>12, <1>13, <1>14, <1>15, <1>16, <1>17 DEF LinkInv

LEMMA GateStep ==
    ASSUME LinkInv, NEW gated \in BOOLEAN, SetRenderGated(gated)
    PROVE  LinkInv'
<1>1. /\ client' = [client EXCEPT !.renderGated = gated]
      /\ UNCHANGED <<agent, up, down, frameNumber, connections, trace>>
  BY DEF SetRenderGated
<1>2. /\ client' \in ClientState /\ client'.receiveBuffer = client.receiveBuffer
      /\ client'.password = client.password /\ client'.sock = client.sock
      /\ client'.status = client.status /\ client'.reconnectTimer = client.reconnectTimer
  BY <1>1 DEF LinkInv, LinkTypeOK, ClientState
<1>3. LinkTypeOK'
  BY <1>1, <1>2 DEF LinkInv, LinkTypeOK
<1>4. StreamInv' /\ ClientLosesAtMostOne' /\ AgentInv' /\ GrantInv'
  BY <1>1, <1>2 DEF LinkInv, StreamInv, ClientLosesAtMostOne, AgentInv, GrantInv
<1>5. RequestInv' /\ VerifyInv' /\ TimerInv'
  BY <1>1, <1>2 DEF LinkInv, RequestInv, VerifyInv, TimerInv
<1> QED
  BY <1>3, <1>4, <1>5 DEF LinkInv

\* The client's end goes, or is on its way to.
LEMMA ClientLeaves ==
    ASSUME LinkInv, Left(client', client, FALSE),
           UNCHANGED <<agent, up, down, frameNumber, connections, trace>>
    PROVE  LinkInv'
<1>1. /\ agent' = agent /\ up' = up /\ down' = down /\ trace' = trace
      /\ frameNumber' = frameNumber /\ connections' = connections
  OBVIOUS
<1>2. client' \in ClientState /\ client'.password = client.password
  BY DEF Left
<1>3. LinkTypeOK'
  BY <1>1, <1>2 DEF LinkInv, LinkTypeOK
<1>4. AgentInv' /\ GrantInv'
  BY <1>1 DEF LinkInv, AgentInv, GrantInv
<1>5. RequestInv'
  BY <1>1, <1>2 DEF LinkInv, RequestInv
<1>6. /\ client.receiveBuffer \in Seq(Cells(DownPacket)) /\ down \in Seq(Cells(DownPacket))
      /\ Whole(client.receiveBuffer \o down) /\ Len(client.receiveBuffer) < PacketSize
      /\ Whole(up)
  BY LinkTypes DEF LinkInv, LinkTypeOK, StreamInv
<1>7. CASE client'.sock = "closed"
  <2>1. client'.receiveBuffer = << >>
    BY <1>7 DEF Left
  <2>2. Whole(<< >> \o down) /\ Len(<< >>) < PacketSize
    BY <1>6, DropFront, SizeType
  <2>3. StreamInv'
    BY <1>1, <1>6, <2>1, <2>2 DEF StreamInv
  <2>4. ClientLosesAtMostOne' /\ VerifyInv' /\ TimerInv'
    BY <1>7 DEF ClientLosesAtMostOne, VerifyInv, TimerInv
  <2> QED
    BY <1>3, <1>4, <1>5, <2>3, <2>4 DEF LinkInv
<1>8. CASE client'.sock # "closed"
  <2>1. /\ client.sock # "closed" /\ client'.receiveBuffer = client.receiveBuffer
        /\ client'.reconnectTimer => client.reconnectTimer
        /\ client'.status = "Verified" => client.status = "Verified"
    BY <1>8 DEF Left
  <2>2. StreamInv'
    BY <1>1, <1>6, <2>1 DEF StreamInv
  <2>3. ClientLosesAtMostOne'
    BY <1>1, <2>1 DEF LinkInv, ClientLosesAtMostOne
  <2>4. VerifyInv' /\ TimerInv'
    BY <1>1, <1>2, <2>1 DEF LinkInv, VerifyInv, TimerInv
  <2> QED
    BY <1>3, <1>4, <1>5, <2>2, <2>3, <2>4 DEF LinkInv
<1> QED
  BY <1>7, <1>8

LEMMA UserStep ==
    ASSUME LinkInv, NEW pending \in BOOLEAN, UserDisconnects(pending)
    PROVE  LinkInv'
<1>1. /\ client.sock = "open" /\ client' = DisconnectFromHost(client, pending)
      /\ UNCHANGED <<agent, up, down, frameNumber, connections, trace>>
  BY DEF UserDisconnects
<1>2. client \in ClientState
  BY DEF LinkInv, LinkTypeOK
<1>3. Left(client', client, FALSE)
  BY <1>1, <1>2, CloseType
<1> QED
  BY <1>1, <1>3, ClientLeaves

LEMMA ClientGoneStep ==
    ASSUME LinkInv, ClientDisconnected
    PROVE  LinkInv'
<1> DEFINE e == << >>
           byUser == client.sock = "closing"
           status == IF byUser THEN "Disconnected" ELSE "Connection lost"
           armed == ~ byUser
<1>1. /\ client' = [client EXCEPT !.sock = "closed", !.receiveBuffer = e,
                                  !.status = status, !.reconnectTimer = armed]
      /\ UNCHANGED <<agent, up, down, frameNumber, connections, trace>>
  BY DEF ClientDisconnected, OnDisconnected
<1>2. /\ e \in Seq(Cells(DownPacket)) /\ armed \in BOOLEAN
      /\ status \in {"Disconnected", "Connection lost"}
  OBVIOUS
<1> HIDE DEF e, byUser, status, armed
<1>3. /\ client' \in ClientState /\ client'.sock = "closed" /\ client'.receiveBuffer = e
      /\ client'.password = client.password /\ client'.status = status
  BY <1>1, <1>2 DEF LinkInv, LinkTypeOK, ClientState
<1>4. Left(client', client, FALSE)
  BY <1>2, <1>3 DEF Left, e
<1> QED
  BY <1>1, <1>4, ClientLeaves

\* The reconnect timer of an earlier connection throws away what the client was receiving.
LEMMA AttemptStep ==
    ASSUME LinkInv, AttemptReconnect
    PROVE  LinkInv'
<1> DEFINE e == << >>
           n == << >>
           begun == StartedIn(client.receiveBuffer)
<1>1. /\ client.sock = "open" /\ client.reconnectTimer
      /\ client' = [client EXCEPT !.reconnectTimer = FALSE, !.status = "Socket Error",
                                  !.receiveBuffer = e]
      /\ trace' = [trace EXCEPT !.before = trace.got, !.got = n, !.lost = begun]
      /\ UNCHANGED <<agent, up, down, frameNumber, connections>>
  BY DEF AttemptReconnect
<1>2. LinkTypeOK /\ down \in Seq(Cells(DownPacket))
  BY DEF LinkInv, LinkTypeOK
<1>3. /\ client.receiveBuffer \in Seq(Cells(DownPacket)) /\ trace.got \in Seq(DownPacket)
  BY <1>2, LinkTypes
<1>4. /\ Whole(client.receiveBuffer \o down) /\ Len(client.receiveBuffer) < PacketSize
      /\ Whole(up)
  BY DEF LinkInv, StreamInv
<1>5. begun \in Seq(DownPacket) /\ e \in Seq(Cells(DownPacket)) /\ n \in Seq(DownPacket)
  BY <1>3, StartedType
<1>6. Len(begun) <= 1
  <2>1. ChainIn(client.receiveBuffer)
    BY <1>2, <1>3, <1>4, ChainPart DEF Whole
  <2> QED
    BY <1>3, <1>4, <2>1, ShortBeginsOne
<1>7. Whole(e \o down) /\ Len(e) < PacketSize
  BY <1>2, <1>3, <1>4, DropFront, SizeType
<1>8. Taken(trace) \o StartedIn(client.receiveBuffer \o down) = trace.sentDown
  BY <1>1, LosesOne DEF LinkInv
<1>9. Taken(trace) = trace.got
  <2>1. trace.before = << >> /\ trace.lost = << >>
    BY <1>1 DEF LinkInv, TimerInv
  <2>2. << >> \o << >> = << >>
    OBVIOUS
  <2>3. << >> \o trace.got = trace.got
    BY <1>3, ConcatEmpty
  <2> QED
    BY <2>1, <2>2, <2>3 DEF Taken
<1>10. StartedIn(client.receiveBuffer \o down) = begun \o StartedIn(down)
  BY <1>2, <1>3, StartedConcat
<1>11. e \o down = down
  BY <1>2, ConcatEmpty
<1>12. (trace.got \o begun) \o n = trace.got \o begun
  <2>1. trace.got \o begun \in Seq(DownPacket)
    BY <1>3, <1>5, ConcatType
  <2> QED
    BY <2>1, ConcatEmpty
<1> HIDE DEF e, n, begun
<1>13. /\ client' \in ClientState /\ client'.receiveBuffer = e /\ client'.sock = client.sock
       /\ client'.password = client.password /\ client'.status = "Socket Error"
  BY <1>1, <1>2, <1>5 DEF LinkTypeOK, ClientState
<1>14. client'.reconnectTimer = FALSE
  BY <1>1, <1>2 DEF LinkTypeOK, ClientState
<1>15. trace' = [sentUp |-> trace.sentUp, handled |-> trace.handled, applied |-> trace.applied,
                 split |-> trace.split, broken |-> trace.broken, sentDown |-> trace.sentDown,
                 got |-> n, before |-> trace.got, lost |-> begun]
  BY <1>1, <1>2 DEF LinkTypeOK, Trace
<1>16. /\ trace' \in Trace /\ trace'.sentUp = trace.sentUp /\ trace'.handled = trace.handled
       /\ trace'.applied = trace.applied /\ trace'.split = trace.split
       /\ trace'.sentDown = trace.sentDown /\ trace'.got = n
       /\ trace'.before = trace.got /\ trace'.lost = begun
  BY <1>2, <1>3, <1>5, <1>15, LinkTypes DEF Trace
<1>17. LinkTypeOK'
  BY <1>1, <1>2, <1>13, <1>16 DEF LinkTypeOK
<1>18. StreamInv'
  BY <1>1, <1>4, <1>7, <1>13 DEF StreamInv
<1>19. ClientLosesAtMostOne'
  <2> DEFINE g == trace.got
             w == StartedIn(down)
  <2>1. g \in Seq(DownPacket) /\ w \in Seq(DownPacket)
    BY <1>2, <1>3, StartedType
  <2> HIDE DEF g, w
  <2>2. g \o (begun \o w) = (g \o begun) \o w
    BY SMTT(30), <1>5, <2>1, ConcatAssoc
  <2>3. g \o (begun \o w) = trace.sentDown
    BY <1>8, <1>9, <1>10 DEF g, w
  <2>4. Taken(trace)' = g \o begun
    BY <1>12, <1>16 DEF Taken, g
  <2>5. StartedIn(client.receiveBuffer \o down)' = w
    BY <1>1, <1>11, <1>13 DEF w
  <2>6. ((trace'.before \o trace'.lost) \o trace'.got)
            \o StartedIn(client'.receiveBuffer \o down') = trace'.sentDown
    BY <1>16, <2>2, <2>3, <2>4, <2>5 DEF Taken
  <2> QED
    BY <1>6, <1>16, <2>6 DEF ClientLosesAtMostOne
<1>20. TimerInv'
  BY <1>14 DEF TimerInv
<1>21. AgentInv' /\ GrantInv'
  BY <1>1, <1>16 DEF LinkInv, AgentInv, GrantInv
<1>22. RequestInv'
  BY <1>1, <1>13, <1>16 DEF LinkInv, RequestInv
<1>23. VerifyInv'
  BY <1>1, <1>13, <1>16 DEF LinkInv, VerifyInv
<1> QED
  BY <1>17, <1>18, <1>19, <1>20, <1>21, <1>22, <1>23 DEF LinkInv

LEMMA AgentGoneStep ==
    ASSUME LinkInv, AgentDisconnected
    PROVE  LinkInv'
<1>1. /\ agent' = [agent EXCEPT !.sock = "closed"]
      /\ trace' = [trace EXCEPT !.broken = TRUE]
      /\ UNCHANGED <<client, up, down, frameNumber, connections>>
  BY DEF AgentDisconnected
<1>2. /\ agent' \in AgentSocket /\ agent'.sock = "closed"
      /\ agent'.isLoopback = agent.isLoopback /\ agent'.authenticated = agent.authenticated
  BY <1>1 DEF LinkInv, LinkTypeOK, AgentSocket
<1>3. /\ trace' \in Trace /\ trace'.sentUp = trace.sentUp /\ trace'.handled = trace.handled
      /\ trace'.applied = trace.applied /\ trace'.split = trace.split
      /\ trace'.sentDown = trace.sentDown /\ trace'.got = trace.got
      /\ trace'.before = trace.before /\ trace'.lost = trace.lost
  BY <1>1 DEF LinkInv, LinkTypeOK, Trace
<1>4. LinkTypeOK'
  BY <1>1, <1>2, <1>3 DEF LinkInv, LinkTypeOK
<1>5. StreamInv' /\ ClientLosesAtMostOne' /\ TimerInv'
  BY <1>1, <1>3 DEF LinkInv, StreamInv, ClientLosesAtMostOne, TimerInv
<1>6. GrantInv'
  BY <1>2, <1>3 DEF LinkInv, GrantInv
<1>7. RequestInv'
  BY <1>1, <1>2, <1>3 DEF LinkInv, RequestInv
<1>8. VerifyInv' /\ AgentInv'
  BY <1>1, <1>2, <1>3 DEF LinkInv, VerifyInv, AgentInv
<1> QED
  BY <1>4, <1>5, <1>6, <1>7, <1>8 DEF LinkInv

\* More packets on the way to the client.
LEMMA StreamGrows ==
    ASSUME NEW P, NEW a \in Seq(Cells(P)), NEW b \in Seq(Cells(P)), NEW t \in Seq(Cells(P)),
           Whole(a \o b), Whole(t), t # << >> => t[1].at = 1
    PROVE  /\ Whole(a \o (b \o t))
           /\ StartedIn(a \o (b \o t)) = StartedIn(a \o b) \o StartedIn(t)
           /\ b \o t \in Seq(Cells(P))
<1>1. a \o (b \o t) = (a \o b) \o t
  BY ConcatAssoc
<1> DEFINE u == a \o b
<1>2. u \in Seq(Cells(P)) /\ b \o t \in Seq(Cells(P))
  BY ConcatType
<1>3. Whole(u)
  OBVIOUS
<1> HIDE DEF u
<1>4. Whole(u \o t)
  BY <1>2, <1>3, WholeConcat
<1>5. StartedIn(u \o t) = StartedIn(u) \o StartedIn(t)
  BY <1>2, StartedConcat
<1> QED
  BY <1>1, <1>2, <1>4, <1>5 DEF u

LEMMA GrantIn ==
    ASSUME NEW a \in Seq(DownPacket), NEW b \in Seq(DownPacket)
    PROVE  /\ HasGrant(a \o b) <=> HasGrant(a) \/ HasGrant(b)
           /\ a # << >> => a \o b # << >> /\ (a \o b)[1] = a[1]
<1> DEFINE r == a \o b
<1>1. /\ r \in Seq(DownPacket) /\ Len(r) = Len(a) + Len(b) /\ Len(a) \in Nat /\ Len(b) \in Nat
      /\ \A i \in 1 .. Len(a) : r[i] = a[i]
      /\ \A i \in 1 .. Len(b) : r[Len(a) + i] = b[i]
  BY ConcatType
<1> HIDE DEF r
<1>2. ASSUME NEW i \in 1 .. Len(r)
      PROVE  \/ i \in 1 .. Len(a)
             \/ \E k \in 1 .. Len(b) : i = Len(a) + k
  <2>1. CASE i <= Len(a)
    BY <1>1, <2>1
  <2>2. CASE i > Len(a)
    <3>1. i - Len(a) \in 1 .. Len(b) /\ i = Len(a) + (i - Len(a))
      BY <1>1, <2>2
    <3> QED
      BY <3>1
  <2> QED
    BY <1>1, <2>1, <2>2
<1>3. HasGrant(r) => HasGrant(a) \/ HasGrant(b)
  BY <1>1, <1>2 DEF HasGrant
<1>4. HasGrant(a) => HasGrant(r)
  <2>1. \A i \in 1 .. Len(a) : i \in 1 .. Len(r)
    BY <1>1
  <2> QED
    BY <1>1, <2>1 DEF HasGrant
<1>5. HasGrant(b) => HasGrant(r)
  <2>1. \A i \in 1 .. Len(b) : Len(a) + i \in 1 .. Len(r)
    BY <1>1
  <2> QED
    BY <1>1, <2>1 DEF HasGrant
<1>6. a # << >> => r # << >> /\ r[1] = a[1]
  <2> SUFFICES ASSUME a # << >> PROVE r # << >> /\ r[1] = a[1]
    OBVIOUS
  <2>1. Len(a) # 0
    OBVIOUS
  <2>2. 1 \in 1 .. Len(a) /\ Len(r) # 0
    BY <1>1, <2>1
  <2> QED
    BY <1>1, <2>2
<1> QED
  BY <1>3, <1>4, <1>5, <1>6 DEF r

LEMMA BroadcastStep ==
    ASSUME LinkInv, Broadcast
    PROVE  LinkInv'
<1> DEFINE p == FrameHeader(frameNumber + 1)
           e == Encode(p)
           sent == Append(trace.sentDown, p)
<1>1. /\ frameNumber' = frameNumber + 1
      /\ UNCHANGED <<client, agent, up, connections>>
  BY DEF Broadcast
<1>2. LinkTypeOK /\ frameNumber \in Nat /\ down \in Seq(Cells(DownPacket))
  BY DEF LinkInv, LinkTypeOK
<1>3. frameNumber' \in Nat /\ p \in DownPacket /\ ~ IsGrant(p)
  BY <1>1, <1>2, FrameType
<1>4. CASE ~ (agent.sock = "open" /\ agent.authenticated)
  <2>1. UNCHANGED <<client, agent, up, down, trace, connections>>
    BY <1>4 DEF Broadcast
  <2>2. LinkTypeOK'
    BY <1>2, <1>3, <2>1 DEF LinkTypeOK
  <2>3. StreamInv' /\ ClientLosesAtMostOne' /\ AgentInv' /\ GrantInv'
    BY <2>1 DEF LinkInv, StreamInv, ClientLosesAtMostOne, AgentInv, GrantInv
  <2>4. RequestInv' /\ VerifyInv' /\ TimerInv'
    BY <2>1 DEF LinkInv, RequestInv, VerifyInv, TimerInv
  <2> QED
    BY <2>2, <2>3, <2>4 DEF LinkInv
<1>5. CASE agent.sock = "open" /\ agent.authenticated
  <2>1. /\ down' = down \o e
        /\ trace' = [trace EXCEPT !.sentDown = sent]
    BY <1>1, <1>5 DEF Broadcast
  <2>2. e \in Seq(Cells(DownPacket)) /\ Whole(e) /\ e[1].at = 1 /\ StartedIn(e) = <<p>>
    BY <1>3, EncodeType, EncodeWhole
  <2> DEFINE one == <<p>>
  <2>3. /\ sent \in Seq(DownPacket) /\ sent = trace.sentDown \o one /\ one \in Seq(DownPacket)
        /\ trace.sentDown \in Seq(DownPacket) /\ trace.got \in Seq(DownPacket)
        /\ client.receiveBuffer \in Seq(Cells(DownPacket))
    <3>1. /\ trace.sentDown \in Seq(DownPacket) /\ trace.got \in Seq(DownPacket)
          /\ client.receiveBuffer \in Seq(Cells(DownPacket))
      BY <1>2, LinkTypes
    <3>2. p \in DownPacket
      BY <1>3
    <3> HIDE DEF p
    <3>3. one \in Seq(DownPacket)
      BY <3>2
    <3>4. sent \in Seq(DownPacket) /\ sent = trace.sentDown \o one
      BY <3>1, <3>2
    <3> QED
      BY <3>1, <3>3, <3>4
  <2>4. ~ HasGrant(one)
    BY <1>3 DEF HasGrant
  <2> HIDE DEF p, e, sent
  <2>5. /\ trace' \in Trace /\ trace'.sentUp = trace.sentUp /\ trace'.handled = trace.handled
        /\ trace'.sentDown = sent /\ trace'.got = trace.got
        /\ trace'.before = trace.before /\ trace'.lost = trace.lost
        /\ trace'.applied = trace.applied /\ trace'.split = trace.split
    BY <1>2, <2>1, <2>3 DEF LinkTypeOK, Trace
  <2>6. Whole(client.receiveBuffer \o down)
    BY DEF LinkInv, StreamInv
  <2>7. /\ Whole(client.receiveBuffer \o (down \o e))
        /\ StartedIn(client.receiveBuffer \o (down \o e))
               = StartedIn(client.receiveBuffer \o down) \o StartedIn(e)
        /\ down \o e \in Seq(Cells(DownPacket))
    BY <1>2, <2>2, <2>3, <2>6, StreamGrows
  <2> HIDE DEF one
  <2>8. HasGrant(sent) <=> HasGrant(trace.sentDown)
    BY <2>3, <2>4, GrantIn
  <2>9. trace.sentDown # << >> => sent # << >> /\ sent[1] = trace.sentDown[1]
    BY <2>3, GrantIn
  <2>10. LinkTypeOK'
    BY <1>1, <1>2, <1>3, <2>1, <2>5, <2>7 DEF LinkTypeOK
  <2>11. StreamInv'
    BY <1>1, <2>1, <2>7 DEF LinkInv, StreamInv
  <2>12. ClientLosesAtMostOne' /\ TimerInv'
    <3> DEFINE x == Taken(trace)
               y == StartedIn(client.receiveBuffer \o down)
    <3>1. y \in Seq(DownPacket) /\ x \in Seq(DownPacket)
      <4>1. client.receiveBuffer \o down \in Seq(Cells(DownPacket))
        BY <1>2, <2>3, ConcatType
      <4> QED
        BY <1>2, <4>1, StartedType, TakenType
    <3> HIDE DEF x, y
    <3>2. x \o (y \o one) = (x \o y) \o one
      BY SMTT(30), <2>3, <3>1, ConcatAssoc
    <3>3. client.sock # "closed" => x \o y = trace.sentDown /\ Len(trace.lost) <= 1
      BY LosesOne DEF LinkInv, x, y
    <3>4. StartedIn(client.receiveBuffer \o (down \o e)) = y \o one
      BY <2>2, <2>7 DEF y, one
    <3>5. (trace'.before \o trace'.lost) \o trace'.got = x
      BY <2>5 DEF Taken, x
    <3>6. ClientLosesAtMostOne'
      BY <1>1, <2>1, <2>3, <2>5, <3>2, <3>3, <3>4, <3>5 DEF ClientLosesAtMostOne
    <3>7. TimerInv'
      BY <1>1, <2>5 DEF LinkInv, TimerInv
    <3> QED
      BY <3>6, <3>7
  <2>13. AgentInv'
    BY <1>1, <2>5 DEF LinkInv, AgentInv
  <2>14. RequestInv'
    <3>1. agent.isLoopback \/ trace.sentDown # << >>
      BY <1>5 DEF LinkInv, GrantInv
    <3> QED
      BY <1>1, <2>5, <3>1 DEF LinkInv, RequestInv
  <2>15. VerifyInv'
    BY <1>1, <2>5, <2>8 DEF LinkInv, VerifyInv
  <2>16. GrantInv'
    BY <1>1, <1>5, <2>5, <2>9 DEF LinkInv, GrantInv
  <2> QED
    BY <2>10, <2>11, <2>12, <2>13, <2>14, <2>15, <2>16 DEF LinkInv
<1> QED
  BY <1>4, <1>5

\* The agent's handler: the packets it takes and the trace it leaves.
LEMMA AgentReadPackets ==
    ASSUME LinkInv, NEW n \in 1 .. Len(up), NEW packets,
           packets = AgentPackets(SubSeq(up, 1, n))
    PROVE  /\ packets \in Seq(UpPacket)
           /\ packets # << >> => up[1].at = 1 /\ packets[1] = up[1].packet
           /\ \A i \in 2 .. Len(packets) : packets[i].type # "AuthRequest"
<1> DEFINE b == SubSeq(up, 1, n)
<1>1. up \in Seq(Cells(UpPacket))
  BY DEF LinkInv, LinkTypeOK
<1>2. /\ b \in Seq(Cells(UpPacket)) /\ Len(b) = n
      /\ \A i \in 1 .. n : b[i] = up[i]
  BY <1>1, ReadCut
<1>3. packets = AgentPackets(b)
  OBVIOUS
<1> HIDE DEF b
<1>4. /\ packets \in Seq(UpPacket)
      /\ packets # << >> => Len(b) >= 1 /\ b[1].at = 1 /\ packets[1] = b[1].packet
      /\ \A i \in 2 .. Len(packets) :
             \E j \in 2 .. Len(b) : b[j].at = 1 /\ packets[i] = b[j].packet
  BY <1>2, <1>3, AgentTakesWhatBegins
<1>5. 1 \in 1 .. n /\ \A j \in 2 .. n : j \in 1 .. n /\ j \in 1 .. Len(up) /\ j # 1
  BY <1>1
<1>6. ASSUME NEW i \in 2 .. Len(packets)
      PROVE  packets[i].type # "AuthRequest"
  <2>1. PICK j \in 2 .. n : b[j].at = 1 /\ packets[i] = b[j].packet
    BY <1>2, <1>4
  <2>2. b[j] = up[j] /\ j \in 1 .. Len(up) /\ j # 1
    BY <1>2, <1>5
  <2>3. ~ IsRequest(up[j])
    BY <2>2 DEF LinkInv, RequestInv
  <2> QED
    BY <2>1, <2>2, <2>3 DEF IsRequest
<1> QED
  BY <1>2, <1>4, <1>5, <1>6

LEMMA AgentReadStep ==
    ASSUME LinkInv, NEW n \in 1 .. Len(up), AgentReadyRead(n)
    PROVE  LinkInv'
<1> DEFINE packets == AgentPackets(SubSeq(up, 1, n))
           acc == HandleClientPackets(agent, packets)
           t == Stream(acc.out)
           cut == n < Len(up) /\ up[n + 1].at # 1
<1>1. /\ agent.sock = "open"
      /\ up' = After(up, n)
      /\ agent' = acc.socket
      /\ down' = down \o t
      /\ trace' = [trace EXCEPT !.handled  = @ \o packets,
                                !.applied  = @ \o acc.applied,
                                !.split    = @ \/ cut,
                                !.sentDown = @ \o acc.out]
      /\ UNCHANGED <<client, frameNumber, connections>>
  BY DEF AgentReadyRead
<1>2. /\ LinkTypeOK /\ up \in Seq(Cells(UpPacket)) /\ down \in Seq(Cells(DownPacket))
      /\ agent \in AgentSocket
  BY DEF LinkInv, LinkTypeOK
<1>3. /\ packets \in Seq(UpPacket)
      /\ packets # << >> => up[1].at = 1 /\ packets[1] = up[1].packet
      /\ \A i \in 2 .. Len(packets) : packets[i].type # "AuthRequest"
  BY AgentReadPackets
<1>4. packets = AgentPackets(SubSeq(up, 1, n))
  OBVIOUS
<1> HIDE DEF packets
<1>5. Outcome(acc, agent, packets)
  BY <1>2, <1>3, AgentOutcome
<1>6. cut \in BOOLEAN
  OBVIOUS
<1> HIDE DEF acc, cut
<1>7. acc \in Handling
  BY <1>5 DEF Outcome
<1>8. /\ acc.socket \in AgentSocket /\ acc.out \in Seq(DownPacket) /\ acc.applied \in Seq(UpPacket)
      /\ acc.socket.isLoopback = agent.isLoopback
  BY <1>5, <1>7 DEF Outcome, Handling
<1>9. /\ t \in Seq(Cells(DownPacket)) /\ Whole(t) /\ (t # << >> => t[1].at = 1)
      /\ StartedIn(t) = acc.out
  BY <1>8, StreamWhole
<1> HIDE DEF t
<1>10. /\ trace.sentUp \in Seq(UpPacket) /\ trace.handled \in Seq(UpPacket)
       /\ trace.applied \in Seq(UpPacket) /\ trace.split \in BOOLEAN
       /\ trace.sentDown \in Seq(DownPacket) /\ trace.got \in Seq(DownPacket)
       /\ client.receiveBuffer \in Seq(Cells(DownPacket))
  BY <1>2, LinkTypes
<1> DEFINE handled == trace.handled \o packets
           applied == trace.applied \o acc.applied
           sent == trace.sentDown \o acc.out
           split == trace.split \/ cut
<1>11. handled \in Seq(UpPacket) /\ applied \in Seq(UpPacket) /\ sent \in Seq(DownPacket)
  <2>1. handled \in Seq(UpPacket)
    BY <1>3, <1>10, ConcatType
  <2>2. applied \in Seq(UpPacket)
    BY <1>8, <1>10, ConcatType
  <2>3. sent \in Seq(DownPacket)
    BY <1>8, <1>10, ConcatType
  <2> QED
    BY <2>1, <2>2, <2>3
<1>12. split \in BOOLEAN
  OBVIOUS
<1>13. trace' = [trace EXCEPT !.handled = handled, !.applied = applied, !.split = split,
                              !.sentDown = sent]
  BY <1>1
<1> HIDE DEF handled, applied, sent, split
<1>14. trace' = [sentUp |-> trace.sentUp, handled |-> handled, applied |-> applied,
                 split |-> split, broken |-> trace.broken, sentDown |-> sent, got |-> trace.got,
                 before |-> trace.before, lost |-> trace.lost]
  BY <1>2, <1>13 DEF LinkTypeOK, Trace
<1>15. /\ trace' \in Trace /\ trace'.sentUp = trace.sentUp /\ trace'.handled = handled
       /\ trace'.applied = applied /\ trace'.split = split
       /\ trace'.sentDown = sent /\ trace'.got = trace.got
       /\ trace'.before = trace.before /\ trace'.lost = trace.lost
  BY <1>2, <1>10, <1>11, <1>12, <1>14, LinkTypes DEF Trace
<1>16. n \in 0 .. Len(up)
  BY <1>2
<1>17. /\ up' \in Seq(Cells(UpPacket)) /\ Len(up') = Len(up) - n
       /\ \A i \in 1 .. Len(up) - n : up'[i] = up[n + i]
  BY <1>1, <1>2, <1>16, AfterType
<1>18. /\ Whole(client.receiveBuffer \o (down \o t))
       /\ StartedIn(client.receiveBuffer \o (down \o t))
              = StartedIn(client.receiveBuffer \o down) \o StartedIn(t)
       /\ down \o t \in Seq(Cells(DownPacket))
  <2>1. Whole(client.receiveBuffer \o down)
    BY DEF LinkInv, StreamInv
  <2> QED
    BY <1>2, <1>9, <1>10, <2>1, StreamGrows
<1>19. LinkTypeOK'
  BY <1>1, <1>2, <1>8, <1>15, <1>17, <1>18 DEF LinkTypeOK
<1>20. StreamInv'
  <2>1. Whole(up)
    BY DEF LinkInv, StreamInv
  <2>2. Whole(up')
    BY <1>1, <1>2, <1>16, <2>1, WholeAfter
  <2>3. Len(client.receiveBuffer) < PacketSize
    BY DEF LinkInv, StreamInv
  <2>4. client' = client /\ down' = down \o t
    BY <1>1
  <2> QED
    BY <1>18, <2>2, <2>3, <2>4 DEF StreamInv, PacketSize
<1>21. ClientLosesAtMostOne' /\ TimerInv'
  <2> DEFINE x == Taken(trace)
             y == StartedIn(client.receiveBuffer \o down)
             z == acc.out
  <2>1. y \in Seq(DownPacket) /\ x \in Seq(DownPacket) /\ z \in Seq(DownPacket)
    <3>1. client.receiveBuffer \o down \in Seq(Cells(DownPacket))
      BY <1>2, <1>10, ConcatType
    <3> QED
      BY <1>2, <1>8, <3>1, StartedType, TakenType
  <2>2. sent = trace.sentDown \o z
    BY DEF sent
  <2>3. client.sock # "closed" => x \o y = trace.sentDown /\ Len(trace.lost) <= 1
    BY LosesOne DEF LinkInv
  <2>4. StartedIn(client.receiveBuffer \o (down \o t)) = y \o z
    BY <1>9, <1>18
  <2>5. /\ client' = client /\ down' = down \o t /\ trace'.sentDown = sent
        /\ (trace'.before \o trace'.lost) \o trace'.got = x /\ trace'.lost = trace.lost
    BY <1>1, <1>15 DEF Taken
  <2> HIDE DEF x, y, z
  <2>6. x \o (y \o z) = (x \o y) \o z
    BY SMTT(30), <2>1, ConcatAssoc
  <2>7. ClientLosesAtMostOne'
    BY <2>2, <2>3, <2>4, <2>5, <2>6 DEF ClientLosesAtMostOne
  <2>8. TimerInv'
    BY <1>1, <1>15 DEF LinkInv, TimerInv
  <2> QED
    BY <2>7, <2>8
<1>22. AgentInv'
  <2> SUFFICES ASSUME ~ split
               PROVE  /\ up' # << >> => up'[1].at = 1
                      /\ handled \o StartedIn(up') = trace.sentUp
    BY <1>15 DEF AgentInv
  <2>1. ~ trace.split /\ (n < Len(up) => up[n + 1].at = 1)
    BY DEF split, cut
  <2>2. /\ up # << >> => up[1].at = 1
        /\ trace.handled \o StartedIn(up) = trace.sentUp
    BY <1>1, <2>1 DEF LinkInv, AgentInv
  <2> DEFINE b == SubSeq(up, 1, n)
  <2>3. /\ b \in Seq(Cells(UpPacket)) /\ Len(b) = n
        /\ \A i \in 1 .. n : b[i] = up[i]
        /\ up = b \o up'
    BY <1>1, <1>2, ReadCut
  <2>4. Whole(up) /\ ChainIn(up)
    BY DEF LinkInv, StreamInv, Whole
  <2>5. ChainIn(b)
    BY <1>2, <1>16, <2>4, ChainFirst
  <2>6. packets = AgentPackets(b)
    BY <1>4
  <2> HIDE DEF b
  <2>7. n \in Nat /\ Len(up) \in Nat /\ n >= 1 /\ n <= Len(up) /\ PacketSize \in Nat
    BY <1>2, SizeType
  <2>8. up[n].at = PacketSize
    <3>1. CASE n = Len(up)
      <4>1. up # << >>
        BY <2>7
      <4> QED
        BY <2>4, <3>1, <4>1 DEF Whole
    <3>2. CASE n < Len(up)
      <4>1. up[n].at \in 1 .. PacketSize
        BY <1>2, CellAt
      <4>2. n \in 1 .. Len(up) - 1
        BY <2>7, <3>2
      <4>3. up[n + 1].at = IF up[n].at < PacketSize THEN up[n].at + 1 ELSE 1
        BY <2>4, <4>2 DEF ChainIn
      <4>4. up[n + 1].at = 1
        BY <2>1, <3>2
      <4> QED
        BY <2>7, <4>1, <4>3, <4>4
    <3> QED
      BY <2>7, <3>1, <3>2
  <2>9. Whole(b) /\ (b # << >> => b[1].at = 1)
    <3>1. n \in 1 .. n /\ 1 \in 1 .. n /\ up # << >>
      BY <2>7
    <3>2. b[n] = up[n] /\ b[1] = up[1]
      BY <2>3, <3>1
    <3> QED
      BY <2>2, <2>3, <2>5, <2>8, <3>1, <3>2 DEF Whole
  <2>10. packets = StartedIn(b)
    BY <2>3, <2>6, <2>9, AgentTakesAll
  <2>11. StartedIn(up) = packets \o StartedIn(up')
    <3>1. b \in Seq(Cells(UpPacket)) /\ up' \in Seq(Cells(UpPacket))
      BY <1>17, <2>3
    <3>2. StartedIn(b \o up') = StartedIn(b) \o StartedIn(up')
      BY <3>1, StartedConcat
    <3> QED
      BY <2>3, <2>10, <3>2
  <2>12. up' # << >> => up'[1].at = 1
    <3> SUFFICES ASSUME up' # << >> PROVE up'[1].at = 1
      OBVIOUS
    <3>1. Len(up') # 0
      BY <1>17
    <3>2. 1 \in 1 .. Len(up) - n /\ n < Len(up)
      BY <1>17, <2>7, <3>1
    <3>3. up'[1] = up[n + 1]
      BY <1>17, <3>2
    <3> QED
      BY <2>1, <3>2, <3>3
  <2>13. handled \o StartedIn(up') = trace.handled \o (packets \o StartedIn(up'))
    <3> DEFINE x == trace.handled
               y == StartedIn(up')
    <3>1. y \in Seq(UpPacket)
      BY <1>17, StartedType
    <3>2. x \in Seq(UpPacket) /\ handled = x \o packets
      BY <1>10 DEF handled
    <3> HIDE DEF x, y
    <3>3. x \o (packets \o y) = (x \o packets) \o y
      BY SMTT(30), <1>3, <3>1, <3>2, ConcatAssoc
    <3> QED
      BY <3>2, <3>3 DEF x, y
  <2> QED
    BY <2>2, <2>11, <2>12, <2>13
<1>23. RequestInv'
  <2>1. ASSUME NEW j \in 1 .. Len(up')
        PROVE  ~ IsRequest(up'[j])
    <3>1. /\ j \in 1 .. Len(up) - n
          /\ n + j \in 1 .. Len(up) /\ n + j # 1
      BY <1>2, <1>17
    <3>2. up'[j] = up[n + j]
      BY <1>17, <3>1
    <3> QED
      BY <3>1, <3>2 DEF LinkInv, RequestInv
  <2> QED
    BY <2>1 DEF RequestInv
<1>24. VerifyInv' /\ GrantInv'
  <2>1. /\ client' = client /\ agent' = acc.socket /\ agent'.isLoopback = agent.isLoopback
        /\ trace'.sentDown = sent /\ trace'.applied = applied
    BY <1>1, <1>8, <1>15
  <2>2. sent = trace.sentDown \o acc.out /\ applied = trace.applied \o acc.applied
    BY DEF sent, applied
  <2>3. CASE /\ acc.socket = agent /\ acc.out = << >>
             /\ ~ agent.authenticated => acc.applied = << >>
    <3>1. sent = trace.sentDown
      BY <1>10, <2>2, <2>3, ConcatEmpty
    <3>2. ~ agent.authenticated => applied = trace.applied
      BY <1>10, <2>2, <2>3, ConcatEmpty
    <3>3. VerifyInv'
      BY <2>1, <2>3, <3>1 DEF LinkInv, VerifyInv
    <3>4. GrantInv'
      BY <2>1, <2>3, <3>1, <3>2 DEF LinkInv, GrantInv
    <3> QED
      BY <3>3, <3>4
  <2>4. ASSUME packets # << >>, packets[1].type = "AuthRequest"
        PROVE  /\ packets[1].body = client.password /\ packets[1].seq \in Nat
               /\ agent.isLoopback \/ trace.sentDown = << >>
    <3>1. 1 \in 1 .. Len(up) /\ up[1].at = 1 /\ packets[1] = up[1].packet
      BY <1>2, <1>3, <2>4
    <3>2. IsRequest(up[1])
      BY <2>4, <3>1 DEF IsRequest
    <3>3. up[1].packet.body = client.password /\ (agent.isLoopback \/ trace.sentDown = << >>)
      BY <3>1, <3>2 DEF LinkInv, RequestInv
    <3>4. up[1].packet \in UpPacket
      BY <1>2, <3>1, CellAt
    <3>5. up[1].packet.seq \in Nat
      BY <3>4, UpTypes
    <3> QED
      BY <3>1, <3>3, <3>5
  <2>5. HasGrant(sent) <=> HasGrant(trace.sentDown) \/ HasGrant(acc.out)
    BY <1>8, <1>10, <2>2, GrantIn
  <2>6. trace.sentDown = << >> => sent = acc.out
    BY <1>8, <2>2, ConcatEmpty
  <2>7. CASE /\ packets # << >> /\ packets[1].type = "AuthRequest" /\ AuthSuccess(packets[1].body)
             /\ acc.socket.authenticated = TRUE /\ acc.socket.sock = agent.sock
             /\ acc.out = <<AuthResponse(packets[1].seq, TRUE)>>
    <3> DEFINE r == AuthResponse(packets[1].seq, TRUE)
    <3>1. AuthSuccess(client.password) /\ (agent.isLoopback \/ trace.sentDown = << >>)
      BY <2>4, <2>7
    <3>2. r.type = "AuthResponse" /\ IsGrant(r)
      BY <2>4, <2>7, ResponseType
    <3> HIDE DEF r
    <3>3. acc.out = <<r>> /\ acc.out # << >> /\ acc.out[1] = r
      BY <2>7 DEF r
    <3>4. VerifyInv'
      BY <1>1, <2>1, <2>5, <2>7, <3>1 DEF LinkInv, VerifyInv
    <3>5. r.body = "granted"
      BY <3>2 DEF IsGrant
    <3>6. GrantInv'
      BY <2>1, <2>6, <3>1, <3>2, <3>3, <3>5 DEF GrantInv
    <3> QED
      BY <3>4, <3>6
  <2>8. CASE /\ packets # << >> /\ packets[1].type = "AuthRequest" /\ packets[1].body = "wrong"
             /\ acc.socket.authenticated = FALSE
             /\ acc.out = <<AuthResponse(packets[1].seq, FALSE)>>
             /\ acc.applied = << >>
    <3> DEFINE r == AuthResponse(packets[1].seq, FALSE)
    <3>1. client.password = "wrong" /\ (agent.isLoopback \/ trace.sentDown = << >>)
      BY <2>4, <2>8
    <3>2. r.type = "AuthResponse" /\ ~ IsGrant(r) /\ r.body = "denied"
      BY <2>4, <2>8, ResponseType
    <3> HIDE DEF r
    <3>3. acc.out = <<r>> /\ acc.out # << >> /\ acc.out[1] = r /\ Len(acc.out) = 1
      BY <2>8 DEF r
    <3>4. applied = trace.applied
      BY <1>10, <2>2, <2>8, ConcatEmpty
    <3>5. ~ HasGrant(acc.out)
      BY <3>2, <3>3 DEF HasGrant
    <3>6. VerifyInv'
      BY <2>1, <2>5, <3>1, <3>5 DEF LinkInv, VerifyInv, AuthSuccess
    <3>7. ASSUME ~ agent.isLoopback
          PROVE  /\ sent = acc.out /\ applied = << >> /\ ~ agent'.authenticated
      BY <2>1, <2>6, <2>8, <3>1, <3>4, <3>7 DEF LinkInv, GrantInv
    <3>8. GrantInv'
      BY <2>1, <3>2, <3>3, <3>7 DEF GrantInv
    <3> QED
      BY <3>6, <3>8
  <2> QED
    BY <1>5, <2>3, <2>7, <2>8 DEF Outcome
<1> QED
  BY <1>19, <1>20, <1>21, <1>22, <1>23, <1>24 DEF LinkInv

\* What one read of the client makes of the stream: kept, taken and left make up what
\* was there.
LEMMA ClientReadStream ==
    ASSUME LinkInv, NEW n \in 1 .. Len(down), NEW loop,
           loop = ClientLoop(client.receiveBuffer \o SubSeq(down, 1, n))
    PROVE  /\ loop.packets \in Seq(DownPacket) /\ loop.rest \in Seq(Cells(DownPacket))
           /\ After(down, n) \in Seq(Cells(DownPacket))
           /\ Whole(loop.rest \o After(down, n))
           /\ StartedIn(client.receiveBuffer \o down)
                  = loop.packets \o StartedIn(loop.rest \o After(down, n))
           /\ Len(loop.rest) < PacketSize
<1> DEFINE C == Cells(DownPacket)
           rb == client.receiveBuffer
           x == SubSeq(down, 1, n)
           y == After(down, n)
           buf == rb \o x
<1>1. rb \in Seq(C) /\ down \in Seq(C)
  BY LinkTypes DEF LinkInv, LinkTypeOK
<1>2. x \in Seq(C) /\ down = x \o y
  BY <1>1, ReadCut
<1>3. n \in 0 .. Len(down)
  BY <1>1
<1>4. y \in Seq(C)
  BY <1>1, <1>3, AfterType
<1>5. Whole(rb \o down)
  BY DEF LinkInv, StreamInv
<1>6. loop = ClientLoop(buf)
  OBVIOUS
<1> HIDE DEF C, x, y
<1>7. buf \in Seq(C) /\ rb \o down = buf \o y
  <2>1. rb \in Seq(C) /\ x \in Seq(C) /\ y \in Seq(C)
    BY <1>1, <1>2, <1>4
  <2> HIDE DEF rb
  <2>2. rb \o (x \o y) = (rb \o x) \o y
    BY SMTT(30), <2>1, ConcatAssoc
  <2>3. rb \o x \in Seq(C)
    BY <2>1, ConcatType
  <2> QED
    BY <1>2, <2>2, <2>3 DEF rb
<1> HIDE DEF buf
<1>8. ChainIn(buf)
  <2>1. ChainIn(buf \o y)
    BY <1>5, <1>7 DEF Whole
  <2> QED
    BY <1>4, <1>7, <2>1, ChainPart DEF C
<1>9. /\ loop \in LoopResult(DownPacket)
      /\ loop.packets \o StartedIn(loop.rest) = StartedIn(buf)
      /\ \E e \in 0 .. Len(buf) : loop.rest = After(buf, e)
      /\ Len(loop.rest) < PacketSize
  BY <1>6, <1>7, <1>8, ClientKeepsAll DEF C
<1>10. loop.packets \in Seq(DownPacket) /\ loop.rest \in Seq(C)
  BY <1>9 DEF LoopResult, C
<1> DEFINE p == loop.packets
           r == loop.rest
<1>11. Whole(r \o y)
  <2>1. PICK e \in 0 .. Len(buf) : r = After(buf, e)
    BY <1>9
  <2>2. r \o y = After(buf \o y, e)
    BY <1>4, <1>7, <2>1, AfterConcat
  <2>3. buf \o y \in Seq(C) /\ Len(buf \o y) = Len(buf) + Len(y)
    BY <1>4, <1>7, ConcatType
  <2>4. e \in 0 .. Len(buf \o y)
    BY <1>4, <1>7, <2>3
  <2>5. Whole(buf \o y)
    BY <1>5, <1>7
  <2>6. Whole(After(buf \o y, e))
    BY <2>3, <2>4, <2>5, WholeAfter DEF C
  <2> QED
    BY <2>2, <2>6
<1>12. StartedIn(rb \o down) = p \o StartedIn(r \o y)
  <2> DEFINE s == StartedIn(r)
             u == StartedIn(y)
  <2>1. s \in Seq(DownPacket) /\ u \in Seq(DownPacket)
    BY <1>4, <1>10, StartedType DEF C
  <2>2. StartedIn(buf \o y) = StartedIn(buf) \o u
    BY <1>4, <1>7, StartedConcat DEF C
  <2>3. StartedIn(r \o y) = s \o u
    BY <1>4, <1>10, StartedConcat DEF C
  <2>4. StartedIn(buf) = p \o s
    BY <1>9
  <2>5. p \in Seq(DownPacket)
    BY <1>10
  <2> HIDE DEF s, u, p
  <2>6. p \o (s \o u) = (p \o s) \o u
    BY SMTT(30), <2>1, <2>5, ConcatAssoc
  <2> QED
    BY <1>7, <2>2, <2>3, <2>4, <2>6
<1> QED
  BY <1>4, <1>9, <1>10, <1>11, <1>12 DEF C, y

LEMMA ClientReadStep ==
    ASSUME LinkInv, NEW n \in 1 .. Len(down), NEW pending \in BOOLEAN, ClientReadyRead(n, pending)
    PROVE  LinkInv'
<1> DEFINE loop == ClientLoop(client.receiveBuffer \o SubSeq(down, 1, n))
           p == loop.packets
           r == loop.rest
           c == [client EXCEPT !.receiveBuffer = r]
           got == trace.got \o p
<1>1. /\ client.sock # "closed"
      /\ down' = After(down, n)
      /\ client' = HandlePackets(c, p, pending)
      /\ trace' = [trace EXCEPT !.got = got]
      /\ UNCHANGED <<agent, up, frameNumber, connections>>
  BY DEF ClientReadyRead
<1>2. /\ p \in Seq(DownPacket) /\ r \in Seq(Cells(DownPacket))
      /\ After(down, n) \in Seq(Cells(DownPacket))
      /\ Whole(r \o After(down, n))
      /\ StartedIn(client.receiveBuffer \o down) = p \o StartedIn(r \o After(down, n))
      /\ Len(r) < PacketSize
  BY ClientReadStream
<1> HIDE DEF loop, p, r
<1>3. LinkTypeOK /\ client \in ClientState
  BY DEF LinkInv, LinkTypeOK
<1>4. trace.got \in Seq(DownPacket) /\ trace.sentDown \in Seq(DownPacket)
  BY <1>3, LinkTypes
<1>5. /\ c \in ClientState /\ c.receiveBuffer = r /\ c.password = client.password
      /\ c.status = client.status /\ c.sock = client.sock
      /\ c.reconnectTimer = client.reconnectTimer
  BY <1>2, <1>3 DEF ClientState
<1> HIDE DEF c
<1>6. Left(client', c, HasGrant(p))
  BY <1>1, <1>2, <1>5, ClientOutcome
<1>7. got \in Seq(DownPacket)
  BY <1>2, <1>4, ConcatType
<1> DEFINE w == StartedIn(r \o down')
           b == trace.before \o trace.lost
<1>8. w \in Seq(DownPacket) /\ b \in Seq(DownPacket)
  <2>1. r \o down' \in Seq(Cells(DownPacket))
    BY <1>1, <1>2, ConcatType
  <2>2. trace.before \in Seq(DownPacket) /\ trace.lost \in Seq(DownPacket)
    BY <1>3, LinkTypes
  <2>3. b \in Seq(DownPacket)
    BY <2>2, ConcatType
  <2> QED
    BY <2>1, <2>3, StartedType
<1>9. StartedIn(client.receiveBuffer \o down) = p \o w
  BY <1>1, <1>2
<1>10. b \o trace.got = Taken(trace)
  BY DEF Taken
<1> HIDE DEF w, b
<1>11. (b \o trace.got) \o (p \o w) = trace.sentDown /\ Len(trace.lost) <= 1
  BY <1>1, <1>9, <1>10, LosesOne DEF LinkInv
<1>12. (b \o got) \o w = trace.sentDown
  <2> DEFINE g == trace.got
             bg == b \o g
  <2>1. g \in Seq(DownPacket) /\ p \in Seq(DownPacket) /\ w \in Seq(DownPacket)
    BY <1>2, <1>4, <1>8
  <2> HIDE DEF g
  <2>2. bg \in Seq(DownPacket)
    BY <1>8, <2>1, ConcatType
  <2>3. b \o (g \o p) = (b \o g) \o p
    BY SMTT(30), <1>8, <2>1, ConcatAssoc
  <2> HIDE DEF bg
  <2>4. bg \o (p \o w) = (bg \o p) \o w
    BY SMTT(30), <2>1, <2>2, ConcatAssoc
  <2> QED
    BY <1>11, <2>3, <2>4 DEF g, bg
<1>13. HasGrant(p) => HasGrant(trace.sentDown)
  <2>1. HasGrant(got) <=> HasGrant(trace.got) \/ HasGrant(p)
    BY <1>2, <1>4, GrantIn
  <2> HIDE DEF got
  <2> DEFINE bg == b \o got
  <2>2. HasGrant(bg) <=> HasGrant(b) \/ HasGrant(got)
    BY <1>7, <1>8, GrantIn
  <2>3. bg \in Seq(DownPacket)
    BY <1>7, <1>8, ConcatType
  <2>4. bg \o w = trace.sentDown
    BY <1>12
  <2> HIDE DEF bg
  <2>5. HasGrant(bg \o w) <=> HasGrant(bg) \/ HasGrant(w)
    BY <1>8, <2>3, GrantIn
  <2> QED
    BY <2>1, <2>2, <2>4, <2>5
<1> HIDE DEF got
<1>14. /\ trace' \in Trace /\ trace'.sentUp = trace.sentUp /\ trace'.handled = trace.handled
       /\ trace'.sentDown = trace.sentDown /\ trace'.got = got
       /\ trace'.before = trace.before /\ trace'.lost = trace.lost
       /\ trace'.applied = trace.applied /\ trace'.split = trace.split
  BY <1>1, <1>3, <1>7 DEF LinkTypeOK, Trace
<1>15. LinkTypeOK'
  BY <1>1, <1>2, <1>3, <1>6, <1>14 DEF LinkTypeOK, Left
<1>16. AgentInv' /\ RequestInv'
  BY <1>1, <1>5, <1>6, <1>14 DEF LinkInv, AgentInv, RequestInv, Left
<1>17. GrantInv'
  BY <1>1, <1>14 DEF LinkInv, GrantInv
<1>18. Whole(up)
  BY DEF LinkInv, StreamInv
<1>19. CASE client'.sock = "closed"
  <2>1. client'.receiveBuffer = << >>
    BY <1>6, <1>19 DEF Left
  <2>2. Whole(<< >> \o down') /\ Len(<< >>) < PacketSize
    BY <1>1, <1>2, DropFront, SizeType
  <2>3. StreamInv'
    BY <1>1, <1>18, <2>1, <2>2 DEF StreamInv
  <2>4. ClientLosesAtMostOne' /\ VerifyInv' /\ TimerInv'
    BY <1>19 DEF ClientLosesAtMostOne, VerifyInv, TimerInv
  <2> QED
    BY <1>15, <1>16, <1>17, <2>3, <2>4 DEF LinkInv
<1>20. CASE client'.sock # "closed"
  <2>1. /\ client'.receiveBuffer = r /\ client'.password = client.password
        /\ client'.reconnectTimer => client.reconnectTimer
        /\ client'.status = "Verified" => client.status = "Verified" \/ HasGrant(p)
    BY <1>5, <1>6, <1>20 DEF Left
  <2>2. StreamInv'
    BY <1>1, <1>2, <1>18, <2>1 DEF StreamInv
  <2>3. ClientLosesAtMostOne'
    BY <1>11, <1>12, <1>14, <2>1 DEF ClientLosesAtMostOne, w, b
  <2>4. VerifyInv'
    BY <1>1, <1>13, <1>14, <2>1 DEF LinkInv, VerifyInv
  <2>5. TimerInv'
    BY <1>1, <1>14, <2>1 DEF LinkInv, TimerInv
  <2> QED
    BY <1>15, <1>16, <1>17, <2>2, <2>3, <2>4, <2>5 DEF LinkInv
<1> QED
  BY <1>19, <1>20

LEMMA LinkStep == LinkInv /\ [Next]_linkVars => LinkInv'
<1> SUFFICES ASSUME LinkInv, [Next]_linkVars
             PROVE  LinkInv'
  OBVIOUS
<1>1. CASE \E password \in Passwords, peer \in Peers, stale \in BOOLEAN :
               OnConnected(password, peer, stale)
  BY <1>1, ConnectStep
<1>2. CASE NewConnection
  BY <1>2, AcceptStep
<1>3. CASE SendInputEvent \/ SendSessionControlAction
  BY <1>3, SendStep DEF SendInputEvent, SendSessionControlAction
<1>4. CASE \E gated \in BOOLEAN : SetRenderGated(gated)
  BY <1>4, GateStep
<1>5. CASE \E n \in 1 .. Len(up) : AgentReadyRead(n)
  BY <1>5, AgentReadStep
<1>6. CASE \E n \in 1 .. Len(down), pending \in BOOLEAN : ClientReadyRead(n, pending)
  BY <1>6, ClientReadStep
<1>7. CASE Broadcast
  BY <1>7, BroadcastStep
<1>8. CASE AgentDisconnected
  BY <1>8, AgentGoneStep
<1>9. CASE ClientDisconnected
  BY <1>9, ClientGoneStep
<1>10. CASE AttemptReconnect
  BY <1>10, AttemptStep
<1>11. CASE \E pending \in BOOLEAN : UserDisconnects(pending)
  BY <1>11, UserStep
<1>12. CASE UNCHANGED linkVars
  <2>1. UNCHANGED <<client, agent, up, down, frameNumber, connections, trace>>
    BY <1>12 DEF linkVars
  <2>2. LinkTypeOK' /\ StreamInv' /\ ClientLosesAtMostOne' /\ TimerInv'
    BY <2>1 DEF LinkInv, LinkTypeOK, StreamInv, ClientLosesAtMostOne, TimerInv
  <2>3. AgentInv' /\ RequestInv' /\ VerifyInv' /\ GrantInv'
    BY <2>1 DEF LinkInv, AgentInv, RequestInv, VerifyInv, GrantInv
  <2> QED
    BY <2>2, <2>3 DEF LinkInv
<1> QED
  BY <1>1, <1>2, <1>3, <1>4, <1>5, <1>6, <1>7, <1>8, <1>9, <1>10, <1>11, <1>12 DEF Next, Reads

-----------------------------------------------------------------------------
(***************************************************************************)
(* Theorems.                                                               *)
(***************************************************************************)

\* The inductive invariant of a viewer's connection: the types, and the facts about the
\* two streams, the password request and the grant that the properties below rest on.
THEOREM LinkInvHolds == Spec => []LinkInv
<1>1. Init => LinkInv
  BY LinkInit
<1>2. LinkInv /\ [Next]_linkVars => LinkInv'
  BY LinkStep
<1> QED
  BY <1>1, <1>2, PTL DEF Spec

\* However TCP cuts the stream, and for every header and payload size, onReadyRead()
\* handles every packet the agent wrote, once and in order, but for the one it was
\* receiving when a stale reconnect timer made onErrorOccurred() empty its buffer.
THEOREM ClientTakesAllButOne == Spec => []ClientLosesAtMostOne
<1>1. LinkInv => ClientLosesAtMostOne
  BY DEF LinkInv
<1> QED
  BY <1>1, LinkInvHolds, PTL

\* The agent's readyRead handler, which keeps nothing from one read to the next, loses
\* packets only behind a read that ended inside a packet.
THEOREM AgentTakesUpToSplit == Spec => []AgentLosesOnlyBehindSplit
<1>1. LinkInv => AgentLosesOnlyBehindSplit
  BY DEF LinkInv, AgentInv, AgentLosesOnlyBehindSplit
<1> QED
  BY <1>1, LinkInvHolds, PTL

\* A client whose status is "Verified" is one the agent has accepted and holds for
\* authenticated, unless the agent's end of the connection has gone first.
THEOREM VerifiedIsTrue == Spec => []VerifiedIsAuthenticated
<1>1. LinkInv => VerifiedIsAuthenticated
  <2> SUFFICES ASSUME LinkInv, client.sock # "closed", client.status = "Verified"
               PROVE  \/ agent.sock = "open" /\ agent.authenticated
                      \/ agent.sock = "closed"
    BY DEF VerifiedIsAuthenticated
  <2>1. agent.sock # "pending" /\ (agent.sock = "open" => agent.authenticated)
    BY DEF LinkInv, VerifyInv
  <2>2. agent.sock \in {"closed", "pending", "open"}
    BY LinkTypes DEF LinkInv
  <2> QED
    BY <2>1, <2>2
<1> QED
  BY <1>1, LinkInvHolds, PTL

\* A viewer that the agent's test of its address does not take for local acts on the host
\* and sees frames only after the agent answered its password, and granted it.
THEOREM GrantComesFirst == Spec => []NothingBeforeGrant
<1>1. LinkInv => NothingBeforeGrant
  <2> SUFFICES ASSUME LinkInv, ~ agent.isLoopback,
                      trace.applied # << >> \/ trace.sentDown # << >>
               PROVE  /\ trace.sentDown # << >>
                      /\ trace.sentDown[1].type = "AuthResponse"
                      /\ trace.applied # << >> \/ Len(trace.sentDown) > 1 =>
                             trace.sentDown[1].body = "granted"
    BY DEF NothingBeforeGrant
  <2>1. trace.sentDown # << >> /\ trace.sentDown[1].type = "AuthResponse"
    BY DEF LinkInv, GrantInv
  <2>2. trace.sentDown[1].body # "granted" => Len(trace.sentDown) = 1 /\ trace.applied = << >>
    BY <2>1 DEF LinkInv, GrantInv
  <2>3. Len(trace.sentDown) = 1 => ~ (Len(trace.sentDown) > 1)
    OBVIOUS
  <2> QED
    BY <2>1, <2>2, <2>3, Zenon
<1> QED
  BY <1>1, LinkInvHolds, PTL

=============================================================================
