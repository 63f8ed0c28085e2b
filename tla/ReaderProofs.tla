----------------------------- MODULE ReaderProofs -----------------------------
(***************************************************************************)
(* Proof that the consumer finds in a ready slot what was promised of its  *)
(* batch: the headers say what the layouts are, and _parse_slot finds by   *)
(* them each element where the writer put it; what a step does not write   *)
(* stays; and every action keeps what the slots show. The parts on layouts *)
(* and names say what else the invariant needs.                            *)
(***************************************************************************)
EXTENDS ItemProofs

-----------------------------------------------------------------------------
(* The headers.                                                            *)

(***************************************************************************)
(* The first headers of a batch take the sum of their blocks.              *)
(***************************************************************************)
LEMMA HeadersSum ==
  ASSUME NEW bl \in Seq(AnyLayout), NEW k \in 0 .. Len(bl)
  PROVE  HeaderSize(First(bl, k)) = Sums(Blocks(bl))[k] /\ HeaderSize(First(bl, k)) \in Nat
<1> DEFINE before == First(bl, k)
           s == Blocks(bl)
           t == Blocks(before)
<1>1. before \in Seq(AnyLayout) /\ Len(before) = k /\ \A i \in 1 .. k : before[i] = bl[i]
  BY DEF First
<1>2. s \in Seq(Nat) /\ Len(s) = Len(bl) /\ \A i \in 1 .. Len(bl) : s[i] = BlockSize(Len(bl[i].shape))
  BY BlocksAre
<1> HIDE DEF before
<1>3. /\ t \in Seq(Nat) /\ Len(t) = k /\ HeaderSize(before) = Total(t) /\ HeaderSize(before) \in Nat
      /\ \A i \in 1 .. k : t[i] = BlockSize(Len(before[i].shape))
  BY <1>1, BlocksAre
<1>4. \A i \in 1 .. k : t[i] = s[i]
  <2> TAKE i \in 1 .. k
  <2>1. i \in 1 .. Len(bl)
    OBVIOUS
  <2>2. s[i] = BlockSize(Len(bl[i].shape)) /\ t[i] = BlockSize(Len(before[i].shape)) /\ before[i] = bl[i]
    BY <1>1, <1>2, <1>3, <2>1
  <2> QED
    BY <2>2
<1> HIDE DEF s, t
<1>5. Total(t) = Sums(s)[k]
  <2>1. Len(t) <= Len(s) /\ \A i \in 1 .. Len(t) : t[i] = s[i]
    BY <1>2, <1>3, <1>4
  <2>2. Total(t) = Sums(s)[Len(t)]
    BY <1>2, <1>3, <2>1, SumOfPrefix
  <2> QED
    BY <1>3, <2>2
<1> QED
  BY <1>3, <1>5 DEF before, s

(***************************************************************************)
(* A header begins where the block of the one before it ends, the first at *)
(* the start of the slot, and the data where the last block ends.          *)
(***************************************************************************)
LEMMA HeadersNext ==
  ASSUME NEW bl \in Seq(AnyLayout), NEW at \in Nat
  PROVE  /\ PlaceOf(at, bl, 1) = at
         /\ PlaceOf(at, bl, Len(bl) + 1) = at + HeaderSize(bl)
         /\ \A k \in 1 .. Len(bl) : PlaceOf(at, bl, k) \in Nat /\ PlaceOf(at, bl, k + 1) = PlaceOf(at, bl, k) + BlockSize(Len(bl[k].shape))
<1> DEFINE s == Blocks(bl)
           n == Len(bl)
<1>1. n \in Nat /\ s \in Seq(Nat) /\ Len(s) = n /\ \A i \in 1 .. n : s[i] = BlockSize(Len(bl[i].shape))
  BY BlocksAre
<1>2. HeaderSize(bl) = Total(s)
  BY BlocksAre
<1>3. \A k \in 0 .. n : HeaderSize(First(bl, k)) = Sums(s)[k] /\ HeaderSize(First(bl, k)) \in Nat
  BY HeadersSum
<1> HIDE DEF s
<1>4. /\ Total(s) = Sums(s)[n] /\ Sums(s)[0] = 0 /\ \A k \in 0 .. n : Sums(s)[k] \in Nat
      /\ \A k \in 1 .. n : Sums(s)[k] = Sums(s)[k - 1] + s[k]
  BY <1>1, SumsAre
<1>5. \A k \in 1 .. n + 1 : PlaceOf(at, bl, k) = at + Sums(s)[k - 1]
  <2> TAKE k \in 1 .. n + 1
  <2>1. k - 1 \in 0 .. n
    BY <1>1
  <2> QED
    BY <1>3, <2>1 DEF PlaceOf
<1>6. ASSUME NEW k \in 1 .. n
      PROVE  PlaceOf(at, bl, k) \in Nat /\ PlaceOf(at, bl, k + 1) = PlaceOf(at, bl, k) + BlockSize(Len(bl[k].shape))
  <2> DEFINE a == Sums(s)[k - 1]
             b == Sums(s)[k]
             c == BlockSize(Len(bl[k].shape))
  <2>1. k \in 1 .. n + 1 /\ k + 1 \in 1 .. n + 1 /\ (k + 1) - 1 = k /\ k - 1 \in 0 .. n
    BY <1>1
  <2>2. PlaceOf(at, bl, k) = at + a /\ PlaceOf(at, bl, k + 1) = at + b
    BY <1>5, <2>1
  <2>3. a \in Nat /\ b = a + c /\ s[k] = c /\ s[k] \in Nat
    BY <1>1, <1>4, <2>1
  <2> HIDE DEF a, b, c
  <2> QED
    BY <2>2, <2>3 DEF c
<1>7. PlaceOf(at, bl, 1) = at
  <2>1. 1 \in 1 .. n + 1 /\ 1 - 1 = 0
    BY <1>1
  <2>2. PlaceOf(at, bl, 1) = at + Sums(s)[0]
    BY <1>5, <2>1
  <2> QED
    BY <1>4, <2>2
<1>8. PlaceOf(at, bl, n + 1) = at + HeaderSize(bl)
  <2>1. n + 1 \in 1 .. n + 1 /\ (n + 1) - 1 = n
    BY <1>1
  <2> QED
    BY <1>2, <1>4, <1>5, <2>1
<1> QED
  BY <1>6, <1>7, <1>8

(***************************************************************************)
(* A header ends before those that follow it begin.                        *)
(***************************************************************************)
LEMMA HeadersApart ==
  ASSUME NEW bl \in Seq(AnyLayout), NEW at \in Nat, NEW j \in 1 .. Len(bl), NEW k \in 1 .. Len(bl), j < k
  PROVE  PlaceOf(at, bl, j) + 2 * Len(bl[j].shape) < PlaceOf(at, bl, k)
<1> DEFINE s == Blocks(bl)
           n == Len(bl)
<1>1. n \in Nat /\ s \in Seq(Nat) /\ Len(s) = n /\ s[j] = BlockSize(Len(bl[j].shape))
  BY BlocksAre
<1>2. /\ HeaderSize(First(bl, j - 1)) = Sums(s)[j - 1] /\ HeaderSize(First(bl, k - 1)) = Sums(s)[k - 1]
  <2>1. j - 1 \in 0 .. n /\ k - 1 \in 0 .. n
    BY <1>1
  <2> QED
    BY <2>1, HeadersSum
<1>3. Len(bl[j].shape) \in Nat /\ 1 + 2 * Len(bl[j].shape) <= s[j]
  BY <1>1, LayoutOf, BlockSizeTyped
<1> HIDE DEF s
<1>4. Sums(s)[j] = Sums(s)[j - 1] + s[j] /\ Sums(s)[j] \in Nat /\ Sums(s)[j - 1] \in Nat /\ Sums(s)[k - 1] \in Nat /\ s[j] \in Nat
  <2>1. j \in 1 .. Len(s) /\ j \in 0 .. Len(s) /\ j - 1 \in 0 .. Len(s) /\ k - 1 \in 0 .. Len(s)
    BY <1>1
  <2>2. Sums(s) \in [0 .. Len(s) -> Nat] /\ \A i \in 1 .. Len(s) : Sums(s)[i] = Sums(s)[i - 1] + s[i]
    BY <1>1, SumsAre
  <2>3. Sums(s)[j] = Sums(s)[j - 1] + s[j]
    BY <2>1, <2>2
  <2>4. Sums(s)[j] \in Nat /\ Sums(s)[j - 1] \in Nat /\ Sums(s)[k - 1] \in Nat
    BY <2>1, <2>2
  <2>5. s[j] \in Nat
    BY <1>1, <2>1
  <2> QED
    BY <2>3, <2>4, <2>5
<1>5. Sums(s)[j] <= Sums(s)[k - 1]
  <2>1. j \in 0 .. Len(s) /\ k - 1 \in 0 .. Len(s) /\ j <= k - 1
    BY <1>1
  <2> QED
    BY <1>1, <2>1, SumsGrow
<1> DEFINE a == Sums(s)[j - 1]
           b == Sums(s)[k - 1]
           c == Sums(s)[j]
           d == Len(bl[j].shape)
           e == s[j]
<1>6. PlaceOf(at, bl, j) = at + a /\ PlaceOf(at, bl, k) = at + b
  BY <1>2 DEF PlaceOf
<1>7. a \in Nat /\ b \in Nat /\ c \in Nat /\ d \in Nat /\ e \in Nat /\ c = a + e /\ c <= b /\ 1 + 2 * d <= e
  BY <1>3, <1>4, <1>5
<1> HIDE DEF a, b, c, d, e
<1>8. at + a + 2 * d < at + b
  BY <1>7
<1> QED
  BY <1>6, <1>8 DEF d

\* The memories that write_tensor_metadata goes through, a header in each.
HeaderLoop(mem, at, bl, g) ==
  /\ g[0] = Done(mem)
  /\ \A k \in 1 .. Len(bl) : g[k] = HeaderRound(mem, at, bl, k, g[k - 1])

(***************************************************************************)
(* The headers are written one by one.                                     *)
(***************************************************************************)
LEMMA HeaderRounds ==
  ASSUME NEW mem, NEW at, NEW bl, Len(bl) \in Nat
  PROVE  \E g : HeaderLoop(mem, at, bl, g) /\ WriteHeaders(mem, at, bl) = g[Len(bl)]
<1> DEFINE n == Len(bl)
           Round(k, m) == HeaderRound(mem, at, bl, k, m)
           Body(f, j) == [k \in 0 .. j |-> IF k = 0 THEN Done(mem) ELSE Round(k, f[k - 1])]
           g == CHOOSE f : f = Body(f, n)
<1>1. WriteHeaders(mem, at, bl) = g[n]
  BY DEF WriteHeaders, HeaderRound, PlaceOf
<1> HIDE DEF Round, n
<1>2. n \in Nat
  BY DEF n
<1>3. \E f : f = Body(f, n)
  <2> DEFINE Exists(j) == \E f : f = Body(f, j)
             T == { j \in Nat : Exists(j) }
  <2>1. Exists(0)
    <3> DEFINE f == [k \in 0 .. 0 |-> Done(mem)]
    <3>1. f = Body(f, 0)
      OBVIOUS
    <3> QED
      BY <3>1
  <2>2. ASSUME NEW j \in Nat, Exists(j)
        PROVE  Exists(j + 1)
    <3>0. PICK f : f = Body(f, j)
      BY <2>2
    <3> DEFINE h == [k \in 0 .. j + 1 |-> IF k <= j THEN f[k] ELSE Round(j + 1, f[j])]
    <3>1. ASSUME NEW k \in 0 .. j + 1
          PROVE  h[k] = Body(h, j + 1)[k]
      <4>1. CASE k <= j
        <5>1. f[k] = Body(f, j)[k] /\ h[k] = f[k]
          BY <3>0, <4>1
        <5>2. k # 0 => h[k - 1] = f[k - 1]
          BY <4>1
        <5> QED
          BY <4>1, <5>1, <5>2
      <4>2. CASE k = j + 1
        BY <4>2
      <4> QED
        BY <4>1, <4>2
    <3>2. h = Body(h, j + 1)
      BY <3>1
    <3> QED
      BY <3>2
  <2>3. n \in T
    <3> HIDE DEF Exists
    <3>1. 0 \in T /\ \A j \in Nat : j \in T => j + 1 \in T
      BY <2>1, <2>2
    <3> HIDE DEF T
    <3> QED
      BY <1>2, <3>1, InductionOnSet
  <2> QED
    BY <2>3
<1>4. g = Body(g, n)
  BY <1>3
<1> HIDE DEF g
<1>5. g[0] = Done(mem) /\ \A k \in 1 .. n : g[k] = Round(k, g[k - 1])
  BY <1>2, <1>4
<1>6. HeaderLoop(mem, at, bl, g)
  BY <1>5 DEF HeaderLoop, Round, n
<1> QED
  BY <1>1, <1>6 DEF n

\* The first k headers are in a memory of n cells.
HeadersIn(m, n, at, bl, k) ==
  m.err = "none" =>
    /\ DOMAIN m.out = 0 .. n - 1
    /\ \A j \in 1 .. k : \A i \in 0 .. 2 * Len(bl[j].shape) : m.out[PlaceOf(at, bl, j) + i] = HeaderCells(bl[j])[i]

(***************************************************************************)
(* write_tensor_metadata, where it does not fail, leaves every header      *)
(* whole.                                                                  *)
(***************************************************************************)
LEMMA HeadersThere ==
  ASSUME NEW mem, NEW n \in Nat, DOMAIN mem = 0 .. n - 1, NEW at \in Nat, NEW bl \in Seq(AnyLayout)
  PROVE  HeadersIn(WriteHeaders(mem, at, bl), n, at, bl, Len(bl))
<1> DEFINE l == Len(bl)
<1>1. l \in Nat
  OBVIOUS
<1>0. PICK g : HeaderLoop(mem, at, bl, g) /\ WriteHeaders(mem, at, bl) = g[l]
  BY <1>1, HeaderRounds
<1>2. /\ g[0] = Done(mem)
      /\ \A k \in 1 .. l : g[k] = HeaderRound(mem, at, bl, k, g[k - 1])
      /\ WriteHeaders(mem, at, bl) = g[l]
  BY <1>0 DEF HeaderLoop
<1> DEFINE T == { k \in Nat : k <= l => HeadersIn(g[k], n, at, bl, k) }
<1> HIDE DEF l
<1>3. 0 \in T
  <2>1. 1 .. 0 = {}
    OBVIOUS
  <2> QED
    BY <1>2, <2>1 DEF HeadersIn, Done
<1>4. ASSUME NEW k \in Nat, k \in T
      PROVE  k + 1 \in T
  <2> SUFFICES ASSUME k + 1 <= l PROVE HeadersIn(g[k + 1], n, at, bl, k + 1)
    OBVIOUS
  <2> DEFINE j == k + 1
             m == g[k]
             place == PlaceOf(at, bl, j)
             cells == HeaderCells(bl[j])
             moved == MovedTo(place, cells)
             out == Overlay(m.out, moved)
             len == 2 * Len(bl[j].shape)
  <2>1. j \in 1 .. l /\ j \in 1 .. Len(bl) /\ j - 1 = k /\ HeadersIn(m, n, at, bl, k)
    BY <1>1, <1>4 DEF l
  <2>2. g[j] = HeaderRound(mem, at, bl, j, m)
    BY <1>2, <2>1
  <2> SUFFICES ASSUME g[j].err = "none" PROVE HeadersIn(g[j], n, at, bl, j)
    BY DEF HeadersIn
  <2>3. m.err = "none" /\ HeaderFits(bl[j], place, mem) /\ g[j] = Done(out)
    BY <2>2 DEF HeaderRound, Fail
  <2>4. /\ DOMAIN m.out = 0 .. n - 1
        /\ \A i \in 1 .. k : \A c \in 0 .. 2 * Len(bl[i].shape) : m.out[PlaceOf(at, bl, i) + c] = HeaderCells(bl[i])[c]
    BY <2>1, <2>3 DEF HeadersIn
  <2>5. place \in Nat /\ len \in Nat /\ DOMAIN cells = 0 .. len
    <3>1. PlaceOf(at, bl, j) \in Nat
      BY <2>1, HeadersNext
    <3>2. Len(bl[j].shape) \in Nat
      BY <2>1, LayoutOf
    <3>3. DOMAIN cells = 0 .. len
      BY DEF HeaderCells
    <3> QED
      BY <3>1, <3>2, <3>3
  <2>6. place + len < n
    <3>0. Cardinality(0 .. n - 1) = n
      <4>1. 0 \in Int /\ n - 1 \in Int /\ (n - 1) - 0 + 1 = n
        OBVIOUS
      <4> QED
        BY <4>1, FS_Interval
    <3>1. Cardinality(DOMAIN mem) = n
      BY <3>0
    <3>2. TotalBytes(bl[j]) \in Nat
      BY <2>1, LayoutOf, BytesTyped
    <3>3. place + 1 + len + TotalBytes(bl[j]) <= n
      BY <2>3, <3>1 DEF HeaderFits
    <3> HIDE DEF place, len
    <3> QED
      BY <2>5, <3>2, <3>3
  <2> HIDE DEF j, m, place, cells, len
  <2>7. /\ DOMAIN moved = { place + c : c \in 0 .. len }
        /\ \A c \in 0 .. len : place + c \in DOMAIN moved /\ moved[place + c] = cells[c]
    <3>1. DOMAIN moved = { place + c : c \in DOMAIN cells } /\ \A i \in { place + c : c \in DOMAIN cells } : moved[i] = cells[i - place]
      BY DEF MovedTo
    <3> HIDE DEF moved
    <3>2. \A c \in 0 .. len : (place + c) - place = c
      BY <2>5
    <3> QED
      BY <2>5, <3>1, <3>2
  <2> HIDE DEF moved
  <2>8. DOMAIN out = 0 .. n - 1 /\ \A i \in 0 .. n - 1 : out[i] = IF i \in DOMAIN moved THEN moved[i] ELSE m.out[i]
    BY <2>4 DEF Overlay
  <2> HIDE DEF out
  <2>9. \A c \in 0 .. len : out[place + c] = cells[c]
    <3> TAKE c \in 0 .. len
    <3>1. place + c \in 0 .. n - 1
      BY <2>5, <2>6
    <3> QED
      BY <2>7, <2>8, <3>1
  <2>10. ASSUME NEW i \in 1 .. k, NEW c \in 0 .. 2 * Len(bl[i].shape)
         PROVE  out[PlaceOf(at, bl, i) + c] = HeaderCells(bl[i])[c]
    <3> DEFINE a == PlaceOf(at, bl, i)
               b == 2 * Len(bl[i].shape)
    <3>1. i \in 1 .. Len(bl) /\ i < j
      BY <2>1 DEF j
    <3>2. a \in Nat /\ b \in Nat
      <4>1. PlaceOf(at, bl, i) \in Nat
        BY <3>1, HeadersNext
      <4>2. Len(bl[i].shape) \in Nat
        BY <3>1, LayoutOf
      <4> QED
        BY <4>1, <4>2
    <3>3. a + b < place
      BY <2>1, <3>1, HeadersApart DEF place
    <3>4. m.out[a + c] = HeaderCells(bl[i])[c]
      BY <2>4
    <3>5. c \in 0 .. b
      OBVIOUS
    <3> HIDE DEF a, b
    <3>6. a + c \in 0 .. n - 1 /\ a + c < place
      BY <2>5, <2>6, <3>2, <3>3, <3>5
    <3>7. a + c \notin DOMAIN moved
      <4> SUFFICES ASSUME NEW y \in 0 .. len, a + c = place + y PROVE FALSE
        BY <2>7
      <4> QED
        BY <2>5, <3>2, <3>5, <3>6
    <3>8. out[a + c] = m.out[a + c]
      BY <2>8, <3>6, <3>7
    <3> QED
      BY <3>4, <3>8 DEF a
  <2>11. ASSUME NEW i \in 1 .. j, NEW c \in 0 .. 2 * Len(bl[i].shape)
         PROVE  out[PlaceOf(at, bl, i) + c] = HeaderCells(bl[i])[c]
    <3>1. i \in 1 .. k \/ i = j
      BY <2>1
    <3>2. CASE i = j
      BY <2>9, <3>2 DEF place, cells, len
    <3> QED
      BY <2>10, <3>1, <3>2
  <2> QED
    BY <2>3, <2>8, <2>11 DEF HeadersIn, Done, j
<1>5. l \in T
  <2> HIDE DEF T
  <2> QED
    BY <1>1, <1>3, <1>4, InductionOnSet
<1> QED
  BY <1>1, <1>2, <1>5 DEF l

(***************************************************************************)
(* What is read from a cell is what was written to it.                     *)
(***************************************************************************)
LEMMA SourceSays ==
  ASSUME NEW kind, NEW a, NEW b, NEW c, NEW d, NEW cell, cell = Source(kind, a, b, c, d)
  PROVE  /\ Says(cell, 1) = a /\ Says(cell, 2) = b /\ Says(cell, 3) = c
         /\ IsHeader(cell) <=> kind = "header"
<1>1. cell[1] = { << kind, a, b, c, d >> }
  BY DEF Source
<1>2. (CHOOSE s \in cell[1] : TRUE) = << kind, a, b, c, d >>
  BY <1>1
<1> DEFINE x == CHOOSE s \in cell[1] : TRUE
<1>3. x[1] = kind /\ x[2] = a /\ x[3] = b /\ x[4] = c
  <2>1. x = << kind, a, b, c, d >>
    BY <1>2
  <2> HIDE DEF x
  <2> QED
    BY <2>1
<1>4. cell[1] # {}
  BY <1>1
<1>5. Says(cell, 1) = x[1 + 1] /\ Says(cell, 2) = x[2 + 1] /\ Says(cell, 3) = x[3 + 1]
  BY DEF Says
<1>6. IsHeader(cell) <=> x[1] = "header"
  BY <1>4 DEF IsHeader
<1> HIDE DEF x
<1>7. 1 + 1 = 2 /\ 2 + 1 = 3 /\ 3 + 1 = 4
  OBVIOUS
<1> QED
  BY <1>3, <1>5, <1>6, <1>7

(***************************************************************************)
(* A type is known by its code.                                            *)
(***************************************************************************)
LEMMA CodeIs ==
  ASSUME NEW dt \in DOMAIN DtypeCells
  PROVE  Dtypes[DtypeCode(dt)] = dt
<1>1. dt \in { Dtypes[k] : k \in DOMAIN Dtypes }
  BY DtypeAssumption
<1> HIDE DEF Dtypes
<1>2. PICK k \in DOMAIN Dtypes : Dtypes[k] = dt
  BY <1>1
<1> QED
  BY <1>2 DEF DtypeCode

(***************************************************************************)
(* A header says the type of its tensor, how many dimensions it has and    *)
(* whether the slot is ready; a dimension says its size or its stride.     *)
(***************************************************************************)
LEMMA HeaderSays ==
  ASSUME NEW dt \in DOMAIN DtypeCells, NEW ndims, NEW ready, NEW cell, cell = Header(dt, ndims, ready)
  PROVE  Dtypes[Says(cell, 1)] = dt /\ Says(cell, 2) = ndims /\ Says(cell, 3) = ready /\ IsHeader(cell)
<1>1. cell = Source("header", DtypeCode(dt), ndims, ready, 0)
  BY DEF Header
<1>2. Says(cell, 1) = DtypeCode(dt) /\ Says(cell, 2) = ndims /\ Says(cell, 3) = ready /\ IsHeader(cell)
  BY <1>1, SourceSays
<1>3. Dtypes[DtypeCode(dt)] = dt
  BY CodeIs
<1> HIDE DEF Dtypes
<1> QED
  BY <1>2, <1>3

(***************************************************************************)
(* A dimension is what is read from its cell.                              *)
(***************************************************************************)
LEMMA DimensionSays ==
  ASSUME NEW n, NEW cell, cell = Dimension(n)
  PROVE  Says(cell, 1) = n
BY SourceSays DEF Dimension

(***************************************************************************)
(* Making a slot ready changes what its first header says of it, and no    *)
(* more.                                                                   *)
(***************************************************************************)
LEMMA ReadyHeader ==
  ASSUME NEW dt, NEW ndims, NEW ready, NEW m, NEW at \in DOMAIN m, m[at] = Header(dt, ndims, ready)
  PROVE  /\ DOMAIN SetSlotReady(m, at) = DOMAIN m
         /\ SetSlotReady(m, at)[at] = Header(dt, ndims, 1)
         /\ \A i \in DOMAIN m : i # at => SetSlotReady(m, at)[i] = m[i]
<1>1. m[at] = Source("header", DtypeCode(dt), ndims, ready, 0)
  BY DEF Header
<1>2. Says(m[at], 1) = DtypeCode(dt) /\ Says(m[at], 2) = ndims
  BY <1>1, SourceSays
<1>3. SetSlotReady(m, at) = [m EXCEPT ![at] = Header(dt, ndims, 1)]
  BY <1>2 DEF SetSlotReady, Header
<1> QED
  BY <1>3

-----------------------------------------------------------------------------
(* The elements of a tensor.                                               *)

(***************************************************************************)
(* A product is its first factor times the product of the others.          *)
(***************************************************************************)
LEMMA ProductOfRest ==
  ASSUME NEW u \in Seq(Nat), NEW t \in Seq(Nat), Len(u) = Len(t) + 1, \A i \in 1 .. Len(t) : u[i + 1] = t[i]
  PROVE  Product(u) = u[1] * Product(t)
<1> DEFINE n == Len(t)
           a == u[1]
           U == Products(u)
           V == Products(t)
           T == { j \in Nat : j <= n => V[j] \in Nat /\ U[j + 1] = a * V[j] }
<1>1. n \in Nat /\ Len(u) = n + 1 /\ 1 \in 1 .. Len(u) /\ a \in Nat
  OBVIOUS
<1>2. /\ Product(u) = U[Len(u)] /\ U[0] = 1
      /\ \A k \in 1 .. Len(u) : U[k] = U[k - 1] * u[k]
  BY ProductsAre
<1>3. /\ Product(t) = V[n] /\ V[0] = 1
      /\ \A k \in 1 .. n : V[k] = V[k - 1] * t[k]
  BY ProductsAre
<1> HIDE DEF U, V
<1>4. 0 \in T
  <2>1. U[1] = U[1 - 1] * u[1]
    BY <1>1, <1>2
  <2>2. U[1] = 1 * a
    BY <1>2, <2>1
  <2> QED
    BY <1>1, <1>3, <2>2
<1>5. ASSUME NEW j \in Nat, j \in T
      PROVE  j + 1 \in T
  <2> SUFFICES ASSUME j + 1 <= n PROVE V[j + 1] \in Nat /\ U[(j + 1) + 1] = a * V[j + 1]
    OBVIOUS
  <2> DEFINE x == V[j]
             y == t[j + 1]
  <2>1. x \in Nat /\ U[j + 1] = a * x
    BY <1>1, <1>5
  <2>2. y \in Nat /\ j + 1 \in 1 .. n
    <3>1. j + 1 \in 1 .. n
      BY <1>1
    <3> QED
      BY <3>1, SMTT(30)
  <2>3. V[j + 1] = x * y
    <3>1. (j + 1) - 1 = j
      OBVIOUS
    <3> QED
      BY <1>3, <2>2, <3>1
  <2>4. U[(j + 1) + 1] = (a * x) * y
    <3>1. (j + 1) + 1 \in 1 .. Len(u) /\ ((j + 1) + 1) - 1 = j + 1
      BY <1>1, <2>2
    <3>2. u[(j + 1) + 1] = y
      BY <2>2
    <3> QED
      BY <1>2, <2>1, <3>1, <3>2
  <2> HIDE DEF x, y
  <2>5. x * y \in Nat /\ (a * x) * y = a * (x * y)
    BY <1>1, <2>1, <2>2
  <2> QED
    BY <2>3, <2>4, <2>5
<1>6. n \in T
  <2> HIDE DEF T
  <2> QED
    BY <1>1, <1>4, <1>5, InductionOnSet
<1> QED
  BY <1>1, <1>2, <1>3, <1>6

\* The elements that one step of a dimension passes; as many as there are, for k = 0.
Passed(s, k) == Product(SubSeq(s, k + 1, Len(s)))

(***************************************************************************)
(* A step of a dimension passes as many elements as all steps of the next. *)
(***************************************************************************)
LEMMA PassedAre ==
  ASSUME NEW s \in Seq(Nat)
  PROVE  /\ Passed(s, 0) = Product(s) /\ Passed(s, Len(s)) = 1
         /\ \A k \in 0 .. Len(s) : Passed(s, k) \in Nat
         /\ \A k \in 1 .. Len(s) : s[k] \in Nat /\ Passed(s, k - 1) = s[k] * Passed(s, k) /\ RowMajor(s)[k] = Passed(s, k)
<1> DEFINE n == Len(s)
<1>1. n \in Nat
  OBVIOUS
<1>2. ASSUME NEW k \in 0 .. n
      PROVE  /\ SubSeq(s, k + 1, n) \in Seq(Nat) /\ Len(SubSeq(s, k + 1, n)) = n - k
             /\ \A i \in 1 .. n - k : SubSeq(s, k + 1, n)[i] = s[k + i]
             /\ Passed(s, k) \in Nat
  <2>1. /\ SubSeq(s, k + 1, n) \in Seq(Nat) /\ Len(SubSeq(s, k + 1, n)) = n - k
        /\ \A i \in 1 .. n - k : SubSeq(s, k + 1, n)[i] = s[k + i]
    <3>1. SubSeq(s, k + 1, n) = [i \in 1 .. n - k |-> s[(k + 1) + i - 1]]
      BY <1>1
    <3>2. \A i \in 1 .. n - k : (k + 1) + i - 1 = k + i /\ s[k + i] \in Nat
      BY <1>1
    <3>3. n - k \in Nat
      BY <1>1
    <3>4. [i \in 1 .. n - k |-> s[(k + 1) + i - 1]] \in [1 .. n - k -> Nat]
      BY <3>2
    <3>5. SubSeq(s, k + 1, n) \in [1 .. n - k -> Nat]
      BY <3>1, <3>4
    <3>6. \A i \in 1 .. n - k : SubSeq(s, k + 1, n)[i] = s[k + i]
      BY <3>1, <3>2
    <3> QED
      BY <3>3, <3>5, <3>6, SequenceOf
  <2> QED
    BY <2>1, ProductsAre DEF Passed
<1>3. SubSeq(s, 1, n) = s
  OBVIOUS
<1>4. Passed(s, 0) = Product(s)
  <2>1. Passed(s, 0) = Product(SubSeq(s, 0 + 1, n))
    BY DEF Passed
  <2>2. 0 + 1 = 1
    OBVIOUS
  <2> QED
    BY <1>3, <2>1, <2>2
<1>5. Passed(s, n) = 1
  <2>1. SubSeq(s, n + 1, n) = << >>
    <3>1. n \in 0 .. n /\ n - n = 0
      BY <1>1
    <3>2. SubSeq(s, n + 1, n) \in Seq(Nat) /\ Len(SubSeq(s, n + 1, n)) = 0
      BY <1>2, <3>1
    <3> QED
      BY <3>2
  <2> QED
    BY <2>1, ProductOfNone DEF Passed
<1>6. ASSUME NEW k \in 1 .. n
      PROVE  s[k] \in Nat /\ Passed(s, k - 1) = s[k] * Passed(s, k) /\ RowMajor(s)[k] = Passed(s, k)
  <2> DEFINE u == SubSeq(s, (k - 1) + 1, n)
             t == SubSeq(s, k + 1, n)
  <2>1. k \in 0 .. n /\ k - 1 \in 0 .. n /\ n - (k - 1) = (n - k) + 1 /\ (k - 1) + 1 = k
    BY <1>1
  <2>2. u \in Seq(Nat) /\ Len(u) = n - (k - 1) /\ \A i \in 1 .. n - (k - 1) : u[i] = s[(k - 1) + i]
    BY <1>2, <2>1
  <2>3. t \in Seq(Nat) /\ Len(t) = n - k /\ \A i \in 1 .. n - k : t[i] = s[k + i]
    BY <1>2, <2>1
  <2>4. Passed(s, k - 1) = Product(u) /\ Passed(s, k) = Product(t)
    BY DEF Passed
  <2> HIDE DEF u, t
  <2>5. Len(u) = Len(t) + 1
    BY <1>1, <2>1, <2>2, <2>3
  <2>6. \A i \in 1 .. Len(t) : u[i + 1] = t[i]
    <3> TAKE i \in 1 .. Len(t)
    <3>1. i \in 1 .. n - k /\ i + 1 \in 1 .. n - (k - 1) /\ (k - 1) + (i + 1) = k + i
      BY <1>1, <2>1, <2>3
    <3> QED
      BY <2>2, <2>3, <3>1
  <2>7. u[1] = s[k]
    <3>1. 1 \in 1 .. n - (k - 1) /\ (k - 1) + 1 = k
      BY <1>1
    <3> QED
      BY <2>2, <3>1
  <2>8. Product(u) = u[1] * Product(t)
    BY <2>2, <2>3, <2>5, <2>6, ProductOfRest
  <2>9. RowMajor(s)[k] = Passed(s, k)
    <3>1. k \in DOMAIN s
      OBVIOUS
    <3> QED
      BY <3>1 DEF RowMajor, Passed
  <2> QED
    BY <2>4, <2>7, <2>8, <2>9
<1> QED
  BY <1>2, <1>4, <1>5, <1>6

(***************************************************************************)
(* Dividing by a product is dividing by its factors.                       *)
(***************************************************************************)
LEMMA DividedTwice ==
  ASSUME NEW e \in Nat, NEW s \in Nat \ {0}, NEW p \in Nat \ {0}
  PROVE  e \div p \in Nat /\ e \div (s * p) = (e \div p) \div s /\ (e \div p) \div s \in Nat /\ (e \div p) % s \in 0 .. s - 1
         /\ e \div p = s * ((e \div p) \div s) + ((e \div p) % s)
<1> DEFINE q == e \div p
           r == e % p
<1>1. q \in Nat /\ r \in 0 .. p - 1 /\ e = p * q + r
  OBVIOUS
<1> HIDE DEF q, r
<1> DEFINE a == q \div s
           b == q % s
<1>2. a \in Nat /\ b \in 0 .. s - 1 /\ q = s * a + b
  BY <1>1
<1> HIDE DEF a, b
<1> DEFINE d == s * p
           m == p * b + r
<1>3. d \in Nat \ {0}
  OBVIOUS
<1>4. p * b \in Nat /\ p * (s - 1) \in Nat /\ p * b <= p * (s - 1)
  BY <1>2, ProductsGrow
<1>5. p * (s - 1) = d - p
  OBVIOUS
<1>6. m \in 0 .. d - 1
  <2> DEFINE x == p * b
             y == p * (s - 1)
  <2>1. x \in Nat /\ y \in Nat /\ x <= y /\ y = d - p
    BY <1>4, <1>5
  <2>2. m = x + r
    OBVIOUS
  <2> HIDE DEF x, y, d, m
  <2> QED
    BY <1>1, <1>3, <2>1, <2>2
<1>7. e = a * d + m
  <2>1. p * (s * a + b) = a * (s * p) + p * b
    BY <1>2
  <2>2. e = p * (s * a + b) + r
    BY <1>1, <1>2
  <2>3. a * (s * p) \in Nat
    BY <1>2, <1>3
  <2> DEFINE x == a * (s * p)
             y == p * b
             z == p * (s * a + b)
  <2> HIDE DEF x, y, z
  <2>4. z = x + y /\ e = z + r /\ x \in Nat /\ y \in Nat
    BY <1>4, <2>1, <2>2, <2>3 DEF x, y, z
  <2>5. e = x + (y + r)
    BY <1>1, <2>4
  <2> QED
    BY <2>5 DEF x, y
<1> HIDE DEF d, m
<1>8. e \div d = a
  BY <1>2, <1>3, <1>6, <1>7, Divided
<1> QED
  BY <1>1, <1>2, <1>8 DEF q, a, b, d

(***************************************************************************)
(* The strides of a dense tensor put each element in its own place: the    *)
(* digits of a number, weighed by what a step of their dimension passes,   *)
(* make up the number.                                                     *)
(***************************************************************************)
LEMMA ElementPlaceIs ==
  ASSUME NEW t, t.shape \in Seq(Nat), t.strides = RowMajor(t.shape), NEW e \in Nat, e < Product(t.shape)
  PROVE  ElementPlace(t, e) = e
<1> DEFINE s == t.shape
           n == Len(s)
           P(k) == Passed(s, k)
           digits == [k \in DOMAIN s |-> ((e \div RowMajor(s)[k]) % s[k]) * t.strides[k]]
           S == Sums(digits)
<1>1. n \in Nat /\ DOMAIN s = 1 .. n
  OBVIOUS
<1>2. ElementPlace(t, e) = Total(digits)
  BY DEF ElementPlace
<1>3. /\ P(0) = Product(s) /\ P(n) = 1
      /\ \A k \in 0 .. n : P(k) \in Nat
      /\ \A k \in 1 .. n : s[k] \in Nat /\ P(k - 1) = s[k] * P(k) /\ RowMajor(s)[k] = P(k)
  BY PassedAre
<1>4. t.strides = RowMajor(s) /\ e < Product(s)
  OBVIOUS
<1> HIDE DEF s, n, P
<1> DEFINE Q == { k \in Nat : k <= n => P(k) > 0 }
<1>5. 0 \in Q
  BY <1>1, <1>3, <1>4
<1>6. ASSUME NEW k \in Nat, k \in Q
      PROVE  k + 1 \in Q
  <2> SUFFICES ASSUME k + 1 <= n PROVE P(k + 1) > 0
    OBVIOUS
  <2> DEFINE a == P(k)
             b == P(k + 1)
             c == s[k + 1]
  <2>1. k \in 0 .. n /\ k + 1 \in 1 .. n /\ k + 1 \in 0 .. n /\ (k + 1) - 1 = k
    BY <1>1
  <2>2. a \in Nat /\ b \in Nat /\ c \in Nat /\ a = c * b /\ a > 0
    BY <1>1, <1>3, <1>6, <2>1
  <2> HIDE DEF a, b, c
  <2>3. b # 0
    <3> SUFFICES ASSUME b = 0 PROVE FALSE
      OBVIOUS
    <3>1. c * 0 = 0
      BY <2>2
    <3> QED
      BY <2>2, <3>1
  <2> QED
    BY <2>2, <2>3 DEF b
<1>7. \A k \in 0 .. n : P(k) \in Nat \ {0}
  <2>1. Nat \subseteq Q
    <3> HIDE DEF Q
    <3> QED
      BY <1>5, <1>6, InductionOnSet
  <2> QED
    BY <1>1, <1>3, <2>1
<1>8. \A k \in 1 .. n : s[k] \in Nat \ {0}
  <2> TAKE k \in 1 .. n
  <2> DEFINE a == P(k - 1)
             b == P(k)
             c == s[k]
  <2>1. k - 1 \in 0 .. n /\ k \in 0 .. n
    BY <1>1
  <2>2. a \in Nat \ {0} /\ b \in Nat /\ c \in Nat /\ a = c * b
    BY <1>3, <1>7, <2>1
  <2> HIDE DEF a, b, c
  <2>3. c # 0
    <3> SUFFICES ASSUME c = 0 PROVE FALSE
      OBVIOUS
    <3>1. 0 * b = 0
      BY <2>2
    <3> QED
      BY <2>2, <3>1
  <2> QED
    BY <2>2, <2>3 DEF c
<1>9. \A k \in 1 .. n : digits[k] \in Nat /\ digits[k] = ((e \div P(k)) % s[k]) * P(k)
  <2> TAKE k \in 1 .. n
  <2> DEFINE p == P(k)
             c == s[k]
  <2>1. k \in 0 .. n /\ k \in DOMAIN s
    BY <1>1
  <2>2. digits[k] = ((e \div p) % c) * p
    BY <1>3, <1>4, <2>1
  <2>3. p \in Nat \ {0} /\ c \in Nat \ {0}
    BY <1>7, <1>8, <2>1
  <2> HIDE DEF p, c
  <2>4. (e \div p) % c \in Nat
    BY <2>3, DividedTwice
  <2> DEFINE x == (e \div p) % c
  <2> HIDE DEF x
  <2>5. x * p \in Nat
    BY <2>3, <2>4 DEF x
  <2> QED
    BY <2>2, <2>5 DEF p, c, x
<1>10. digits \in Seq(Nat) /\ Len(digits) = n
  <2>1. DOMAIN digits = 1 .. n /\ digits = [k \in 1 .. n |-> digits[k]]
    BY <1>1
  <2> HIDE DEF digits
  <2>2. digits \in [1 .. n -> Nat]
    BY <1>9, <2>1
  <2> QED
    BY <1>1, <2>2, SequenceOf
<1> HIDE DEF digits
<1>11. /\ Total(digits) = S[n] /\ S[0] = 0
       /\ \A k \in 1 .. n : S[k] = S[k - 1] + digits[k]
  BY <1>10, SumsAre
<1> HIDE DEF S
<1> DEFINE R == { k \in Nat : k <= n => S[k] = (e \div P(k)) * P(k) }
<1>12. 0 \in R
  <2> DEFINE p == P(0)
  <2>1. p \in Nat /\ e < p
    BY <1>1, <1>3, <1>4
  <2> HIDE DEF p
  <2>2. e \div p = 0
    <3>1. 0 * p + e = e /\ p \in Nat \ {0} /\ e \in 0 .. p - 1
      BY <2>1
    <3>2. (0 * p + e) \div p = 0
      BY <3>1, Divided
    <3> QED
      BY <3>1, <3>2
  <2>3. 0 * p = 0
    BY <2>1
  <2> QED
    BY <1>11, <2>2, <2>3 DEF p
<1>13. ASSUME NEW k \in Nat, k \in R
       PROVE  k + 1 \in R
  <2> SUFFICES ASSUME k + 1 <= n PROVE S[k + 1] = (e \div P(k + 1)) * P(k + 1)
    OBVIOUS
  <2> DEFINE p == P(k + 1)
             c == s[k + 1]
             q == e \div p
             a == q \div c
             b == q % c
  <2>1. k \in 0 .. n /\ k + 1 \in 1 .. n /\ k + 1 \in 0 .. n /\ (k + 1) - 1 = k /\ k <= n
    BY <1>1
  <2>2. p \in Nat \ {0} /\ c \in Nat \ {0} /\ P(k) = c * p
    BY <1>3, <1>7, <1>8, <2>1
  <2>3. S[k + 1] = S[k] + digits[k + 1] /\ digits[k + 1] = b * p
    BY <1>9, <1>11, <2>1
  <2>4. S[k] = (e \div P(k)) * P(k)
    BY <1>13, <2>1
  <2> HIDE DEF p, c
  <2>5. q \in Nat /\ e \div (c * p) = a /\ a \in Nat /\ b \in 0 .. c - 1 /\ q = c * a + b
    BY <2>2, DividedTwice
  <2> HIDE DEF q, a, b
  <2>6. S[k + 1] = a * (c * p) + b * p
    BY <2>2, <2>3, <2>4, <2>5
  <2>7. a * (c * p) + b * p = (c * a + b) * p
    BY <2>2, <2>5
  <2> QED
    BY <2>5, <2>6, <2>7 DEF p, q
<1>14. n \in R
  <2> HIDE DEF R
  <2> QED
    BY <1>1, <1>12, <1>13, InductionOnSet
<1>15. S[n] = (e \div 1) * 1
  BY <1>1, <1>3, <1>14
<1> QED
  BY <1>2, <1>11, <1>15

-----------------------------------------------------------------------------
(* What the consumer finds.                                                *)

(***************************************************************************)
(* The batch dimension comes before those of an item.                      *)
(***************************************************************************)
LEMMA BatchedLayout ==
  ASSUME NEW ls \in Seq(AnyLayout), NEW n \in Nat, NEW k \in 1 .. Len(ls)
  PROVE  /\ WithBatch(ls, n)[k].dt = ls[k].dt
         /\ Len(ls[k].shape) \in Nat /\ Len(WithBatch(ls, n)[k].shape) = Len(ls[k].shape) + 1
         /\ WithBatch(ls, n)[k].shape[1] = n
         /\ \A j \in 1 .. Len(ls[k].shape) : WithBatch(ls, n)[k].shape[j + 1] = ls[k].shape[j]
         /\ \A j \in 1 .. Len(ls[k].strides) : WithBatch(ls, n)[k].strides[j + 1] = ls[k].strides[j]
<1> DEFINE l == ls[k]
           b == WithBatch(ls, n)[k]
<1>1. l \in AnyLayout /\ l.shape \in Seq(Nat) /\ l.strides \in Seq(Nat) /\ Product(l.shape) \in Nat
  <2>1. l \in AnyLayout
    OBVIOUS
  <2>2. l.shape \in Seq(Nat) /\ l.strides \in Seq(Nat)
    BY <2>1 DEF AnyLayout
  <2> HIDE DEF l
  <2> QED
    BY <2>1, <2>2, ProductsAre
<1>2. b = [l EXCEPT !.shape = << n >> \o l.shape, !.strides = << Product(l.shape) >> \o l.strides]
  <2>1. WithBatch(ls, n) = [i \in 1 .. Len(ls) |-> AddBatchDimension(ls[i], n)]
    BY DEF WithBatch, Map
  <2>2. b = AddBatchDimension(l, n)
    BY <2>1
  <2> HIDE DEF b, l
  <2> QED
    BY <2>2 DEF AddBatchDimension
<1> HIDE DEF l
<1>3. b.dt = l.dt /\ b.shape = << n >> \o l.shape /\ b.strides = << Product(l.shape) >> \o l.strides
  BY <1>1, <1>2 DEF AnyLayout
<1> HIDE DEF b
<1> DEFINE s == l.shape
           r == l.strides
           p == Product(l.shape)
<1>4. s \in Seq(Nat) /\ r \in Seq(Nat) /\ p \in Nat /\ b.shape = << n >> \o s /\ b.strides = << p >> \o r
  BY <1>1, <1>3
<1> HIDE DEF s, r, p
<1>5. Len(<< n >> \o s) = Len(s) + 1 /\ (<< n >> \o s)[1] = n /\ Len(s) \in Nat
  BY <1>4
<1>6. \A j \in 1 .. Len(s) : (<< n >> \o s)[j + 1] = s[j]
  BY <1>4
<1>7. \A j \in 1 .. Len(r) : (<< p >> \o r)[j + 1] = r[j]
  BY <1>4
<1> QED
  BY <1>3, <1>4, <1>5, <1>6, <1>7 DEF s, r, b, l

\* The header k of a batch is in its place; the first says whether the slot is ready.
HeaderThere(m, at, bl, k, ready) ==
  \A i \in 0 .. 2 * Len(bl[k].shape) :
    m[PlaceOf(at, bl, k) + i] =
      IF k = 1 /\ i = 0 THEN Header(bl[1].dt, Len(bl[1].shape), ready) ELSE HeaderCells(bl[k])[i]

(***************************************************************************)
(* The headers of a batch are there one by one.                            *)
(***************************************************************************)
LEMMA HoldsHeadersIs ==
  ASSUME NEW m, NEW at \in Nat, NEW ls \in Seq(AnyLayout), NEW n \in Nat, NEW ready
  PROVE  HoldsHeaders(m, at, ls, n, ready) <=> \A k \in 1 .. Len(ls) : HeaderThere(m, at, WithBatch(ls, n), k, ready)
<1>1. DOMAIN WithBatch(ls, n) = 1 .. Len(ls)
  BY WithBatchIs
<1> QED
  BY <1>1 DEF HoldsHeaders, HeaderThere, PlaceOf

\* What the consumer reads of a header is what the layout of the tensor says.
HeaderReads(h, l, n, next) ==
  h.dt = l.dt /\ h.batch = n /\ h.shape = l.shape /\ h.strides = l.strides /\ h.next = next

(***************************************************************************)
(* The consumer finds in a header the layout that the producer wrote, and  *)
(* after it the place of the next.                                         *)
(***************************************************************************)
LEMMA HeaderRead ==
  ASSUME NEW m, NEW at \in Nat, NEW ls \in Seq(AnyLayout), NEW n \in Nat, NEW k \in 1 .. Len(ls), NEW ready,
         RowMajorLayouts(ls), HeaderThere(m, at, WithBatch(ls, n), k, ready)
  PROVE  HeaderReads(ParseHeader(m, PlaceOf(at, WithBatch(ls, n), k)), ls[k], n, PlaceOf(at, WithBatch(ls, n), k + 1))
<1> DEFINE bl == WithBatch(ls, n)
           b == bl[k]
           l == ls[k]
           d == Len(l.shape)
           p == PlaceOf(at, bl, k)
           h == ParseHeader(m, p)
<1>1. /\ b.dt = l.dt /\ d \in Nat /\ Len(b.shape) = d + 1 /\ b.shape[1] = n
      /\ \A j \in 1 .. d : b.shape[j + 1] = l.shape[j]
      /\ \A j \in 1 .. Len(l.strides) : b.strides[j + 1] = l.strides[j]
  BY BatchedLayout
<1>2. l \in AnyLayout /\ l.shape \in Seq(Nat) /\ l.dt \in DOMAIN DtypeCells /\ l.strides = RowMajor(l.shape)
  <2>1. l \in AnyLayout
    OBVIOUS
  <2>2. l.shape \in Seq(Nat) /\ l.dt \in DOMAIN DtypeCells
    BY <2>1 DEF AnyLayout
  <2>3. k \in DOMAIN ls
    OBVIOUS
  <2> QED
    BY <2>1, <2>2, <2>3 DEF RowMajorLayouts
<1>3. l.strides \in Seq(Nat) /\ Len(l.strides) = d
  BY <1>2, RowMajorTyped
<1>4. p \in Nat /\ PlaceOf(at, bl, k + 1) = p + BlockSize(d + 1)
  <2>1. bl \in Seq(AnyLayout) /\ Len(bl) = Len(ls) /\ k \in 1 .. Len(bl)
    BY WithBatchIs
  <2> HIDE DEF bl
  <2>2. p \in Nat /\ PlaceOf(at, bl, k + 1) = p + BlockSize(Len(bl[k].shape))
    BY <2>1, HeadersNext
  <2> QED
    BY <1>1, <2>2
<1>5. \A i \in 0 .. 2 * (d + 1) :
        m[p + i] = IF k = 1 /\ i = 0 THEN Header(bl[1].dt, Len(bl[1].shape), ready) ELSE HeaderCells(b)[i]
  BY <1>1 DEF HeaderThere
<1>6. HeaderCells(b) = [i \in 0 .. 2 * (d + 1) |->
                          IF i = 0 THEN Header(b.dt, d + 1, 0)
                          ELSE IF i <= d + 1 THEN Dimension(b.shape[i]) ELSE Dimension(b.strides[i - (d + 1)])]
  BY <1>1 DEF HeaderCells
<1> HIDE DEF p
<1>7. Dtypes[Says(m[p], 1)] = l.dt /\ Says(m[p], 2) = d + 1
  <2>1. p + 0 = p /\ 0 \in 0 .. 2 * (d + 1)
    BY <1>1, <1>4
  <2>2. \E q : m[p] = Header(l.dt, d + 1, q)
    <3>1. CASE k = 1
      <4>1. m[p] = Header(bl[1].dt, Len(bl[1].shape), ready)
        BY <1>5, <2>1, <3>1
      <4>2. bl[1].dt = l.dt /\ Len(bl[1].shape) = d + 1
        BY <1>1, <3>1
      <4> QED
        BY <4>1, <4>2
    <3>2. CASE k # 1
      <4>1. m[p] = HeaderCells(b)[0]
        BY <1>5, <2>1, <3>2
      <4>2. HeaderCells(b)[0] = Header(b.dt, d + 1, 0)
        BY <1>6, <2>1
      <4>3. m[p] = Header(l.dt, d + 1, 0)
        BY <1>1, <4>1, <4>2
      <4> QED
        BY <4>3
    <3> QED
      BY <3>1, <3>2
  <2>3. PICK q : m[p] = Header(l.dt, d + 1, q)
    BY <2>2
  <2> QED
    BY <1>2, <2>3, HeaderSays
<1>8. \A i \in 1 .. 2 * (d + 1) : m[p + i] = IF i <= d + 1 THEN Dimension(b.shape[i]) ELSE Dimension(b.strides[i - (d + 1)])
  <2> TAKE i \in 1 .. 2 * (d + 1)
  <2>1. i \in 0 .. 2 * (d + 1) /\ i # 0
    BY <1>1
  <2>2. m[p + i] = HeaderCells(b)[i]
    BY <1>5, <2>1
  <2> QED
    BY <1>6, <2>1, <2>2
<1> HIDE DEF bl, b, l, d
<1>9. Says(m[p + 1], 1) = n
  <2>1. 1 \in 1 .. 2 * (d + 1) /\ 1 <= d + 1
    BY <1>1 DEF d
  <2>2. m[p + 1] = Dimension(n)
    BY <1>1, <1>8, <2>1 DEF d
  <2> QED
    BY <2>2, DimensionSays
<1>10. ASSUME NEW j \in 1 .. d
       PROVE  Says(m[p + 1 + j], 1) = l.shape[j] /\ Says(m[p + 1 + (d + 1) + j], 1) = l.strides[j]
  <2>0. d \in Nat
    BY <1>1 DEF d
  <2>1. /\ j + 1 \in 1 .. 2 * (d + 1) /\ j + 1 <= d + 1 /\ p + (j + 1) = p + 1 + j
    BY <1>4, <2>0
  <2>2. /\ (d + 1) + (j + 1) \in 1 .. 2 * (d + 1) /\ ~ ((d + 1) + (j + 1) <= d + 1)
        /\ p + ((d + 1) + (j + 1)) = p + 1 + (d + 1) + j /\ ((d + 1) + (j + 1)) - (d + 1) = j + 1
    BY <1>4, <2>0
  <2>3. m[p + 1 + j] = Dimension(b.shape[j + 1])
    BY <1>8, <2>1
  <2>4. m[p + 1 + (d + 1) + j] = Dimension(b.strides[j + 1])
    BY <1>8, <2>2
  <2>5. b.shape[j + 1] = l.shape[j]
    BY <1>1 DEF d
  <2>6. b.strides[j + 1] = l.strides[j]
    BY <1>1, <1>3 DEF d
  <2> QED
    BY <2>3, <2>4, <2>5, <2>6, DimensionSays
<1>11. (d + 1) - 1 = d /\ d \in Nat
  BY <1>1 DEF d
<1>12. /\ h.dt = Dtypes[Says(m[p], 1)] /\ h.batch = Says(m[p + 1], 1)
       /\ h.shape = [j \in 1 .. d |-> Says(m[p + 1 + j], 1)]
       /\ h.strides = [j \in 1 .. d |-> Says(m[p + 1 + (d + 1) + j], 1)]
       /\ h.next = p + BlockSize(d + 1)
  BY <1>7, <1>11 DEF ParseHeader
<1>13. h.shape = l.shape
  <2>1. l.shape = [j \in 1 .. d |-> l.shape[j]]
    BY <1>2 DEF d
  <2>2. h.shape = [j \in 1 .. d |-> l.shape[j]]
    BY <1>10, <1>12
  <2> QED
    BY <2>1, <2>2
<1>14. h.strides = l.strides
  <2>1. l.strides = [j \in 1 .. d |-> l.strides[j]]
    BY <1>3 DEF d
  <2>2. h.strides = [j \in 1 .. d |-> l.strides[j]]
    BY <1>10, <1>12
  <2> QED
    BY <2>1, <2>2
<1>15. HeaderReads(h, l, n, PlaceOf(at, bl, k + 1))
  BY <1>4, <1>7, <1>9, <1>12, <1>13, <1>14 DEF HeaderReads, d
<1> QED
  BY <1>15 DEF bl, l, p

(***************************************************************************)
(* The consumer goes from header to header as the producer did.            *)
(***************************************************************************)
LEMMA HeadersRead ==
  ASSUME NEW m, NEW at \in Nat, NEW ls \in Seq(AnyLayout), NEW n \in Nat, NEW ready,
         RowMajorLayouts(ls), HoldsHeaders(m, at, ls, n, ready)
  PROVE  /\ ParseHeaders(m, at, Len(ls)) = [k \in 1 .. Len(ls) |-> ParseHeaders(m, at, Len(ls))[k]]
         /\ \A k \in 1 .. Len(ls) :
              HeaderReads(ParseHeaders(m, at, Len(ls))[k], ls[k], n, PlaceOf(at, WithBatch(ls, n), k + 1))
<1> DEFINE N == Len(ls)
           bl == WithBatch(ls, n)
           P(k) == PlaceOf(at, bl, k)
           H(k) == ParseHeader(m, P(k))
           Body(f) == [k \in 1 .. N |-> ParseHeader(m, IF k = 1 THEN at ELSE f[k - 1].next)]
           g == CHOOSE f : f = Body(f)
           h == [k \in 1 .. N |-> H(k)]
<1>1. N \in Nat
  OBVIOUS
<1>2. ParseHeaders(m, at, N) = [k \in 1 .. N |-> g[k]]
  BY DEF ParseHeaders
<1>3. P(1) = at
  <2>1. bl \in Seq(AnyLayout)
    BY WithBatchIs
  <2> QED
    BY <2>1, HeadersNext
<1>4. \A k \in 1 .. N : HeaderReads(H(k), ls[k], n, P(k + 1))
  <2> TAKE k \in 1 .. N
  <2>1. HeaderThere(m, at, bl, k, ready)
    BY HoldsHeadersIs
  <2> QED
    BY <2>1, HeaderRead
<1>5. \A k \in 1 .. N : H(k).next = P(k + 1)
  BY <1>4 DEF HeaderReads
<1> HIDE DEF H, P, N
<1>6. h = Body(h)
  <2>1. ASSUME NEW k \in 1 .. N
        PROVE  h[k] = Body(h)[k]
    <3>1. h[k] = H(k) /\ Body(h)[k] = ParseHeader(m, IF k = 1 THEN at ELSE h[k - 1].next)
      OBVIOUS
    <3>2. CASE k = 1
      BY <1>3, <3>1, <3>2 DEF H
    <3>3. CASE k # 1
      <4>1. k - 1 \in 1 .. N /\ (k - 1) + 1 = k
        BY <1>1, <3>3
      <4>2. h[k - 1].next = P(k)
        BY <1>5, <4>1
      <4> QED
        BY <3>1, <3>3, <4>2 DEF H
    <3> QED
      BY <3>2, <3>3
  <2> QED
    BY <2>1
<1>7. g = Body(g)
  BY <1>6
<1> HIDE DEF g
<1> DEFINE T == { k \in Nat : k \in 1 .. N => g[k] = H(k) }
<1>8. 0 \in T
  OBVIOUS
<1>9. ASSUME NEW k \in Nat, k \in T
      PROVE  k + 1 \in T
  <2> SUFFICES ASSUME k + 1 \in 1 .. N PROVE g[k + 1] = H(k + 1)
    OBVIOUS
  <2>1. g[k + 1] = ParseHeader(m, IF k + 1 = 1 THEN at ELSE g[(k + 1) - 1].next)
    BY <1>7
  <2>2. CASE k = 0
    <3>1. k + 1 = 1
      BY <2>2
    <3> QED
      BY <1>3, <2>1, <3>1 DEF H
  <2>3. CASE k # 0
    <3>1. k \in 1 .. N /\ (k + 1) - 1 = k /\ k + 1 # 1
      BY <1>1, <2>3
    <3>2. g[k].next = P(k + 1)
      BY <1>5, <1>9, <3>1
    <3> QED
      BY <2>1, <3>1, <3>2 DEF H
  <2> QED
    BY <2>2, <2>3
<1>10. \A k \in 1 .. N : g[k] = H(k)
  <2>1. Nat \subseteq T
    <3> HIDE DEF T
    <3> QED
      BY <1>8, <1>9, InductionOnSet
  <2> QED
    BY <1>1, <2>1
<1> DEFINE q == ParseHeaders(m, at, N)
<1>11. q = [k \in 1 .. N |-> g[k]]
  BY <1>2
<1> HIDE DEF q
<1>12. q = [k \in 1 .. N |-> q[k]] /\ \A k \in 1 .. N : q[k] = H(k)
  BY <1>10, <1>11
<1>13. \A k \in 1 .. N : HeaderReads(q[k], ls[k], n, P(k + 1))
  BY <1>4, <1>12
<1> QED
  BY <1>12, <1>13 DEF q, N, P

(***************************************************************************)
(* The first elements of a sequence.                                       *)
(***************************************************************************)
LEMMA FirstIs ==
  ASSUME NEW S, NEW s \in Seq(S), NEW k \in 1 .. Len(s)
  PROVE  DOMAIN First(s, k - 1) = 1 .. k - 1 /\ \A i \in 1 .. k - 1 : First(s, k - 1)[i] = s[i]
BY DEF First

(***************************************************************************)
(* Layouts whose tensors take the same cells make items of the same size.  *)
(***************************************************************************)
LEMMA SameParts ==
  ASSUME NEW ls \in Seq(AnyLayout), NEW hs, hs = [k \in 1 .. Len(ls) |-> hs[k]],
         \A k \in 1 .. Len(ls) : AlignedBytes(hs[k]) = AlignedBytes(ls[k])
  PROVE  /\ ItemSize(hs) = ItemSize(ls)
         /\ \A k \in 1 .. Len(ls) : ItemSize(First(hs, k - 1)) = PartAt(ls, k)
<1> DEFINE N == Len(ls)
<1>1. N \in Nat /\ DOMAIN ls = 1 .. N /\ DOMAIN hs = 1 .. N
  OBVIOUS
<1>2. ItemSize(hs) = ItemSize(ls)
  <2>1. ItemSize(hs) = Total([k \in DOMAIN hs |-> AlignedBytes(hs[k])])
    BY DEF ItemSize, Map
  <2>2. ItemSize(ls) = Total([k \in DOMAIN ls |-> AlignedBytes(ls[k])])
    BY DEF ItemSize, Map
  <2>3. [k \in DOMAIN hs |-> AlignedBytes(hs[k])] = [k \in DOMAIN ls |-> AlignedBytes(ls[k])]
    BY <1>1
  <2> QED
    BY <2>1, <2>2, <2>3
<1>3. ASSUME NEW k \in 1 .. N
      PROVE  ItemSize(First(hs, k - 1)) = PartAt(ls, k)
  <2> DEFINE a == First(hs, k - 1)
             b == First(ls, k - 1)
  <2>0. hs \in Seq({ hs[j] : j \in 1 .. N }) /\ k \in 1 .. Len(hs)
    <3>1. hs \in [1 .. N -> { hs[j] : j \in 1 .. N }]
      BY <1>1
    <3> HIDE DEF N
    <3> QED
      BY <1>1, <3>1, SequenceOf
  <2>1. DOMAIN a = 1 .. k - 1 /\ \A i \in 1 .. k - 1 : a[i] = hs[i]
    BY <2>0, FirstIs
  <2>2. DOMAIN b = 1 .. k - 1 /\ \A i \in 1 .. k - 1 : b[i] = ls[i]
    BY FirstIs
  <2> HIDE DEF a, b
  <2>3. ItemSize(a) = Total([i \in DOMAIN a |-> AlignedBytes(a[i])])
    BY DEF ItemSize, Map
  <2>4. ItemSize(b) = Total([i \in DOMAIN b |-> AlignedBytes(b[i])])
    BY DEF ItemSize, Map
  <2>5. \A i \in 1 .. k - 1 : AlignedBytes(a[i]) = AlignedBytes(b[i])
    <3> TAKE i \in 1 .. k - 1
    <3>1. i \in 1 .. N
      BY <1>1
    <3> QED
      BY <2>1, <2>2, <3>1
  <2>6. [i \in DOMAIN a |-> AlignedBytes(a[i])] = [i \in DOMAIN b |-> AlignedBytes(b[i])]
    BY <2>1, <2>2, <2>5
  <2> QED
    BY <2>3, <2>4, <2>6 DEF a, b, PartAt
<1> QED
  BY <1>2, <1>3

\* What _parse_slot finds at a place is what the items there show.
SlotReads(m, at, ls, n, p) ==
  LET tensors == ParseSlot(m, at, Len(ls))
  IN  \A k \in DOMAIN tensors :
        /\ Len(tensors[k].items) = n
        /\ \A b \in 1 .. n : Shows(tensors[k], b, p[b][k])

(***************************************************************************)
(* _parse_slot finds in the slot the tensors of each item, cell for cell,  *)
(* where the items were written.                                           *)
(***************************************************************************)
THEOREM SlotRead ==
  ASSUME NEW m, NEW at \in Nat, NEW ls \in Seq(AnyLayout), ls # << >>, NEW n \in Nat, NEW ready,
         RowMajorLayouts(ls), HoldsHeaders(m, at, ls, n, ready),
         NEW p, \A b \in 1 .. n : ShowsItem(m, ItemAt(at, ls, n, b), ls, p[b])
  PROVE  SlotReads(m, at, ls, n, p)
<1> DEFINE N == Len(ls)
           bl == WithBatch(ls, n)
           hs == ParseHeaders(m, at, N)
           from == at + HeaderSize(bl)
           sz == ItemSize(ls)
<1>1. N \in Nat \ {0} /\ DOMAIN ls = 1 .. N
  OBVIOUS
<1>2. /\ hs = [k \in 1 .. N |-> hs[k]]
      /\ \A k \in 1 .. N : HeaderReads(hs[k], ls[k], n, PlaceOf(at, bl, k + 1))
  BY HeadersRead
<1>3. PlaceOf(at, bl, N + 1) = from /\ HeaderSize(bl) \in Nat /\ from \in Nat
  <2>1. bl \in Seq(AnyLayout) /\ Len(bl) = N
    BY WithBatchIs
  <2> HIDE DEF bl
  <2>2. PlaceOf(at, bl, N + 1) = from
    BY <2>1, HeadersNext
  <2>3. HeaderSize(bl) \in Nat
    BY <2>1, BlocksAre
  <2> QED
    BY <2>2, <2>3
<1> DEFINE w(k) == DtypeCells[ls[k].dt]
           cell(k, b, i) == m[hs[N].next + (b - 1) * ItemSize(hs) + ItemSize(First(hs, k - 1))
                              + ElementPlace(hs[k], i \div DtypeCells[hs[k].dt]) * DtypeCells[hs[k].dt] + (i % DtypeCells[hs[k].dt])]
           tensors == ParseSlot(m, at, N)
<1>4. tensors = [k \in 1 .. N |->
                   [ shape |-> hs[k].shape,
                     items |-> [b \in 1 .. hs[1].batch |-> [i \in 0 .. TotalBytes(hs[k]) - 1 |-> cell(k, b, i)]] ]]
  <2> HIDE DEF hs
  <2> QED
    BY DEF ParseSlot, hs
<1> HIDE DEF hs, bl, tensors, from
<1>5. \A k \in 1 .. N : hs[k].shape = ls[k].shape /\ hs[k].dt = ls[k].dt /\ hs[k].strides = ls[k].strides /\ hs[k].batch = n
  BY <1>2 DEF HeaderReads
<1>6. hs[N].next = from /\ hs[1].batch = n
  <2>1. N \in 1 .. N /\ 1 \in 1 .. N
    BY <1>1
  <2>2. HeaderReads(hs[N], ls[N], n, PlaceOf(at, bl, N + 1))
    BY <1>2, <2>1
  <2> QED
    BY <1>3, <1>5, <2>1, <2>2 DEF HeaderReads
<1>7. \A k \in 1 .. N : TotalBytes(hs[k]) = TotalBytes(ls[k]) /\ AlignedBytes(hs[k]) = AlignedBytes(ls[k])
  BY <1>5 DEF TotalBytes, TotalElements, AlignedBytes
<1>8. ItemSize(hs) = sz /\ \A k \in 1 .. N : ItemSize(First(hs, k - 1)) = PartAt(ls, k)
  BY <1>2, <1>7, SameParts
<1>9. ASSUME NEW k \in 1 .. N, NEW b \in 1 .. n, NEW i \in 0 .. TotalBytes(ls[k]) - 1
      PROVE  cell(k, b, i) = m[ItemAt(at, ls, n, b) + PartAt(ls, k) + i]
  <2> DEFINE d == DtypeCells[ls[k].dt]
             s == ls[k].shape
             e == i \div d
             r == i % d
             h == hs[k]
  <2>1. ls[k] \in AnyLayout
    OBVIOUS
  <2>2. s \in Seq(Nat) /\ ls[k].dt \in DOMAIN DtypeCells /\ d \in Nat \ {0}
    BY <2>1, LayoutAssumption DEF AnyLayout
  <2>3. h.shape = s /\ h.dt = ls[k].dt /\ h.strides = RowMajor(s)
    BY <1>1, <1>5 DEF RowMajorLayouts
  <2>4. TotalBytes(ls[k]) = Product(s) * d /\ Product(s) \in Nat
    BY <2>2, ProductsAre DEF TotalBytes, TotalElements
  <2>5. i \in Nat /\ i < Product(s) * d
    BY <2>2, <2>4
  <2> HIDE DEF d, s, h
  <2>6. e \in Nat /\ r \in 0 .. d - 1 /\ i = d * e + r
    <3>1. i \in Nat /\ d \in Nat \ {0}
      BY <2>2, <2>5
    <3> QED
      BY <3>1
  <2> HIDE DEF e, r
  <2>7. e < Product(s)
    <3> DEFINE p0 == Product(s)
    <3>1. p0 \in Nat /\ i < p0 * d
      BY <2>4, <2>5
    <3> HIDE DEF p0
    <3> SUFFICES ASSUME p0 <= e PROVE FALSE
      BY <2>6, <3>1 DEF p0
    <3>2. p0 * d <= e * d
      BY <2>2, <2>6, <3>1, ProductsGrow
    <3>3. e * d = d * e /\ e * d \in Nat /\ p0 * d \in Nat
      BY <2>2, <2>6, <3>1
    <3> DEFINE x == p0 * d
               y == d * e
    <3>4. x <= y /\ i < x /\ i = y + r /\ x \in Nat /\ y \in Nat
      BY <2>6, <3>1, <3>2, <3>3
    <3> HIDE DEF x, y
    <3> QED
      BY <2>5, <2>6, <3>4
  <2>8. ElementPlace(h, e) = e
    BY <2>2, <2>3, <2>6, <2>7, ElementPlaceIs
  <2> DEFINE part == PartAt(ls, k)
             go == (b - 1) * sz
  <2>9. cell(k, b, i) = m[from + go + part + e * d + r]
    BY <1>6, <1>8, <2>3, <2>8 DEF h, e, r, d
  <2>10. ItemAt(at, ls, n, b) = from + go
    BY DEF ItemAt, from, bl
  <2>11. part \in Nat /\ go \in Nat
    <3>1. First(ls, k - 1) \in Seq(AnyLayout)
      BY DEF First
    <3>2. part \in Nat
      BY <3>1, ItemSizeTyped DEF PartAt
    <3>3. sz \in Nat /\ b - 1 \in Nat
      BY ItemSizeTyped
    <3> HIDE DEF part, sz
    <3>4. go \in Nat
      BY <3>3
    <3> QED
      BY <3>2, <3>4
  <2>12. e * d = d * e /\ e * d \in Nat
    BY <2>2, <2>6
  <2> DEFINE y == e * d
  <2> HIDE DEF part, go, y
  <2>13. from + go + part + y + r = from + go + part + i
    BY <1>3, <2>6, <2>11, <2>12 DEF y
  <2> QED
    BY <2>9, <2>10, <2>13 DEF part, y
<1> HIDE DEF cell
<1>10. ASSUME NEW k \in 1 .. N, NEW b \in 1 .. n
       PROVE  /\ tensors[k].items = [c \in 1 .. n |-> tensors[k].items[c]]
              /\ tensors[k].items[b] = [i \in 0 .. TotalBytes(ls[k]) - 1 |-> m[ItemAt(at, ls, n, b) + PartAt(ls, k) + i]]
  <2> DEFINE items == [c \in 1 .. n |-> [i \in 0 .. TotalBytes(ls[k]) - 1 |-> cell(k, c, i)]]
  <2>1. tensors[k].items = items
    BY <1>4, <1>6, <1>7
  <2>2. items[b] = [i \in 0 .. TotalBytes(ls[k]) - 1 |-> cell(k, b, i)]
    OBVIOUS
  <2>3. items[b] = [i \in 0 .. TotalBytes(ls[k]) - 1 |-> m[ItemAt(at, ls, n, b) + PartAt(ls, k) + i]]
    BY <1>9, <2>2
  <2>4. items = [c \in 1 .. n |-> items[c]]
    OBVIOUS
  <2> HIDE DEF items
  <2> QED
    BY <2>1, <2>3, <2>4
<1>11. \A k \in 1 .. N : tensors[k].shape = ls[k].shape /\ DOMAIN tensors[k].items = 1 .. n
  BY <1>4, <1>5, <1>6
<1>12. DOMAIN tensors = 1 .. N
  BY <1>4
<1>13. ASSUME NEW k \in 1 .. N
       PROVE  Len(tensors[k].items) = n /\ \A b \in 1 .. n : Shows(tensors[k], b, p[b][k])
  <2>1. ASSUME NEW b \in 1 .. n
        PROVE  Shows(tensors[k], b, p[b][k])
    <3> DEFINE cells == [i \in 0 .. TotalBytes(ls[k]) - 1 |-> m[ItemAt(at, ls, n, b) + PartAt(ls, k) + i]]
    <3>1. tensors[k].items[b] = cells
      BY <1>10
    <3>2. ShowsTensor(cells, ls[k].shape, p[b][k])
      BY <1>1 DEF ShowsItem
    <3>3. tensors[k].shape = ls[k].shape
      BY <1>11
    <3> HIDE DEF cells
    <3> QED
      BY <3>1, <3>2, <3>3 DEF Shows, ShowsTensor
  <2>2. Len(tensors[k].items) = n
    <3> DEFINE x == tensors[k].items
    <3>1. x = [c \in 1 .. n |-> x[c]]
      <4>1. CASE n = 0
        <5>1. x = [b \in 1 .. n |-> [i \in 0 .. TotalBytes(hs[k]) - 1 |-> cell(k, b, i)]]
          BY <1>4, <1>6
        <5> QED
          BY <5>1
      <4>2. CASE n # 0
        <5>1. 1 \in 1 .. n
          BY <4>2
        <5> QED
          BY <1>10, <5>1
      <4> QED
        BY <4>1, <4>2
    <3> HIDE DEF x
    <3>2. x \in [1 .. n -> { x[c] : c \in 1 .. n }]
      BY <3>1
    <3>3. Len(x) = n
      BY <3>2, SequenceOf
    <3> QED
      BY <3>3 DEF x
  <2> QED
    BY <2>1, <2>2
<1>14. \A k \in DOMAIN tensors : Len(tensors[k].items) = n /\ \A b \in 1 .. n : Shows(tensors[k], b, p[b][k])
  BY <1>12, <1>13
<1> QED
  BY <1>14 DEF SlotReads, tensors

-----------------------------------------------------------------------------
(* What a step leaves alone.                                               *)

(***************************************************************************)
(* An item shows what it shows wherever its cells are.                     *)
(***************************************************************************)
LEMMA ItemMoved ==
  ASSUME NEW ls \in Seq(AnyLayout), NEW m, NEW at \in Nat, NEW p, ShowsItem(m, at, ls, p),
         NEW m2, NEW at2 \in Nat, \A i \in 0 .. ItemSize(ls) - 1 : m2[at2 + i] = m[at + i]
  PROVE  ShowsItem(m2, at2, ls, p)
<1>1. Len(p) = Len(ls)
  BY DEF ShowsItem
<1>2. ASSUME NEW k \in DOMAIN ls
      PROVE  TensorShows(m2, at2, ls, k, p[k])
  <2> DEFINE part == PartAt(ls, k)
             n == TotalBytes(ls[k])
             z == ItemSize(ls)
  <2>1. part \in Nat /\ n \in Nat /\ z \in Nat /\ part + n <= z
    <3>0. k \in 1 .. Len(ls)
      OBVIOUS
    <3>1. /\ part \in Nat /\ AlignedBytes(ls[k]) \in Nat /\ n \in Nat /\ z \in Nat
          /\ n <= AlignedBytes(ls[k]) /\ part + AlignedBytes(ls[k]) <= z
      BY <3>0, PartsAre
    <3> HIDE DEF part, n, z
    <3> QED
      BY <3>1
  <2>2. \A i \in 0 .. z - 1 : m2[at2 + i] = m[at + i]
    OBVIOUS
  <2>3. \A i \in 0 .. n - 1 : m2[at2 + part + i] = m[at + part + i]
    <3> HIDE DEF part, n, z
    <3> TAKE i \in 0 .. n - 1
    <3>1. part + i \in 0 .. z - 1 /\ at2 + (part + i) = at2 + part + i /\ at + (part + i) = at + part + i
      BY <2>1
    <3> QED
      BY <2>2, <3>1
  <2>4. TensorShows(m, at, ls, k, p[k])
    BY DEF ShowsItem, TensorShows
  <2> QED
    BY <2>3, <2>4, TensorStays
<1> QED
  BY <1>1, <1>2 DEF ShowsItem, TensorShows

\* Nothing changes between two places.
Keeps(m, m2, from, to) == \A i \in Int : from <= i /\ i < to => m2[i] = m[i]

(***************************************************************************)
(* Headers are in their place as long as nothing changes there.            *)
(***************************************************************************)
LEMMA HeadersKept ==
  ASSUME NEW m, NEW at \in Nat, NEW ls \in Seq(AnyLayout), NEW n \in Nat, NEW ready, HoldsHeaders(m, at, ls, n, ready),
         NEW m2, Keeps(m, m2, at, at + HeaderSize(WithBatch(ls, n)))
  PROVE  HoldsHeaders(m2, at, ls, n, ready)
<1> DEFINE bl == WithBatch(ls, n)
<1>1. bl \in Seq(AnyLayout) /\ Len(bl) = Len(ls)
  BY WithBatchIs
<1>2. ASSUME NEW k \in 1 .. Len(ls)
      PROVE  HeaderThere(m2, at, bl, k, ready)
  <2> DEFINE p == PlaceOf(at, bl, k)
             d == 2 * Len(bl[k].shape)
             end == at + HeaderSize(bl)
  <2>1. HeaderThere(m, at, bl, k, ready)
    BY HoldsHeadersIs
  <2>2. Keeps(m, m2, at, end)
    OBVIOUS
  <2> HIDE DEF bl
  <2>3. p \in Nat /\ at <= p /\ d \in Nat /\ p + d < end /\ end \in Nat
    <3>1. HeaderSize(bl) \in Nat /\ PlaceOf(at, bl, k) \in Nat /\ at <= PlaceOf(at, bl, k)
          /\ Len(bl[k].shape) \in Nat /\ PlaceOf(at, bl, k) + 1 + 2 * Len(bl[k].shape) <= at + HeaderSize(bl)
      BY <1>1, HeaderPlaces
    <3> DEFINE x == HeaderSize(bl)
               y == Len(bl[k].shape)
    <3>2. x \in Nat /\ p \in Nat /\ at <= p /\ y \in Nat /\ p + 1 + 2 * y <= at + x /\ d = 2 * y /\ end = at + x
      BY <3>1
    <3> HIDE DEF x, y, p, d, end
    <3> QED
      BY <3>2
  <2>4. \A i \in 0 .. d : m2[p + i] = m[p + i]
    <3> HIDE DEF p, d, end
    <3> TAKE i \in 0 .. d
    <3>1. p + i \in Int /\ at <= p + i /\ p + i < end
      BY <2>3
    <3> QED
      BY <2>2, <3>1 DEF Keeps
  <2> QED
    BY <2>1, <2>4 DEF HeaderThere
<1> QED
  BY <1>2, HoldsHeadersIs

(***************************************************************************)
(* The items of a batch follow its headers, one after the other.           *)
(***************************************************************************)
LEMMA ItemPlaces ==
  ASSUME NEW at \in Nat, NEW ls \in Seq(AnyLayout), NEW n \in Nat, NEW b \in 1 .. n
  PROVE  /\ HeaderSize(WithBatch(ls, n)) \in Nat /\ ItemSize(ls) \in Nat /\ ItemAt(at, ls, n, b) \in Nat
         /\ at + HeaderSize(WithBatch(ls, n)) <= ItemAt(at, ls, n, b)
         /\ ItemAt(at, ls, n, b) + ItemSize(ls) <= at + HeaderSize(WithBatch(ls, n)) + n * ItemSize(ls)
         /\ \A c \in 1 .. n : b < c => ItemAt(at, ls, n, b) + ItemSize(ls) <= ItemAt(at, ls, n, c)
<1> DEFINE h == HeaderSize(WithBatch(ls, n))
           z == ItemSize(ls)
<1>1. h \in Nat /\ z \in Nat
  BY WithBatchIs, BlocksAre, ItemSizeTyped
<1>2. \A c \in 1 .. n : ItemAt(at, ls, n, c) = at + h + (c - 1) * z
  BY DEF ItemAt
<1> HIDE DEF h, z
<1> DEFINE x == (b - 1) * z
           y == n * z
<1>3. x \in Nat /\ y \in Nat
  BY <1>1
<1>4. x + z <= y
  <2>1. b * z <= n * z
    BY <1>1, ProductsGrow
  <2>2. b * z = (b - 1) * z + z
    BY <1>1
  <2> QED
    BY <2>1, <2>2
<1>5. ASSUME NEW c \in 1 .. n, b < c
      PROVE  ItemAt(at, ls, n, b) + z <= ItemAt(at, ls, n, c)
  <2> DEFINE v == (c - 1) * z
  <2>1. v \in Nat /\ b * z \in Nat
    BY <1>1
  <2>2. b * z <= v
    <3>1. c - 1 \in Nat /\ b <= c - 1
      BY <1>5
    <3> QED
      BY <1>1, <3>1, ProductsGrow
  <2>3. b * z = x + z
    BY <1>1
  <2> HIDE DEF x, v
  <2>4. x + z <= v
    BY <2>2, <2>3
  <2>5. ItemAt(at, ls, n, b) = at + h + x /\ ItemAt(at, ls, n, c) = at + h + v
    BY <1>2 DEF x, v
  <2> QED
    BY <1>1, <1>3, <2>1, <2>4, <2>5
<1> HIDE DEF x, y
<1>6. ItemAt(at, ls, n, b) = at + h + x
  BY <1>2 DEF x
<1>7. /\ ItemAt(at, ls, n, b) \in Nat /\ at + h <= ItemAt(at, ls, n, b)
      /\ ItemAt(at, ls, n, b) + z <= at + h + y
  BY <1>1, <1>3, <1>4, <1>6
<1> QED
  BY <1>1, <1>5, <1>7 DEF h, z, y

(***************************************************************************)
(* So do they as long as nothing changes in their chunk.                   *)
(***************************************************************************)
LEMMA ItemKept ==
  ASSUME NEW m, NEW at \in Nat, NEW ls \in Seq(AnyLayout), NEW p, ShowsItem(m, at, ls, p),
         NEW m2, Keeps(m, m2, at, at + ItemSize(ls))
  PROVE  ShowsItem(m2, at, ls, p)
<1>1. ItemSize(ls) \in Nat
  BY ItemSizeTyped
<1>2. \A i \in 0 .. ItemSize(ls) - 1 : m2[at + i] = m[at + i]
  <2> DEFINE z == ItemSize(ls)
  <2>1. Keeps(m, m2, at, at + z) /\ z \in Nat
    BY <1>1
  <2> HIDE DEF z
  <2>2. \A i \in 0 .. z - 1 : m2[at + i] = m[at + i]
    <3> TAKE i \in 0 .. z - 1
    <3>1. at + i \in Int /\ at <= at + i /\ at + i < at + z
      BY <2>1
    <3> QED
      BY <2>1, <3>1 DEF Keeps
  <2> QED
    BY <2>2 DEF z
<1> QED
  BY <1>2, ItemMoved

(***************************************************************************)
(* A slot shows what it shows as long as nothing changes in it.            *)
(***************************************************************************)
LEMMA SlotKept ==
  ASSUME NEW m, NEW at \in Nat, NEW sz \in Nat \ {0}, NEW p, IsSequence(p), ReadyShows(Seq(AnyLayout), m, at, sz, p),
         NEW m2, Keeps(m, m2, at, at + sz)
  PROVE  ReadyShows(Seq(AnyLayout), m2, at, sz, p)
<1> SUFFICES ASSUME p # << >>, IsReady(m2, at), p[1] # << >>
             PROVE  \E ls \in Seq(AnyLayout) :
                      /\ RowMajorLayouts(ls)
                      /\ HeaderSize(WithBatch(ls, Len(p))) + Len(p) * ItemSize(ls) <= sz
                      /\ HoldsHeaders(m2, at, ls, Len(p), 1)
                      /\ HoldsItems(m2, at, ls, Len(p), 1 .. Len(p), p)
  BY DEF ReadyShows
<1>1. IsReady(m, at)
  <2>1. at <= at /\ at < at + sz
    OBVIOUS
  <2>2. m2[at] = m[at]
    BY <2>1 DEF Keeps
  <2> QED
    BY <2>2 DEF IsReady
<1>2. PICK ls \in Seq(AnyLayout) :
             /\ RowMajorLayouts(ls)
             /\ HeaderSize(WithBatch(ls, Len(p))) + Len(p) * ItemSize(ls) <= sz
             /\ HoldsHeaders(m, at, ls, Len(p), 1)
             /\ HoldsItems(m, at, ls, Len(p), 1 .. Len(p), p)
  BY <1>1 DEF ReadyShows
<1> DEFINE n == Len(p)
           h == HeaderSize(WithBatch(ls, n))
           z == ItemSize(ls)
           y == n * z
<1>3. n \in Nat
  BY DEF IsSequence
<1>4. h \in Nat /\ z \in Nat /\ h + y <= sz
  <2>1. h \in Nat /\ z \in Nat
    BY <1>3, WithBatchIs, BlocksAre, ItemSizeTyped
  <2> QED
    BY <1>2, <2>1
<1> HIDE DEF n
<1>5. y \in Nat
  BY <1>3, <1>4
<1> HIDE DEF h, z, y
<1>6. HoldsHeaders(m2, at, ls, n, 1)
  <2>1. Keeps(m, m2, at, at + h)
    <3>1. at + h <= at + sz
      BY <1>4, <1>5
    <3> QED
      BY <1>4, <3>1 DEF Keeps
  <2>2. HoldsHeaders(m, at, ls, n, 1)
    BY <1>2 DEF n
  <2> QED
    BY <1>3, <2>1, <2>2, HeadersKept DEF h
<1>7. ASSUME NEW b \in 1 .. n
      PROVE  ShowsItem(m2, ItemAt(at, ls, n, b), ls, p[b])
  <2> DEFINE from == ItemAt(at, ls, n, b)
  <2>1. from \in Nat /\ at + h <= from /\ from + z <= at + h + y
    BY <1>3, ItemPlaces DEF h, z, y
  <2>2. ShowsItem(m, from, ls, p[b])
    BY <1>2 DEF HoldsItems, n
  <2> HIDE DEF from
  <2>3. at <= from /\ from + z <= at + sz
    BY <1>4, <1>5, <2>1
  <2>4. Keeps(m, m2, from, from + z)
    BY <1>4, <2>1, <2>3 DEF Keeps
  <2>5. ShowsItem(m2, from, ls, p[b])
    BY <2>1, <2>2, <2>4, ItemKept DEF z
  <2> QED
    BY <2>5 DEF from
<1> QED
  BY <1>2, <1>6, <1>7 DEF HoldsItems, n

-----------------------------------------------------------------------------
(* The slots.                                                              *)

\* What is in the slots, whatever layouts the batches had.
SlotsShow == SlotsInv(Seq(AnyLayout))

(***************************************************************************)
(* What is in the slots is what the consumer sees.                         *)
(***************************************************************************)
LEMMA SlotsAreSeen ==
  ASSUME BatchInv, SlotsShow
  PROVE  ReadersSeeItems
<1> SUFFICES ASSUME NEW s \in Published
             PROVE  LET tensors == ParseSlot(memory, SlotOffset(s, slotSize), Len(promised[s][1]))
                    IN  \A k \in DOMAIN tensors :
                          /\ Len(tensors[k].items) = Len(promised[s])
                          /\ \A b \in DOMAIN promised[s] : Shows(tensors[k], b, promised[s][b][k])
  BY DEF ReadersSeeItems
<1> DEFINE at == SlotOffset(s, slotSize)
           p == promised[s]
           n == Len(p)
<1>1. s \in Slots /\ p # << >> /\ IsReady(memory, at)
  BY DEF Published
<1>2. IsSequence(p) /\ ReadyShows(Seq(AnyLayout), memory, at, slotSize, p)
  BY <1>1 DEF SlotsShow, SlotsInv
<1>3. at \in Nat
  <2>1. s \in Nat /\ slotSize \in Nat
    BY <1>1, PlacesAre, LayoutAssumption DEF Slots
  <2> QED
    BY <2>1 DEF SlotOffset
<1> HIDE DEF at, p
<1>4. n \in Nat /\ DOMAIN p = 1 .. n
  BY <1>2 DEF IsSequence
<1>5. CASE Len(p[1]) = 0
  <2>1. DOMAIN ParseSlot(memory, at, 0) = 1 .. 0
    BY DEF ParseSlot
  <2>2. 1 .. 0 = {}
    OBVIOUS
  <2> QED
    BY <1>5, <2>1, <2>2 DEF at, p
<1>6. CASE Len(p[1]) # 0
  <2>1. p[1] # << >>
    BY <1>6
  <2>2. PICK ls \in Seq(AnyLayout) :
               /\ RowMajorLayouts(ls)
               /\ HoldsHeaders(memory, at, ls, n, 1)
               /\ HoldsItems(memory, at, ls, n, 1 .. n, p)
    BY <1>1, <1>2, <2>1 DEF ReadyShows
  <2>3. n # 0
    <3> SUFFICES ASSUME n = 0 PROVE FALSE
      OBVIOUS
    <3> QED
      BY <1>1, <1>2 DEF IsSequence
  <2> HIDE DEF n
  <2>4. Len(p[1]) = Len(ls)
    <3>1. 1 \in 1 .. n
      BY <1>4, <2>3
    <3> QED
      BY <2>2, <3>1 DEF HoldsItems, ShowsItem
  <2>5. ls # << >>
    BY <1>6, <2>4
  <2>6. \A b \in 1 .. n : ShowsItem(memory, ItemAt(at, ls, n, b), ls, p[b])
    BY <2>2 DEF HoldsItems
  <2>7. n \in Nat
    BY <1>4
  <2>8. SlotReads(memory, at, ls, n, p)
    BY <1>3, <2>2, <2>5, <2>6, <2>7, SlotRead
  <2>9. \A k \in DOMAIN ParseSlot(memory, at, Len(p[1])) :
          /\ Len(ParseSlot(memory, at, Len(p[1]))[k].items) = n
          /\ \A b \in DOMAIN p : Shows(ParseSlot(memory, at, Len(p[1]))[k], b, p[b][k])
    BY <1>4, <2>4, <2>8 DEF SlotReads
  <2> QED
    BY <2>9 DEF at, p, n
<1> QED
  BY <1>5, <1>6

(***************************************************************************)
(* Slots are apart, and in the memory.                                     *)
(***************************************************************************)
LEMMA SlotsApart ==
  ASSUME NEW z \in Nat, NEW s \in Slots, NEW t \in Slots, s < t
  PROVE  SlotOffset(s, z) \in Nat /\ SlotOffset(t, z) \in Nat /\ SlotOffset(s, z) + z <= SlotOffset(t, z)
<1>1. s \in Nat /\ t \in Nat /\ s + 1 <= t
  BY LayoutAssumption DEF Slots
<1>2. (s + 1) * z <= t * z
  BY <1>1, ProductsGrow
<1>3. (s + 1) * z = s * z + z /\ s * z \in Nat /\ t * z \in Nat
  BY <1>1
<1> QED
  BY <1>2, <1>3 DEF SlotOffset

(***************************************************************************)
(* A slot ends in the memory.                                              *)
(***************************************************************************)
LEMMA SlotInMemory ==
  ASSUME NEW z \in Nat, NEW s \in Slots
  PROVE  SlotOffset(s, z) \in Nat /\ SlotOffset(s, z) + z <= z * NSlots /\ z * NSlots \in Nat
<1>1. s \in Nat /\ NSlots \in Nat /\ s + 1 <= NSlots
  BY LayoutAssumption DEF Slots
<1>2. (s + 1) * z <= NSlots * z
  BY <1>1, ProductsGrow
<1>3. (s + 1) * z = s * z + z /\ s * z \in Nat /\ NSlots * z = z * NSlots /\ z * NSlots \in Nat
  BY <1>1
<1> QED
  BY <1>2, <1>3 DEF SlotOffset

(***************************************************************************)
(* A step inside the slot of the batch keeps what the others show.         *)
(***************************************************************************)
LEMMA OthersKept ==
  ASSUME BatchInv, BatchFits, SlotsShow, BatchNext, state # "new", slotSize > 0, slotSize' = slotSize,
         NEW s \in Slots, s # slot, promised'[s] = promised[s]
  PROVE  IsSequence(promised'[s]) /\ ReadyShows(Seq(AnyLayout), memory', SlotOffset(s, slotSize'), slotSize', promised'[s])
<1> DEFINE z == slotSize
           from == SlotOffset(s, z)
           at == SlotOffset(slot, z)
           p == promised[s]
<1>1. z \in Nat \ {0} /\ slot \in Slots
  BY PlacesAre, InvariantSays
<1>2. IsSequence(p) /\ ReadyShows(Seq(AnyLayout), memory, from, z, p)
  BY DEF SlotsShow, SlotsInv
<1>3. DOMAIN memory = 0 .. z * NSlots - 1
  BY MemoryHas
<1>4. \A i \in DOMAIN memory : memory'[i] # memory[i] => at <= i /\ i < at + z
  <2>1. StaysInSlot
    BY FittingStep
  <2>2. SlotOffset(slot + 1, z) = at + z
    BY SlotEnds
  <2> QED
    BY <2>1, <2>2 DEF StaysInSlot
<1>5. from \in Nat /\ from + z <= z * NSlots /\ z * NSlots \in Nat
  BY <1>1, SlotInMemory
<1>6. at \in Nat /\ (from + z <= at \/ at + z <= from)
  <2>1. s \in Int /\ slot \in Int
    BY <1>1, LayoutAssumption DEF Slots
  <2>2. CASE s < slot
    BY <1>1, <2>2, SlotsApart
  <2>3. CASE slot < s
    BY <1>1, <2>3, SlotsApart
  <2> QED
    BY <2>1, <2>2, <2>3
<1>7. Keeps(memory, memory', from, from + z)
  <2> HIDE DEF z, from, at
  <2> SUFFICES ASSUME NEW i \in Int, from <= i, i < from + z
               PROVE  memory'[i] = memory[i]
    BY DEF Keeps
  <2>1. i \in 0 .. z * NSlots - 1
    <3> DEFINE y == z * NSlots
    <3>1. from \in Nat /\ from + z <= y /\ y \in Nat /\ z \in Nat
      BY <1>1, <1>5
    <3> HIDE DEF y
    <3>2. i \in 0 .. y - 1
      BY <3>1
    <3> QED
      BY <3>2 DEF y
  <2>2. ~ (at <= i /\ i < at + z)
    BY <1>1, <1>5, <1>6
  <2> QED
    BY <1>3, <1>4, <2>1, <2>2
<1> DEFINE m2 == memory'
<1> HIDE DEF m2
<1>8. Keeps(memory, m2, from, from + z)
  BY <1>7 DEF m2
<1> HIDE DEF from, z, p
<1>9. from \in Nat
  BY <1>5
<1>10. ReadyShows(Seq(AnyLayout), m2, from, z, p)
  BY <1>1, <1>2, <1>8, <1>9, SlotKept
<1> QED
  BY <1>2, <1>10 DEF from, z, p, m2

(***************************************************************************)
(* Steps that do not touch the memory and the batch change nothing.        *)
(***************************************************************************)
LEMMA SlotsStay ==
  ASSUME SlotsShow, UNCHANGED << memory, promised, layouts, batch, slot, slotSize >>,
         toWrite' # {} => toWrite # {},
         state' = "writing" => state = "writing" /\ toWrite' = toWrite
  PROVE  SlotsShow'
<1>1. /\ DOMAIN promised' = Slots
      /\ \A s \in Slots : IsSequence(promised'[s]) /\ ReadyShows(Seq(AnyLayout), memory', SlotOffset(s, slotSize'), slotSize', promised'[s])
  BY DEF SlotsShow, SlotsInv
<1>2. ASSUME toWrite' # {} \/ state' = "writing" PROVE WritingShows'
  <2>1. WritingShows
    BY <1>2 DEF SlotsShow, SlotsInv
  <2> QED
    BY <2>1 DEF WritingShows
<1> QED
  BY <1>1, <1>2 DEF SlotsShow, SlotsInv

-----------------------------------------------------------------------------
(* The actions.                                                            *)

(***************************************************************************)
(* prepare_batch_metadata does not begin with layouts that are not dense.  *)
(***************************************************************************)
LEMMA DenseLayouts ==
  ASSUME BatchInv, OriginInv, Readable(data), layouts # << >>, \A k \in DOMAIN layouts : CanAddBatch(layouts[k])
  PROVE  RowMajorLayouts(layouts)
<1>1. layouts \in Seq(AnyLayout) /\ (data.kind # "custom" => ImageAndLabel(layouts))
  BY DEF BatchInv, ChosenInv
<1>2. CASE data.kind # "custom"
  <2>1. DOMAIN layouts = 1 .. 2 /\ layouts[1].strides = RowMajor(layouts[1].shape) /\ layouts[2].strides = RowMajor(layouts[2].shape)
    BY <1>1, <1>2 DEF ImageAndLabel
  <2>2. \A k \in 1 .. 2 : k = 1 \/ k = 2
    OBVIOUS
  <2> QED
    BY <2>1, <2>2 DEF RowMajorLayouts
<1>3. CASE data.kind = "custom"
  <2>1. batch # << >>
    BY BatchAssumption DEF BatchInv, SizedInv
  <2>2. layouts = data.layouts
    BY <1>3, <2>1 DEF OriginInv
  <2> QED
    BY <1>3, <2>2 DEF Readable
<1> QED
  BY <1>2, <1>3

\* The state of a batch whose writing begins or goes on.
WritesOn == toWrite' # {} \/ state' = "writing"

(***************************************************************************)
(* What prepare_batch_metadata does, if writing begins.                    *)
(***************************************************************************)
LEMMA PrepareBegins ==
  ASSUME BatchInv, Prepare
  PROVE  /\ UNCHANGED << data, slotSize, batch, layouts, slot >> /\ toWrite = {} /\ state = "prepare" /\ slotSize > 0
         /\ \/ UNCHANGED << memory, promised >> /\ toWrite' = {} /\ state' = "failed"
            \/ /\ memory' = WriteHeaders(memory, SlotOffset(slot, slotSize), BatchHeaders).out
               /\ promised' = [promised EXCEPT ![slot] = [k \in DOMAIN batch |-> << >>]]
         /\ WritesOn =>
              /\ \A k \in DOMAIN layouts : CanAddBatch(layouts[k])
              /\ WriteHeaders(memory, SlotOffset(slot, slotSize), BatchHeaders).err = "none"
              /\ DataSize > 0 /\ toWrite' = DOMAIN batch
<1> DEFINE w == WriteHeaders(memory, SlotOffset(slot, slotSize), BatchHeaders)
           dense == ~(\E k \in DOMAIN layouts : ~CanAddBatch(layouts[k]))
<1>1. /\ UNCHANGED << data, slotSize, batch, layouts, slot >> /\ state = "prepare" /\ toWrite = {} /\ slotSize > 0
  BY InvariantSays DEF Prepare, sourceVars, Live
<1>2. CASE ~dense
  BY <1>1, <1>2 DEF Prepare, End, WritesOn
<1>3. CASE dense
  <2>1. /\ memory' = w.out
        /\ promised' = [promised EXCEPT ![slot] = [k \in DOMAIN batch |-> << >>]]
    BY <1>3 DEF Prepare
  <2>2. DataSize = 0 \/ DataSize > 0
    BY PlacesAre
  <2>3. WritesOn => w.err = "none" /\ DataSize > 0 /\ toWrite' = DOMAIN batch
    <3>1. CASE w.err # "none"
      <4>1. End("failed", w.err) /\ UNCHANGED toWrite
        BY <1>3, <3>1 DEF Prepare
      <4> QED
        BY <1>1, <4>1 DEF End, WritesOn
    <3>2. CASE w.err = "none" /\ DataSize = 0
      <4>1. End("failed", "InvalidShape") /\ UNCHANGED toWrite
        BY <1>3, <3>2 DEF Prepare
      <4> QED
        BY <1>1, <4>1 DEF End, WritesOn
    <3>3. CASE w.err = "none" /\ DataSize > 0
      <4>1. IF SliceFits(memory, DataAt, DataSize)
              THEN End("writing", "none") /\ toWrite' = DOMAIN batch
              ELSE End("failed", "BufferOverflow") /\ UNCHANGED toWrite
        BY <1>3, <3>3 DEF Prepare
      <4> QED
        BY <1>1, <3>3, <4>1 DEF End, WritesOn
    <3> QED
      BY <2>2, <3>1, <3>2, <3>3
  <2> QED
    BY <1>1, <1>3, <2>1, <2>3
<1> QED
  BY <1>2, <1>3

(***************************************************************************)
(* prepare_batch_metadata takes the slot's batch away and leaves the       *)
(* others alone; the headers it has written are not ready.                 *)
(***************************************************************************)
LEMMA PrepareShows ==
  ASSUME BatchInv, OriginInv, Readable(data), BatchFits, SlotsShow, Prepare
  PROVE  SlotsShow'
<1> DEFINE at == SlotOffset(slot, slotSize)
           w == WriteHeaders(memory, at, BatchHeaders)
           none == [k \in DOMAIN batch |-> << >>]
           n == Len(batch)
<1>1. /\ UNCHANGED << data, slotSize, batch, layouts, slot >> /\ toWrite = {} /\ state = "prepare" /\ slotSize > 0
      /\ \/ UNCHANGED << memory, promised >> /\ toWrite' = {} /\ state' = "failed"
         \/ memory' = w.out /\ promised' = [promised EXCEPT ![slot] = none]
      /\ WritesOn =>
           /\ \A k \in DOMAIN layouts : CanAddBatch(layouts[k])
           /\ w.err = "none" /\ DataSize > 0 /\ toWrite' = DOMAIN batch
  BY PrepareBegins
<1> HIDE DEF w
<1>2. CASE UNCHANGED << memory, promised >> /\ toWrite' = {} /\ state' = "failed"
  BY <1>1, <1>2, SlotsStay
<1>3. CASE memory' = w.out /\ promised' = [promised EXCEPT ![slot] = none]
  <2>1. slot \in Slots /\ DOMAIN promised = Slots /\ batch \in Seq(Nat)
    BY InvariantSays DEF SlotsShow, SlotsInv, BatchInv, ChosenInv
  <2>2. /\ DOMAIN promised' = Slots /\ promised'[slot] = none
        /\ \A s \in Slots : s # slot => promised'[s] = promised[s]
    BY <1>3, <2>1
  <2>3. DOMAIN batch = 1 .. n /\ n \in Nat
    BY <2>1
  <2> HIDE DEF n
  <2>4. none = [k \in 1 .. n |-> << >>]
    BY <2>3
  <2>5. IsSequence(none)
    <3>1. none \in [1 .. n -> { none[k] : k \in 1 .. n }]
      BY <2>4
    <3>2. DOMAIN none = 1 .. n
      BY <2>4
    <3> HIDE DEF none
    <3> QED
      BY <2>3, <3>1, <3>2, SequenceOf DEF IsSequence
  <2>6. ReadyShows(Seq(AnyLayout), memory', SlotOffset(slot, slotSize'), slotSize', none)
    <3>1. none # << >> => none[1] = << >>
      <4> SUFFICES ASSUME none # << >> PROVE none[1] = << >>
        OBVIOUS
      <4>1. n # 0
        <5> SUFFICES ASSUME n = 0 PROVE FALSE
          OBVIOUS
        <5>1. 1 .. n = {}
          OBVIOUS
        <5> QED
          BY <2>4, <5>1
      <4>2. 1 \in 1 .. n
        BY <2>3, <4>1
      <4> QED
        BY <2>4, <4>2
    <3> QED
      BY <3>1 DEF ReadyShows
  <2>7. BatchNext
    BY DEF BatchNext
  <2>8. ASSUME NEW s \in Slots
        PROVE  IsSequence(promised'[s]) /\ ReadyShows(Seq(AnyLayout), memory', SlotOffset(s, slotSize'), slotSize', promised'[s])
    <3>1. CASE s = slot
      BY <2>2, <2>5, <2>6, <3>1
    <3>2. CASE s # slot
      BY <1>1, <2>2, <2>7, <3>2, OthersKept
    <3> QED
      BY <3>1, <3>2
  <2>9. ASSUME WritesOn PROVE WritingShows'
    <3>1. /\ \A k \in DOMAIN layouts : CanAddBatch(layouts[k])
          /\ w.err = "none" /\ DataSize > 0 /\ toWrite' = DOMAIN batch
      BY <1>1, <2>9
    <3>2. layouts # << >> /\ layouts \in Seq(AnyLayout)
      <4>1. layouts \in Seq(AnyLayout)
        BY DEF BatchInv, ChosenInv
      <4>2. layouts = << >> => DataSize = 0
        <5> SUFFICES ASSUME layouts = << >> PROVE DataSize = 0
          OBVIOUS
        <5>1. DataSize = 0 * n /\ n \in Nat
          BY <2>3, NoLayouts DEF DataSize, n
        <5> QED
          BY <5>1
      <4> QED
        BY <3>1, <4>1, <4>2
    <3>3. RowMajorLayouts(layouts)
      BY <3>1, <3>2, DenseLayouts
    <3>4. HoldsHeaders(memory', at, layouts, n, 0)
      <4> DEFINE c == slotSize * NSlots
                 bl == WithBatch(layouts, n)
      <4>1. DOMAIN memory = 0 .. c - 1 /\ c \in Nat /\ at \in Nat
        BY MemoryHas, PlacesAre, LayoutAssumption
      <4>2. BatchHeaders = bl /\ bl \in Seq(AnyLayout) /\ Len(bl) = Len(layouts)
        BY <2>3, <3>2, WithBatchIs DEF BatchHeaders, n
      <4> HIDE DEF c, at, bl
      <4>3. HeadersIn(w, c, at, bl, Len(bl))
        BY <4>1, <4>2, HeadersThere DEF w
      <4>4. \A k \in 1 .. Len(bl) : \A i \in 0 .. 2 * Len(bl[k].shape) : w.out[PlaceOf(at, bl, k) + i] = HeaderCells(bl[k])[i]
        BY <3>1, <4>3 DEF HeadersIn
      <4>5. ASSUME NEW k \in 1 .. Len(layouts)
            PROVE  HeaderThere(w.out, at, bl, k, 0)
        <5>1. HeaderCells(bl[k])[0] = Header(bl[k].dt, Len(bl[k].shape), 0)
          <6>1. bl[k].shape \in Seq(Nat)
            BY <4>2, LayoutOf
          <6>2. 0 \in 0 .. 2 * Len(bl[k].shape)
            BY <6>1
          <6> QED
            BY <6>2 DEF HeaderCells
        <5>2. \A i \in 0 .. 2 * Len(bl[k].shape) : w.out[PlaceOf(at, bl, k) + i] = HeaderCells(bl[k])[i]
          BY <4>2, <4>4
        <5> QED
          BY <5>1, <5>2 DEF HeaderThere
      <4>6. HoldsHeaders(w.out, at, layouts, n, 0)
        BY <2>3, <3>2, <4>1, <4>5, HoldsHeadersIs DEF bl
      <4> QED
        BY <1>3, <4>6
    <3>5. DOMAIN batch \ toWrite' = {} /\ DOMAIN promised'[slot] = DOMAIN batch
      BY <2>2, <3>1
    <3>6. HoldsItems(memory', at, layouts, n, DOMAIN batch \ toWrite', promised'[slot])
      BY <3>5 DEF HoldsItems
    <3> HIDE DEF none
    <3> QED
      BY <1>1, <3>2, <3>3, <3>4, <3>5, <3>6 DEF WritingShows, at, n
  <2> HIDE DEF none
  <2> QED
    BY <2>2, <2>8, <2>9 DEF SlotsShow, SlotsInv, WritesOn
<1> QED
  BY <1>1, <1>2, <1>3

(***************************************************************************)
(* Making a slot ready changes its first header, and no more.              *)
(***************************************************************************)
LEMMA ReadyHeaders ==
  ASSUME NEW m, NEW at \in DOMAIN m, DOMAIN m \subseteq Int, at \in Nat, NEW ls \in Seq(AnyLayout), ls # << >>,
         NEW n \in Nat, HoldsHeaders(m, at, ls, n, 0), at + HeaderSize(WithBatch(ls, n)) - 1 \in DOMAIN m,
         \A i \in Int : at <= i /\ i < at + HeaderSize(WithBatch(ls, n)) => i \in DOMAIN m
  PROVE  /\ HoldsHeaders(SetSlotReady(m, at), at, ls, n, 1)
         /\ \A i \in DOMAIN m : i # at => SetSlotReady(m, at)[i] = m[i]
         /\ DOMAIN SetSlotReady(m, at) = DOMAIN m
<1> DEFINE bl == WithBatch(ls, n)
           m2 == SetSlotReady(m, at)
           end == at + HeaderSize(bl)
<1>1. bl \in Seq(AnyLayout) /\ Len(bl) = Len(ls) /\ 1 \in 1 .. Len(ls) /\ Len(ls) \in Nat
  BY WithBatchIs
<1>2. \A k \in 1 .. Len(ls) : HeaderThere(m, at, bl, k, 0)
  BY HoldsHeadersIs
<1>3. PlaceOf(at, bl, 1) = at
  BY <1>1, HeadersNext
<1>4. m[at] = Header(bl[1].dt, Len(bl[1].shape), 0)
  <2>1. 0 \in 0 .. 2 * Len(bl[1].shape) /\ at + 0 = at
    <3>1. Len(bl[1].shape) \in Nat
      BY <1>1, LayoutOf
    <3> QED
      BY <3>1
  <2>2. m[PlaceOf(at, bl, 1) + 0] = Header(bl[1].dt, Len(bl[1].shape), 0)
    BY <1>1, <1>2, <2>1 DEF HeaderThere
  <2> QED
    BY <1>3, <2>1, <2>2
<1>5. /\ DOMAIN m2 = DOMAIN m /\ m2[at] = Header(bl[1].dt, Len(bl[1].shape), 1)
      /\ \A i \in DOMAIN m : i # at => m2[i] = m[i]
  BY <1>4, ReadyHeader
<1>6. \A i \in Int : at <= i /\ i < end => i \in DOMAIN m
  OBVIOUS
<1> HIDE DEF bl, m2
<1>7. ASSUME NEW k \in 1 .. Len(ls)
      PROVE  HeaderThere(m2, at, bl, k, 1)
  <2> DEFINE p == PlaceOf(at, bl, k)
             d == Len(bl[k].shape)
  <2>0. k \in 1 .. Len(bl)
    BY <1>1
  <2>1. p \in Nat /\ at <= p /\ d \in Nat /\ p + 1 + 2 * d <= end /\ end \in Nat
    <3>1. /\ HeaderSize(bl) \in Nat /\ PlaceOf(at, bl, k) \in Nat /\ at <= PlaceOf(at, bl, k)
          /\ Len(bl[k].shape) \in Nat /\ PlaceOf(at, bl, k) + 1 + 2 * Len(bl[k].shape) <= at + HeaderSize(bl)
      BY <1>1, <2>0, HeaderPlaces
    <3>2. at + HeaderSize(bl) \in Nat
      BY <3>1
    <3> HIDE DEF p, d
    <3> QED
      BY <3>1, <3>2 DEF p, d
  <2>2. k # 1 => at < p
    <3> SUFFICES ASSUME k # 1 PROVE at < p
      OBVIOUS
    <3>1. 1 \in 1 .. Len(bl) /\ 1 < k
      BY <1>1
    <3>2. PlaceOf(at, bl, 1) + 2 * Len(bl[1].shape) < p
      BY <1>1, <2>0, <3>1, HeadersApart
    <3>3. Len(bl[1].shape) \in Nat
      BY <1>1, LayoutOf
    <3> DEFINE x == Len(bl[1].shape)
    <3> HIDE DEF p, x
    <3>4. at + 2 * x < p /\ x \in Nat /\ p \in Nat
      BY <1>3, <2>1, <3>2, <3>3 DEF x
    <3> QED
      BY <3>4
  <2>3. ASSUME NEW i \in 0 .. 2 * d
        PROVE  m2[p + i] = IF k = 1 /\ i = 0 THEN Header(bl[1].dt, Len(bl[1].shape), 1) ELSE HeaderCells(bl[k])[i]
    <3>1. m[p + i] = IF k = 1 /\ i = 0 THEN Header(bl[1].dt, Len(bl[1].shape), 0) ELSE HeaderCells(bl[k])[i]
      BY <1>2 DEF HeaderThere
    <3>2. CASE k = 1 /\ i = 0
      <4>1. p + i = at
        BY <1>3, <3>2
      <4> QED
        BY <1>5, <3>2, <4>1
    <3>3. CASE ~(k = 1 /\ i = 0)
      <4>1. p + i \in Int /\ at <= p + i /\ p + i < end /\ p + i # at
        <5>1. k # 1 \/ i # 0
          BY <3>3
        <5>2. k = 1 => p = at
          BY <1>3
        <5> HIDE DEF p, d, end
        <5> QED
          BY <2>1, <2>2, <5>1, <5>2
      <4>2. m2[p + i] = m[p + i]
        BY <1>5, <1>6, <4>1
      <4> QED
        BY <3>1, <3>3, <4>2
    <3> QED
      BY <3>2, <3>3
  <2> QED
    BY <2>3 DEF HeaderThere
<1>8. HoldsHeaders(m2, at, ls, n, 1)
  BY <1>7, HoldsHeadersIs DEF bl
<1> QED
  BY <1>5, <1>8 DEF m2

(***************************************************************************)
(* A slot that is made ready holds its batch.                              *)
(***************************************************************************)
LEMMA PublishShows ==
  ASSUME BatchInv, BatchFits, SlotsShow, Publish
  PROVE  SlotsShow'
<1> DEFINE at == SlotOffset(slot, slotSize)
           n == Len(batch)
           p == promised[slot]
           h == HeaderSize(WithBatch(layouts, n))
           z == ItemSize(layouts)
           c == slotSize * NSlots
           m2 == memory'
<1>1. /\ UNCHANGED << data, slotSize, batch, layouts, promised, toWrite >> /\ state = "writing" /\ toWrite = {} /\ state' = "idle"
      /\ memory' = SetSlotReady(memory, at)
  BY DEF Publish, sourceVars, End
<1>2. slotSize > 0 /\ slot \in Slots /\ batch \in Seq(Nat) /\ layouts \in Seq(AnyLayout)
  BY <1>1, InvariantSays DEF Live, BatchInv, ChosenInv
<1>3. n \in Nat /\ DOMAIN batch = 1 .. n
  BY <1>2
<1>4. /\ DOMAIN promised = Slots /\ IsSequence(p) /\ WritingShows
  BY <1>1, <1>2 DEF SlotsShow, SlotsInv
<1>5. /\ DOMAIN p = DOMAIN batch /\ layouts # << >> /\ RowMajorLayouts(layouts)
      /\ HoldsHeaders(memory, at, layouts, n, 0)
      /\ HoldsItems(memory, at, layouts, n, DOMAIN batch \ toWrite, p)
  BY <1>1, <1>4 DEF WritingShows
<1>6. Len(p) = n
  BY <1>3, <1>4, <1>5 DEF IsSequence
<1>7. at \in Nat /\ slotSize \in Nat /\ h \in Nat /\ z \in Nat /\ h + n * z <= slotSize
  <2>1. /\ at \in Nat /\ slotSize \in Nat /\ h \in Nat /\ z \in Nat
        /\ HeaderSize(BatchHeaders) = h /\ DataSize = z * n
    BY PlacesAre DEF BatchHeaders, DataSize
  <2>2. z * n = n * z
    BY <1>3, <2>1
  <2> QED
    BY <2>1, <2>2 DEF BatchFits
<1>8. DOMAIN memory = 0 .. c - 1 /\ at + slotSize <= c /\ c \in Nat
  BY <1>2, <1>7, MemoryHas, SlotInMemory
<1> HIDE DEF at, n, h, z, c, m2, p
<1>9. n * z \in Nat
  BY <1>3, <1>7
<1>10. h > 0
  <2> DEFINE bl == WithBatch(layouts, n)
  <2>1. bl \in Seq(AnyLayout) /\ Len(bl) = Len(layouts) /\ 1 \in 1 .. Len(bl)
    BY <1>2, <1>3, <1>5, WithBatchIs
  <2> HIDE DEF bl
  <2>2. /\ Len(bl[1].shape) \in Nat /\ PlaceOf(at, bl, 1) \in Nat
        /\ PlaceOf(at, bl, 1) + 1 + 2 * Len(bl[1].shape) <= at + HeaderSize(bl)
    BY <1>7, <2>1, HeaderPlaces
  <2>3. PlaceOf(at, bl, 1) = at
    BY <1>7, <2>1, HeadersNext
  <2> DEFINE x == Len(bl[1].shape)
  <2>4. x \in Nat /\ at + 1 + 2 * x <= at + h
    BY <2>2, <2>3 DEF h, bl
  <2> HIDE DEF x
  <2> QED
    BY <1>7, <2>4
<1>11. /\ HoldsHeaders(m2, at, layouts, n, 1)
       /\ \A i \in DOMAIN memory : i # at => m2[i] = memory[i]
  <2>1. at \in DOMAIN memory /\ DOMAIN memory \subseteq Int /\ at + h - 1 \in DOMAIN memory
    BY <1>2, <1>7, <1>8, <1>9, <1>10
  <2>2. \A i \in Int : at <= i /\ i < at + h => i \in DOMAIN memory
    BY <1>2, <1>7, <1>8, <1>9
  <2> QED
    BY <1>1, <1>2, <1>3, <1>5, <1>7, <2>1, <2>2, ReadyHeaders DEF m2, h
<1>12. ASSUME NEW b \in 1 .. n
       PROVE  ShowsItem(m2, ItemAt(at, layouts, n, b), layouts, p[b])
  <2> DEFINE from == ItemAt(at, layouts, n, b)
  <2>1. from \in Nat /\ at + h <= from /\ from + z <= at + h + n * z
    BY <1>2, <1>3, <1>7, ItemPlaces DEF h, z
  <2>2. ShowsItem(memory, from, layouts, p[b])
    BY <1>1, <1>3, <1>5 DEF HoldsItems
  <2> DEFINE y == n * z
  <2>3. y \in Nat /\ h + y <= slotSize /\ from + z <= at + h + y
    BY <1>7, <1>9, <2>1
  <2> HIDE DEF from, y
  <2>4. Keeps(memory, m2, from, from + z)
    <3> SUFFICES ASSUME NEW i \in Int, from <= i, i < from + z PROVE m2[i] = memory[i]
      BY DEF Keeps
    <3>1. i # at /\ i \in DOMAIN memory
      BY <1>2, <1>7, <1>8, <1>10, <2>1, <2>3
    <3> QED
      BY <1>11, <3>1
  <2>5. ShowsItem(m2, from, layouts, p[b])
    BY <1>2, <2>1, <2>2, <2>4, ItemKept DEF z
  <2> QED
    BY <2>5 DEF from
<1>13. ReadyShows(Seq(AnyLayout), m2, at, slotSize, p)
  <2>1. HeaderSize(WithBatch(layouts, n)) + n * ItemSize(layouts) <= slotSize
    BY <1>7 DEF h, z
  <2>2. HoldsItems(m2, at, layouts, n, 1 .. n, p)
    BY <1>12 DEF HoldsItems
  <2> QED
    BY <1>2, <1>5, <1>6, <1>11, <2>1, <2>2 DEF ReadyShows
<1>14. BatchNext
  BY DEF BatchNext
<1>15. ASSUME NEW s \in Slots
       PROVE  IsSequence(promised'[s]) /\ ReadyShows(Seq(AnyLayout), memory', SlotOffset(s, slotSize'), slotSize', promised'[s])
  <2>1. CASE s = slot
    BY <1>1, <1>4, <1>13, <2>1 DEF at, m2, p
  <2>2. CASE s # slot
    <3>1. state # "new" /\ slotSize' = slotSize /\ promised'[s] = promised[s]
      BY <1>1
    <3> QED
      BY <1>2, <1>14, <2>2, <3>1, OthersKept
  <2> QED
    BY <2>1, <2>2
<1>16. DOMAIN promised' = Slots /\ toWrite' = {} /\ state' # "writing"
  BY <1>1, <1>4
<1> QED
  BY <1>15, <1>16 DEF SlotsShow, SlotsInv

(***************************************************************************)
(* Nothing is promised before the first batch, and a batch that is chosen  *)
(* changes no slot.                                                        *)
(***************************************************************************)
LEMMA BuildShows ==
  ASSUME BatchInv, OriginInv, SlotsShow, Build
  PROVE  SlotsShow'
<1>1. state = "new" /\ promised' = promised /\ toWrite' = toWrite /\ state' \in {"failed", "built"}
  BY DEF Build, End
<1>2. toWrite = {}
  BY <1>1, InvariantSays
<1>3. DOMAIN promised = Slots /\ \A s \in Slots : promised[s] = << >> /\ IsSequence(promised[s])
  BY <1>1 DEF OriginInv, SlotsShow, SlotsInv
<1>4. \A s \in Slots : ReadyShows(Seq(AnyLayout), memory', SlotOffset(s, slotSize'), slotSize', promised'[s])
  BY <1>1, <1>3 DEF ReadyShows
<1> QED
  BY <1>1, <1>2, <1>3, <1>4 DEF SlotsShow, SlotsInv

(***************************************************************************)
(* A batch that is chosen changes no slot.                                 *)
(***************************************************************************)
LEMMA ChooseShows ==
  ASSUME BatchInv, SlotsShow, NEW items \in Batches, Choose(items)
  PROVE  SlotsShow'
<1>1. state = "idle" /\ state' = "prepare" /\ UNCHANGED << memory, promised, slotSize, toWrite >>
  BY DEF Choose
<1>2. toWrite = {}
  BY <1>1, InvariantSays
<1> QED
  BY <1>1, <1>2 DEF SlotsShow, SlotsInv

(***************************************************************************)
(* The chunk of an item is where the item belongs.                         *)
(***************************************************************************)
LEMMA ChunkIs ==
  ASSUME BatchInv, NEW k \in DOMAIN batch
  PROVE  ChunkAt(k) = ItemAt(SlotOffset(slot, slotSize), layouts, Len(batch), k)
BY DEF ChunkAt, DataAt, BatchHeaders, ItemAt

\* A chunk has been moved into the memory, and nothing else has changed.
MovedIn(m, m2, at, out, z) ==
  /\ \A i \in 0 .. z - 1 : m2[at + i] = out[i]
  /\ \A i \in DOMAIN m : i < at \/ at + z <= i => m2[i] = m[i]

(***************************************************************************)
(* What a chunk is given is in the memory.                                 *)
(***************************************************************************)
LEMMA ChunkMoved ==
  ASSUME NEW m, NEW c \in Nat, DOMAIN m = 0 .. c - 1, NEW at \in Nat, NEW z \in Nat, at + z <= c,
         NEW out, DOMAIN out = 0 .. z - 1
  PROVE  MovedIn(m, Overlay(m, MovedTo(at, out)), at, out, z)
<1> DEFINE moved == MovedTo(at, out)
           m2 == Overlay(m, moved)
<1>1. /\ DOMAIN moved = { at + i : i \in 0 .. z - 1 }
      /\ \A i \in { at + j : j \in 0 .. z - 1 } : moved[i] = out[i - at]
  BY DEF MovedTo
<1> HIDE DEF moved
<1>2. \A i \in 0 .. c - 1 : m2[i] = IF i \in DOMAIN moved THEN moved[i] ELSE m[i]
  BY DEF Overlay
<1> HIDE DEF m2
<1>3. ASSUME NEW i \in 0 .. z - 1
      PROVE  m2[at + i] = out[i]
  <2>1. at + i \in 0 .. c - 1 /\ (at + i) - at = i
    OBVIOUS
  <2>2. at + i \in DOMAIN moved
    BY <1>1
  <2>3. moved[at + i] = out[(at + i) - at]
    BY <1>1
  <2> QED
    BY <1>2, <2>1, <2>2, <2>3
<1>4. ASSUME NEW i \in DOMAIN m, i < at \/ at + z <= i
      PROVE  m2[i] = m[i]
  <2>1. i \in 0 .. c - 1
    OBVIOUS
  <2>2. i \notin DOMAIN moved
    <3> SUFFICES ASSUME NEW j \in 0 .. z - 1, i = at + j PROVE FALSE
      BY <1>1
    <3> QED
      BY <1>4
  <2> QED
    BY <1>2, <2>1, <2>2
<1> QED
  BY <1>3, <1>4 DEF m2, moved, MovedIn

(***************************************************************************)
(* An item is written in its own chunk: the headers and the other items    *)
(* stay, and if it is written without an error it shows what is promised.  *)
(***************************************************************************)
LEMMA WriteItemShows ==
  ASSUME BatchInv, OriginInv, NamesInv, Readable(data), ~CutsImages(data), ~MisnamesFiles(data), BatchFits, SlotsShow,
         NEW k \in toWrite, NEW t \in Threads, WriteItem(k, t)
  PROVE  SlotsShow'
<1> DEFINE at == SlotOffset(slot, slotSize)
           n == Len(batch)
           p == promised[slot]
           h == HeaderSize(WithBatch(layouts, n))
           z == ItemSize(layouts)
           c == slotSize * NSlots
           m2 == memory'
           q == promised'[slot]
           ls == layouts
           from(b) == ItemAt(at, ls, n, b)
<1>1. PICK item \in ItemResults(k, t) :
        /\ memory' = Overlay(memory, MovedTo(ChunkAt(k), item.out))
        /\ IF item.err = "none"
             THEN promised' = [promised EXCEPT ![slot][k] = Promise(batch[k], item.draws)] /\ UNCHANGED << state, error >>
             ELSE EndWith(item.err) /\ UNCHANGED promised
  BY DEF WriteItem
<1>2. /\ UNCHANGED << data, slotSize, batch, layouts, slot >> /\ toWrite' = toWrite \ {k}
      /\ state \in {"writing", "failed"}
  BY DEF WriteItem, MayWrite, sourceVars
<1>3. /\ slot \in Slots /\ batch \in Seq(Nat) /\ ls \in Seq(AnyLayout) /\ toWrite \subseteq DOMAIN batch /\ k \in DOMAIN batch
      /\ \A j \in DOMAIN batch : batch[j] \in Items(data)
  BY InvariantSays DEF BatchInv, ChosenInv
<1>4. n \in Nat /\ DOMAIN batch = 1 .. n
  BY <1>3
<1>5. /\ DOMAIN promised = Slots /\ IsSequence(p) /\ WritingShows
  BY <1>3 DEF SlotsShow, SlotsInv
<1>6. /\ DOMAIN p = DOMAIN batch /\ ls # << >> /\ RowMajorLayouts(ls)
      /\ HoldsHeaders(memory, at, ls, n, 0)
      /\ state = "writing" => HoldsItems(memory, at, ls, n, DOMAIN batch \ toWrite, p)
  BY <1>5 DEF WritingShows
<1>7. at \in Nat /\ slotSize \in Nat /\ h \in Nat /\ z \in Nat /\ h + n * z <= slotSize
  <2>1. /\ at \in Nat /\ slotSize \in Nat /\ h \in Nat /\ z \in Nat
        /\ HeaderSize(BatchHeaders) = h /\ DataSize = z * n
    BY PlacesAre DEF BatchHeaders, DataSize
  <2>2. z * n = n * z
    BY <1>4, <2>1
  <2> QED
    BY <2>1, <2>2 DEF BatchFits
<1>8. DOMAIN memory = 0 .. c - 1 /\ at + slotSize <= c /\ c \in Nat
  BY <1>3, <1>7, MemoryHas, SlotInMemory
<1>9. DOMAIN item.out = 0 .. z - 1 /\ item.err \in Errors
  BY WritableIs, ItemResultsAre
<1>10. ChunkAt(k) = from(k)
  BY <1>3, ChunkIs
<1>11. state' = "writing" => item.err = "none" /\ state = "writing"
  <2> SUFFICES ASSUME state' = "writing" PROVE item.err = "none" /\ state = "writing"
    OBVIOUS
  <2>1. item.err = "none"
    BY <1>1 DEF EndWith, End
  <2> QED
    BY <1>1, <2>1
<1>12. slotSize > 0
  <2>1. DataSize > 0 /\ HeaderSize(BatchHeaders) \in Nat /\ DataSize \in Nat
    BY PlacesAre DEF BatchInv, ChosenInv
  <2> QED
    BY <1>7, <2>1 DEF BatchFits
<1>13. item.err = "none" /\ state = "writing" => ShowsItem(item.out, 0, ls, Promise(batch[k], item.draws))
  <2> SUFFICES ASSUME item.err = "none", state = "writing" PROVE ShowsItem(item.out, 0, ls, Promise(batch[k], item.draws))
    OBVIOUS
  <2>1. NamedCells
    BY DEF NamesInv, NamedBuffer, Readable, NamedCells
  <2>2. Showable
    BY <1>3, <2>1 DEF Showable
  <2>3. Writable(k)
    BY WritableIs
  <2> QED
    BY <2>2, <2>3, ItemShows
<1> HIDE DEF at, n, h, z, c, m2, p, q, ls, from
<1>14. \A b \in 1 .. n :
         /\ from(b) \in Nat /\ at + h <= from(b) /\ from(b) + z <= at + h + n * z
         /\ \A d \in 1 .. n : b < d => from(b) + z <= from(d)
  <2> TAKE b \in 1 .. n
  <2> QED
    BY <1>3, <1>4, <1>7, ItemPlaces DEF from, h, z, ls
<1>15. k \in 1 .. n
  BY <1>3, <1>4
<1> DEFINE y == n * z
           f == from(k)
<1>16. y \in Nat /\ h + y <= slotSize /\ f \in Nat /\ at + h <= f /\ f + z <= at + h + y
  BY <1>4, <1>7, <1>14, <1>15
<1> HIDE DEF y, f
<1>17. /\ \A i \in 0 .. z - 1 : m2[f + i] = item.out[i]
       /\ \A i \in DOMAIN memory : i < f \/ f + z <= i => m2[i] = memory[i]
  <2>1. f + z <= c
    BY <1>7, <1>8, <1>16
  <2> DEFINE o == item.out
  <2>2. m2 = Overlay(memory, MovedTo(f, o))
    BY <1>1, <1>10 DEF m2, f
  <2>3. DOMAIN o = 0 .. z - 1
    BY <1>9
  <2> HIDE DEF o
  <2>4. /\ c \in Nat /\ DOMAIN memory = 0 .. c - 1
        /\ f \in Nat /\ z \in Nat /\ f + z <= c
    BY <1>7, <1>8, <1>16, <2>1
  <2>5. MovedIn(memory, Overlay(memory, MovedTo(f, o)), f, o, z)
    BY <2>3, <2>4, ChunkMoved
  <2> QED
    BY <2>2, <2>5 DEF o, MovedIn
<1>18. \A x \in Int, x2 \in Int : at <= x /\ x2 <= at + slotSize /\ (x2 <= f \/ f + z <= x) => Keeps(memory, m2, x, x2)
  <2> SUFFICES ASSUME NEW x \in Int, NEW x2 \in Int, at <= x, x2 <= at + slotSize, x2 <= f \/ f + z <= x,
                      NEW i \in Int, x <= i, i < x2
               PROVE  m2[i] = memory[i]
    BY DEF Keeps
  <2>1. i \in DOMAIN memory /\ (i < f \/ f + z <= i)
    BY <1>7, <1>8, <1>16
  <2> QED
    BY <1>17, <2>1
<1>19. HoldsHeaders(m2, at, ls, n, 0)
  <2>1. at + h \in Int /\ at \in Int /\ at + h <= at + slotSize /\ at + h <= f
    BY <1>7, <1>16
  <2>2. Keeps(memory, m2, at, at + h)
    BY <1>18, <2>1
  <2> QED
    BY <1>3, <1>4, <1>6, <1>7, <2>2, HeadersKept DEF h, ls
<1>20. IsSequence(q) /\ DOMAIN q = DOMAIN batch
       /\ (item.err = "none" => q[k] = Promise(batch[k], item.draws))
       /\ \A b \in DOMAIN batch : b # k => q[b] = p[b]
  <2>1. CASE item.err = "none"
    <3>1. q = [p EXCEPT ![k] = Promise(batch[k], item.draws)]
      BY <1>1, <1>3, <1>5, <2>1 DEF p, q
    <3>2. DOMAIN p = 1 .. n /\ p \in Seq({ p[b] : b \in DOMAIN p })
      BY <1>4, <1>5, <1>6 DEF IsSequence
    <3>3. DOMAIN q = 1 .. n /\ q[k] = Promise(batch[k], item.draws) /\ \A b \in 1 .. n : b # k => q[b] = p[b]
      BY <1>15, <3>1, <3>2
    <3>4. q = [b \in 1 .. n |-> q[b]]
      BY <3>1, <3>2
    <3>5. q \in [1 .. n -> { q[b] : b \in 1 .. n }]
      BY <3>4
    <3>6. IsSequence(q)
      BY <1>4, <3>3, <3>5, SequenceOf DEF IsSequence
    <3> QED
      BY <1>4, <3>3, <3>6
  <2>2. CASE item.err # "none"
    <3>1. q = p
      BY <1>1, <2>2 DEF p, q
    <3> QED
      BY <1>5, <1>6, <2>2, <3>1
  <2> QED
    BY <2>1, <2>2
<1>21. state' = "writing" => HoldsItems(m2, at, ls, n, DOMAIN batch \ toWrite', q)
  <2> SUFFICES ASSUME state' = "writing", NEW b \in DOMAIN batch \ toWrite'
               PROVE  ShowsItem(m2, from(b), ls, q[b])
    BY DEF HoldsItems, from
  <2>1. item.err = "none" /\ state = "writing" /\ b \in 1 .. n
    BY <1>4, <1>11
  <2>2. CASE b = k
    <3>1. ShowsItem(item.out, 0, ls, q[k])
      BY <1>13, <1>20, <2>1
    <3>2. \A i \in 0 .. ItemSize(ls) - 1 : m2[f + i] = item.out[0 + i]
      <4>1. \A i \in 0 .. z - 1 : 0 + i = i
        BY <1>7
      <4> QED
        BY <1>17, <4>1 DEF z, ls
    <3>3. 0 \in Nat /\ f \in Nat
      BY <1>16
    <3>4. ShowsItem(m2, f, ls, q[k])
      BY <1>3, <3>1, <3>2, <3>3, ItemMoved
    <3> QED
      BY <2>2, <3>4 DEF f
  <2>3. CASE b # k
    <3> DEFINE g == from(b)
    <3>1. b \in DOMAIN batch \ toWrite
      BY <1>2, <2>3
    <3>2. ShowsItem(memory, g, ls, p[b]) /\ q[b] = p[b]
      BY <1>6, <1>20, <2>1, <2>3, <3>1 DEF HoldsItems, from
    <3>3. g \in Nat /\ at + h <= g /\ g + z <= at + h + y /\ (g + z <= f \/ f + z <= g)
      <4>1. b < k \/ k < b
        BY <1>15, <2>1, <2>3
      <4> QED
        BY <1>14, <1>15, <2>1, <4>1 DEF y, f
    <3> HIDE DEF g
    <3>4. g \in Int /\ g + z \in Int /\ at <= g /\ g + z <= at + slotSize
      BY <1>7, <1>16, <3>3
    <3>5. Keeps(memory, m2, g, g + z)
      BY <1>18, <3>3, <3>4
    <3>6. ShowsItem(m2, g, ls, p[b])
      BY <1>3, <3>2, <3>3, <3>5, ItemKept DEF z, ls
    <3> QED
      BY <3>2, <3>6 DEF g
  <2> QED
    BY <2>2, <2>3
<1>22. WritingShows'
  BY <1>2, <1>6, <1>19, <1>20, <1>21 DEF WritingShows, at, n, ls, m2, q
<1>23. ~IsReady(m2, at)
  <2> DEFINE bl == WithBatch(ls, n)
  <2>1. bl \in Seq(AnyLayout) /\ Len(bl) = Len(ls) /\ 1 \in 1 .. Len(ls) /\ 1 \in 1 .. Len(bl)
    BY <1>3, <1>4, <1>6, WithBatchIs
  <2>2. HeaderThere(m2, at, bl, 1, 0)
    BY <1>3, <1>4, <1>7, <1>19, <2>1, HoldsHeadersIs
  <2> HIDE DEF bl
  <2>3. PlaceOf(at, bl, 1) = at
    BY <1>7, <2>1, HeadersNext
  <2>4. bl[1] \in AnyLayout /\ Len(bl[1].shape) \in Nat
    BY <2>1, LayoutOf
  <2>5. bl[1].dt \in DOMAIN DtypeCells
    BY <2>4 DEF AnyLayout
  <2>6. m2[at] = Header(bl[1].dt, Len(bl[1].shape), 0)
    <3>1. 0 \in 0 .. 2 * Len(bl[1].shape) /\ at + 0 = at
      BY <1>7, <2>4
    <3>2. m2[PlaceOf(at, bl, 1) + 0] = Header(bl[1].dt, Len(bl[1].shape), 0)
      BY <2>2, <3>1 DEF HeaderThere
    <3> QED
      BY <2>3, <3>1, <3>2
  <2>7. Says(m2[at], 3) = 0
    BY <2>5, <2>6, HeaderSays
  <2> QED
    BY <2>7 DEF IsReady
<1>24. BatchNext
  BY DEF BatchNext
<1>25. ASSUME NEW s \in Slots
       PROVE  IsSequence(promised'[s]) /\ ReadyShows(Seq(AnyLayout), memory', SlotOffset(s, slotSize'), slotSize', promised'[s])
  <2>1. CASE s = slot
    <3>1. ~IsReady(memory', SlotOffset(slot, slotSize'))
      BY <1>2, <1>23 DEF at, m2
    <3> QED
      BY <1>20, <2>1, <3>1 DEF q, ReadyShows
  <2>2. CASE s # slot
    <3>1. state # "new" /\ slotSize' = slotSize
      BY <1>2
    <3>2. promised'[s] = promised[s]
      BY <1>1, <1>5, <2>2
    <3> QED
      BY <1>12, <1>24, <2>2, <3>1, <3>2, OthersKept
  <2> QED
    BY <2>1, <2>2
<1>26. DOMAIN promised' = Slots
  BY <1>1, <1>5
<1> QED
  BY <1>22, <1>25, <1>26 DEF SlotsShow, SlotsInv

-----------------------------------------------------------------------------
(* Where the layouts come from.                                            *)

(***************************************************************************)
(* A step that leaves the batch, its layouts and what is promised where    *)
(* they were leaves them with the origin they had.                         *)
(***************************************************************************)
LEMMA OriginStays ==
  ASSUME OriginInv, UNCHANGED << data, batch, layouts, size >>,
         state' \in {"new", "built"} => state \in {"new", "built"} /\ UNCHANGED promised
  PROVE  OriginInv'
BY DEF OriginInv

(***************************************************************************)
(* At the start no batch is chosen and nothing is promised.                *)
(***************************************************************************)
LEMMA OriginInit ==
  ASSUME BatchInit
  PROVE  OriginInv
BY DEF BatchInit, OriginInv

(***************************************************************************)
(* The builder probes items, but chooses none.                             *)
(***************************************************************************)
LEMMA OriginBuilt ==
  ASSUME OriginInv, Build
  PROVE  OriginInv'
<1>1. state = "new" /\ UNCHANGED << data, batch, layouts, promised >>
  BY DEF Build
<1>2. batch = << >> /\ \A s \in Slots : promised[s] = << >>
  BY <1>1 DEF OriginInv
<1> QED
  BY <1>1, <1>2 DEF OriginInv

(***************************************************************************)
(* A batch is given the layouts of its items, and of the size that is kept *)
(* for the writes.                                                         *)
(***************************************************************************)
LEMMA OriginChosen ==
  ASSUME BatchInv, NEW items \in Batches, Choose(items)
  PROVE  OriginInv'
<1>1. /\ data' = data /\ batch' = items /\ state' = "prepare"
      /\ layouts' = LayoutsOf(items) /\ size' = NewSize(items)
  BY DEF Choose
<1>2. CASE data.kind = "folder"
  BY <1>1, <1>2 DEF OriginInv, LayoutsOf, NewSize
<1>3. CASE data.kind # "folder"
  BY <1>1, <1>3 DEF OriginInv, LayoutsOf, NewSize
<1> QED
  BY <1>2, <1>3

(***************************************************************************)
(* So the layouts of a batch are always those of its own items.            *)
(***************************************************************************)
LEMMA OriginStep ==
  ASSUME BatchInv, OriginInv, [BatchNext]_batchVars
  PROVE  OriginInv'
<1>1. CASE Unusable
  BY <1>1, OriginStays DEF Unusable, sourceVars, End
<1>2. CASE Build
  BY <1>2, OriginBuilt
<1>3. CASE FirstEpoch
  BY <1>3, OriginStays DEF FirstEpoch, sourceVars, End
<1>4. CASE Prepare
  <2>1. state' \notin {"new", "built"}
    BY <1>4, PrepareEnds
  <2> QED
    BY <1>4, <2>1, OriginStays DEF Prepare, sourceVars
<1>5. CASE CtrlC
  BY <1>5, OriginStays DEF CtrlC, sourceVars
<1>6. CASE Publish
  BY <1>6, OriginStays DEF Publish, sourceVars, End
<1>7. CASE InterruptedLate
  BY <1>7, OriginStays DEF InterruptedLate, sourceVars, End
<1>8. CASE \E k \in toWrite : Interrupted(k)
  BY <1>8, OriginStays DEF Interrupted, sourceVars, End
<1>9. CASE \E items \in Batches : Choose(items)
  BY <1>9, OriginChosen
<1>10. CASE \E k \in toWrite : \E t \in Threads : WriteItem(k, t)
  <2>1. UNCHANGED << data, batch, layouts, size >> /\ state' \notin {"new", "built"}
    BY <1>10 DEF WriteItem, MayWrite, sourceVars, EndWith, End
  <2> QED
    BY <2>1, OriginStays
<1>11. CASE UNCHANGED batchVars
  BY <1>11, OriginStays DEF batchVars
<1> QED
  BY <1>1, <1>2, <1>3, <1>4, <1>5, <1>6, <1>7, <1>8, <1>9, <1>10, <1>11 DEF BatchNext

-----------------------------------------------------------------------------
(* The names in an archive.                                                *)

\* The names of the archive are as tar writes them, and none is given to a
\* file that it does not belong to.
NamedArchive(d) == d.kind = "tar" /\ AnyDataset(d) /\ Legible(d) /\ ~MisnamesFiles(d)

\* A record has the name of its image, and takes no name with it.
NamedRecord(d, r) ==
  r.res = "record" =>
    /\ r.img # NoImage => r.name = d.names[r.img.id]
    /\ PendingName(d.archive, r.reader.offset) = NoName

(***************************************************************************)
(* What an error is named does not matter.                                 *)
(***************************************************************************)
LEMMA ErrNamed ==
  ASSUME NEW d, NEW res \in {"Eof", "Overflow", "HeaderError"}, NEW o, NEW eof
  PROVE  NamedRecord(d, Err(res, o, eof))
<1>1. Err(res, o, eof).res = res /\ res # "record"
  BY DEF Err, Outcome
<1> QED
  BY <1>1 DEF NamedRecord

(***************************************************************************)
(* What an entry of an archive is, and what tells where its name is.       *)
(***************************************************************************)
LEMMA EntryIs ==
  ASSUME NEW d, NamedArchive(d), NEW k \in DOMAIN d.archive
  PROVE  LET a == d.archive
         IN  /\ AnyBlock(a[k])
             /\ FileSize(a[k]) \in Nat \cup {NotOctal}
             /\ a[k].is = "data" => FileSize(a[k]) = NotOctal
             /\ a[k].is = "header" /\ FileSize(a[k]) # NotOctal =>
                  \A i \in k + 1 .. k + FileSize(a[k]) : i \in DOMAIN a => a[i].is = "data"
             /\ a[k].is = "header" /\ a[k].type = "L" => FileSize(a[k]) = 1
             /\ a[k].is = "header" /\ IsRegularFile(a[k]) /\ k + 1 \in DOMAIN a /\ a[k + 1].img # NoImage =>
                  \/ PendingName(a, k - 1) = NoName /\ FileName(a[k]) = NotUtf8
                  \/ NameAt(a, k - 1) = d.names[a[k + 1].img.id]
             /\ a[k].type = "L" /\ a[k].is = "header" /\ k + 2 \in DOMAIN a => IsRegularFile(a[k + 2])
<1>1. AnyBlock(d.archive[k])
  BY DEF NamedArchive, AnyDataset
<1>2. FileSize(d.archive[k]) \in Nat \cup {NotOctal}
  BY <1>1 DEF FileSize, AnyBlock
<1>3. d.archive[k].is = "data" => FileSize(d.archive[k]) = NotOctal
  BY DEF FileSize, NamedArchive, Legible
<1> QED
  BY <1>1, <1>2, <1>3 DEF NamedArchive, Legible, MisnamesFiles

(***************************************************************************)
(* Behind an entry other than an 'L' entry no name is left over.           *)
(***************************************************************************)
LEMMA NothingPending ==
  ASSUME NEW d, NamedArchive(d), NEW k \in DOMAIN d.archive,
         d.archive[k].is = "header", d.archive[k].type # "L", FileSize(d.archive[k]) \in Nat,
         k + FileSize(d.archive[k]) \in DOMAIN d.archive
  PROVE  PendingName(d.archive, k + FileSize(d.archive[k])) = NoName
<1> DEFINE a == d.archive
           n == FileSize(a[k])
           o == k + n
<1>1. n \in Nat /\ k \in Nat /\ k >= 1 /\ DOMAIN a = 1 .. Len(a) /\ Len(a) \in Nat /\ 1 # NotOctal
  <2>1. NotOctal \notin Nat
    BY BatchAssumption
  <2>2. DOMAIN a = 1 .. Len(a) /\ Len(a) \in Nat
    <3>1. AnyDataset(d)
      BY DEF NamedArchive
    <3>2. a \in Seq({ a[j] : j \in DOMAIN a })
      BY <3>1 DEF AnyDataset
    <3> HIDE DEF a
    <3> QED
      BY <3>2
  <2> QED
    BY <2>1, <2>2
<1>2. SUFFICES ASSUME o > 1, a[o - 1].is = "header", a[o - 1].type = "L"
               PROVE  FALSE
  BY DEF PendingName
<1>3. CASE n = 0
  <2>1. k - 1 \in DOMAIN a /\ o - 1 = k - 1
    BY <1>1, <1>2, <1>3
  <2>2. FileSize(a[k - 1]) = 1
    BY <1>2, <2>1, EntryIs
  <2>3. \A i \in (k - 1) + 1 .. (k - 1) + 1 : i \in DOMAIN a => a[i].is = "data"
    <3>1. \A i \in (k - 1) + 1 .. (k - 1) + FileSize(a[k - 1]) : i \in DOMAIN a => a[i].is = "data"
      BY <1>1, <1>2, <2>1, <2>2, EntryIs, SMTT(30)
    <3> QED
      BY <2>2, <3>1
  <2>4. k \in (k - 1) + 1 .. (k - 1) + 1
    BY <1>1
  <2> QED
    BY <2>3, <2>4
<1>4. CASE n = 1
  <2>1. o - 1 = k
    BY <1>1, <1>4
  <2> QED
    BY <1>2, <2>1
<1>5. CASE n > 1
  <2>1. o - 1 \in k + 1 .. k + n /\ o - 1 \in DOMAIN a
    BY <1>1, <1>5
  <2>2. a[o - 1].is = "data"
    <3>1. FileSize(a[k]) # NotOctal
      BY BatchAssumption
    <3> QED
      BY <2>1, <3>1, EntryIs
  <2> QED
    BY <1>2, <2>2
<1> QED
  BY <1>1, <1>3, <1>4, <1>5

(***************************************************************************)
(* What a header leads to is named where what the headers after it lead to *)
(* is: the long name that is kept on the way is that of the entry before.  *)
(***************************************************************************)
LEMMA FoundAtNamed ==
  ASSUME NEW d, NamedArchive(d), NEW o \in 0 .. Len(d.archive), NEW later,
         \A j \in o + 1 .. Len(d.archive) : NamedRecord(d, later[j][PendingName(d.archive, j)])
  PROVE  NamedRecord(d, FoundAt(d.archive, o, PendingName(d.archive, o), later))
<1> DEFINE a == d.archive
           n == Len(a)
           l == PendingName(a, o)
           block == a[o + 1]
           blocks == FileSize(block)
           next  == o + 1 + blocks
           text  == IF FileSize(block) = 0 THEN "" ELSE a[o + 2].name
           long  == LongName(block, text, l)
           x     == FoundAt(a, o, l, later)
           outside == o + 1 > n
           beyond  == next > n
<1>1. n \in Nat /\ DOMAIN a = 1 .. n /\ 1 # NotOctal /\ 0 # NotOctal
  BY BatchAssumption DEF NamedArchive, AnyDataset
<1>2. ~outside => o + 1 \in 1 .. n
  BY <1>1
<1>3. CASE outside
  <2>1. x = Err("Overflow", o, FALSE)
    BY <1>3 DEF FoundAt
  <2> QED
    BY <2>1, ErrNamed
<1>4. CASE ~outside /\ IsEnd(block)
  <2>1. x = Err("Eof", o, TRUE)
    BY <1>4 DEF FoundAt
  <2> QED
    BY <2>1, ErrNamed
<1>5. CASE ~outside /\ ~IsEnd(block) /\ blocks = NotOctal
  <2>1. x = Err("HeaderError", o, FALSE)
    BY <1>5 DEF FoundAt
  <2> QED
    BY <2>1, ErrNamed
<1>6. CASE ~outside /\ ~IsEnd(block) /\ blocks # NotOctal /\ beyond
  <2>1. x = Err("Overflow", o + 1, FALSE)
    BY <1>6 DEF FoundAt
  <2> QED
    BY <2>1, ErrNamed
<1>7. CASE ~outside /\ ~IsEnd(block) /\ blocks # NotOctal /\ ~beyond
  <2>1. blocks \in Nat /\ block.is = "header" /\ AnyBlock(block)
    <3>1. AnyBlock(block) /\ blocks \in Nat \cup {NotOctal} /\ (block.is = "data" => blocks = NotOctal)
      BY <1>1, <1>2, <1>7, EntryIs
    <3> QED
      BY <1>7, <3>1 DEF AnyBlock
  <2>2. next \in o + 1 .. n /\ (blocks # 0 => o + 2 \in 1 .. n) /\ o + 1 \in DOMAIN a
    <3> HIDE DEF blocks
    <3> QED
      BY <1>1, <1>2, <1>7, <2>1
  <2>3. /\ ~IsRegularFile(block) => x = later[next][long]
        /\ IsRegularFile(block) /\ l # NoName => x = Outcome("record", l, DataOf(a, o), next, FALSE)
        /\ IsRegularFile(block) /\ l = NoName /\ FileName(block) = NotUtf8 => x = Err("HeaderError", next, FALSE)
        /\ IsRegularFile(block) /\ l = NoName /\ FileName(block) # NotUtf8 =>
             x = Outcome("record", FileName(block), DataOf(a, o), next, FALSE)
    BY <1>7 DEF FoundAt
  <2>4. block.type # "L" => PendingName(a, next) = NoName
    <3>1. next \in DOMAIN a
      BY <1>1, <2>2
    <3> QED
      BY <2>1, <2>2, <3>1, NothingPending
  <2>5. CASE ~IsRegularFile(block)
    <3>1. l = NoName
      <4> SUFFICES ASSUME o > 1, a[o - 1].is = "header", a[o - 1].type = "L"
                   PROVE  FALSE
        BY DEF PendingName
      <4>1. o - 1 \in DOMAIN a /\ (o - 1) + 2 = o + 1
        BY <1>1, <2>2
      <4>2. IsRegularFile(a[(o - 1) + 2])
        BY <2>2, <4>1, EntryIs
      <4> QED
        BY <2>5, <4>1, <4>2
    <3>2. long = PendingName(a, next)
      <4>1. CASE block.type = "L"
        <5>1. blocks = 1
          BY <2>1, <2>2, <4>1, EntryIs
        <5>2. next = o + 2 /\ next > 1 /\ next - 1 = o + 1
          BY <1>1, <5>1
        <5>3. text = a[next].name
          BY <5>1, <5>2
        <5> QED
          BY <2>1, <3>1, <4>1, <5>2, <5>3 DEF PendingName, LongName
      <4>2. CASE block.type # "L"
        BY <2>4, <3>1, <4>2 DEF LongName
      <4> QED
        BY <4>1, <4>2
    <3>3. NamedRecord(d, later[next][PendingName(a, next)])
      BY <2>2
    <3> QED
      BY <2>3, <2>5, <3>2, <3>3
  <2>6. CASE IsRegularFile(block)
    <3>1. PendingName(a, next) = NoName
      BY <2>4, <2>6 DEF IsRegularFile, FileTypes
    <3>2. DataOf(a, o) # NoImage =>
            \/ l = NoName /\ FileName(block) = NotUtf8
            \/ NameAt(a, o) = d.names[DataOf(a, o).id]
      <4> SUFFICES ASSUME DataOf(a, o) # NoImage
                   PROVE  \/ l = NoName /\ FileName(block) = NotUtf8
                          \/ NameAt(a, o) = d.names[DataOf(a, o).id]
        OBVIOUS
      <4>1. blocks # 0 /\ DataOf(a, o) = a[o + 2].img
        BY DEF DataOf
      <4> DEFINE k == o + 1
      <4>2. k + 1 = o + 2 /\ k - 1 = o /\ k + 1 \in DOMAIN a /\ k \in DOMAIN a
        BY <1>1, <2>2, <4>1
      <4>3. a[k].is = "header" /\ IsRegularFile(a[k]) /\ a[k + 1].img # NoImage
        BY <2>1, <2>6, <4>1, <4>2
      <4> HIDE DEF k
      <4>4. \/ PendingName(a, k - 1) = NoName /\ FileName(a[k]) = NotUtf8
            \/ NameAt(a, k - 1) = d.names[a[k + 1].img.id]
        BY <4>2, <4>3, EntryIs
      <4> QED
        BY <4>1, <4>2, <4>4 DEF k
    <3>3. CASE l = NoName /\ FileName(block) = NotUtf8
      BY <2>3, <2>6, <3>3, ErrNamed
    <3>4. CASE ~(l = NoName /\ FileName(block) = NotUtf8)
      <4> DEFINE name == NameAt(a, o)
      <4>1. x = Outcome("record", name, DataOf(a, o), next, FALSE)
        BY <2>3, <2>6, <3>4 DEF NameAt
      <4> HIDE DEF name
      <4>2. x.name = name /\ x.img = DataOf(a, o) /\ x.reader.offset = next
        BY <4>1 DEF Outcome
      <4> QED
        BY <3>1, <3>2, <3>4, <4>2 DEF NamedRecord, name
    <3> QED
      BY <3>3, <3>4
  <2> QED
    BY <2>5, <2>6
<1> QED
  BY <1>2, <1>3, <1>4, <1>5, <1>6, <1>7

(***************************************************************************)
(* The name that is left over is one that next_record may have read.       *)
(***************************************************************************)
LEMMA PendingIsLong ==
  ASSUME NEW a, AnyArchive(a), NEW o \in 0 .. Len(a)
  PROVE  PendingName(a, o) \in LongNames(a)
<1>1. DOMAIN a = 1 .. Len(a) /\ Len(a) \in Nat
  BY DEF AnyArchive
<1>2. CASE PendingName(a, o) = NoName
  BY <1>2 DEF LongNames
<1>3. CASE PendingName(a, o) # NoName
  <2>1. PendingName(a, o) = << "", a[o].name >>
    BY <1>3 DEF PendingName
  <2>2. o \in DOMAIN a
    <3>1. o > 1
      BY <1>3 DEF PendingName
    <3>2. o \in 1 .. Len(a)
      BY <3>1
    <3> QED
      BY <1>1, <3>2
  <2>3. a[o] \in { a[k] : k \in DOMAIN a }
    BY <2>2
  <2>4. << "", a[o].name >> \in LongNames(a)
    BY <2>3 DEF LongNames
  <2> QED
    BY <2>1, <2>4
<1> QED
  BY <1>2, <1>3

(***************************************************************************)
(* The record that next_record finds has the name of its image, wherever   *)
(* in the archive the reader is between two records.                       *)
(***************************************************************************)
LEMMA NextRecordNamed ==
  ASSUME NEW d, NamedArchive(d), NEW reader, reader.offset \in 0 .. Len(d.archive),
         reader.eof \/ PendingName(d.archive, reader.offset) = NoName
  PROVE  NamedRecord(d, NextRecord(d.archive, reader))
<1> DEFINE a == d.archive
           n == Len(a)
           Good(o, x) == NamedRecord(d, x[PendingName(a, o)])
           Round(o, f) == [longName \in LongNames(a) |-> FoundAt(a, o, longName, f)]
<1>1. AnyArchive(a) /\ n \in Nat /\ reader.offset \in 0 .. n
  BY DEF NamedArchive, AnyDataset, AnyArchive
<1>2. PICK g : /\ Records(a, g)
               /\ NextRecord(a, reader) = IF reader.eof THEN Err("Eof", reader.offset, TRUE) ELSE g[reader.offset][NoName]
  BY <1>1, NextRecordIs
<1>3. ASSUME NEW o \in 0 .. n, NEW f, \A j \in o + 1 .. n : Good(j, f[j])
      PROVE  Good(o, Round(o, f))
  <2>1. NamedRecord(d, FoundAt(a, o, PendingName(a, o), f))
    BY <1>3, FoundAtNamed
  <2>2. PendingName(a, o) \in LongNames(a)
    BY <1>1, PendingIsLong
  <2> QED
    BY <2>1, <2>2
<1>4. g = [o \in 0 .. n |-> Round(o, g)]
  BY <1>2 DEF Records
<1> HIDE DEF Round, Good, n
<1> DEFINE T == { j \in Nat : j <= n => \A o \in n - j .. n : Good(o, g[o]) }
<1>5. 0 \in T
  <2>1. n \in 0 .. n /\ n - 0 .. n = {n} /\ \A j \in n + 1 .. n : Good(j, g[j])
    BY <1>1
  <2>2. Good(n, Round(n, g))
    BY <1>3, <2>1
  <2> QED
    BY <1>1, <1>4, <2>1, <2>2
<1>6. ASSUME NEW j \in Nat, j \in T
      PROVE  j + 1 \in T
  <2> SUFFICES ASSUME j + 1 <= n, NEW o \in n - (j + 1) .. n
               PROVE  Good(o, g[o])
    OBVIOUS
  <2>1. \A i \in n - j .. n : Good(i, g[i])
    BY <1>1, <1>6
  <2>2. o \in 0 .. n /\ \A i \in o + 1 .. n : Good(i, g[i])
    BY <1>1, <2>1
  <2>3. Good(o, Round(o, g))
    BY <1>3, <2>2
  <2> QED
    BY <1>4, <2>2, <2>3
<1>7. n \in T
  <2> HIDE DEF T
  <2> QED
    BY <1>1, <1>5, <1>6, InductionOnSet
<1>8. Good(reader.offset, g[reader.offset])
  <2>1. n - n .. n = 0 .. n
    BY <1>1
  <2> QED
    BY <1>1, <1>7, <2>1
<1>9. CASE reader.eof
  BY <1>2, <1>9, ErrNamed
<1>10. CASE ~reader.eof
  <2>1. PendingName(a, reader.offset) = NoName
    BY <1>10
  <2> QED
    BY <1>2, <1>8, <1>10, <2>1 DEF Good
<1> QED
  BY <1>9, <1>10

-----------------------------------------------------------------------------
(* The names in the buffer.                                                *)

(***************************************************************************)
(* The reader of a buffer finds a record with the name of its image.       *)
(***************************************************************************)
LEMMA NextIsNamed ==
  ASSUME NEW d, NamedArchive(d), NEW b, GoodBuffer(d, b), NamedBuffer(d, b), ~b.exhausted
  PROVE  NamedRecord(d, NextRecord(d.archive, b.reader))
<1>1. /\ b.reader.offset \in 0 .. Len(d.archive)
      /\ b.reader.eof \/ PendingName(d.archive, b.reader.offset) = NoName
  BY DEF GoodBuffer, NamedBuffer
<1> QED
  BY <1>1, NextRecordNamed

(***************************************************************************)
(* update_cell keeps the names.                                            *)
(***************************************************************************)
LEMMA UpdateCellNamed ==
  ASSUME NEW d, NEW b, GoodBuffer(d, b), NamedBuffer(d, b), NEW i \in 1 .. d.cap,
         NEW r, NamedRecord(d, r), r.res = "record"
  PROVE  NamedBuffer(d, UpdateCell(d, b, i, r))
<1> DEFINE cell == [img |-> r.img, name |-> r.name, layout |-> TarLayout(d, r.img)]
           c == UpdateCell(d, b, i, r)
<1>1. /\ DOMAIN b = {"cells", "reader", "exhausted", "err"} /\ DOMAIN b.cells = 1 .. d.cap
      /\ b.cells = [j \in 1 .. d.cap |-> b.cells[j]]
      /\ PendingName(d.archive, r.reader.offset) = NoName
  BY DEF GoodBuffer, NamedRecord
<1>2. CASE HasLayout(d, r.img)
  <2>1. /\ c.cells = [b.cells EXCEPT ![i] = cell] /\ c.reader = r.reader
    BY <1>1, <1>2 DEF UpdateCell
  <2>2. cell.img # NoImage => cell.name = d.names[cell.img.id]
    BY DEF NamedRecord
  <2> HIDE DEF c, cell
  <2>3. \A j \in 1 .. d.cap : c.cells[j] = IF j = i THEN cell ELSE b.cells[j]
    BY <1>1, <2>1
  <2>4. DOMAIN c.cells = 1 .. d.cap
    BY <1>1, <2>1
  <2>5. \A j \in DOMAIN c.cells : c.cells[j].img # NoImage => c.cells[j].name = d.names[c.cells[j].img.id]
    <3>1. \A j \in 1 .. d.cap : b.cells[j].img # NoImage => b.cells[j].name = d.names[b.cells[j].img.id]
      BY <1>1 DEF NamedBuffer
    <3> QED
      BY <2>2, <2>3, <2>4, <3>1
  <2>6. PendingName(d.archive, c.reader.offset) = NoName
    BY <1>1, <2>1
  <2>7. NamedBuffer(d, c)
    BY <2>5, <2>6 DEF NamedBuffer
  <2> QED
    BY <2>7 DEF c
<1>3. CASE ~HasLayout(d, r.img)
  <2>1. /\ c.cells = b.cells /\ c.reader = r.reader
    BY <1>1, <1>3 DEF UpdateCell
  <2> HIDE DEF c
  <2>2. NamedBuffer(d, c)
    BY <1>1, <2>1 DEF NamedBuffer
  <2> QED
    BY <2>2 DEF c
<1> QED
  BY <1>2, <1>3

(***************************************************************************)
(* An emptied cell needs no name.                                          *)
(***************************************************************************)
LEMMA ClearCellNamed ==
  ASSUME NEW d, NEW b, GoodBuffer(d, b), NamedBuffer(d, b), NEW i \in 1 .. d.cap
  PROVE  NamedBuffer(d, ClearCell(b, i))
<1> DEFINE cell == [b.cells[i] EXCEPT !.img = NoImage, !.layout = << >>]
           c == ClearCell(b, i)
<1>1. /\ DOMAIN b = {"cells", "reader", "exhausted", "err"} /\ DOMAIN b.cells = 1 .. d.cap
      /\ DOMAIN b.cells[i] = {"img", "name", "layout"}
  BY DEF GoodBuffer, GoodCell
<1>2. cell.img = NoImage
  BY <1>1
<1>3. c.cells = [b.cells EXCEPT ![i] = cell] /\ c.reader = b.reader /\ c.exhausted = b.exhausted
  BY <1>1 DEF ClearCell
<1> HIDE DEF c, cell
<1>4. DOMAIN c.cells = 1 .. d.cap /\ \A j \in 1 .. d.cap : c.cells[j] = IF j = i THEN cell ELSE b.cells[j]
  BY <1>1, <1>3
<1>5. NamedBuffer(d, c)
  BY <1>1, <1>2, <1>3, <1>4 DEF NamedBuffer
<1> QED
  BY <1>5 DEF c

(***************************************************************************)
(* A refill that succeeds keeps the names, also that which finds the end   *)
(* of the archive.                                                         *)
(***************************************************************************)
LEMMA RefillNamed ==
  ASSUME NEW d, NamedArchive(d), NEW b, GoodBuffer(d, b), NamedBuffer(d, b), NEW i \in 1 .. d.cap,
         Refill(d, b, i).err = "none"
  PROVE  NamedBuffer(d, Refill(d, b, i))
<1> DEFINE r == NextRecord(d.archive, b.reader)
<1>1. DOMAIN b = {"cells", "reader", "exhausted", "err"} /\ b.err \in Errors /\ AnyDataset(d)
  BY DEF GoodBuffer, NamedArchive
<1>2. GoodOutcome(d.archive, r) /\ (~b.exhausted => NamedRecord(d, r))
  BY <1>1, NextOfBuffer, NextIsNamed
<1> HIDE DEF r
<1>3. r.res \in {"record", "Eof", "Overflow", "HeaderError"} /\ r.reader.offset \in 0 .. Len(d.archive)
  BY <1>2 DEF GoodOutcome
<1>4. CASE b.exhausted
  BY <1>4, ClearCellNamed DEF Refill
<1>5. CASE ~b.exhausted /\ r.res = "record"
  BY <1>2, <1>5, UpdateCellNamed DEF Refill, r
<1>6. CASE ~b.exhausted /\ r.res = "Eof"
  <2> DEFINE c == [b EXCEPT !.reader = r.reader, !.exhausted = TRUE]
  <2>1. Refill(d, b, i) = ClearCell(c, i)
    BY <1>6 DEF Refill, r
  <2>2. /\ DOMAIN c = {"cells", "reader", "exhausted", "err"}
        /\ c.cells = b.cells /\ c.reader = r.reader /\ c.err = b.err /\ c.exhausted
    BY <1>1
  <2> HIDE DEF c
  <2>3. GoodBuffer(d, c)
    BY <1>1, <1>3, <2>2, ReaderSet
  <2>4. NamedBuffer(d, c)
    BY <2>2 DEF NamedBuffer
  <2> QED
    BY <2>1, <2>3, <2>4, ClearCellNamed
<1>7. CASE ~b.exhausted /\ r.res # "record" /\ r.res # "Eof"
  <2>1. Refill(d, b, i) = [b EXCEPT !.reader = r.reader, !.err = r.res]
    BY <1>7 DEF Refill, r
  <2>2. Refill(d, b, i).err = r.res
    BY <1>1, <2>1
  <2> QED
    BY <1>3, <2>2
<1> QED
  BY <1>4, <1>5, <1>6, <1>7

(***************************************************************************)
(* So does the filling of a cell before the first batch.                   *)
(***************************************************************************)
LEMMA PrimeCellNamed ==
  ASSUME NEW d, NamedArchive(d), NEW b, GoodBuffer(d, b), b.err = "none" => NamedBuffer(d, b), NEW i \in 1 .. d.cap,
         PrimeCell(d, b, i).err = "none"
  PROVE  NamedBuffer(d, PrimeCell(d, b, i))
<1> DEFINE r == NextRecord(d.archive, b.reader)
<1>1. DOMAIN b = {"cells", "reader", "exhausted", "err"} /\ AnyDataset(d)
  BY DEF GoodBuffer, NamedArchive
<1>2. GoodOutcome(d.archive, r) /\ (~b.exhausted /\ b.err = "none" => NamedRecord(d, r))
  BY <1>1, NextOfBuffer, NextIsNamed
<1> HIDE DEF r
<1>3. r.res \in {"record", "Eof", "Overflow", "HeaderError"}
  BY <1>2 DEF GoodOutcome
<1>4. CASE b.exhausted \/ b.err # "none"
  BY <1>4 DEF PrimeCell
<1>5. CASE ~(b.exhausted \/ b.err # "none") /\ r.res = "record"
  BY <1>2, <1>5, UpdateCellNamed DEF PrimeCell, r
<1>6. CASE ~(b.exhausted \/ b.err # "none") /\ r.res # "record"
  <2> DEFINE c == [b EXCEPT !.reader = r.reader, !.exhausted = r.res = "Eof",
                            !.err = IF r.res = "Eof" THEN "none" ELSE r.res]
  <2>1. PrimeCell(d, b, i) = c
    BY <1>6 DEF PrimeCell, r
  <2>2. c.cells = b.cells /\ c.exhausted = (r.res = "Eof") /\ c.err = IF r.res = "Eof" THEN "none" ELSE r.res
    BY <1>1
  <2> HIDE DEF c
  <2>3. r.res = "Eof"
    BY <1>3, <1>6, <2>1, <2>2
  <2>4. NamedBuffer(d, c)
    BY <1>6, <2>2, <2>3 DEF NamedBuffer
  <2> QED
    BY <2>1, <2>4
<1> QED
  BY <1>4, <1>5, <1>6

(***************************************************************************)
(* A buffer that has been primed has the names of its images.              *)
(***************************************************************************)
LEMMA PrimedNamed ==
  ASSUME NEW d, NamedArchive(d), Primed(d).err = "none"
  PROVE  NamedBuffer(d, Primed(d))
<1> DEFINE n == d.cap
           Good(b) == GoodBuffer(d, b) /\ (b.err = "none" => NamedBuffer(d, b))
<1>1. AnyDataset(d) /\ n \in Nat
  BY DEF NamedArchive, AnyDataset
<1>2. PICK g : Primings(d, g) /\ Primed(d) = g[n]
  BY <1>1, PrimedIs
<1>3. g[0] = NewBuffer(d) /\ \A k \in 1 .. n : g[k] = PrimeCell(d, g[k - 1], k)
  BY <1>2 DEF Primings
<1>4. Good(g[0])
  <2>1. NamedBuffer(d, NewBuffer(d))
    <3> DEFINE b == NewBuffer(d)
    <3>1. b.cells = [i \in 1 .. d.cap |-> EmptyCell] /\ b.reader = AtStart
      BY DEF NewBuffer, Buffer
    <3> HIDE DEF b
    <3>2. \A i \in DOMAIN b.cells : b.cells[i].img = NoImage
      BY <3>1 DEF EmptyCell
    <3>3. b.reader.offset = 0
      BY <3>1 DEF AtStart
    <3>4. PendingName(d.archive, b.reader.offset) = NoName
      BY <3>3 DEF PendingName
    <3>5. NamedBuffer(d, b)
      BY <3>2, <3>4 DEF NamedBuffer
    <3> QED
      BY <3>5 DEF b
  <2> QED
    BY <1>1, <1>3, <2>1, NewBufferGood
<1> HIDE DEF n
<1> DEFINE T == { k \in Nat : k <= n => Good(g[k]) }
<1>5. 0 \in T
  BY <1>4
<1>6. ASSUME NEW k \in Nat, k \in T
      PROVE  k + 1 \in T
  <2> SUFFICES ASSUME k + 1 <= n
               PROVE  Good(g[k + 1])
    OBVIOUS
  <2>1. k + 1 \in 1 .. n /\ (k + 1) - 1 = k /\ Good(g[k])
    BY <1>1, <1>6
  <2>2. Good(PrimeCell(d, g[k], k + 1))
    BY <1>1, <2>1, PrimeCellGood, PrimeCellNamed DEF n
  <2> QED
    BY <1>3, <2>1, <2>2
<1> HIDE DEF T
<1>7. n \in T
  BY <1>1, <1>5, <1>6, InductionOnSet
<1> QED
  BY <1>1, <1>2, <1>7 DEF T

(***************************************************************************)
(* A step that leaves the buffer alone leaves the names in it.             *)
(***************************************************************************)
LEMMA NamesStay ==
  ASSUME NamesInv, UNCHANGED << data, buffer >>,
         state' \in {"idle", "prepare", "writing"} => state \in {"idle", "prepare", "writing"}
  PROVE  NamesInv'
BY DEF NamesInv

(***************************************************************************)
(* Before the first batch the buffer is primed.                            *)
(***************************************************************************)
LEMMA NamesPrimed ==
  ASSUME BatchInv, FirstEpoch
  PROVE  NamesInv'
<1>1. data' = data
  BY DEF FirstEpoch, sourceVars
<1> SUFFICES ASSUME data.kind = "tar", Legible(data), ~MisnamesFiles(data), state' \in {"idle", "prepare", "writing"}
             PROVE  NamedBuffer(data, buffer')
  BY <1>1 DEF NamesInv
<1>2. NamedArchive(data)
  BY InvariantSays DEF NamedArchive
<1>3. buffer' = Primed(data) /\ buffer'.err = "none"
  BY DEF FirstEpoch, End
<1> QED
  BY <1>2, <1>3, PrimedNamed

(***************************************************************************)
(* The cell of a written item is refilled with a record and its name.      *)
(***************************************************************************)
LEMMA NamesRefilled ==
  ASSUME BatchInv, NamesInv, NEW k \in toWrite, NEW t \in Threads, WriteItem(k, t)
  PROVE  NamesInv'
<1>1. data' = data
  BY DEF WriteItem, sourceVars
<1> SUFFICES ASSUME data.kind = "tar", Legible(data), ~MisnamesFiles(data), state' \in {"idle", "prepare", "writing"}
             PROVE  NamedBuffer(data, buffer')
  BY <1>1 DEF NamesInv
<1>2. NamedArchive(data) /\ GoodBuffer(data, buffer)
  BY InvariantSays DEF NamedArchive
<1>3. PICK item \in ItemResults(k, t) :
        /\ buffer' = item.buffer
        /\ IF item.err = "none" THEN UNCHANGED << state, error >> ELSE EndWith(item.err)
  BY DEF WriteItem
<1>4. item.err = "none" /\ state = "writing"
  <2>1. item.err = "none"
    BY <1>3 DEF EndWith, End
  <2> QED
    BY <1>3, <2>1 DEF WriteItem, MayWrite
<1>5. PICK draws : item = ItemResult(IfOpened(NewWriter(layouts, Chunk(k)), batch[k], t, draws), batch[k], draws)
  BY DEF ItemResults
<1> DEFINE w == IfOpened(NewWriter(layouts, Chunk(k)), batch[k], t, draws)
           refill == Refill(data, buffer, batch[k])
           left == [refill EXCEPT !.err = "none"]
<1> HIDE DEF w
<1>6. /\ w.err = "none" /\ refill.err = "none" /\ item.buffer = left
  <2> DEFINE r == IF data.kind = "tar" /\ w.err = "none" THEN refill ELSE buffer
  <2> HIDE DEF refill
  <2>1. item = [out |-> w.out, draws |-> draws, buffer |-> [r EXCEPT !.err = "none"], err |-> Ended(w, r).err]
    BY <1>5 DEF ItemResult, w, refill
  <2>2. Ended(w, r).err = "none" /\ item.buffer = [r EXCEPT !.err = "none"]
    BY <1>4, <2>1
  <2>3. w.err = "none"
    BY <2>2 DEF Ended
  <2>4. r = refill
    BY <2>3
  <2>5. refill.err = "none"
    <3> SUFFICES ASSUME refill.err # "none" PROVE FALSE
      OBVIOUS
    <3>1. Ended(w, refill) = Refuse(w, refill.err)
      BY <2>3 DEF Ended
    <3>2. Refuse(w, refill.err).err = refill.err
      <4>1. WriterOf(w, 0 .. ItemSize(layouts) - 1)
        BY WritableIs, OpenedIs DEF w
      <4> QED
        BY <4>1 DEF WriterOf, Refuse
    <3> QED
      BY <2>2, <2>4, <3>1, <3>2
  <2> QED
    BY <2>2, <2>3, <2>4, <2>5
<1>7. batch[k] \in 1 .. data.cap /\ AnyDataset(data)
  BY WritableIs, InvariantSays DEF Writable, Items
<1>8. NamedBuffer(data, buffer)
  BY <1>4 DEF NamesInv
<1>9. NamedBuffer(data, refill) /\ GoodBuffer(data, refill)
  BY <1>2, <1>6, <1>7, <1>8, RefillNamed, RefillGood
<1> HIDE DEF refill
<1>10. left.cells = refill.cells /\ left.reader = refill.reader /\ left.exhausted = refill.exhausted
  BY <1>9 DEF GoodBuffer
<1> HIDE DEF left
<1>11. NamedBuffer(data, left)
  BY <1>9, <1>10 DEF NamedBuffer
<1> QED
  BY <1>3, <1>6, <1>11

(***************************************************************************)
(* The names of the records stay those of their images.                    *)
(***************************************************************************)
LEMMA NamesStep ==
  ASSUME BatchInv, NamesInv, [BatchNext]_batchVars
  PROVE  NamesInv'
<1>1. CASE Unusable
  BY <1>1 DEF Unusable, End, NamesInv
<1>2. CASE Build
  <2>1. state' \notin {"idle", "prepare", "writing"}
    BY <1>2 DEF Build, End
  <2> QED
    BY <2>1 DEF NamesInv
<1>3. CASE FirstEpoch
  BY <1>3, NamesPrimed
<1>4. CASE Prepare
  BY <1>4, NamesStay DEF Prepare, sourceVars
<1>5. CASE CtrlC
  BY <1>5, NamesStay DEF CtrlC, sourceVars
<1>6. CASE Publish
  BY <1>6, NamesStay DEF Publish, sourceVars, End
<1>7. CASE InterruptedLate
  BY <1>7, NamesStay DEF InterruptedLate, sourceVars, End
<1>8. CASE \E k \in toWrite : Interrupted(k)
  BY <1>8, NamesStay DEF Interrupted, sourceVars, End
<1>9. CASE \E items \in Batches : Choose(items)
  BY <1>9, NamesStay DEF Choose
<1>10. CASE \E k \in toWrite : \E t \in Threads : WriteItem(k, t)
  BY <1>10, NamesRefilled
<1>11. CASE UNCHANGED batchVars
  BY <1>11, NamesStay DEF batchVars
<1> QED
  BY <1>1, <1>2, <1>3, <1>4, <1>5, <1>6, <1>7, <1>8, <1>9, <1>10, <1>11 DEF BatchNext

-----------------------------------------------------------------------------
(* All of it together.                                                     *)

\* A dataset whose tensors the consumer is to find as the reference says.
AsItIs(d) == Readable(d) /\ ~CutsImages(d) /\ ~MisnamesFiles(d)

\* The inductive invariant, beside BatchInv.
SeenInv == OriginInv /\ NamesInv /\ (AsItIs(data) => SlotsShow)

(***************************************************************************)
(* At the start nothing is promised.                                       *)
(***************************************************************************)
LEMMA SeenInit ==
  ASSUME BatchInit
  PROVE  SeenInv
<1>1. promised = [s \in Slots |-> << >>] /\ toWrite = {} /\ state = "new"
  BY DEF BatchInit
<1>2. IsSequence(<< >>)
  BY DEF IsSequence
<1>3. SlotsShow
  BY <1>1, <1>2 DEF SlotsShow, SlotsInv, ReadyShows
<1>4. NamesInv
  BY <1>1 DEF NamesInv
<1> QED
  BY <1>3, <1>4, OriginInit DEF SeenInv

(***************************************************************************)
(* Each step leaves in the slots what is promised, if the batch fits.      *)
(***************************************************************************)
LEMMA SlotsShowStep ==
  ASSUME BatchInv, BatchFits, OriginInv, NamesInv, AsItIs(data), SlotsShow, [BatchNext]_batchVars
  PROVE  SlotsShow'
<1>1. CASE Unusable
  BY <1>1, SlotsStay DEF Unusable, sourceVars, End
<1>2. CASE Build
  BY <1>2, BuildShows
<1>3. CASE FirstEpoch
  BY <1>3, SlotsStay DEF FirstEpoch, sourceVars, End
<1>4. CASE Prepare
  BY <1>4, PrepareShows DEF AsItIs
<1>5. CASE CtrlC
  BY <1>5, SlotsStay DEF CtrlC, sourceVars
<1>6. CASE Publish
  BY <1>6, PublishShows
<1>7. CASE InterruptedLate
  BY <1>7, SlotsStay DEF InterruptedLate, sourceVars, End
<1>8. CASE \E k \in toWrite : Interrupted(k)
  BY <1>8, SlotsStay DEF Interrupted, sourceVars, End
<1>9. CASE \E items \in Batches : Choose(items)
  BY <1>9, ChooseShows
<1>10. CASE \E k \in toWrite : \E t \in Threads : WriteItem(k, t)
  BY <1>10, WriteItemShows DEF AsItIs
<1>11. CASE UNCHANGED batchVars
  BY <1>11, SlotsStay DEF batchVars
<1> QED
  BY <1>1, <1>2, <1>3, <1>4, <1>5, <1>6, <1>7, <1>8, <1>9, <1>10, <1>11 DEF BatchNext

(***************************************************************************)
(* The dataset is never another.                                           *)
(***************************************************************************)
LEMMA SameDataset ==
  ASSUME [BatchNext]_batchVars
  PROVE  data' = data
BY DEF BatchNext, batchVars, Unusable, Build, FirstEpoch, Prepare, CtrlC, Publish, InterruptedLate, Choose, Interrupted,
       WriteItem, sourceVars

(***************************************************************************)
(* SeenInv is inductive beside BatchInv, where the batches fit.            *)
(***************************************************************************)
LEMMA SeenStep ==
  ASSUME BatchInv, BatchFits, SeenInv, [BatchNext]_batchVars
  PROVE  SeenInv'
<1>1. OriginInv /\ NamesInv /\ (AsItIs(data) => SlotsShow) /\ data' = data
  BY SameDataset DEF SeenInv
<1>2. OriginInv' /\ NamesInv'
  BY <1>1, OriginStep, NamesStep
<1>3. AsItIs(data) => SlotsShow'
  BY <1>1, SlotsShowStep
<1> QED
  BY <1>1, <1>2, <1>3 DEF SeenInv

(***************************************************************************)
(* Where every batch fits in its slot, the consumer finds in a ready slot, *)
(* of every item, what the decoder and the augmentations make of its image *)
(* and its label, or what the user's closures wrote, padded with zeros.    *)
(***************************************************************************)
THEOREM FittingReadersSeeItems ==
  BatchSpec /\ []BatchFits => [](Readable(data) => ReadersSeeItems)
<1>1. BatchInit => SeenInv
  BY SeenInit
<1>2. BatchInv /\ BatchFits /\ SeenInv /\ [BatchNext]_batchVars => SeenInv'
  BY SeenStep
<1>3. BatchInv /\ SeenInv => (Readable(data) => ReadersSeeItems)
  <2> SUFFICES ASSUME BatchInv, SeenInv, Readable(data)
               PROVE  ReadersSeeItems
    OBVIOUS
  <2>1. CASE CutsImages(data) \/ MisnamesFiles(data)
    BY <2>1 DEF ReadersSeeItems
  <2>2. CASE ~CutsImages(data) /\ ~MisnamesFiles(data)
    BY <2>2, SlotsAreSeen DEF SeenInv, AsItIs
  <2> QED
    BY <2>1, <2>2
<1> QED
  BY <1>1, <1>2, <1>3, BatchInvariant, PTL DEF BatchSpec

(***************************************************************************)
(* So the consumer of measured datasets, in batches no longer than the     *)
(* builder was told, always finds the items as they are.                   *)
(***************************************************************************)
THEOREM MeasuredReadersSeeItems ==
  ASSUME \A d \in Datasets : Measured(d) /\ Readable(d), \A items \in Batches : Len(items) <= BatchSize
  PROVE  BatchSpec => []ReadersSeeItems
<1>1. BatchInv => BatchFits
  BY MeasuredBatchFits
<1>2. BatchInv => Readable(data)
  BY DEF BatchInv, ChosenInv
<1> QED
  BY <1>1, <1>2, BatchInvariant, FittingReadersSeeItems, PTL
===============================================================================
