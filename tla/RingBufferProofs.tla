-------------------------- MODULE RingBufferProofs --------------------------
(***************************************************************************)
(* The ring of NetworkBuffer keeps its bytes in order, for every size.     *)
(***************************************************************************)
EXTENDS RingBuffer, SequenceTheorems, TLAPS

\* The fields of a new object.
LEMMA Fields ==
  ASSUME NEW S, NEW b, NEW e, NEW d, NEW buf
  PROVE  /\ NetworkBuffer(S, b, e, d, buf).bufferSize = S
         /\ NetworkBuffer(S, b, e, d, buf).beginIndex = b
         /\ NetworkBuffer(S, b, e, d, buf).endIndex = e
         /\ NetworkBuffer(S, b, e, d, buf).dataSize = d
         /\ NetworkBuffer(S, b, e, d, buf).buffer = buf
BY DEF NetworkBuffer

\* The fields of a sound ring.
LEMMA RingFields ==
  ASSUME NEW r, RingOK(r)
  PROVE  /\ r.bufferSize \in Nat /\ r.bufferSize > 0
         /\ r.beginIndex \in Nat /\ r.beginIndex < r.bufferSize
         /\ r.endIndex \in Nat /\ r.endIndex < r.bufferSize
         /\ r.dataSize \in Nat /\ r.dataSize <= r.bufferSize
         /\ r.buffer \in [0..(r.bufferSize - 1) -> Byte \cup {Uninit}]
BY DEF RingOK, Ring

\* A ring is sound if its fields say so.
LEMMA RingIntro ==
  ASSUME NEW S \in Nat, NEW b \in Nat, NEW e, NEW d \in Nat, b < S, d <= S,
         NEW buf \in [0..(S - 1) -> Byte \cup {Uninit}],
         e = (IF b + d < S THEN b + d ELSE b + d - S),
         \A n \in 0..(d - 1) : buf[IF b + n < S THEN b + n ELSE b + n - S] \in Byte
  PROVE  RingOK(NetworkBuffer(S, b, e, d, buf))
<1> DEFINE r == NetworkBuffer(S, b, e, d, buf)
<1>1. r \in Ring(S)
  BY DEF Ring, NetworkBuffer
<1>2. /\ r.bufferSize = S /\ r.beginIndex = b /\ r.endIndex = e /\ r.dataSize = d
      /\ r.buffer = buf
  BY Fields
<1> HIDE DEF r
<1>3. \A n : Cell(r, n) = IF b + n < S THEN b + n ELSE b + n - S
  BY <1>2 DEF Cell
<1>4. r.bufferSize \in Nat \ {0} /\ r \in Ring(r.bufferSize) /\ r.endIndex = Cell(r, r.dataSize)
  BY <1>1, <1>2, <1>3
<1>5. \A n \in 0..(r.dataSize - 1) : r.buffer[Cell(r, n)] \in Byte
  BY <1>2, <1>3
<1>6. RingOK(r)
  BY <1>4, <1>5 DEF RingOK
<1> QED BY <1>6 DEF r

LEMMA NewRingOK ==
  ASSUME NEW S \in Nat \ {0}
  PROVE  RingOK(NewRing(S))
<1>1. [i \in 0..(S - 1) |-> Uninit] \in [0..(S - 1) -> Byte \cup {Uninit}]
  OBVIOUS
<1> QED BY <1>1, RingIntro DEF NewRing

LEMMA BackToPoolOK ==
  ASSUME NEW r, RingOK(r)
  PROVE  RingOK(BackToPool(r))
BY RingFields, RingIntro DEF BackToPool

\* Which cell is the n-th, and what it holds.
LEMMA Cells ==
  ASSUME NEW r, RingOK(r), NEW n \in 0..(r.dataSize - 1)
  PROVE  /\ Cell(r, n) \in 0..(r.bufferSize - 1)
         /\ r.buffer[Cell(r, n)] \in Byte
         /\ Content(r)[n + 1] = r.buffer[Cell(r, n)]
<1>1. n + 1 \in 1..r.dataSize /\ n + 1 - 1 = n
  BY RingFields
<1>2. Content(r)[n + 1] = r.buffer[Cell(r, n)]
  BY <1>1 DEF Content
<1> QED BY <1>2, RingFields DEF RingOK, Cell

\* RemoveDate takes the first n bytes out of the ring.
LEMMA RemoveDateOK ==
  ASSUME NEW r, RingOK(r), NEW n \in 0..r.dataSize
  PROVE  /\ RingOK(RemoveDate(r, n))
         /\ RemoveDate(r, n).dataSize = r.dataSize - n
         /\ \A i \in 1..(r.dataSize - n) :
              Content(RemoveDate(r, n))[i] = Content(r)[i + n]
<1> DEFINE S == r.bufferSize
           b == IF r.beginIndex + n >= r.bufferSize
                THEN n - (r.bufferSize - r.beginIndex) ELSE r.beginIndex + n
           d == r.dataSize - n
           q == RemoveDate(r, n)
<1>1. q = NetworkBuffer(S, b, r.endIndex, d, r.buffer)
  BY DEF RemoveDate
<1>2. S \in Nat /\ b \in Nat /\ b < S /\ d \in Nat /\ d <= S
  BY RingFields
<1>3. /\ q.bufferSize = S /\ q.beginIndex = b /\ q.dataSize = d /\ q.buffer = r.buffer
  BY <1>1, Fields
<1>4. \A i \in 0..d : /\ i + n \in 0..r.dataSize
                      /\ (IF b + i < S THEN b + i ELSE b + i - S) = Cell(r, i + n)
  BY RingFields DEF Cell
<1>5. r.endIndex = IF b + d < S THEN b + d ELSE b + d - S
  <2>1. r.endIndex = Cell(r, d + n) /\ d \in 0..d
    BY <1>2, RingFields DEF RingOK
  <2> QED BY <1>4, <2>1
<1>6. \A i \in 0..(d - 1) : r.buffer[IF b + i < S THEN b + i ELSE b + i - S] \in Byte
  <2> SUFFICES ASSUME NEW i \in 0..(d - 1)
               PROVE  r.buffer[Cell(r, i + n)] \in Byte
    BY <1>2, <1>4
  <2>1. i + n \in 0..(r.dataSize - 1)
    BY <1>2, RingFields
  <2> QED BY <2>1, Cells
<1>7. r.buffer \in [0..(S - 1) -> Byte \cup {Uninit}]
  BY RingFields
<1> HIDE DEF S, b, d, q
<1>8. RingOK(q)
  BY <1>1, <1>2, <1>5, <1>6, <1>7, RingIntro
<1>9. ASSUME NEW i \in 1..d PROVE Content(q)[i] = Content(r)[i + n]
  <2>1. Content(q)[i] = r.buffer[Cell(q, i - 1)]
    BY <1>3 DEF Content
  <2>2. Cell(q, i - 1) = Cell(r, i + n - 1)
    <3>1. i - 1 \in 0..d /\ (i - 1) + n = i + n - 1
      BY <1>2
    <3> QED BY <1>3, <1>4, <3>1 DEF Cell
  <2>3. i + n \in 1..r.dataSize
    BY <1>2, RingFields DEF d
  <2>4. Content(r)[i + n] = r.buffer[Cell(r, i + n - 1)]
    BY <2>3 DEF Content
  <2> QED BY <2>1, <2>2, <2>4
<1> QED BY <1>3, <1>8, <1>9 DEF q, d

\* MemcpyFromBuffer copies the first n bytes.
LEMMA MemcpyFromBufferOK ==
  ASSUME NEW r, RingOK(r), NEW n \in 0..r.dataSize
  PROVE  /\ MemcpyFromBuffer(r, n) \in Seq(Byte)
         /\ Len(MemcpyFromBuffer(r, n)) = n
         /\ \A i \in 1..n : MemcpyFromBuffer(r, n)[i] = Content(r)[i]
<1> DEFINE s == MemcpyFromBuffer(r, n)
<1>0. n \in Nat /\ n <= r.dataSize
  BY RingFields
<1>1. ASSUME NEW i \in 1..n PROVE s[i] = Content(r)[i] /\ s[i] \in Byte
  <2>1. i - 1 \in 0..(r.dataSize - 1) /\ (i - 1) + 1 = i
    BY <1>0, RingFields
  <2>2. s[i] = r.buffer[Cell(r, i - 1)]
    <3>1. s[i] = r.buffer[IF GetReadSize(r) < n /\ i > GetReadSize(r)
                          THEN i - GetReadSize(r) - 1 ELSE r.beginIndex + i - 1]
      BY DEF MemcpyFromBuffer
    <3>2. r.endIndex = Cell(r, r.dataSize)
      BY DEF RingOK
    <3>3. (IF GetReadSize(r) < n /\ i > GetReadSize(r)
           THEN i - GetReadSize(r) - 1 ELSE r.beginIndex + i - 1) = Cell(r, i - 1)
      BY <1>0, <3>2, RingFields DEF GetReadSize, Cell
    <3> QED BY <3>1, <3>3
  <2>3. r.buffer[Cell(r, i - 1)] \in Byte /\ Content(r)[(i - 1) + 1] = r.buffer[Cell(r, i - 1)]
    BY <2>1, Cells
  <2> QED BY <2>1, <2>2, <2>3
<1>2. s = [i \in 1..n |-> s[i]]
  BY DEF MemcpyFromBuffer
<1> HIDE DEF s
<1>3. s \in [1..n -> Byte]
  BY <1>1, <1>2
<1>4. s \in Seq(Byte) /\ Len(s) = n
  BY <1>0, <1>3, SeqDef
<1> QED BY <1>1, <1>4 DEF s

\* What one send() is offered is part of the data.
LEMMA ReadSizeOK ==
  ASSUME NEW r, RingOK(r)
  PROVE  /\ GetReadSize(r) \in 0..r.dataSize
         /\ r.dataSize > 0 => GetReadSize(r) > 0
<1>1. r.endIndex = Cell(r, r.dataSize)
  BY DEF RingOK
<1> QED BY <1>1, RingFields DEF GetReadSize, Cell

\* What one recv() is offered is free, and there is some unless all is full.
LEMMA WriteSizeOK ==
  ASSUME NEW r, RingOK(r), r.dataSize < r.bufferSize
  PROVE  GetWriteSize(r) \in 1..GetEmptySize(r)
<1>1. r.endIndex = Cell(r, r.dataSize)
  BY DEF RingOK
<1> QED BY <1>1, RingFields DEF GetWriteSize, GetEmptySize, Cell

\* ReAllocBuffer keeps the bytes and their order, also those of a full ring.
LEMMA ReAllocBufferOK ==
  ASSUME NEW r, RingOK(r)
  PROVE  /\ RingOK(ReAllocBuffer(r))
         /\ ReAllocBuffer(r).dataSize = r.dataSize
         /\ ReAllocBuffer(r).bufferSize = r.bufferSize + AdditionalSize
         /\ \A i \in 1..r.dataSize : Content(ReAllocBuffer(r))[i] = Content(r)[i]
<1> DEFINE S == r.bufferSize + AdditionalSize
           tail == r.bufferSize - r.beginIndex
           d == r.dataSize
           buf == [i \in 0..(S - 1) |->
                     IF i >= d THEN Uninit
                     ELSE IF i < tail THEN r.buffer[r.beginIndex + i] ELSE r.buffer[i - tail]]
           q == ReAllocBuffer(r)
<1>1. d = IF r.beginIndex < r.endIndex THEN r.endIndex - r.beginIndex
          ELSE IF r.beginIndex = r.endIndex /\ r.dataSize <= 0 THEN 0
          ELSE tail + r.endIndex
  <2>1. r.endIndex = Cell(r, r.dataSize)
    BY DEF RingOK
  <2> QED BY <2>1, RingFields DEF Cell
<1>2. q = NetworkBuffer(S, 0, d, d, buf)
  BY <1>1 DEF ReAllocBuffer
<1>3. S \in Nat /\ d \in Nat /\ d < S /\ tail \in Nat
  BY RingFields, RingAssumption
<1>4. \A i \in 0..(d - 1) : (IF i < tail THEN r.beginIndex + i ELSE i - tail) = Cell(r, i)
  BY RingFields DEF Cell
<1>5. \A i \in 0..(d - 1) : r.buffer[Cell(r, i)] \in Byte
  BY Cells
<1>6. \A i \in 0..(d - 1) : i \in 0..(S - 1) /\ buf[i] = r.buffer[Cell(r, i)]
  BY <1>3, <1>4
<1>7. buf \in [0..(S - 1) -> Byte \cup {Uninit}]
  <2> SUFFICES ASSUME NEW i \in 0..(S - 1)
               PROVE  (IF i >= d THEN Uninit
                       ELSE IF i < tail THEN r.buffer[r.beginIndex + i] ELSE r.buffer[i - tail])
                      \in Byte \cup {Uninit}
    OBVIOUS
  <2>1. CASE i >= d
    BY <2>1
  <2>2. CASE i < d
    <3>1. i \in 0..(d - 1)
      BY <2>2, <1>3
    <3> QED BY <3>1, <2>2, <1>3, <1>4, <1>5
  <2> QED BY <1>3, <2>1, <2>2
<1>8. q.bufferSize = S /\ q.beginIndex = 0 /\ q.dataSize = d /\ q.buffer = buf
  BY <1>2, Fields
<1> HIDE DEF S, tail, d, buf, q
<1>9. RingOK(q)
  <2>1. d = IF 0 + d < S THEN 0 + d ELSE 0 + d - S
    BY <1>3
  <2>2. \A n \in 0..(d - 1) : buf[IF 0 + n < S THEN 0 + n ELSE 0 + n - S] \in Byte
    BY <1>3, <1>5, <1>6
  <2> QED BY <1>2, <1>3, <1>7, <2>1, <2>2, RingIntro
<1>10. ASSUME NEW i \in 1..d PROVE Content(q)[i] = Content(r)[i]
  <2>1. i - 1 \in 0..(d - 1) /\ (i - 1) + 1 = i
    BY <1>3
  <2>2. Content(q)[(i - 1) + 1] = buf[Cell(q, i - 1)]
    BY <1>8, <1>9, <2>1, Cells
  <2>3. Cell(q, i - 1) = i - 1
    BY <1>3, <1>8, <2>1 DEF Cell
  <2>4. Content(r)[(i - 1) + 1] = r.buffer[Cell(r, i - 1)]
    BY <2>1, Cells DEF d
  <2> QED BY <1>6, <2>1, <2>2, <2>3, <2>4
<1> QED BY <1>8, <1>9, <1>10 DEF q, d, S

\* Arithmetic of a ring of S cells with d bytes from b on, e behind the last.
LEMMA FillEnd ==
  ASSUME NEW S \in Nat, NEW b \in Nat, NEW d \in Nat, NEW n \in Nat, b < S, d + n <= S,
         NEW e, e = (IF b + d < S THEN b + d ELSE b + d - S)
  PROVE  (IF S - e <= n THEN n - (S - e) ELSE e + n)
           = IF b + (d + n) < S THEN b + (d + n) ELSE b + (d + n) - S
OBVIOUS

\* memcpy inside the buffer changes the n cells from at on.
LEMMA MemcpyOK ==
  ASSUME NEW S \in Nat, NEW buf \in [0..(S - 1) -> Byte \cup {Uninit}],
         NEW s \in Seq(Byte), NEW at \in Nat, NEW from \in Nat, NEW n \in Nat,
         from + n <= Len(s)
  PROVE  /\ Memcpy(buf, at, s, from, n) \in [0..(S - 1) -> Byte \cup {Uninit}]
         /\ \A i \in 0..(S - 1) :
              Memcpy(buf, at, s, from, n)[i] =
                IF i >= at /\ i < at + n THEN s[i - at + from + 1] ELSE buf[i]
<1>1. \A k \in 1..Len(s) : s[k] \in Byte
  OBVIOUS
<1>2. \A i \in 0..(S - 1) : i >= at /\ i < at + n => i - at + from + 1 \in 1..Len(s)
  OBVIOUS
<1>3. Memcpy(buf, at, s, from, n) =
        [i \in 0..(S - 1) |-> IF i >= at /\ i < at + n THEN s[i - at + from + 1] ELSE buf[i]]
  BY DEF Memcpy
<1>4. \A i \in 0..(S - 1) :
        (IF i >= at /\ i < at + n THEN s[i - at + from + 1] ELSE buf[i]) \in Byte \cup {Uninit}
  BY <1>1, <1>2
<1> QED BY <1>3, <1>4

\* buf is the memory of r with the n bytes of s written behind the data.
Behind(r, buf, n, s) ==
  /\ n \in 0..GetEmptySize(r)
  /\ buf \in [0..(r.bufferSize - 1) -> Byte \cup {Uninit}]
  /\ \A i \in 0..(r.dataSize - 1) : buf[Cell(r, i)] = r.buffer[Cell(r, i)]
  /\ \A i \in 0..(n - 1) : buf[Cell(r, r.dataSize + i)] = s[i + 1] /\ s[i + 1] \in Byte

\* FillDate puts the n bytes that have been written behind the data into the
\* ring: what was there stays in front of them.
LEMMA FillDateOK ==
  ASSUME NEW r, RingOK(r), NEW n, NEW s, NEW buf, Behind(r, buf, n, s)
  PROVE  /\ RingOK(FillDate(r, buf, n))
         /\ FillDate(r, buf, n).dataSize = r.dataSize + n
         /\ FillDate(r, buf, n).bufferSize = r.bufferSize
         /\ \A i \in 1..r.dataSize : Content(FillDate(r, buf, n))[i] = Content(r)[i]
         /\ \A i \in 1..n : Content(FillDate(r, buf, n))[r.dataSize + i] = s[i]
<1> DEFINE S == r.bufferSize
           b == r.beginIndex
           d == r.dataSize
           e == IF S - r.endIndex <= n THEN n - (S - r.endIndex) ELSE r.endIndex + n
           q == FillDate(r, buf, n)
<1>1. q = NetworkBuffer(S, b, e, d + n, buf)
  BY DEF FillDate
<1>2. q.bufferSize = S /\ q.beginIndex = b /\ q.dataSize = d + n /\ q.buffer = buf
  BY <1>1, Fields
<1>3. S \in Nat /\ b \in Nat /\ b < S /\ d \in Nat /\ n \in Nat /\ d + n <= S
  BY RingFields DEF GetEmptySize, Behind
<1>4. e = IF b + (d + n) < S THEN b + (d + n) ELSE b + (d + n) - S
  <2>1. r.endIndex = IF b + d < S THEN b + d ELSE b + d - S
    BY DEF RingOK, Cell
  <2> HIDE DEF S, b, d
  <2> QED BY <1>3, <2>1, FillEnd DEF e
<1>5. \A i : Cell(r, i) = IF b + i < S THEN b + i ELSE b + i - S
  BY DEF Cell
<1>6. \A i : Cell(q, i) = Cell(r, i)
  BY <1>2 DEF Cell
<1>7. ASSUME NEW i \in 0..(d + n - 1)
      PROVE  /\ buf[Cell(r, i)] \in Byte
             /\ i < d => buf[Cell(r, i)] = r.buffer[Cell(r, i)]
             /\ i >= d => buf[Cell(r, i)] = s[i - d + 1]
  <2>1. CASE i < d
    <3>1. i \in 0..(d - 1)
      BY <1>3, <2>1
    <3>2. r.buffer[Cell(r, i)] \in Byte
      BY <3>1, Cells
    <3>3. buf[Cell(r, i)] = r.buffer[Cell(r, i)]
      BY <3>1 DEF Behind
    <3> QED BY <1>3, <2>1, <3>2, <3>3
  <2>2. CASE i >= d
    <3>1. i - d \in 0..(n - 1) /\ d + (i - d) = i
      BY <1>3, <2>2
    <3>2. buf[Cell(r, d + (i - d))] = s[(i - d) + 1] /\ s[(i - d) + 1] \in Byte
      BY <3>1 DEF Behind
    <3> QED BY <1>3, <2>2, <3>1, <3>2
  <2> QED BY <1>3, <2>1, <2>2
<1> HIDE DEF S, b, d, e, q
<1>8. RingOK(q)
  <2>1. ASSUME NEW i \in 0..((d + n) - 1)
        PROVE  buf[IF b + i < S THEN b + i ELSE b + i - S] \in Byte
    <3>1. buf[Cell(r, i)] \in Byte
      BY <1>3, <1>7
    <3> QED BY <1>5, <3>1
  <2>2. d + n \in Nat /\ buf \in [0..(S - 1) -> Byte \cup {Uninit}]
    BY <1>3 DEF S, Behind
  <2> QED BY <1>1, <1>3, <1>4, <2>1, <2>2, RingIntro
<1>9. ASSUME NEW i \in 0..(d + n - 1) PROVE Content(q)[i + 1] = buf[Cell(r, i)]
  <2>1. i \in 0..(q.dataSize - 1)
    BY <1>2, <1>3
  <2>2. Content(q)[i + 1] = q.buffer[Cell(q, i)]
    BY <1>8, <2>1, Cells
  <2> QED BY <1>2, <1>6, <2>2
<1>10. ASSUME NEW i \in 1..d PROVE Content(q)[i] = Content(r)[i]
  <2>1. i - 1 \in 0..(d + n - 1) /\ (i - 1) + 1 = i /\ i - 1 < d /\ i - 1 \in 0..(d - 1)
    BY <1>3
  <2>2. Content(q)[(i - 1) + 1] = r.buffer[Cell(r, i - 1)]
    BY <1>7, <1>9, <2>1
  <2>3. Content(r)[(i - 1) + 1] = r.buffer[Cell(r, i - 1)]
    BY <2>1, Cells DEF d
  <2> QED BY <2>1, <2>2, <2>3
<1>11. ASSUME NEW i \in 1..n PROVE Content(q)[d + i] = s[i]
  <2>1. /\ d + i - 1 \in 0..(d + n - 1) /\ (d + i - 1) + 1 = d + i
        /\ d + i - 1 >= d /\ d + i - 1 - d + 1 = i
    BY <1>3
  <2>2. Content(q)[(d + i - 1) + 1] = buf[Cell(r, d + i - 1)]
    BY <1>9, <2>1
  <2>3. buf[Cell(r, d + i - 1)] = s[d + i - 1 - d + 1]
    BY <1>3, <1>7, <2>1
  <2> QED BY <2>1, <2>2, <2>3
<1> QED BY <1>2, <1>8, <1>10, <1>11 DEF q, d, S

\* Cell i of a ring of S cells with the data from b on.
CellOf(S, b, i) == IF b + i < S THEN b + i ELSE b + i - S

\* What MemcpyToBuffer makes of the memory R, for n bytes s.
Copied(S, b, d, n, e, w, R, s, buf) ==
  /\ S \in Nat /\ b \in Nat /\ d \in Nat /\ n \in Nat /\ b < S /\ d + n <= S
  /\ e \in Nat /\ e = CellOf(S, b, d)
  /\ w \in Nat /\ w = (IF b <= e THEN S - e ELSE b - e)
  /\ R \in [0..(S - 1) -> Byte \cup {Uninit}]
  /\ s \in Seq(Byte) /\ n = Len(s)
  /\ buf = (IF w < n THEN Memcpy(Memcpy(R, e, s, 0, w), 0, s, w, n - w)
                     ELSE Memcpy(R, e, s, 0, n))

\* Where MemcpyToBuffer writes: the data of the ring (d bytes from b on) is not
\* touched, and the n cells behind it, perhaps wrapped, get the bytes of s.
LEMMA WriteCells ==
  ASSUME NEW S, NEW b, NEW d, NEW n, NEW e, NEW w, NEW R, NEW s, NEW buf,
         Copied(S, b, d, n, e, w, R, s, buf)
  PROVE  /\ buf \in [0..(S - 1) -> Byte \cup {Uninit}]
         /\ \A i \in 0..(d - 1) : buf[CellOf(S, b, i)] = R[CellOf(S, b, i)]
         /\ \A i \in 0..(n - 1) : buf[CellOf(S, b, d + i)] = s[i + 1] /\ s[i + 1] \in Byte
<1> USE DEF Copied, CellOf
<1> DEFINE one == Memcpy(R, e, s, 0, n)
           part == Memcpy(R, e, s, 0, w)
           two == Memcpy(part, 0, s, w, n - w)
<1>1. \A k \in 1..n : s[k] \in Byte
  OBVIOUS
<1>2. /\ one \in [0..(S - 1) -> Byte \cup {Uninit}]
      /\ \A i \in 0..(S - 1) :
           one[i] = IF i >= e /\ i < e + n THEN s[i - e + 1] ELSE R[i]
  <2>1. 0 + n <= Len(s) /\ 0 \in Nat
    OBVIOUS
  <2>2. /\ one \in [0..(S - 1) -> Byte \cup {Uninit}]
        /\ \A i \in 0..(S - 1) :
             one[i] = IF i >= e /\ i < e + n THEN s[i - e + 0 + 1] ELSE R[i]
    BY <2>1, MemcpyOK
  <2> QED BY <2>2
<1>3. ASSUME w < n
      PROVE  /\ two \in [0..(S - 1) -> Byte \cup {Uninit}]
             /\ \A i \in 0..(S - 1) :
                  two[i] = IF i < n - w THEN s[i + w + 1]
                           ELSE IF i >= e /\ i < e + w THEN s[i - e + 1] ELSE R[i]
  <2>1. 0 + w <= Len(s) /\ 0 \in Nat /\ n - w \in Nat /\ w + (n - w) <= Len(s)
    BY <1>3
  <2>2. /\ part \in [0..(S - 1) -> Byte \cup {Uninit}]
        /\ \A i \in 0..(S - 1) :
             part[i] = IF i >= e /\ i < e + w THEN s[i - e + 0 + 1] ELSE R[i]
    BY <2>1, MemcpyOK
  <2> HIDE DEF part
  <2>3. /\ two \in [0..(S - 1) -> Byte \cup {Uninit}]
        /\ \A i \in 0..(S - 1) :
             two[i] = IF i >= 0 /\ i < 0 + (n - w) THEN s[i - 0 + w + 1] ELSE part[i]
    <3>1. two = [i \in 0..(S - 1) |->
                   IF i >= 0 /\ i < 0 + (n - w) THEN s[i - 0 + w + 1] ELSE part[i]]
      BY <2>2 DEF Memcpy
    <3>2. \A i \in 0..(S - 1) : i < n - w => s[i + w + 1] \in Byte
      BY <1>1, <2>1
    <3> QED BY <2>1, <2>2, <3>1, <3>2
  <2> HIDE DEF two
  <2> QED BY <2>2, <2>3
<1>4. buf = IF w < n THEN two ELSE one
  OBVIOUS
<1> HIDE DEF one, part, two
<1>5. buf \in [0..(S - 1) -> Byte \cup {Uninit}]
  BY <1>2, <1>3, <1>4
<1>6. w < n => b <= e /\ S = e + w /\ e = b + d
  OBVIOUS
<1>7. ASSUME NEW i \in 0..(d - 1)
      PROVE  buf[CellOf(S, b, i)] = R[CellOf(S, b, i)]
  <2> DEFINE c == CellOf(S, b, i)
  <2>0. c = IF b + i < S THEN b + i ELSE b + i - S
    OBVIOUS
  <2> SUFFICES buf[c] = R[c]
    OBVIOUS
  <2> HIDE DEF c
  <2>1. c \in 0..(S - 1)
    BY <2>0
  <2>2. CASE w < n
    <3>1. c < e /\ c >= n - w
      BY <1>6, <2>0, <2>2
    <3> QED BY <1>3, <1>4, <2>1, <2>2, <3>1
  <2>3. CASE ~(w < n)
    <3>1. c < e \/ c >= e + n
      BY <2>0, <2>3
    <3> QED BY <1>2, <1>4, <2>1, <2>3, <3>1
  <2> QED BY <2>2, <2>3
<1>8. ASSUME NEW i \in 0..(n - 1)
      PROVE  buf[CellOf(S, b, d + i)] = s[i + 1] /\ s[i + 1] \in Byte
  <2> DEFINE c == CellOf(S, b, d + i)
  <2>0. c = IF b + (d + i) < S THEN b + (d + i) ELSE b + (d + i) - S
    OBVIOUS
  <2> SUFFICES buf[c] = s[i + 1] /\ s[i + 1] \in Byte
    OBVIOUS
  <2> HIDE DEF c
  <2>1. c \in 0..(S - 1) /\ c = (IF e + i < S THEN e + i ELSE e + i - S)
    BY <2>0
  <2>2. i + 1 \in 1..n
    OBVIOUS
  <2>3. CASE w < n /\ e + i < S
    <3>1. c = e + i /\ c >= n - w /\ c >= e /\ c < e + w /\ c - e + 1 = i + 1
      BY <1>6, <2>1, <2>3
    <3>2. ~(c < n - w)
      BY <3>1
    <3>3. buf[c] = s[c - e + 1]
      BY <1>3, <1>4, <2>1, <2>3, <3>1, <3>2
    <3> QED BY <1>1, <2>2, <3>1, <3>3
  <2>4. CASE w < n /\ ~(e + i < S)
    <3>1. c < n - w /\ c + w + 1 = i + 1
      BY <1>6, <2>1, <2>4
    <3>2. buf[c] = s[c + w + 1]
      BY <1>3, <1>4, <2>1, <2>4, <3>1
    <3> QED BY <1>1, <2>2, <3>1, <3>2
  <2>5. CASE ~(w < n)
    <3>1. c >= e /\ c < e + n /\ c - e + 1 = i + 1
      BY <2>1, <2>5
    <3>2. buf[c] = s[c - e + 1]
      BY <1>2, <1>4, <2>1, <2>5, <3>1
    <3> QED BY <1>1, <2>2, <3>1, <3>2
  <2> QED BY <2>3, <2>4, <2>5
<1> QED BY <1>5, <1>7, <1>8

\* MemcpyToBuffer appends s to the data, wrapped or not.
LEMMA MemcpyToBufferOK ==
  ASSUME NEW r, RingOK(r), NEW s \in Seq(Byte), Len(s) <= GetEmptySize(r)
  PROVE  /\ RingOK(MemcpyToBuffer(r, s))
         /\ MemcpyToBuffer(r, s).dataSize = r.dataSize + Len(s)
         /\ MemcpyToBuffer(r, s).bufferSize = r.bufferSize
         /\ \A i \in 1..r.dataSize : Content(MemcpyToBuffer(r, s))[i] = Content(r)[i]
         /\ \A i \in 1..Len(s) : Content(MemcpyToBuffer(r, s))[r.dataSize + i] = s[i]
<1> DEFINE S == r.bufferSize
           b == r.beginIndex
           d == r.dataSize
           e == r.endIndex
           w == GetWriteSize(r)
           n == Len(s)
           R == r.buffer
           buf == IF w < n THEN Memcpy(Memcpy(R, e, s, 0, w), 0, s, w, n - w)
                           ELSE Memcpy(R, e, s, 0, n)
<1>1. /\ S \in Nat /\ b \in Nat /\ d \in Nat /\ e \in Nat /\ n \in Nat /\ b < S /\ d + n <= S
      /\ R \in [0..(S - 1) -> Byte \cup {Uninit}]
  BY RingFields DEF GetEmptySize
<1>2. e = IF b + d < S THEN b + d ELSE b + d - S
  BY DEF RingOK, Cell
<1>3. w \in Nat /\ w = (IF b <= e THEN S - e ELSE b - e)
  BY RingFields DEF GetWriteSize
<1>4. n \in 0..GetEmptySize(r)
  BY <1>1 DEF GetEmptySize
<1>5. \A i : Cell(r, i) = CellOf(S, b, i)
  BY DEF Cell, CellOf
<1>6. MemcpyToBuffer(r, s) = FillDate(r, buf, n)
  BY DEF MemcpyToBuffer
<1>7. Copied(S, b, d, n, e, w, R, s, buf)
  <2> HIDE DEF S, b, d, e, w, R
  <2> QED BY <1>1, <1>2, <1>3 DEF Copied, CellOf
<1> HIDE DEF buf
<1>8. /\ buf \in [0..(S - 1) -> Byte \cup {Uninit}]
      /\ \A i \in 0..(d - 1) : buf[CellOf(S, b, i)] = R[CellOf(S, b, i)]
      /\ \A i \in 0..(n - 1) : buf[CellOf(S, b, d + i)] = s[i + 1] /\ s[i + 1] \in Byte
  BY <1>7, WriteCells
<1>9. Behind(r, buf, n, s)
  BY <1>4, <1>5, <1>8 DEF Behind
<1> QED BY <1>6, <1>9, FillDateOK
=============================================================================
