----------------------------- MODULE RingBuffer -----------------------------
(***************************************************************************)
(* NetworkBuffer and its base Buffer (libs/libserver): the ring that holds *)
(* the bytes a connection has received and not parsed yet, or has still to *)
(* send.  A ring is a record with the fields of the class; an operator     *)
(* takes the ring before a call and gives the ring after it.               *)
(***************************************************************************)
EXTENDS Integers, Sequences

CONSTANTS
  Byte,              \* the values of a byte
  Uninit,            \* what new char[] leaves in a cell
  AdditionalSize     \* ADDITIONAL_SIZE

ASSUME RingAssumption == AdditionalSize \in Nat \ {0} /\ Uninit \notin Byte

Ring(size) ==
  [bufferSize : {size}, beginIndex : 0..(size - 1), endIndex : 0..(size - 1),
   dataSize : 0..size, buffer : [0..(size - 1) -> Byte \cup {Uninit}]]

\* The object with these fields.
NetworkBuffer(size, begin, end, data, buffer) ==
  [bufferSize |-> size, beginIndex |-> begin, endIndex |-> end, dataSize |-> data,
   buffer |-> buffer]

NewRing(size) == NetworkBuffer(size, 0, 0, 0, [i \in 0..(size - 1) |-> Uninit])

\* Mutated form: the data of the former connection stays.
BackToPoolDirty(r) == r

\* The memory and its old bytes stay with the object.
BackToPool(r) == NetworkBuffer(r.bufferSize, 0, 0, 0, r.buffer)

GetEmptySize(r) == r.bufferSize - r.dataSize

GetWriteSize(r) ==
  IF r.beginIndex <= r.endIndex THEN r.bufferSize - r.endIndex
                                ELSE r.beginIndex - r.endIndex

\* Also SendNetworkBuffer::GetBuffer, which repeats it.
GetReadSize(r) ==
  IF r.dataSize <= 0 THEN 0
  ELSE IF r.beginIndex < r.endIndex THEN r.endIndex - r.beginIndex
                                    ELSE r.bufferSize - r.beginIndex

\* Mutated form: < for <=, so that endIndex may stop behind the last byte.
FillDateLate(r, buffer, n) ==
  LET tail == r.bufferSize - r.endIndex
  IN  NetworkBuffer(r.bufferSize, r.beginIndex,
                    IF tail < n THEN n - tail ELSE r.endIndex + n,
                    r.dataSize + n, buffer)

\* FillDate after n bytes have been written to the memory, now buffer.
FillDate(r, buffer, n) ==
  LET tail == r.bufferSize - r.endIndex
  IN  NetworkBuffer(r.bufferSize, r.beginIndex,
                    IF tail <= n THEN n - tail ELSE r.endIndex + n,
                    r.dataSize + n, buffer)

\* Mutated form: > for >=, so that beginIndex may stop behind the last byte.
RemoveDateLate(r, n) ==
  LET tail == r.bufferSize - r.beginIndex
  IN  NetworkBuffer(r.bufferSize,
                    IF n > tail THEN n - tail ELSE r.beginIndex + n,
                    r.endIndex, r.dataSize - n, r.buffer)

RemoveDate(r, n) ==
  LET tail == r.bufferSize - r.beginIndex
  IN  NetworkBuffer(r.bufferSize,
                    IF r.beginIndex + n >= r.bufferSize THEN n - tail ELSE r.beginIndex + n,
                    r.endIndex, r.dataSize - n, r.buffer)

\* memcpy of the n bytes s[from + 1], s[from + 2]... to the cells from at on.
Memcpy(buffer, at, s, from, n) ==
  [i \in DOMAIN buffer |-> IF i >= at /\ i < at + n THEN s[i - at + from + 1] ELSE buffer[i]]

\* Mutated form: the second memcpy starts over at the first byte.
MemcpyToBufferAgain(r, s) ==
  LET w == GetWriteSize(r)
      n == Len(s)
  IN  FillDate(r, IF w < n
                  THEN Memcpy(Memcpy(r.buffer, r.endIndex, s, 0, w), 0, s, 0, n - w)
                  ELSE Memcpy(r.buffer, r.endIndex, s, 0, n), n)

\* SendNetworkBuffer::MemcpyToBuffer: what does not fit at the tail goes to
\* the front.
MemcpyToBuffer(r, s) ==
  LET w == GetWriteSize(r)
      n == Len(s)
  IN  FillDate(r, IF w < n
                  THEN Memcpy(Memcpy(r.buffer, r.endIndex, s, 0, w), 0, s, w, n - w)
                  ELSE Memcpy(r.buffer, r.endIndex, s, 0, n), n)

\* RecvNetworkBuffer::MemcpyFromBuffer: the n bytes it copies.
MemcpyFromBuffer(r, n) ==
  LET rs == GetReadSize(r)
  IN  [i \in 1..n |-> IF rs < n /\ i > rs THEN r.buffer[i - rs - 1]
                                          ELSE r.buffer[r.beginIndex + i - 1]]

\* Buffer::ReAllocBuffer(_dataSize): the data moves to the front of a larger
\* buffer, the part at the tail first.
ReAllocBuffer(r) ==
  LET size == r.bufferSize + AdditionalSize
      tail == r.bufferSize - r.beginIndex
      used == IF r.beginIndex < r.endIndex THEN r.endIndex - r.beginIndex
              ELSE IF r.beginIndex = r.endIndex /\ r.dataSize <= 0 THEN 0
              ELSE tail + r.endIndex
  IN  NetworkBuffer(size, 0, used, r.dataSize,
        [i \in 0..(size - 1) |->
           IF i >= used THEN Uninit
           ELSE IF i < tail THEN r.buffer[r.beginIndex + i] ELSE r.buffer[i - tail]])

-----------------------------------------------------------------------------
(* What the indexes have to say about the data.                            *)

\* The cell that is n places after the first byte of data.
Cell(r, n) ==
  IF r.beginIndex + n < r.bufferSize THEN r.beginIndex + n
                                     ELSE r.beginIndex + n - r.bufferSize

\* The indexes enclose exactly dataSize bytes, and each has been written.
RingOK(r) ==
  /\ r.bufferSize \in Nat \ {0}
  /\ r \in Ring(r.bufferSize)
  /\ r.endIndex = Cell(r, r.dataSize)
  /\ \A n \in 0..(r.dataSize - 1) : r.buffer[Cell(r, n)] \in Byte

\* The bytes in the ring, first in first out.
Content(r) == [i \in 1..r.dataSize |-> r.buffer[Cell(r, i - 1)]]
=============================================================================
