------------------------ MODULE ConnectStreamProofs ------------------------
(***************************************************************************)
(* The sender of a connection keeps its ring sound, for every size of the  *)
(* buffer, of the kernel's buffers and of the messages; so does the        *)
(* receiver, and the connection is a channel: ConnectStream implements     *)
(* PacketChannel.                                                          *)
(***************************************************************************)
EXTENDS ConnectStream, RingBufferProofs

Packet == [fd : Fd, key : Key, msg : Message]

\* What waits in _sendMsgList can be encoded, and the wire holds bytes.
ListOK ==
  /\ sendList \in Seq(Packet)
  /\ fds \in Seq(Fd)
  /\ wire \in Seq(Byte)

SendInv == SendRingOK /\ ListOK

\* The encoding of a message is a sequence of bytes of the announced length.
LEMMA Encoding ==
  ASSUME NEW m \in Message
  PROVE  /\ HeadOf(m) \in Seq(Byte) /\ m.data \in Seq(Byte)
         /\ TotalSize(m) = SizeLen + SizeLen + Len(HeadOf(m)) + Len(m.data)
         /\ TotalSize(m) \in Nat
<1>1. /\ m.id \in Byte /\ m.entity \in Byte /\ m.player \in Byte /\ m.data \in Seq(Byte)
      /\ Len(m.data) + Len(HeadOf(m)) + SizeLen * 2 < Base * Base
      /\ Base \in Nat
  BY StreamAssumption
<1>2. HeadOf(m) \in Seq(Byte)
  BY <1>1 DEF HeadOf, PacketHead, PacketHeadS2S
<1>3. Len(HeadOf(m)) \in Nat /\ Len(m.data) \in Nat
  BY <1>1, <1>2
<1> DEFINE x == Len(m.data) + Len(HeadOf(m)) + SizeLen * 2
           y == Base * Base
<1>4. x \in Nat /\ y \in Nat /\ x < y
  BY <1>1, <1>3 DEF SizeLen
<1>5. TotalSize(m) = x % y
  BY DEF TotalSize
<1>6. x = SizeLen + SizeLen + Len(HeadOf(m)) + Len(m.data)
  <2>1. \A p, q \in Nat : p + q + 2 * 2 = 2 + 2 + q + p
    OBVIOUS
  <2> QED BY <1>3, <2>1 DEF SizeLen
<1> HIDE DEF x, y
<1>7. x % y = x
  BY <1>4
<1> QED BY <1>1, <1>2, <1>4, <1>5, <1>6, <1>7

\* Two bytes hold a length.
LEMMA ShortOK ==
  ASSUME NEW n \in Nat
  PROVE  Short(n) \in Seq(Byte) /\ Len(Short(n)) = SizeLen
<1>1. Base \in Nat /\ Base > 0 /\ Byte = 0..(Base - 1)
  BY StreamAssumption DEF HeadS2SSize
<1>2. n % Base \in Byte
  BY <1>1
<1>3. n \div Base \in Nat
  BY <1>1
<1>4. (n \div Base) % Base \in Byte
  BY <1>1, <1>3
<1> QED BY <1>2, <1>4 DEF Short, SizeLen

\* AddPacket: the four parts fit one after the other.
LEMMA FourParts ==
  ASSUME NEW r, RingOK(r), NEW a \in Seq(Byte), NEW b \in Seq(Byte),
         NEW c \in Seq(Byte), NEW d \in Seq(Byte),
         GetEmptySize(r) >= Len(a) + Len(b) + Len(c) + Len(d)
  PROVE  RingOK(MemcpyToBuffer(MemcpyToBuffer(MemcpyToBuffer(MemcpyToBuffer(r, a), b), c), d))
<1> DEFINE s1 == MemcpyToBuffer(r, a)
           s2 == MemcpyToBuffer(s1, b)
           s3 == MemcpyToBuffer(s2, c)
<1>0. /\ Len(a) \in Nat /\ Len(b) \in Nat /\ Len(c) \in Nat /\ Len(d) \in Nat
      /\ GetEmptySize(r) \in Int
  BY RingFields DEF GetEmptySize
<1>1. RingOK(s1) /\ GetEmptySize(s1) = GetEmptySize(r) - Len(a)
  <2>1. Len(a) <= GetEmptySize(r)
    BY <1>0
  <2>2. RingOK(s1) /\ s1.dataSize = r.dataSize + Len(a) /\ s1.bufferSize = r.bufferSize
    BY <2>1, MemcpyToBufferOK
  <2> HIDE DEF s1
  <2> QED BY <1>0, <2>2, RingFields DEF GetEmptySize
<1> HIDE DEF s1
<1>2. RingOK(s2) /\ GetEmptySize(s2) = GetEmptySize(s1) - Len(b)
  <2>1. Len(b) <= GetEmptySize(s1)
    BY <1>0, <1>1
  <2>2. RingOK(s2) /\ s2.dataSize = s1.dataSize + Len(b) /\ s2.bufferSize = s1.bufferSize
    BY <1>1, <2>1, MemcpyToBufferOK
  <2> HIDE DEF s2
  <2> QED BY <1>0, <1>1, <2>2, RingFields DEF GetEmptySize
<1> HIDE DEF s2
<1>3. RingOK(s3) /\ GetEmptySize(s3) = GetEmptySize(s2) - Len(c)
  <2>1. Len(c) <= GetEmptySize(s2)
    BY <1>0, <1>1, <1>2
  <2>2. RingOK(s3) /\ s3.dataSize = s2.dataSize + Len(c) /\ s3.bufferSize = s2.bufferSize
    BY <1>2, <2>1, MemcpyToBufferOK
  <2> HIDE DEF s3
  <2> QED BY <1>0, <1>2, <2>2, RingFields DEF GetEmptySize
<1> HIDE DEF s3
<1>4. Len(d) <= GetEmptySize(s3)
  BY <1>0, <1>1, <1>2, <1>3
<1>5. RingOK(MemcpyToBuffer(s3, d))
  BY <1>3, <1>4, MemcpyToBufferOK
<1> QED BY <1>5 DEF s3, s2, s1

LEMMA SendInit == Init => SendInv
<1> SUFFICES ASSUME Init PROVE SendInv
  OBVIOUS
<1>1. RingOK(sbuf)
  BY NewRingOK, StreamAssumption DEF Init
<1>2. fds \in Seq(Fd)
  <2>1. (CHOOSE f \in Fd : TRUE) \in Fd
    BY StreamAssumption
  <2> QED BY <2>1 DEF Init
<1> QED BY <1>1, <1>2 DEF Init, SendInv, SendRingOK, ListOK

\* AddPacket writes no more than the space that GrowSendBuffer has made.
LEMMA AddPacketStep == SendInv /\ AddPacket => SendInv'
<1> SUFFICES ASSUME SendInv, AddPacket PROVE SendInv'
  OBVIOUS
<1> DEFINE m == HeadOfSendList.msg
<1>1. /\ sendList # <<>> /\ sendList' = Tail(sendList) /\ wire' = wire /\ fds' = fds
      /\ GetEmptySize(sbuf) >= TotalSize(m)
  BY DEF AddPacket, conn
<1>2. m \in Message
  <2>1. sendList \in Seq(Packet)
    BY DEF SendInv, ListOK
  <2>2. Head(sendList) \in Packet
    BY <1>1, <2>1
  <2> QED BY <2>2 DEF HeadOfSendList, Packet
<1>3. sbuf' = MemcpyToBuffer(MemcpyToBuffer(MemcpyToBuffer(MemcpyToBuffer(sbuf,
                Short(TotalSize(m))), Short(Len(HeadOf(m)))), HeadOf(m)), m.data)
  BY DEF AddPacket
<1> HIDE DEF m
<1>4. /\ HeadOf(m) \in Seq(Byte) /\ m.data \in Seq(Byte)
      /\ TotalSize(m) = SizeLen + SizeLen + Len(HeadOf(m)) + Len(m.data)
      /\ TotalSize(m) \in Nat /\ Len(HeadOf(m)) \in Nat
  BY <1>2, Encoding
<1>5. /\ Short(TotalSize(m)) \in Seq(Byte) /\ Len(Short(TotalSize(m))) = SizeLen
      /\ Short(Len(HeadOf(m))) \in Seq(Byte) /\ Len(Short(Len(HeadOf(m)))) = SizeLen
  BY <1>4, ShortOK
<1>6. RingOK(sbuf)
  BY DEF SendInv, SendRingOK
<1>7. RingOK(sbuf')
  BY <1>1, <1>3, <1>4, <1>5, <1>6, FourParts
<1>8. ListOK'
  BY <1>1 DEF SendInv, ListOK
<1> QED BY <1>7, <1>8 DEF SendInv, SendRingOK

\* A partial send removes what the kernel took, never more than there is.
LEMMA SendSomeStep == SendInv /\ SendSome => SendInv'
<1> SUFFICES ASSUME SendInv, SendSome PROVE SendInv'
  OBVIOUS
<1> DEFINE need == GetReadSize(sbuf)
           room == SockBuf - Len(wire)
           size == SmallerOf(need, room)
<1>1. /\ need > 0 /\ Len(wire) < SockBuf
      /\ sbuf' = RemoveDate(sbuf, size)
      /\ wire' = wire \o SubSeq(MemcpyFromBuffer(sbuf, need), 1, size)
      /\ sendList' = sendList /\ fds' = fds
  BY DEF SendSome, conn
<1>2. RingOK(sbuf) /\ wire \in Seq(Byte)
  BY DEF SendInv, SendRingOK, ListOK
<1>3. need \in 0..sbuf.dataSize /\ sbuf.dataSize \in Nat
  BY <1>2, ReadSizeOK, RingFields
<1>4. room \in Nat
  BY <1>1, <1>2, StreamAssumption
<1>5. MemcpyFromBuffer(sbuf, need) \in Seq(Byte) /\ Len(MemcpyFromBuffer(sbuf, need)) = need
  BY <1>2, <1>3, MemcpyFromBufferOK
<1> HIDE DEF need, room
<1>6. size \in 0..need /\ size \in 0..sbuf.dataSize
  BY <1>3, <1>4 DEF SmallerOf
<1> HIDE DEF size
<1>7. RingOK(sbuf')
  BY <1>1, <1>2, <1>6, RemoveDateOK
<1>8. SubSeq(MemcpyFromBuffer(sbuf, need), 1, size) \in Seq(Byte)
  BY <1>3, <1>5, <1>6
<1>9. wire' \in Seq(Byte)
  BY <1>1, <1>2, <1>8
<1> QED BY <1>1, <1>7, <1>9 DEF SendInv, SendRingOK, ListOK

LEMMA SendNext == SendInv /\ [Next]_vars => SendInv'
<1> SUFFICES ASSUME SendInv, [Next]_vars PROVE SendInv'
  OBVIOUS
<1>0. /\ RingOK(sbuf) /\ sendList \in Seq(Packet)
      /\ fds \in Seq(Fd) /\ wire \in Seq(Byte)
  BY DEF SendInv, SendRingOK, ListOK
<1> USE DEF SendInv, SendRingOK, ListOK, conn
<1>1. ASSUME NEW c \in 1..Len(fds), NEW k \in Key, NEW m \in Message, SendPacket(c, k, m)
      PROVE  SendInv'
  <2>1. [fd |-> fds[c], key |-> k, msg |-> m] \in Packet
    BY <1>0 DEF Packet
  <2>2. sendList' \in Seq(Packet)
    BY <1>0, <1>1, <2>1 DEF SendPacket
  <2> QED BY <1>0, <1>1, <2>2 DEF SendPacket, sender
<1>2. CASE EpollOut
  BY <1>0, <1>2 DEF EpollOut
<1>3. CASE EpollHup
  BY <1>0, <1>3, BackToPoolOK DEF EpollHup, RemoveSender
<1>4. CASE EpollNone
  BY <1>0, <1>4 DEF EpollNone
<1>5. CASE SendSome
  BY <1>5, SendSomeStep
<1>6. CASE SendDone
  BY <1>0, <1>6 DEF SendDone
<1>7. CASE SendFails
  BY <1>0, <1>7, BackToPoolOK DEF SendFails, RemoveSender
<1>8. CASE DropPacket
  <2>1. sendList' \in Seq(Packet)
    BY <1>0, <1>8 DEF DropPacket
  <2> QED BY <1>0, <1>8, <2>1 DEF DropPacket, sender
<1>9. CASE GrowSendBuffer
  BY <1>0, <1>9, ReAllocBufferOK DEF GrowSendBuffer
<1>10. CASE AddPacket
  BY <1>10, AddPacketStep
<1>11. CASE UpdateDone
  BY <1>0, <1>11 DEF UpdateDone
<1>12. CASE \E size \in 1..SockBuf : Recv(size)
  <2> PICK size \in 1..SockBuf : Recv(size)
    BY <1>12
  <2>1. wire' = SubSeq(wire, size + 1, Len(wire))
    BY DEF Recv
  <2>2. wire' \in Seq(Byte)
    BY <1>0, <2>1
  <2> QED BY <1>0, <2>2 DEF Recv, sender
<1>13. CASE CreateConnectObj
  <2>1. fds' \in Seq(Fd)
    BY <1>0, <1>13 DEF CreateConnectObj
  <2> QED BY <1>0, <1>13, <2>1 DEF CreateConnectObj
<1>14. CASE HandleDisconnect \/ EpollRdHup \/ EpollIn \/ EpollNothing \/ RecvEnd
            \/ NoPacket \/ GetTcpPacket
  <2>1. UNCHANGED <<sbuf, sendList, wire, fds>>
    BY <1>14 DEF HandleDisconnect, EpollRdHup, EpollIn, EpollNothing, RecvEnd, NoPacket,
                 GetTcpPacket, sender
  <2> QED BY <1>0, <2>1
<1>15. CASE UNCHANGED vars
  BY <1>0, <1>15 DEF vars, sender
<1>16. ASSUME NEW k \in ListenKey, HandleListenKey(k) PROVE SendInv'
  BY <1>0, <1>16 DEF HandleListenKey, sender
<1> QED BY <1>1, <1>2, <1>3, <1>4, <1>5, <1>6, <1>7, <1>8, <1>9, <1>10, <1>11, <1>12, <1>13,
           <1>14, <1>15, <1>16 DEF Next, Sender, Receiver

\* The send buffer of a ConnectObj stays sound for every buffer size and every
\* message: AddPacket, the partial sends of ConnectObj::Send, ReAllocBuffer and
\* the reuse of the object keep its indexes and its data in step.
THEOREM SendBufferIsSound == Spec => []SendRingOK
<1>1. SendInv => SendRingOK
  BY DEF SendInv
<1> QED BY SendInit, SendNext, <1>1, PTL DEF Spec

(***************************************************************************)
(* A connection is a channel.                                              *)
(*                                                                         *)
(* The invariant speaks of the stream of a connection, all the bytes its   *)
(* sender has put into its buffer so far: the receive buffer, the wire and *)
(* the send buffer hold three pieces of it, one after the other, and it is *)
(* made of the frames of the packets it was given, or of the first of them *)
(* when the sender is gone.                                                *)
(***************************************************************************)
-----------------------------------------------------------------------------
(* The two bytes of a length.                                              *)

LEMMA DivMod ==
  ASSUME NEW n \in Nat, NEW k \in Nat, k > 0
  PROVE  n % k \in 0..(k - 1) /\ n \div k \in Nat /\ n = k * (n \div k) + (n % k)
OBVIOUS

LEMMA SmallQuotient ==
  ASSUME NEW q \in Nat, NEW k \in Nat, NEW r \in Nat, k * q + r < k * k
  PROVE  q < k
<1> SUFFICES ASSUME q >= k PROVE FALSE
  OBVIOUS
<1>1. q - k \in Nat
  OBVIOUS
<1>2. k * (q - k) \in Nat
  BY <1>1
<1>3. k * q = k * k + k * (q - k)
  OBVIOUS
<1> QED BY <1>2, <1>3

\* The receiver reads the length that the sender wrote.
LEMMA ReadShortOK ==
  ASSUME NEW n \in Nat, n < Base * Base
  PROVE  ReadShort(Short(n)) = n
<1> DEFINE q == n \div Base
           r == n % Base
           p == Base * q
<1>1. Base \in Nat /\ Base > 0
  BY StreamAssumption DEF HeadS2SSize
<1>2. r \in Nat /\ q \in Nat /\ n = p + r
  BY <1>1, DivMod
<1>3. ReadShort(Short(n)) = r + (q % Base) * Base
  BY DEF ReadShort, Short
<1> HIDE DEF q, r
<1>4. q < Base
  BY <1>1, <1>2, SmallQuotient
<1>5. q % Base = q
  BY <1>1, <1>2, <1>4
<1>6. p \in Nat /\ q * Base = p
  BY <1>1, <1>2
<1>7. ReadShort(Short(n)) = r + p
  BY <1>3, <1>5, <1>6
<1> HIDE DEF p
<1> QED BY <1>2, <1>6, <1>7

-----------------------------------------------------------------------------
(* Pieces of a stream b of bytes.                                          *)

Stream == [Nat -> Byte]

\* The ring r holds the bytes of b that follow the first p.
Held(r, b, p) == \A i \in 1..r.dataSize : Content(r)[i] = b[p + i]

\* So does the sequence s.
HeldSeq(s, b, p) == \A i \in 1..Len(s) : s[i] = b[p + i]

\* b with s behind its first p bytes.
Put(b, p, s) == [j \in Nat |-> IF j > p /\ j <= p + Len(s) THEN s[j - p] ELSE b[j]]

\* b and c are the same up to p.
SameUpTo(b, c, p) == \A j \in 0..p : c[j] = b[j]

LEMMA PutOK ==
  ASSUME NEW b \in Stream, NEW p \in Nat, NEW s \in Seq(Byte)
  PROVE  /\ Put(b, p, s) \in Stream
         /\ SameUpTo(b, Put(b, p, s), p)
         /\ HeldSeq(s, Put(b, p, s), p)
<1>0. Len(s) \in Nat
  OBVIOUS
<1>1. ASSUME NEW j \in Nat
      PROVE  (IF j > p /\ j <= p + Len(s) THEN s[j - p] ELSE b[j]) \in Byte
  <2>1. CASE j > p /\ j <= p + Len(s)
    <3>1. j - p \in 1..Len(s)
      BY <1>0, <2>1
    <3> QED BY <2>1, <3>1
  <2>2. CASE ~(j > p /\ j <= p + Len(s))
    BY <2>2 DEF Stream
  <2> QED BY <2>1, <2>2
<1>2. Put(b, p, s) \in Stream
  BY <1>1 DEF Put, Stream
<1>3. ASSUME NEW j \in 0..p PROVE Put(b, p, s)[j] = b[j]
  BY DEF Put
<1>4. ASSUME NEW i \in 1..Len(s) PROVE s[i] = Put(b, p, s)[p + i]
  <2>1. p + i \in Nat /\ p + i > p /\ p + i <= p + Len(s) /\ (p + i) - p = i
    BY <1>0
  <2> QED BY <2>1 DEF Put
<1> QED BY <1>2, <1>3, <1>4 DEF SameUpTo, HeldSeq

\* What lies in the common part of two streams is held by both.
LEMMA HeldSame ==
  ASSUME NEW b \in Stream, NEW c \in Stream, NEW q \in Nat, SameUpTo(b, c, q), NEW p \in Nat
  PROVE  /\ \A r : RingOK(r) /\ p + r.dataSize <= q /\ Held(r, b, p) => Held(r, c, p)
         /\ \A s : s \in Seq(Byte) /\ p + Len(s) <= q /\ HeldSeq(s, b, p) => HeldSeq(s, c, p)
<1>1. ASSUME NEW r, RingOK(r), p + r.dataSize <= q, Held(r, b, p) PROVE Held(r, c, p)
  <2> SUFFICES ASSUME NEW i \in 1..r.dataSize PROVE Content(r)[i] = c[p + i]
    BY DEF Held
  <2>1. r.dataSize \in Nat
    BY <1>1, RingFields
  <2>2. p + i \in 0..q
    BY <1>1, <2>1
  <2> QED BY <1>1, <2>2 DEF Held, SameUpTo
<1>2. ASSUME NEW s \in Seq(Byte), p + Len(s) <= q, HeldSeq(s, b, p) PROVE HeldSeq(s, c, p)
  <2> SUFFICES ASSUME NEW i \in 1..Len(s) PROVE s[i] = c[p + i]
    BY DEF HeldSeq
  <2>2. p + i \in 0..q
    BY <1>2
  <2> QED BY <1>2, <2>2 DEF HeldSeq, SameUpTo
<1> QED BY <1>1, <1>2

\* MemcpyToBuffer of s, when the stream goes on with s.
LEMMA WritePart ==
  ASSUME NEW r, RingOK(r), NEW s \in Seq(Byte), Len(s) <= GetEmptySize(r),
         NEW b \in Stream, NEW p \in Nat, Held(r, b, p), HeldSeq(s, b, p + r.dataSize)
  PROVE  /\ RingOK(MemcpyToBuffer(r, s))
         /\ MemcpyToBuffer(r, s).dataSize = r.dataSize + Len(s)
         /\ GetEmptySize(MemcpyToBuffer(r, s)) = GetEmptySize(r) - Len(s)
         /\ Held(MemcpyToBuffer(r, s), b, p)
<1> DEFINE q == MemcpyToBuffer(r, s)
<1>0. Len(s) \in Nat /\ r.dataSize \in Nat /\ r.bufferSize \in Nat
  BY RingFields
<1>1. /\ RingOK(q) /\ q.dataSize = r.dataSize + Len(s) /\ q.bufferSize = r.bufferSize
      /\ \A i \in 1..r.dataSize : Content(q)[i] = Content(r)[i]
      /\ \A i \in 1..Len(s) : Content(q)[r.dataSize + i] = s[i]
  BY MemcpyToBufferOK
<1> HIDE DEF q
<1>2. ASSUME NEW i \in 1..q.dataSize PROVE Content(q)[i] = b[p + i]
  <2>1. CASE i <= r.dataSize
    <3>1. i \in 1..r.dataSize
      BY <1>0, <1>1, <2>1
    <3> QED BY <1>1, <3>1 DEF Held
  <2>2. CASE i > r.dataSize
    <3> DEFINE j == i - r.dataSize
    <3>1. j \in 1..Len(s) /\ r.dataSize + j = i /\ (p + r.dataSize) + j = p + i
      BY <1>0, <1>1, <2>2
    <3> HIDE DEF j
    <3>2. Content(q)[r.dataSize + j] = s[j] /\ s[j] = b[(p + r.dataSize) + j]
      BY <1>1, <3>1 DEF HeldSeq
    <3> QED BY <3>1, <3>2
  <2> QED BY <1>0, <1>1, <2>1, <2>2
<1>3. GetEmptySize(q) = GetEmptySize(r) - Len(s)
  BY <1>0, <1>1 DEF GetEmptySize
<1> QED BY <1>1, <1>2, <1>3 DEF q, Held

\* RemoveDate of n bytes.
LEMMA DropPart ==
  ASSUME NEW r, RingOK(r), NEW n \in Nat, n <= r.dataSize,
         NEW b \in Stream, NEW p \in Nat, Held(r, b, p)
  PROVE  /\ RingOK(RemoveDate(r, n))
         /\ RemoveDate(r, n).dataSize = r.dataSize - n
         /\ Held(RemoveDate(r, n), b, p + n)
<1> DEFINE q == RemoveDate(r, n)
<1>0. r.dataSize \in Nat /\ n \in 0..r.dataSize
  BY RingFields
<1>1. /\ RingOK(q) /\ q.dataSize = r.dataSize - n
      /\ \A i \in 1..(r.dataSize - n) : Content(q)[i] = Content(r)[i + n]
  BY <1>0, RemoveDateOK
<1> HIDE DEF q
<1>2. ASSUME NEW i \in 1..q.dataSize PROVE Content(q)[i] = b[(p + n) + i]
  <2>1. i + n \in 1..r.dataSize /\ p + (i + n) = (p + n) + i /\ i \in 1..(r.dataSize - n)
    BY <1>0, <1>1
  <2>2. Content(q)[i] = Content(r)[i + n] /\ Content(r)[i + n] = b[p + (i + n)]
    BY <1>1, <2>1 DEF Held
  <2> QED BY <2>1, <2>2
<1> QED BY <1>1, <1>2 DEF q, Held

\* MemcpyFromBuffer of as many bytes as s has, when the stream goes on with s.
LEMMA ReadPart ==
  ASSUME NEW r, RingOK(r), NEW s \in Seq(Byte), Len(s) <= r.dataSize,
         NEW b \in Stream, NEW p \in Nat, Held(r, b, p), HeldSeq(s, b, p)
  PROVE  MemcpyFromBuffer(r, Len(s)) = s
<1> DEFINE n == Len(s)
           t == MemcpyFromBuffer(r, n)
<1>0. r.dataSize \in Nat /\ n \in 0..r.dataSize
  BY RingFields
<1>1. t \in Seq(Byte) /\ Len(t) = n /\ \A i \in 1..n : t[i] = Content(r)[i]
  BY <1>0, MemcpyFromBufferOK
<1> HIDE DEF t
<1>2. ASSUME NEW i \in 1..Len(t) PROVE t[i] = s[i]
  <2>1. i \in 1..n /\ i \in 1..r.dataSize
    BY <1>0, <1>1
  <2> QED BY <1>1, <2>1 DEF Held, HeldSeq
<1>3. t = s
  BY <1>1, <1>2, SeqEqual
<1> QED BY <1>3 DEF t

-----------------------------------------------------------------------------
(* Frames.                                                                 *)

\* The frame of m is in the stream b behind its first p bytes.
FrameAt(b, p, m) ==
  /\ HeldSeq(Short(TotalSize(m)), b, p)
  /\ HeldSeq(Short(Len(HeadOf(m))), b, p + SizeLen)
  /\ HeldSeq(HeadOf(m), b, p + SizeLen + SizeLen)
  /\ HeldSeq(m.data, b, p + SizeLen + SizeLen + Len(HeadOf(m)))

\* The stream b with the frame of m behind its first p bytes.
PutFrame(b, p, m) ==
  Put(Put(Put(Put(b, p, Short(TotalSize(m))),
              p + SizeLen, Short(Len(HeadOf(m)))),
          p + SizeLen + SizeLen, HeadOf(m)),
      p + SizeLen + SizeLen + Len(HeadOf(m)), m.data)

LEMMA SameTwice ==
  ASSUME NEW b \in Stream, NEW c \in Stream, NEW d \in Stream, NEW p \in Nat, NEW q \in Nat,
         p <= q, SameUpTo(b, c, p), SameUpTo(c, d, q)
  PROVE  SameUpTo(b, d, p)
BY DEF SameUpTo

\* The parts of a frame.
LEMMA FrameParts ==
  ASSUME NEW m \in Message
  PROVE  /\ Short(TotalSize(m)) \in Seq(Byte) /\ Len(Short(TotalSize(m))) = SizeLen
         /\ Short(Len(HeadOf(m))) \in Seq(Byte) /\ Len(Short(Len(HeadOf(m)))) = SizeLen
         /\ HeadOf(m) \in Seq(Byte) /\ Len(HeadOf(m)) \in Nat
         /\ m.data \in Seq(Byte) /\ Len(m.data) \in Nat
         /\ SizeLen \in Nat
         /\ TotalSize(m) \in Nat
         /\ TotalSize(m) = SizeLen + SizeLen + Len(HeadOf(m)) + Len(m.data)
<1>1. /\ HeadOf(m) \in Seq(Byte) /\ m.data \in Seq(Byte) /\ TotalSize(m) \in Nat
      /\ TotalSize(m) = SizeLen + SizeLen + Len(HeadOf(m)) + Len(m.data)
  BY Encoding
<1>2. Len(HeadOf(m)) \in Nat /\ Len(m.data) \in Nat
  BY <1>1
<1> QED BY <1>1, <1>2, ShortOK DEF SizeLen

\* Where the parts of a frame are.
LEMMA FramePlaces ==
  ASSUME NEW m \in Message, NEW p \in Nat
  PROVE  LET s1 == Short(TotalSize(m))
             s2 == Short(Len(HeadOf(m)))
             p2 == p + SizeLen
             p3 == p + SizeLen + SizeLen
             p4 == p + SizeLen + SizeLen + Len(HeadOf(m))
         IN  /\ p2 \in Nat /\ p3 \in Nat /\ p4 \in Nat /\ p <= p2 /\ p2 <= p3 /\ p3 <= p4
             /\ p + Len(s1) = p2 /\ p2 + Len(s2) = p3 /\ p3 + Len(HeadOf(m)) = p4
             /\ p4 + Len(m.data) = p + TotalSize(m)
<1> DEFINE s1 == Short(TotalSize(m))
           s2 == Short(Len(HeadOf(m)))
           h == Len(HeadOf(m))
           d == Len(m.data)
           n == TotalSize(m)
<1>1. Len(s1) = SizeLen /\ Len(s2) = SizeLen /\ h \in Nat /\ d \in Nat /\ n = SizeLen + SizeLen + h + d
  BY FrameParts
<1>2. SizeLen = 2
  BY DEF SizeLen
<1> HIDE DEF s1, s2, h, d, n
<1>3. LET p2 == p + SizeLen
          p3 == p + SizeLen + SizeLen
          p4 == p + SizeLen + SizeLen + h
      IN  /\ p2 \in Nat /\ p3 \in Nat /\ p4 \in Nat /\ p <= p2 /\ p2 <= p3 /\ p3 <= p4
          /\ p + Len(s1) = p2 /\ p2 + Len(s2) = p3 /\ p3 + h = p4
          /\ p4 + d = p + n
  BY ONLY <1>1, <1>2, p \in Nat
<1> QED BY <1>3 DEF s1, s2, h, d, n

\* Two bytes hold both lengths of a frame.
LEMMA FrameLengths ==
  ASSUME NEW m \in Message
  PROVE  /\ ReadShort(Short(TotalSize(m))) = TotalSize(m)
         /\ ReadShort(Short(Len(HeadOf(m)))) = Len(HeadOf(m))
<1> DEFINE h == Len(HeadOf(m))
           d == Len(m.data)
           n == TotalSize(m)
           y == Base * Base
<1>1. h \in Nat /\ d \in Nat /\ n \in Nat /\ n = SizeLen + SizeLen + h + d
  BY FrameParts
<1>2. y \in Nat /\ d + h + SizeLen * 2 < y
  BY StreamAssumption
<1>3. SizeLen = 2
  BY DEF SizeLen
<1> HIDE DEF h, d, n, y
<1>4. n < y /\ h < y
  BY ONLY <1>1, <1>2, <1>3
<1>5. n < Base * Base /\ h < Base * Base
  BY <1>4 DEF y
<1>6. ReadShort(Short(n)) = n /\ ReadShort(Short(h)) = h
  BY <1>1, <1>5, ReadShortOK
<1> QED BY <1>6 DEF n, h

LEMMA PutFrameOK ==
  ASSUME NEW b \in Stream, NEW p \in Nat, NEW m \in Message
  PROVE  /\ PutFrame(b, p, m) \in Stream
         /\ SameUpTo(b, PutFrame(b, p, m), p)
         /\ FrameAt(PutFrame(b, p, m), p, m)
<1> DEFINE s1 == Short(TotalSize(m))
           s2 == Short(Len(HeadOf(m)))
           s3 == HeadOf(m)
           s4 == m.data
           p2 == p + SizeLen
           p3 == p + SizeLen + SizeLen
           p4 == p + SizeLen + SizeLen + Len(HeadOf(m))
           b1 == Put(b, p, s1)
           b2 == Put(b1, p2, s2)
           b3 == Put(b2, p3, s3)
           b4 == Put(b3, p4, s4)
<1>1. /\ s1 \in Seq(Byte) /\ s2 \in Seq(Byte) /\ s3 \in Seq(Byte) /\ s4 \in Seq(Byte)
      /\ p2 \in Nat /\ p3 \in Nat /\ p4 \in Nat /\ p <= p2 /\ p2 <= p3 /\ p3 <= p4
      /\ p + Len(s1) = p2 /\ p2 + Len(s2) = p3 /\ p3 + Len(s3) = p4
  BY FrameParts, FramePlaces
<1>2. PutFrame(b, p, m) = b4
  BY DEF PutFrame
<1>3. FrameAt(b4, p, m) <=> /\ HeldSeq(s1, b4, p) /\ HeldSeq(s2, b4, p2)
                            /\ HeldSeq(s3, b4, p3) /\ HeldSeq(s4, b4, p4)
  BY DEF FrameAt
<1> HIDE DEF s1, s2, s3, s4, p2, p3, p4
<1>4. b1 \in Stream /\ SameUpTo(b, b1, p) /\ HeldSeq(s1, b1, p)
  BY <1>1, PutOK
<1> HIDE DEF b1
<1>5. b2 \in Stream /\ SameUpTo(b1, b2, p2) /\ HeldSeq(s2, b2, p2)
  BY <1>1, <1>4, PutOK
<1> HIDE DEF b2
<1>6. b3 \in Stream /\ SameUpTo(b2, b3, p3) /\ HeldSeq(s3, b3, p3)
  BY <1>1, <1>5, PutOK
<1> HIDE DEF b3
<1>7. b4 \in Stream /\ SameUpTo(b3, b4, p4) /\ HeldSeq(s4, b4, p4)
  BY <1>1, <1>6, PutOK
<1> HIDE DEF b4
<1>8. HeldSeq(s3, b4, p3)
  BY <1>1, <1>6, <1>7, HeldSame
<1>9. SameUpTo(b2, b4, p3)
  BY <1>1, <1>5, <1>6, <1>7, SameTwice
<1>10. HeldSeq(s2, b4, p2)
  BY <1>1, <1>5, <1>7, <1>9, HeldSame
<1>11. SameUpTo(b1, b4, p2)
  BY <1>1, <1>4, <1>5, <1>7, <1>9, SameTwice
<1>12. HeldSeq(s1, b4, p)
  BY <1>1, <1>4, <1>7, <1>11, HeldSame
<1>13. SameUpTo(b, b4, p)
  BY <1>1, <1>4, <1>7, <1>11, SameTwice
<1> QED BY <1>2, <1>3, <1>7, <1>8, <1>10, <1>12, <1>13

\* A frame in the common part of two streams is in both.
LEMMA FrameSame ==
  ASSUME NEW b \in Stream, NEW c \in Stream, NEW q \in Nat, SameUpTo(b, c, q),
         NEW p \in Nat, NEW m \in Message, p + TotalSize(m) <= q, FrameAt(b, p, m)
  PROVE  FrameAt(c, p, m)
<1> DEFINE s1 == Short(TotalSize(m))
           s2 == Short(Len(HeadOf(m)))
           s3 == HeadOf(m)
           s4 == m.data
           p2 == p + SizeLen
           p3 == p + SizeLen + SizeLen
           p4 == p + SizeLen + SizeLen + Len(HeadOf(m))
<1>1. /\ s1 \in Seq(Byte) /\ s2 \in Seq(Byte) /\ s3 \in Seq(Byte) /\ s4 \in Seq(Byte)
      /\ p2 \in Nat /\ p3 \in Nat /\ p4 \in Nat
      /\ p + Len(s1) <= q /\ p2 + Len(s2) <= q /\ p3 + Len(s3) <= q /\ p4 + Len(s4) <= q
  <2>1. /\ s1 \in Seq(Byte) /\ s2 \in Seq(Byte) /\ s3 \in Seq(Byte) /\ s4 \in Seq(Byte)
        /\ Len(s4) \in Nat /\ TotalSize(m) \in Nat
    BY FrameParts
  <2>2. /\ p2 \in Nat /\ p3 \in Nat /\ p4 \in Nat /\ p <= p2 /\ p2 <= p3 /\ p3 <= p4
        /\ p + Len(s1) = p2 /\ p2 + Len(s2) = p3 /\ p3 + Len(s3) = p4
        /\ p4 + Len(s4) = p + TotalSize(m)
    BY FramePlaces
  <2> HIDE DEF s1, s2, s3, s4, p2, p3, p4
  <2>3. p + TotalSize(m) <= q
    OBVIOUS
  <2> QED BY ONLY <2>1, <2>2, <2>3, p \in Nat, q \in Nat
<1>2. \A x : FrameAt(x, p, m) <=> /\ HeldSeq(s1, x, p) /\ HeldSeq(s2, x, p2)
                                  /\ HeldSeq(s3, x, p3) /\ HeldSeq(s4, x, p4)
  BY DEF FrameAt
<1> HIDE DEF s1, s2, s3, s4, p2, p3, p4
<1>3. HeldSeq(s1, b, p) /\ HeldSeq(s2, b, p2) /\ HeldSeq(s3, b, p3) /\ HeldSeq(s4, b, p4)
  BY <1>2
<1>4. HeldSeq(s1, c, p)
  BY <1>1, <1>3, HeldSame
<1>5. HeldSeq(s2, c, p2)
  BY <1>1, <1>3, HeldSame
<1>6. HeldSeq(s3, c, p3)
  BY <1>1, <1>3, HeldSame
<1>7. HeldSeq(s4, c, p4)
  BY <1>1, <1>3, HeldSame
<1> QED BY <1>2, <1>4, <1>5, <1>6, <1>7

\* One of several writes: where the next one goes, and the room it finds.
LEMMA WriteNext ==
  ASSUME NEW r, RingOK(r), NEW b \in Stream, NEW p \in Nat, Held(r, b, p),
         NEW s \in Seq(Byte), NEW o \in Nat, NEW rest \in Nat,
         p + r.dataSize = o, GetEmptySize(r) >= Len(s) + rest, HeldSeq(s, b, o)
  PROVE  LET q == MemcpyToBuffer(r, s)
         IN  /\ RingOK(q) /\ Held(q, b, p)
             /\ p + q.dataSize = o + Len(s) /\ GetEmptySize(q) >= rest
<1> DEFINE q == MemcpyToBuffer(r, s)
           e == GetEmptySize(r)
           f == GetEmptySize(q)
           n == Len(s)
           d == r.dataSize
           c == q.dataSize
<1>1. n \in Nat /\ d \in Nat /\ e \in Int /\ e >= n + rest /\ p + d = o
  BY RingFields DEF GetEmptySize
<1>2. n <= e /\ HeldSeq(s, b, p + d)
  <2> HIDE DEF n, d, e
  <2> QED BY <1>1
<1>3. RingOK(q) /\ c = d + n /\ f = e - n /\ Held(q, b, p)
  BY <1>2, WritePart
<1> HIDE DEF q, e, f, n, d, c
<1>4. p + c = o + n /\ f >= rest
  BY ONLY <1>1, <1>3, p \in Nat, o \in Nat, rest \in Nat
<1> QED BY <1>3, <1>4 DEF q, f, n, c

\* The four writes of AddPacket.
LEMMA WriteFrame ==
  ASSUME NEW r, RingOK(r), NEW b \in Stream, NEW p \in Nat, Held(r, b, p), NEW m \in Message,
         GetEmptySize(r) >= TotalSize(m), FrameAt(b, p + r.dataSize, m)
  PROVE  LET q == MemcpyToBuffer(MemcpyToBuffer(MemcpyToBuffer(MemcpyToBuffer(r,
                    Short(TotalSize(m))), Short(Len(HeadOf(m)))), HeadOf(m)), m.data)
         IN  /\ RingOK(q) /\ q.dataSize = r.dataSize + TotalSize(m)
             /\ Held(q, b, p)
<1> DEFINE s1 == Short(TotalSize(m))
           s2 == Short(Len(HeadOf(m)))
           s3 == HeadOf(m)
           s4 == m.data
           o1 == p + r.dataSize
           o2 == o1 + SizeLen
           o3 == o1 + SizeLen + SizeLen
           o4 == o1 + SizeLen + SizeLen + Len(HeadOf(m))
           r1 == MemcpyToBuffer(r, s1)
           r2 == MemcpyToBuffer(r1, s2)
           r3 == MemcpyToBuffer(r2, s3)
           r4 == MemcpyToBuffer(r3, s4)
           n == TotalSize(m)
           e == GetEmptySize(r)
           d == r.dataSize
           c == r4.dataSize
           l1 == Len(s1)
           l2 == Len(s2)
           l3 == Len(s3)
           l4 == Len(s4)
<1>1. s1 \in Seq(Byte) /\ s2 \in Seq(Byte) /\ s3 \in Seq(Byte) /\ s4 \in Seq(Byte)
  BY FrameParts
<1>2. /\ l1 \in Nat /\ l2 \in Nat /\ l3 \in Nat /\ l4 \in Nat
      /\ n = l1 + l2 + l3 + l4
  BY FrameParts
<1>3. d \in Nat /\ e \in Int /\ e >= n /\ o1 \in Nat /\ o1 = p + d
  BY RingFields DEF GetEmptySize
<1>4. /\ o2 \in Nat /\ o3 \in Nat /\ o4 \in Nat
      /\ o1 + l1 = o2 /\ o2 + l2 = o3 /\ o3 + l3 = o4
      /\ o4 + l4 = o1 + n
  <2> HIDE DEF o1
  <2> QED BY <1>3, FramePlaces
<1>5. HeldSeq(s1, b, o1) /\ HeldSeq(s2, b, o2) /\ HeldSeq(s3, b, o3) /\ HeldSeq(s4, b, o4)
  BY DEF FrameAt
<1> HIDE DEF o2, o3, o4
<1>6. RingOK(r1) /\ Held(r1, b, p) /\ p + r1.dataSize = o2 /\ GetEmptySize(r1) >= l2 + (l3 + l4)
  <2>1. e >= l1 + (l2 + (l3 + l4)) /\ l2 + (l3 + l4) \in Nat
    <3> HIDE DEF e, l1, l2, l3, l4, n
    <3> QED BY ONLY <1>2, <1>3
  <2> DEFINE rest == l2 + (l3 + l4)
  <2>2. rest \in Nat /\ GetEmptySize(r) >= Len(s1) + rest
    BY <2>1
  <2> HIDE DEF rest, s1, r1
  <2>3. RingOK(r1) /\ Held(r1, b, p) /\ p + r1.dataSize = o1 + l1 /\ GetEmptySize(r1) >= rest
    BY <1>1, <1>3, <1>5, <2>2, WriteNext DEF r1
  <2> QED BY <1>4, <2>3 DEF rest
<1> HIDE DEF r1
<1>7. RingOK(r2) /\ Held(r2, b, p) /\ p + r2.dataSize = o3 /\ GetEmptySize(r2) >= l3 + l4
  <2> DEFINE rest == l3 + l4
  <2>1. rest \in Nat
    BY <1>2
  <2> HIDE DEF rest, s2, r2
  <2>2. GetEmptySize(r1) >= Len(s2) + rest
    BY <1>6 DEF rest
  <2>3. RingOK(r2) /\ Held(r2, b, p) /\ p + r2.dataSize = o2 + l2 /\ GetEmptySize(r2) >= rest
    BY <1>1, <1>4, <1>5, <1>6, <2>1, <2>2, WriteNext DEF r2
  <2> QED BY <1>4, <2>3 DEF rest
<1> HIDE DEF r2
<1>8. RingOK(r3) /\ Held(r3, b, p) /\ p + r3.dataSize = o4 /\ GetEmptySize(r3) >= l4
  <2> HIDE DEF s3, r3
  <2>1. RingOK(r3) /\ Held(r3, b, p) /\ p + r3.dataSize = o3 + l3 /\ GetEmptySize(r3) >= l4
    BY <1>1, <1>2, <1>4, <1>5, <1>7, WriteNext DEF r3
  <2> QED BY <1>4, <2>1
<1> HIDE DEF r3
<1>9. RingOK(r4) /\ Held(r4, b, p) /\ p + r4.dataSize = o4 + l4
  <2> DEFINE rest == 0
  <2>1. rest \in Nat /\ l4 + rest = l4
    BY <1>2
  <2> HIDE DEF rest, s4, r4
  <2>2. GetEmptySize(r3) >= Len(s4) + rest
    BY <1>8, <2>1
  <2>3. RingOK(r4) /\ Held(r4, b, p) /\ p + r4.dataSize = o4 + l4 /\ GetEmptySize(r4) >= rest
    BY <1>1, <1>4, <1>5, <1>8, <2>1, <2>2, WriteNext DEF r4
  <2> QED BY <2>3
<1> HIDE DEF r4
<1>10. c = d + n
  <2>1. c \in Nat
    BY <1>9, RingFields
  <2>2. p + c = o4 + l4
    BY <1>9
  <2> HIDE DEF c, d, n, o1, l4
  <2> QED BY ONLY <1>3, <1>4, <1>2, <2>1, <2>2, p \in Nat
<1> QED BY <1>9, <1>10 DEF r4, r3, r2, r1

\* One of several reads: what it returns and what it leaves.
LEMMA ReadNext ==
  ASSUME NEW r, RingOK(r), NEW b \in Stream, NEW o \in Nat, Held(r, b, o),
         NEW s \in Seq(Byte), HeldSeq(s, b, o), Len(s) <= r.dataSize
  PROVE  /\ MemcpyFromBuffer(r, Len(s)) = s
         /\ RingOK(RemoveDate(r, Len(s))) /\ Held(RemoveDate(r, Len(s)), b, o + Len(s))
         /\ RemoveDate(r, Len(s)).dataSize = r.dataSize - Len(s)
<1>1. Len(s) \in Nat
  OBVIOUS
<1>2. MemcpyFromBuffer(r, Len(s)) = s
  BY ReadPart
<1>3. /\ RingOK(RemoveDate(r, Len(s))) /\ Held(RemoveDate(r, Len(s)), b, o + Len(s))
      /\ RemoveDate(r, Len(s)).dataSize = r.dataSize - Len(s)
  BY <1>1, DropPart
<1> QED BY <1>2, <1>3

\* The head is one of two, known by its length, and gives the packet back.
LEMMA HeadOfPacket ==
  ASSUME NEW m \in Message
  PROVE  LET h == Len(HeadOf(m))
             head == HeadOf(m)
         IN  /\ (IF h = HeadSize THEN HeadSize ELSE HeadS2SSize) = h
             /\ head[1] = m.id
             /\ m = [id |-> head[1],
                     entity |-> IF h = HeadSize THEN 0 ELSE head[2],
                     player |-> IF h = HeadSize THEN 0 ELSE head[3],
                     data |-> m.data]
<1>1. /\ m \in [id : Byte, entity : Byte, player : Byte, data : Seq(Byte)]
      /\ m.entity = 0 => m.player = 0
  BY StreamAssumption
<1>2. m = [id |-> m.id, entity |-> m.entity, player |-> m.player, data |-> m.data]
  BY <1>1
<1>3. CASE m.entity = 0
  <2>1. HeadOf(m) = <<m.id>>
    BY <1>3 DEF HeadOf, PacketHead
  <2>2. Len(HeadOf(m)) = 1 /\ HeadOf(m)[1] = m.id
    BY <2>1
  <2>3. m.entity = 0 /\ m.player = 0
    BY <1>1, <1>3
  <2> QED BY <1>2, <2>2, <2>3 DEF HeadSize
<1>4. CASE m.entity # 0
  <2>1. HeadOf(m) = <<m.id, m.entity, m.player>>
    BY <1>4 DEF HeadOf, PacketHeadS2S
  <2>2. /\ Len(HeadOf(m)) = 3 /\ HeadOf(m)[1] = m.id /\ HeadOf(m)[2] = m.entity
        /\ HeadOf(m)[3] = m.player
    BY <2>1
  <2> QED BY <1>2, <2>2 DEF HeadSize, HeadS2SSize
<1> QED BY <1>3, <1>4

\* GetTcpPacket on a frame: it waits for all of it, and takes just it.
LEMMA ReadFrame ==
  ASSUME NEW r, RingOK(r), NEW b \in Stream, NEW o \in Nat, Held(r, b, o),
         NEW m \in Message, FrameAt(b, o, m), Complete(r)
  PROVE  LET h == Len(HeadOf(m))
             d == Len(m.data)
             r1 == RemoveDate(r, SizeLen)
             r2 == RemoveDate(r1, SizeLen)
             r3 == RemoveDate(r2, h)
             r4 == RemoveDate(r3, d)
         IN  /\ ReadShort(MemcpyFromBuffer(r, SizeLen)) = TotalSize(m)
             /\ ReadShort(MemcpyFromBuffer(r1, SizeLen)) = h
             /\ MemcpyFromBuffer(r2, h) = HeadOf(m)
             /\ TotalSize(m) - h - SizeLen * 2 = d
             /\ MemcpyFromBuffer(r3, d) = m.data
             /\ RingOK(r3) /\ RingOK(r4)
             /\ TotalSize(m) <= r.dataSize /\ r4.dataSize = r.dataSize - TotalSize(m)
             /\ Held(r4, b, o + TotalSize(m))
<1> DEFINE s1 == Short(TotalSize(m))
           s2 == Short(Len(HeadOf(m)))
           s3 == HeadOf(m)
           s4 == m.data
           h == Len(HeadOf(m))
           d == Len(m.data)
           n == TotalSize(m)
           o2 == o + SizeLen
           o3 == o + SizeLen + SizeLen
           o4 == o + SizeLen + SizeLen + h
           r1 == RemoveDate(r, SizeLen)
           r2 == RemoveDate(r1, SizeLen)
           r3 == RemoveDate(r2, h)
           r4 == RemoveDate(r3, d)
           c == r.dataSize
           rest == c - n
<1>1. s1 \in Seq(Byte) /\ s2 \in Seq(Byte) /\ s3 \in Seq(Byte) /\ s4 \in Seq(Byte)
  BY FrameParts
<1>2. /\ h \in Nat /\ d \in Nat /\ n \in Nat /\ SizeLen \in Nat
      /\ n = SizeLen + SizeLen + h + d
      /\ SizeLen = Len(s1) /\ SizeLen = Len(s2) /\ h = Len(s3) /\ d = Len(s4)
  BY FrameParts
<1>3. /\ o2 \in Nat /\ o3 \in Nat /\ o4 \in Nat
      /\ o + SizeLen = o2 /\ o2 + SizeLen = o3 /\ o3 + h = o4 /\ o4 + d = o + n
  BY <1>2, FramePlaces
<1>4. HeldSeq(s1, b, o) /\ HeldSeq(s2, b, o2) /\ HeldSeq(s3, b, o3) /\ HeldSeq(s4, b, o4)
  BY DEF FrameAt
<1>5. ReadShort(s1) = n /\ ReadShort(s2) = h
  BY FrameLengths
<1>6. c \in Nat /\ SizeLen <= c
  BY RingFields DEF Complete
<1>7. MemcpyFromBuffer(r, SizeLen) = s1
  <2> HIDE DEF s1, c
  <2>1. Len(s1) <= r.dataSize /\ HeldSeq(s1, b, o)
    BY <1>2, <1>4, <1>6 DEF c
  <2>2. MemcpyFromBuffer(r, Len(s1)) = s1
    BY <1>1, <2>1, ReadPart
  <2> QED BY <1>2, <2>2
<1>8. n <= c
  BY <1>5, <1>7 DEF Complete
<1>9. SizeLen * 2 = SizeLen + SizeLen
  BY DEF SizeLen
<1> HIDE DEF s1, s2, s3, s4, h, d, n, o2, o3, o4, c
<1>10. /\ rest \in Nat /\ c = n + rest /\ n - h - SizeLen * 2 = d
       /\ c = SizeLen + (SizeLen + (h + (d + rest)))
       /\ d + rest \in Nat /\ h + (d + rest) \in Nat /\ SizeLen + (h + (d + rest)) \in Nat
  BY ONLY <1>2, <1>6, <1>8, <1>9
<1> HIDE DEF rest
<1>11. RingOK(r1) /\ Held(r1, b, o2) /\ r1.dataSize = SizeLen + (h + (d + rest))
  <2> DEFINE size == SizeLen + (h + (d + rest))
  <2>1. size \in Nat /\ r.dataSize = SizeLen + size
    BY <1>10 DEF c
  <2> HIDE DEF size
  <2>2. RingOK(r1) /\ Held(r1, b, o + SizeLen) /\ r1.dataSize = size
    <3>1. /\ RingOK(r) /\ Held(r, b, o) /\ o \in Nat /\ s1 \in Seq(Byte) /\ HeldSeq(s1, b, o)
          /\ SizeLen \in Nat /\ SizeLen = Len(s1) /\ size \in Nat /\ r.dataSize = SizeLen + size
      BY <1>1, <1>2, <1>4, <2>1
    <3>2. Len(s1) <= r.dataSize
      BY ONLY <3>1
    <3>3. /\ MemcpyFromBuffer(r, Len(s1)) = s1
          /\ RingOK(RemoveDate(r, Len(s1))) /\ Held(RemoveDate(r, Len(s1)), b, o + Len(s1))
          /\ RemoveDate(r, Len(s1)).dataSize = r.dataSize - Len(s1)
      BY ONLY <3>1, <3>2, b \in Stream, ReadNext
    <3>4. r.dataSize - SizeLen = size
      BY ONLY <3>1
    <3> QED BY ONLY <3>1, <3>3, <3>4 DEF r1
  <2> QED BY <1>3, <2>2 DEF size
<1> HIDE DEF r1
<1>12. /\ MemcpyFromBuffer(r1, SizeLen) = s2
       /\ RingOK(r2) /\ Held(r2, b, o3) /\ r2.dataSize = h + (d + rest)
  <2> DEFINE size == h + (d + rest)
  <2>1. size \in Nat /\ r1.dataSize = SizeLen + size
    BY <1>10, <1>11
  <2> HIDE DEF size
  <2>2. /\ MemcpyFromBuffer(r1, SizeLen) = s2
        /\ RingOK(r2) /\ Held(r2, b, o2 + SizeLen) /\ r2.dataSize = size
    <3>1. /\ RingOK(r1) /\ Held(r1, b, o2) /\ o2 \in Nat /\ s2 \in Seq(Byte) /\ HeldSeq(s2, b, o2)
          /\ SizeLen \in Nat /\ SizeLen = Len(s2) /\ size \in Nat /\ r1.dataSize = SizeLen + size
      BY <1>1, <1>2, <1>3, <1>4, <1>11, <2>1
    <3>2. Len(s2) <= r1.dataSize
      BY ONLY <3>1
    <3>3. /\ MemcpyFromBuffer(r1, Len(s2)) = s2
          /\ RingOK(RemoveDate(r1, Len(s2))) /\ Held(RemoveDate(r1, Len(s2)), b, o2 + Len(s2))
          /\ RemoveDate(r1, Len(s2)).dataSize = r1.dataSize - Len(s2)
      BY ONLY <3>1, <3>2, b \in Stream, ReadNext
    <3>4. r1.dataSize - SizeLen = size
      BY ONLY <3>1
    <3> QED BY ONLY <3>1, <3>3, <3>4 DEF r2
  <2> QED BY <1>3, <2>2 DEF size
<1> HIDE DEF r2
<1>13. /\ MemcpyFromBuffer(r2, h) = s3
       /\ RingOK(r3) /\ Held(r3, b, o4) /\ r3.dataSize = d + rest
  <2> DEFINE size == d + rest
  <2>1. size \in Nat /\ r2.dataSize = h + size
    BY <1>10, <1>12
  <2> HIDE DEF size
  <2>2. /\ MemcpyFromBuffer(r2, h) = s3
        /\ RingOK(r3) /\ Held(r3, b, o3 + h) /\ r3.dataSize = size
    <3>1. /\ RingOK(r2) /\ Held(r2, b, o3) /\ o3 \in Nat /\ s3 \in Seq(Byte) /\ HeldSeq(s3, b, o3)
          /\ h \in Nat /\ h = Len(s3) /\ size \in Nat /\ r2.dataSize = h + size
      BY <1>1, <1>2, <1>3, <1>4, <1>12, <2>1
    <3>2. Len(s3) <= r2.dataSize
      BY ONLY <3>1
    <3>3. /\ MemcpyFromBuffer(r2, Len(s3)) = s3
          /\ RingOK(RemoveDate(r2, Len(s3))) /\ Held(RemoveDate(r2, Len(s3)), b, o3 + Len(s3))
          /\ RemoveDate(r2, Len(s3)).dataSize = r2.dataSize - Len(s3)
      BY ONLY <3>1, <3>2, b \in Stream, ReadNext
    <3>4. r2.dataSize - h = size
      BY ONLY <3>1
    <3> QED BY ONLY <3>1, <3>3, <3>4 DEF r3
  <2> QED BY <1>3, <2>2 DEF size
<1> HIDE DEF r3
<1>14. /\ MemcpyFromBuffer(r3, d) = s4
       /\ RingOK(r4) /\ Held(r4, b, o + n) /\ r4.dataSize = rest
  <2>1. /\ MemcpyFromBuffer(r3, d) = s4
        /\ RingOK(r4) /\ Held(r4, b, o4 + d) /\ r4.dataSize = rest
    <3>1. /\ RingOK(r3) /\ Held(r3, b, o4) /\ o4 \in Nat /\ s4 \in Seq(Byte) /\ HeldSeq(s4, b, o4)
          /\ d \in Nat /\ d = Len(s4) /\ rest \in Nat /\ r3.dataSize = d + rest
      BY <1>1, <1>2, <1>3, <1>4, <1>10, <1>13
    <3>2. Len(s4) <= r3.dataSize
      BY ONLY <3>1
    <3>3. /\ MemcpyFromBuffer(r3, Len(s4)) = s4
          /\ RingOK(RemoveDate(r3, Len(s4))) /\ Held(RemoveDate(r3, Len(s4)), b, o4 + Len(s4))
          /\ RemoveDate(r3, Len(s4)).dataSize = r3.dataSize - Len(s4)
      BY ONLY <3>1, <3>2, b \in Stream, ReadNext
    <3>4. r3.dataSize - d = rest
      BY ONLY <3>1
    <3> QED BY ONLY <3>1, <3>3, <3>4 DEF r4
  <2> QED BY <1>3, <2>1
<1> HIDE DEF r4
<1>15. ReadShort(MemcpyFromBuffer(r, SizeLen)) = n /\ ReadShort(MemcpyFromBuffer(r1, SizeLen)) = h
  BY <1>5, <1>7, <1>12
<1>16. n - h - SizeLen * 2 = d
  BY <1>10
<1>17. r4.dataSize = r.dataSize - n /\ n <= r.dataSize
  BY <1>8, <1>14 DEF rest, c
<1> QED BY <1>12, <1>13, <1>14, <1>15, <1>16, <1>17 DEF r4, r3, r2, r1, s1, s2, s3, s4, h, d, n

\* Recv makes room before each recv(), and nothing of the content is lost.
LEMMA WithRoomOK ==
  ASSUME NEW r, RingOK(r)
  PROVE  /\ RingOK(WithRoom(r)) /\ WithRoom(r).dataSize = r.dataSize
         /\ WithRoom(r).dataSize < WithRoom(r).bufferSize
         /\ \A b \in Stream, p \in Nat : Held(r, b, p) => Held(WithRoom(r), b, p)
<1>0. r.dataSize \in Nat /\ r.bufferSize \in Nat /\ r.dataSize <= r.bufferSize
  BY RingFields
<1>1. CASE GetEmptySize(r) < HeadS2SSize + SizeLen * 2
  <2> DEFINE q == ReAllocBuffer(r)
  <2>1. /\ RingOK(q) /\ q.dataSize = r.dataSize /\ q.bufferSize = r.bufferSize + AdditionalSize
        /\ \A i \in 1..r.dataSize : Content(q)[i] = Content(r)[i]
    BY ReAllocBufferOK
  <2>2. WithRoom(r) = q
    BY <1>1 DEF WithRoom
  <2> HIDE DEF q
  <2>3. q.dataSize < q.bufferSize
    BY <1>0, <2>1, RingAssumption
  <2>4. \A b \in Stream, p \in Nat : Held(r, b, p) => Held(q, b, p)
    BY <2>1 DEF Held
  <2> QED BY <2>1, <2>2, <2>3, <2>4
<1>2. CASE ~(GetEmptySize(r) < HeadS2SSize + SizeLen * 2)
  <2>1. r.dataSize < r.bufferSize
    BY <1>0, <1>2 DEF GetEmptySize, HeadS2SSize, SizeLen
  <2> QED BY <1>2, <2>1 DEF WithRoom
<1> QED BY <1>1, <1>2

\* recv() into the free cells is a write of what it takes from the wire.
LEMMA RecvIsWrite ==
  ASSUME NEW r, RingOK(r), NEW s \in Seq(Byte), NEW n \in 1..Len(s), n <= GetWriteSize(r)
  PROVE  FillDate(r, Memcpy(r.buffer, r.endIndex, s, 0, n), n) = MemcpyToBuffer(r, SubSeq(s, 1, n))
<1> DEFINE t == SubSeq(s, 1, n)
           S == r.bufferSize
           e == r.endIndex
           x == Memcpy(r.buffer, e, s, 0, n)
           y == Memcpy(r.buffer, e, t, 0, n)
<1>1. t \in Seq(Byte) /\ Len(t) = n /\ \A i \in 1..n : t[i] = s[i]
  OBVIOUS
<1>2. n \in Nat /\ e \in Nat /\ S \in Nat /\ r.buffer \in [0..(S - 1) -> Byte \cup {Uninit}]
  BY RingFields
<1>3. GetWriteSize(r) \in Int
  BY RingFields DEF GetWriteSize
<1> HIDE DEF t
<1>4. MemcpyToBuffer(r, t) = FillDate(r, y, n)
  BY <1>1, <1>2, <1>3 DEF MemcpyToBuffer
<1>5. x = y
  <2>1. \A i \in 0..(S - 1) : i >= e /\ i < e + n => i - e + 0 + 1 \in 1..n
    BY <1>2
  <2>2. \A i \in 0..(S - 1) : i >= e /\ i < e + n => s[i - e + 0 + 1] = t[i - e + 0 + 1]
    BY <1>1, <2>1
  <2> HIDE DEF S, e
  <2>3. DOMAIN r.buffer = 0..(S - 1)
    BY <1>2
  <2> QED BY <2>2, <2>3 DEF Memcpy
<1> QED BY <1>4, <1>5 DEF t

-----------------------------------------------------------------------------
(* The invariant.                                                          *)

\* The packets d + 1 to k of s lie in the stream b, the i-th from cut[i - 1]
\* to cut[i].
Frames(b, cut, d, k, s) ==
  /\ d <= k /\ k <= Len(s)
  /\ \A i \in d..(k - 1) :
       cut[i + 1] = cut[i] + TotalSize(s[i + 1]) /\ FrameAt(b, cut[i], s[i + 1])
  /\ \A i, j \in d..k : i <= j => cut[i] <= cut[j]

\* The three pieces of the stream that are under way, from p on.
Pieces(b, p, r, w, s) ==
  /\ Held(r, b, p)
  /\ HeldSeq(w, b, p + r.dataSize)
  /\ Held(s, b, p + r.dataSize + Len(w))

UnderWay(r, w, s) == r.dataSize + Len(w) + s.dataSize

\* The stream of this connection; a sender that is gone has lost its end.
Flow(b, cut, k) ==
  /\ Frames(b, cut, Len(delivered), k, sent)
  /\ Pieces(b, cut[Len(delivered)], rbuf, wire, sbuf)
  /\ cut[Len(delivered)] + UnderWay(rbuf, wire, sbuf) <= cut[k]
  /\ open => cut[Len(delivered)] + UnderWay(rbuf, wire, sbuf) = cut[k]
  /\ open => k = Len(sent)

Flowing == \E b \in Stream, cut \in [Nat -> Nat], k \in Nat : Flow(b, cut, k)

\* Nothing is left in the buffers of a ConnectObj that is in its pool.
PlacesOK ==
  /\ closing => rpc = "message"
  /\ rpc \in {"recv", "recvMore", "parse"} => ropen
  /\ ~open => sbuf.dataSize = 0
  /\ ~ropen => rbuf.dataSize = 0

HistoryOK == sent \in Seq(Message) /\ delivered \in Seq(Message)

ChanInv ==
  /\ SendInv
  /\ RecvRingOK
  /\ HistoryOK
  /\ PlacesOK
  /\ ropen /\ ~closing => Flowing

\* A packet more on the stream.
NextFrame(b, cut, d, k, s) ==
  \E m \in Message, c \in Stream, new \in [Nat -> Nat] :
    /\ m = s[k + 1]
    /\ Frames(c, new, d, k + 1, s)
    /\ SameUpTo(b, c, cut[k]) /\ FrameAt(c, cut[k], m)
    /\ new[d] = cut[d] /\ new[k + 1] = cut[k] + TotalSize(m)

LEMMA FramesPut ==
  ASSUME NEW b \in Stream, NEW cut \in [Nat -> Nat], NEW d \in Nat, NEW k \in Nat,
         NEW s \in Seq(Message), Frames(b, cut, d, k, s), k < Len(s)
  PROVE  NextFrame(b, cut, d, k, s)
<1> DEFINE m == s[k + 1]
           c == PutFrame(b, cut[k], m)
           n == TotalSize(m)
           new == [cut EXCEPT ![k + 1] = cut[k] + n]
<1>1. Len(s) \in Nat /\ d <= k /\ k + 1 \in 1..Len(s)
  BY DEF Frames
<1>2. m \in Message
  BY <1>1
<1>3. cut[k] \in Nat /\ n \in Nat
  BY <1>2, FrameParts
<1> HIDE DEF m, n
<1>4. c \in Stream /\ SameUpTo(b, c, cut[k]) /\ FrameAt(c, cut[k], m)
  BY <1>2, <1>3, PutFrameOK
<1> HIDE DEF c
<1>5. /\ new \in [Nat -> Nat] /\ new[k + 1] = cut[k] + n
      /\ \A i \in Nat : i <= k => new[i] = cut[i]
  <2>1. k + 1 \in Nat /\ cut[k] + n \in Nat /\ \A i \in Nat : i <= k => i # k + 1
    BY ONLY <1>3, k \in Nat
  <2> QED BY ONLY <2>1, cut \in [Nat -> Nat]
<1> HIDE DEF new
<1>6. ASSUME NEW i \in d..((k + 1) - 1)
      PROVE  new[i + 1] = new[i] + TotalSize(s[i + 1]) /\ FrameAt(c, new[i], s[i + 1])
  <2>1. i \in Nat /\ i <= k /\ i + 1 \in 1..Len(s)
    BY <1>1
  <2>2. CASE i = k
    <3>1. s[i + 1] = m /\ new[i] = cut[k] /\ new[i + 1] = cut[k] + n
      BY <1>5, <2>2 DEF m
    <3> QED BY <1>4, <3>1 DEF n
  <2>3. CASE i # k
    <3>1. i \in d..(k - 1) /\ i + 1 <= k /\ i + 1 \in d..k /\ k \in d..k
      BY <1>1, <2>1, <2>3
    <3>2. cut[i + 1] = cut[i] + TotalSize(s[i + 1]) /\ FrameAt(b, cut[i], s[i + 1])
      BY <3>1 DEF Frames
    <3>3. cut[i + 1] <= cut[k]
      BY <3>1 DEF Frames
    <3>4. new[i] = cut[i] /\ new[i + 1] = cut[i + 1]
      BY <1>5, <2>1, <3>1
    <3>5. s[i + 1] \in Message
      BY <2>1
    <3>6. cut[i] \in Nat /\ cut[i] + TotalSize(s[i + 1]) <= cut[k]
      BY <2>1, <3>2, <3>3
    <3>7. FrameAt(c, cut[i], s[i + 1])
      BY <1>3, <1>4, <3>2, <3>5, <3>6, FrameSame
    <3> QED BY <3>2, <3>4, <3>7
  <2> QED BY <2>2, <2>3
<1>10. \A i, j \in d..k : i <= j => cut[i] <= cut[j]
  BY DEF Frames
<1>7. ASSUME NEW i \in d..(k + 1), NEW j \in d..(k + 1), i <= j
      PROVE  new[i] <= new[j]
  <2>0. /\ i \in Nat /\ j \in Nat /\ d <= i /\ d <= j /\ i <= k + 1 /\ j <= k + 1 /\ i <= j
        /\ d \in Nat /\ k \in Nat
    BY <1>7
  <2>1. CASE j <= k
    <3>1. i \in d..k /\ j \in d..k /\ i <= k /\ i <= j
      BY ONLY <2>0, <2>1
    <3>2. cut[i] <= cut[j]
      BY ONLY <1>10, <3>1
    <3> QED BY <1>5, <2>0, <2>1, <3>1, <3>2
  <2>2. CASE j = k + 1 /\ i <= k
    <3>1. i \in d..k /\ k \in d..k
      BY <1>1, <2>2
    <3>2. cut[i] <= cut[k]
      BY <3>1 DEF Frames
    <3>3. new[i] = cut[i] /\ new[j] = cut[k] + n /\ cut[i] \in Nat
      BY <1>5, <2>0, <2>2
    <3> QED BY <1>3, <3>2, <3>3
  <2>3. CASE i = k + 1 /\ j = k + 1
    <3>1. new[i] = cut[k] + n /\ new[j] = cut[k] + n
      BY ONLY <1>5, <2>3
    <3>2. cut[k] + n \in Nat
      BY ONLY <1>3
    <3> QED BY ONLY <3>1, <3>2
  <2>4. j <= k \/ (j = k + 1 /\ i <= k) \/ (i = k + 1 /\ j = k + 1)
    BY ONLY <2>0
  <2> QED BY ONLY <2>1, <2>2, <2>3, <2>4
<1>8. Frames(c, new, d, k + 1, s)
  BY <1>1, <1>6, <1>7 DEF Frames
<1>9. new[d] = cut[d]
  BY <1>1, <1>5
<1>11. m = s[k + 1] /\ new[k + 1] = cut[k] + TotalSize(m)
  BY <1>5 DEF m, n
<1> QED BY <1>2, <1>4, <1>5, <1>8, <1>9, <1>11 DEF NextFrame

LEMMA FramesAppend ==
  ASSUME NEW b, NEW cut, NEW d \in Nat, NEW k \in Nat,
         NEW s \in Seq(Message), Frames(b, cut, d, k, s), NEW m \in Message
  PROVE  Frames(b, cut, d, k, Append(s, m))
<1> DEFINE q == Append(s, m)
<1>1. Len(s) \in Nat /\ Len(q) = Len(s) + 1 /\ \A i \in 1..Len(s) : q[i] = s[i]
  OBVIOUS
<1> HIDE DEF q
<1>2. d <= k /\ k <= Len(q)
  BY <1>1 DEF Frames
<1>3. \A i \in d..(k - 1) : i + 1 \in 1..Len(s)
  BY <1>1 DEF Frames
<1>4. \A i \in d..(k - 1) : q[i + 1] = s[i + 1]
  BY <1>1, <1>3
<1>5. Frames(b, cut, d, k, q)
  BY <1>2, <1>4 DEF Frames
<1> QED BY <1>5 DEF q

LEMMA FramesNext ==
  ASSUME NEW b, NEW cut, NEW d \in Nat, NEW k \in Nat, NEW s, Frames(b, cut, d, k, s), d < k
  PROVE  Frames(b, cut, d + 1, k, s)
<1>1. \A i \in (d + 1)..(k - 1) : i \in d..(k - 1)
  OBVIOUS
<1>2. \A i \in (d + 1)..k : i \in d..k
  OBVIOUS
<1> QED BY <1>1, <1>2 DEF Frames

-----------------------------------------------------------------------------
(* Each step keeps the stream.                                             *)

\* What the types say of the sizes.
LEMMA Sizes ==
  ASSUME ChanInv
  PROVE  /\ RingOK(sbuf) /\ RingOK(rbuf)
         /\ wire \in Seq(Byte) /\ Len(wire) \in Nat
         /\ sbuf.dataSize \in Nat /\ rbuf.dataSize \in Nat
         /\ Len(delivered) \in Nat /\ Len(sent) \in Nat
         /\ sent \in Seq(Message) /\ delivered \in Seq(Message)
         /\ sendList \in Seq(Packet)
BY RingFields DEF ChanInv, SendInv, SendRingOK, ListOK, RecvRingOK, HistoryOK

\* Nothing of it changes.
LEMMA FlowSame ==
  ASSUME UNCHANGED <<open, sbuf, wire, rbuf, sent, delivered>>
  PROVE  Flowing => Flowing'
<1> SUFFICES ASSUME NEW b \in Stream, NEW cut \in [Nat -> Nat], NEW k \in Nat, Flow(b, cut, k)
             PROVE  Flow(b, cut, k)'
  BY DEF Flowing, Stream
<1>1. Frames(b, cut, Len(delivered), k, sent)'
  BY DEF Flow
<1>2. Pieces(b, cut[Len(delivered)], rbuf, wire, sbuf)'
  BY DEF Flow
<1>3. UnderWay(rbuf, wire, sbuf)' = UnderWay(rbuf, wire, sbuf)
  OBVIOUS
<1> QED BY <1>1, <1>2, <1>3 DEF Flow

\* The sender goes, with what its buffer holds.
LEMMA FlowRemove ==
  ASSUME ChanInv, Flowing, open' = FALSE, sbuf' = BackToPool(sbuf),
         UNCHANGED <<wire, rbuf, sent, delivered>>
  PROVE  Flowing'
<1> PICK b \in Stream, cut \in [Nat -> Nat], k \in Nat : Flow(b, cut, k)
  BY DEF Flowing
<1> DEFINE p == cut[Len(delivered)]
<1>1. p \in Nat /\ cut[k] \in Nat
  BY Sizes
<1>2. sbuf'.dataSize = 0
  BY Fields DEF BackToPool
<1>3. Frames(b, cut, Len(delivered), k, sent)'
  BY DEF Flow
<1>4. Pieces(b, p, rbuf, wire, sbuf')
  <2>1. Held(sbuf', b, p + rbuf.dataSize + Len(wire))
    BY <1>2 DEF Held
  <2> QED BY <2>1 DEF Flow, Pieces
<1>5. p + UnderWay(rbuf, wire, sbuf') <= cut[k]
  <2> DEFINE x == rbuf.dataSize
             y == Len(wire)
             z == sbuf.dataSize
             e == cut[k]
             old == UnderWay(rbuf, wire, sbuf)
             new == UnderWay(rbuf, wire, sbuf')
  <2>1. p + old <= e
    BY DEF Flow
  <2>2. old = x + y + z /\ new = x + y + 0
    BY <1>2 DEF UnderWay
  <2>3. x \in Nat /\ y \in Nat /\ z \in Nat /\ e \in Nat /\ p \in Nat
    BY <1>1, Sizes
  <2> HIDE DEF p, x, y, z, e, old, new
  <2>4. p + new <= e
    BY ONLY <2>1, <2>2, <2>3
  <2> QED BY <2>4 DEF e, new
<1>6. Flow(b, cut, k)'
  BY <1>3, <1>4, <1>5 DEF Flow
<1> QED BY <1>6 DEF Flowing, Stream

\* GrowSendBuffer and RecvEnd: larger buffers with the same content.
LEMMA FlowRings ==
  ASSUME ChanInv, Flowing,
         UNCHANGED <<open, wire, sent, delivered>>,
         sbuf'.dataSize = sbuf.dataSize, rbuf'.dataSize = rbuf.dataSize,
         \A b \in Stream, p \in Nat : Held(sbuf, b, p) => Held(sbuf', b, p),
         \A b \in Stream, p \in Nat : Held(rbuf, b, p) => Held(rbuf', b, p)
  PROVE  Flowing'
<1> PICK b \in Stream, cut \in [Nat -> Nat], k \in Nat : Flow(b, cut, k)
  BY DEF Flowing
<1> DEFINE p == cut[Len(delivered)]
<1>1. p \in Nat /\ p + rbuf.dataSize + Len(wire) \in Nat
  <2> DEFINE x == rbuf.dataSize
             y == Len(wire)
  <2>1. p \in Nat /\ x \in Nat /\ y \in Nat
    BY Sizes
  <2> HIDE DEF p, x, y
  <2>2. p + x + y \in Nat
    BY ONLY <2>1
  <2> QED BY <2>1, <2>2 DEF x, y
<1>2. Pieces(b, p, rbuf, wire, sbuf)
  BY DEF Flow
<1> HIDE DEF p
<1>3. Pieces(b, p, rbuf', wire, sbuf')
  BY <1>1, <1>2 DEF Pieces
<1>4. UnderWay(rbuf', wire, sbuf') = UnderWay(rbuf, wire, sbuf)
  BY DEF UnderWay
<1>5. Flow(b, cut, k)'
  BY <1>3, <1>4 DEF Flow, p
<1> QED BY <1>5 DEF Flowing, Stream

\* A ring without its first n bytes and the wire with them behind.
SentPieces(b, p, r, w, s, n, t) ==
  /\ Pieces(b, p, r, w \o t, RemoveDate(s, n))
  /\ UnderWay(r, w \o t, RemoveDate(s, n)) = UnderWay(r, w, s)

LEMMA PiecesSend ==
  ASSUME NEW b \in Stream, NEW p \in Nat, NEW r, RingOK(r), NEW w \in Seq(Byte),
         NEW s, RingOK(s), Pieces(b, p, r, w, s), NEW n \in Nat, n <= s.dataSize,
         NEW t \in Seq(Byte), Len(t) = n, \A i \in 1..n : t[i] = Content(s)[i]
  PROVE  SentPieces(b, p, r, w, s, n, t)
<1> DEFINE v == w \o t
           x == r.dataSize
           y == Len(w)
           z == s.dataSize
           q == RemoveDate(s, n)
<1>1. x \in Nat /\ y \in Nat /\ z \in Nat
  BY RingFields
<1>2. /\ v \in Seq(Byte) /\ Len(v) = y + n
      /\ \A i \in 1..(y + n) : v[i] = IF i <= y THEN w[i] ELSE t[i - y]
  BY ConcatProperties
<1>3. Held(r, b, p) /\ HeldSeq(w, b, p + x) /\ Held(s, b, p + x + y)
  BY DEF Pieces
<1> HIDE DEF v, x, y
<1>4. p + x \in Nat /\ p + x + y \in Nat /\ (p + x + y) + n = p + x + (y + n)
  BY ONLY <1>1, p \in Nat, n \in Nat
<1>5. q.dataSize = z - n /\ Held(q, b, p + x + (y + n))
  BY <1>3, <1>4, DropPart
<1> HIDE DEF z, q
<1>6. HeldSeq(v, b, p + x)
  <2> SUFFICES ASSUME NEW i \in 1..(y + n) PROVE v[i] = b[(p + x) + i]
    BY <1>2 DEF HeldSeq
  <2>1. CASE i <= y
    <3>1. i \in 1..y
      BY ONLY <1>1, <2>1, i \in 1..(y + n), n \in Nat
    <3> QED BY <1>2, <1>3, <2>1, <3>1 DEF HeldSeq, y
  <2>2. CASE ~(i <= y)
    <3> DEFINE j == i - y
    <3>1. j \in 1..n /\ (p + x + y) + j = (p + x) + i
      BY ONLY <1>1, <2>2, i \in 1..(y + n), n \in Nat, p \in Nat
    <3>2. v[i] = t[j]
      BY <1>2, <2>2
    <3> HIDE DEF j
    <3>3. j \in 1..s.dataSize
      BY <1>1, <3>1 DEF z
    <3>4. t[j] = b[(p + x + y) + j]
      BY <1>3, <3>1, <3>3 DEF Held
    <3> QED BY <3>1, <3>2, <3>4
  <2> QED BY <2>1, <2>2
<1>7. Pieces(b, p, r, v, q)
  BY <1>2, <1>3, <1>5, <1>6 DEF Pieces, x
<1>8. UnderWay(r, v, q) = UnderWay(r, w, s)
  <2>1. UnderWay(r, v, q) = x + (y + n) + (z - n) /\ UnderWay(r, w, s) = x + y + z
    BY <1>2, <1>5 DEF UnderWay, x, y, z
  <2> QED BY ONLY <1>1, <2>1, n \in Nat
<1> QED BY <1>7, <1>8 DEF v, q, SentPieces

\* The first n bytes of the wire go behind the data of the ring.
RecvPieces(b, p, r, w, s, n) ==
  LET q == MemcpyToBuffer(r, SubSeq(w, 1, n))
      v == SubSeq(w, n + 1, Len(w))
  IN  /\ Pieces(b, p, q, v, s)
      /\ UnderWay(q, v, s) = UnderWay(r, w, s)

LEMMA PiecesRecv ==
  ASSUME NEW b \in Stream, NEW p \in Nat, NEW r, RingOK(r), NEW w \in Seq(Byte),
         NEW s, RingOK(s), Pieces(b, p, r, w, s), NEW n \in 1..Len(w), n <= GetEmptySize(r)
  PROVE  RecvPieces(b, p, r, w, s, n)
<1> DEFINE u == SubSeq(w, 1, n)
           v == SubSeq(w, n + 1, Len(w))
           q == MemcpyToBuffer(r, u)
           x == r.dataSize
           y == Len(w)
           z == s.dataSize
<1>1. x \in Nat /\ y \in Nat /\ z \in Nat /\ n \in Nat /\ n <= y
  BY RingFields
<1>2. u \in Seq(Byte) /\ Len(u) = n /\ \A i \in 1..n : u[i] = w[i]
  OBVIOUS
<1>3. v \in Seq(Byte) /\ Len(v) = y - n /\ \A i \in 1..(y - n) : v[i] = w[i + n]
  BY <1>1
<1>4. Held(r, b, p) /\ HeldSeq(w, b, p + x) /\ Held(s, b, p + x + y)
  BY DEF Pieces
<1> HIDE DEF u, v, y, q
<1>5. HeldSeq(u, b, p + x)
  <2> SUFFICES ASSUME NEW i \in 1..n PROVE u[i] = b[(p + x) + i]
    BY <1>2 DEF HeldSeq
  <2>1. i \in 1..Len(w)
    BY <1>1 DEF y
  <2> QED BY <1>2, <1>4, <2>1 DEF HeldSeq
<1>6. RingOK(q) /\ q.dataSize = x + n /\ Held(q, b, p)
  <2>1. Len(u) <= GetEmptySize(r)
    BY <1>2
  <2>2. RingOK(q) /\ q.dataSize = r.dataSize + Len(u) /\ Held(q, b, p)
    BY ONLY <1>2, <1>4, <1>5, <2>1, RingOK(r), b \in Stream, p \in Nat, WritePart DEF q
  <2> QED BY <1>2, <2>2
<1> HIDE DEF x, z
<1>7. HeldSeq(v, b, p + (x + n))
  <2> SUFFICES ASSUME NEW i \in 1..(y - n) PROVE v[i] = b[(p + (x + n)) + i]
    BY <1>3 DEF HeldSeq
  <2>1. i + n \in 1..y /\ (p + x) + (i + n) = (p + (x + n)) + i
    BY ONLY <1>1, i \in 1..(y - n), p \in Nat
  <2>2. w[i + n] = b[(p + x) + (i + n)]
    BY <1>4, <2>1 DEF HeldSeq, y
  <2> QED BY <1>3, <2>1, <2>2
<1>8. p + (x + n) + (y - n) = p + x + y
  BY ONLY <1>1, p \in Nat
<1>9. Pieces(b, p, q, v, s)
  BY <1>3, <1>4, <1>6, <1>7, <1>8 DEF Pieces
<1>10. UnderWay(q, v, s) = UnderWay(r, w, s)
  <2>1. UnderWay(q, v, s) = (x + n) + (y - n) + z /\ UnderWay(r, w, s) = x + y + z
    BY <1>3, <1>6 DEF UnderWay, x, y, z
  <2> QED BY ONLY <1>1, <2>1
<1> QED BY <1>9, <1>10 DEF q, v, u, RecvPieces

\* SendSome: the kernel takes a first part of the data.
LEMMA FlowSendSome ==
  ASSUME ChanInv, Flowing, SendSome
  PROVE  Flowing'
<1> PICK b \in Stream, cut \in [Nat -> Nat], k \in Nat : Flow(b, cut, k)
  BY DEF Flowing
<1> DEFINE need == GetReadSize(sbuf)
           room == SockBuf - Len(wire)
           size == SmallerOf(need, room)
           all == MemcpyFromBuffer(sbuf, need)
           t == SubSeq(all, 1, size)
           p == cut[Len(delivered)]
<1>1. /\ need > 0 /\ Len(wire) < SockBuf
      /\ sbuf' = RemoveDate(sbuf, size) /\ wire' = wire \o t
      /\ open' = open /\ rbuf' = rbuf
      /\ sent' = sent /\ delivered' = delivered
  BY DEF SendSome, receiver
<1>2. /\ RingOK(sbuf) /\ RingOK(rbuf) /\ wire \in Seq(Byte) /\ Len(wire) \in Nat
      /\ sbuf.dataSize \in Nat /\ Len(delivered) \in Nat
  BY Sizes
<1>3. need \in 0..sbuf.dataSize
  BY <1>2, ReadSizeOK
<1>4. room \in Nat
  BY <1>1, <1>2, StreamAssumption
<1>5. all \in Seq(Byte) /\ Len(all) = need /\ \A i \in 1..need : all[i] = Content(sbuf)[i]
  BY <1>2, <1>3, MemcpyFromBufferOK
<1> HIDE DEF need, room, all
<1>6. size \in Nat /\ size <= need /\ size <= sbuf.dataSize
  <2> DEFINE z == sbuf.dataSize
  <2>1. z \in Nat /\ need \in 0..z
    BY <1>2, <1>3
  <2>2. size = need \/ (size = room /\ room <= need)
    BY <1>3, <1>4 DEF SmallerOf
  <2> HIDE DEF z, size
  <2>3. size \in Nat /\ size <= need /\ size <= z
    BY ONLY <1>4, <2>1, <2>2
  <2> QED BY <2>3 DEF z
<1> HIDE DEF size
<1>7. t \in Seq(Byte) /\ Len(t) = size /\ \A i \in 1..size : t[i] = Content(sbuf)[i]
  <2>1. size \in 0..Len(all)
    BY <1>3, <1>5, <1>6
  <2>2. t \in Seq(Byte) /\ Len(t) = size /\ \A i \in 1..size : t[i] = all[i]
    BY ONLY <1>5, <2>1
  <2>3. \A i \in 1..size : i \in 1..need
    BY <1>3, <1>6
  <2> HIDE DEF t
  <2> QED BY <1>5, <2>2, <2>3
<1> HIDE DEF t
<1>8. Pieces(b, p, rbuf, wire, sbuf) /\ p \in Nat
  BY <1>2 DEF Flow
<1> HIDE DEF p
<1>9. SentPieces(b, p, rbuf, wire, sbuf, size, t)
  <2>1. /\ RingOK(rbuf) /\ wire \in Seq(Byte) /\ RingOK(sbuf)
        /\ size \in Nat /\ size <= sbuf.dataSize
        /\ t \in Seq(Byte) /\ Len(t) = size /\ \A i \in 1..size : t[i] = Content(sbuf)[i]
        /\ Pieces(b, p, rbuf, wire, sbuf) /\ p \in Nat
    BY <1>2, <1>6, <1>7, <1>8
  <2> QED BY ONLY <2>1, b \in Stream, PiecesSend
<1>10. Pieces(b, p, rbuf, wire', sbuf') /\ UnderWay(rbuf, wire', sbuf') = UnderWay(rbuf, wire, sbuf)
  BY <1>1, <1>9 DEF SentPieces
<1>11. Flow(b, cut, k)'
  BY <1>1, <1>10 DEF Flow, p
<1> QED BY <1>11 DEF Flowing, Stream

\* AddPacket: the frame of the packet taken goes behind the stream.
LEMMA FlowAddPacket ==
  ASSUME ChanInv, Flowing, AddPacket
  PROVE  Flowing'
<1> PICK b \in Stream, cut \in [Nat -> Nat], k \in Nat : Flow(b, cut, k)
  BY DEF Flowing
<1> DEFINE d == Len(delivered)
           p == cut[d]
           x == rbuf.dataSize
           y == Len(wire)
           z == sbuf.dataSize
           e == cut[k]
           u == UnderWay(rbuf, wire, sbuf)
           h == HeadOfSendList.msg
           s == Append(sent, h)
<1>1. /\ sendList # <<>> /\ open
      /\ open' = open /\ wire' = wire /\ rbuf' = rbuf
      /\ sent' = s /\ delivered' = delivered
  BY DEF AddPacket, ForThis, receiver
<1>2. /\ RingOK(sbuf) /\ RingOK(rbuf) /\ wire \in Seq(Byte)
      /\ x \in Nat /\ y \in Nat /\ z \in Nat /\ d \in Nat /\ sent \in Seq(Message)
      /\ sendList \in Seq(Packet)
  BY Sizes
<1>3. h \in Message /\ k = Len(sent)
  <2>1. Head(sendList) \in Packet
    BY <1>1, <1>2
  <2>2. h \in Message
    BY <2>1 DEF HeadOfSendList, Packet
  <2> QED BY <1>1, <2>2 DEF Flow
<1>4. /\ s \in Seq(Message) /\ k < Len(s) /\ s[k + 1] = h /\ Len(s) = k + 1
      /\ Frames(b, cut, d, k, s)
  <2>1. Frames(b, cut, d, k, sent)
    BY DEF Flow
  <2>2. Frames(b, cut, d, k, s)
    BY <1>2, <1>3, <2>1, FramesAppend
  <2>3. sent \in Seq(Message) /\ h \in Message /\ k = Len(sent)
    BY <1>2, <1>3
  <2> HIDE DEF h
  <2>4. s \in Seq(Message) /\ Len(s) = Len(sent) + 1 /\ s[Len(sent) + 1] = h /\ Len(sent) \in Nat
    BY ONLY <2>3
  <2> HIDE DEF s
  <2>5. k < Len(s) /\ s[k + 1] = h /\ Len(s) = k + 1
    BY ONLY <2>3, <2>4
  <2> QED BY ONLY <2>2, <2>4, <2>5
<1> HIDE DEF d, s, h
<1>5. Frames(b, cut, d, k, s) /\ p \in Nat /\ e \in Nat
  BY <1>2, <1>4
<1>6. Pieces(b, p, rbuf, wire, sbuf) /\ p + u = e
  BY <1>1 DEF Flow, d
<1>7. u = x + y + z
  BY DEF UnderWay
<1>8. PICK m \in Message, c \in Stream, new \in [Nat -> Nat] :
        /\ m = s[k + 1]
        /\ Frames(c, new, d, k + 1, s)
        /\ SameUpTo(b, c, e) /\ FrameAt(c, e, m)
        /\ new[d] = p /\ new[k + 1] = e + TotalSize(m)
  <2>1. d \in Nat /\ s \in Seq(Message) /\ Frames(b, cut, d, k, s) /\ k < Len(s)
    BY <1>2, <1>4
  <2>2. NextFrame(b, cut, d, k, s)
    BY ONLY <2>1, b \in Stream, cut \in [Nat -> Nat], k \in Nat, FramesPut
  <2> QED BY <2>2 DEF NextFrame
<1> DEFINE n == TotalSize(m)
<1>9. n \in Nat
  BY FrameParts
<1>10. /\ GetEmptySize(sbuf) >= TotalSize(m)
       /\ sbuf' = MemcpyToBuffer(MemcpyToBuffer(MemcpyToBuffer(MemcpyToBuffer(sbuf,
                    Short(TotalSize(m))), Short(Len(HeadOf(m)))), HeadOf(m)), m.data)
  <2>1. m = HeadOfSendList.msg
    BY <1>4, <1>8 DEF h
  <2> QED BY <2>1 DEF AddPacket
<1> HIDE DEF n, x, y, z, e, p, u
<1>11. /\ p + x \in Nat /\ p + x + y \in Nat
       /\ p + x <= e /\ (p + x) + y <= e /\ (p + x + y) + z = e
  <2>1. p \in Nat /\ x \in Nat /\ y \in Nat /\ z \in Nat /\ e = p + (x + y + z)
    BY ONLY <1>2, <1>5, <1>6, <1>7
  <2> QED BY ONLY <2>1
<1>12. Held(rbuf, b, p) /\ HeldSeq(wire, b, p + x) /\ Held(sbuf, b, p + x + y)
  BY <1>6 DEF Pieces, x, y
<1>13. Held(rbuf, c, p)
  <2>1. p + rbuf.dataSize <= e
    BY <1>11 DEF x
  <2> QED BY <1>2, <1>5, <1>8, <1>12, <2>1, HeldSame
<1>14. HeldSeq(wire, c, p + x)
  <2>1. (p + x) + Len(wire) <= e
    BY <1>11 DEF y
  <2> QED BY <1>2, <1>5, <1>8, <1>11, <1>12, <2>1, HeldSame
<1>15. Held(sbuf, c, p + x + y)
  <2>1. (p + x + y) + sbuf.dataSize <= e
    BY <1>5, <1>11 DEF z
  <2> QED BY <1>2, <1>5, <1>8, <1>11, <1>12, <2>1, HeldSame
<1>16. RingOK(sbuf') /\ sbuf'.dataSize = z + n /\ Held(sbuf', c, p + x + y)
  <2> DEFINE o == p + x + y
             q == MemcpyToBuffer(MemcpyToBuffer(MemcpyToBuffer(MemcpyToBuffer(sbuf,
                   Short(TotalSize(m))), Short(Len(HeadOf(m)))), HeadOf(m)), m.data)
  <2>1. o \in Nat /\ Held(sbuf, c, o) /\ FrameAt(c, o + sbuf.dataSize, m)
    BY <1>8, <1>11, <1>15 DEF z
  <2> HIDE DEF o
  <2>2. RingOK(q) /\ q.dataSize = sbuf.dataSize + TotalSize(m) /\ Held(q, c, o)
    BY <1>2, <1>10, <2>1, WriteFrame
  <2> QED BY <1>10, <2>2 DEF o, z, n
<1>17. Pieces(c, p, rbuf, wire, sbuf')
  BY <1>13, <1>14, <1>16 DEF Pieces, x, y
<1>18. p + UnderWay(rbuf, wire, sbuf') = e + n
  <2>1. UnderWay(rbuf, wire, sbuf') = x + y + (z + n)
    BY <1>16 DEF UnderWay, x, y
  <2>2. p + (x + y + (z + n)) = e + n
    BY ONLY <1>2, <1>5, <1>9, <1>11
  <2> QED BY <2>1, <2>2
<1>19. e + n \in Nat /\ k + 1 \in Nat
  BY <1>5, <1>9
<1>20. new[Len(delivered')] = p /\ new[k + 1] = e + n
  BY <1>1, <1>8 DEF d, n
<1>21. Frames(c, new, Len(delivered'), k + 1, sent')
  BY <1>1, <1>8 DEF d
<1>22. Pieces(c, new[Len(delivered')], rbuf', wire', sbuf')
  BY <1>1, <1>17, <1>20
<1>23. /\ new[Len(delivered')] + UnderWay(rbuf', wire', sbuf') = new[k + 1]
       /\ new[Len(delivered')] + UnderWay(rbuf', wire', sbuf') <= new[k + 1]
  BY <1>1, <1>18, <1>19, <1>20
<1>24. k + 1 = Len(sent')
  BY <1>1, <1>4
<1>25. Flow(c, new, k + 1)'
  BY <1>21, <1>22, <1>23, <1>24 DEF Flow
<1> QED BY <1>19, <1>25 DEF Flowing, Stream

\* Recv: what it does to the two pieces, whatever the kernel hands out.
LEMMA RecvWrites ==
  ASSUME ChanInv, NEW size \in 1..SockBuf, Recv(size)
  PROVE  LET r == WithRoom(rbuf)
         IN  /\ rbuf' = MemcpyToBuffer(r, SubSeq(wire, 1, size))
             /\ size \in 1..Len(wire) /\ size <= GetEmptySize(r)
             /\ RingOK(r) /\ RingOK(rbuf')
<1> DEFINE r == WithRoom(rbuf)
           w == GetWriteSize(r)
           n == Len(wire)
<1>1. RingOK(rbuf) /\ wire \in Seq(Byte) /\ n \in Nat
  BY Sizes
<1>2. RingOK(r) /\ r.dataSize < r.bufferSize
  BY <1>1, WithRoomOK
<1>3. /\ size <= SmallerOf(w, n)
      /\ rbuf' = FillDate(r, Memcpy(r.buffer, r.endIndex, wire, 0, size), size)
  BY DEF Recv
<1> HIDE DEF r
<1>4. w \in 1..GetEmptySize(r) /\ GetEmptySize(r) \in Int
  BY <1>2, WriteSizeOK, RingFields DEF GetEmptySize
<1>5. size \in Nat /\ size > 0
  BY StreamAssumption
<1> DEFINE e == GetEmptySize(r)
<1> HIDE DEF w, n, e
<1>6. size <= w /\ size <= n /\ size \in 1..n
  BY <1>1, <1>3, <1>4, <1>5 DEF SmallerOf, e
<1>7. size <= e
  BY <1>4, <1>5, <1>6 DEF e
<1>8. rbuf' = MemcpyToBuffer(r, SubSeq(wire, 1, size))
  BY <1>1, <1>2, <1>3, <1>6, RecvIsWrite DEF w, n
<1>9. SubSeq(wire, 1, size) \in Seq(Byte) /\ Len(SubSeq(wire, 1, size)) = size
  BY ONLY <1>1, <1>6 DEF n
<1>10. RingOK(rbuf')
  BY <1>2, <1>7, <1>8, <1>9, MemcpyToBufferOK DEF e
<1> QED BY <1>2, <1>6, <1>7, <1>8, <1>10 DEF r, n, e

LEMMA FlowRecv ==
  ASSUME ChanInv, Flowing, NEW size \in 1..SockBuf, Recv(size)
  PROVE  Flowing'
<1> PICK b \in Stream, cut \in [Nat -> Nat], k \in Nat : Flow(b, cut, k)
  BY DEF Flowing
<1> DEFINE r == WithRoom(rbuf)
           p == cut[Len(delivered)]
<1>1. /\ rbuf' = MemcpyToBuffer(r, SubSeq(wire, 1, size))
      /\ size \in 1..Len(wire) /\ size <= GetEmptySize(r) /\ RingOK(r)
  BY RecvWrites
<1>2. /\ wire' = SubSeq(wire, size + 1, Len(wire))
      /\ open' = open /\ sbuf' = sbuf
      /\ sent' = sent /\ delivered' = delivered
  BY DEF Recv, sender
<1>3. /\ RingOK(rbuf) /\ RingOK(sbuf) /\ wire \in Seq(Byte)
      /\ rbuf.dataSize \in Nat /\ Len(delivered) \in Nat
  BY Sizes
<1>4. r.dataSize = rbuf.dataSize /\ \A x \in Stream, o \in Nat : Held(rbuf, x, o) => Held(r, x, o)
  BY <1>3, WithRoomOK
<1>5. Pieces(b, p, rbuf, wire, sbuf) /\ p \in Nat
  BY <1>3 DEF Flow
<1> HIDE DEF r, p
<1>6. Pieces(b, p, r, wire, sbuf) /\ UnderWay(r, wire, sbuf) = UnderWay(rbuf, wire, sbuf)
  BY <1>4, <1>5 DEF Pieces, UnderWay
<1>7. RecvPieces(b, p, r, wire, sbuf, size)
  BY ONLY <1>1, <1>3, <1>5, <1>6, b \in Stream, PiecesRecv
<1>8. /\ Pieces(b, p, rbuf', wire', sbuf')
      /\ UnderWay(rbuf', wire', sbuf') = UnderWay(rbuf, wire, sbuf)
  BY <1>1, <1>2, <1>6, <1>7 DEF RecvPieces
<1>9. Flow(b, cut, k)'
  BY <1>2, <1>8 DEF Flow, p
<1> QED BY <1>9 DEF Flowing, Stream

\* What GetTcpPacket does once it has read the lengths, and then the head.
TakenHead(totalSize, len, head, r3) ==
  \/ /\ head[1] \in KnownId
     /\ LET dataLength == totalSize - len - SizeLen * 2
        IN  /\ delivered' = Append(delivered,
                 [id |-> head[1],
                  entity |-> IF len = HeadSize THEN 0 ELSE head[2],
                  player |-> IF len = HeadSize THEN 0 ELSE head[3],
                  data |-> MemcpyFromBuffer(r3, dataLength)])
            /\ rbuf' = RemoveDate(r3, dataLength)
     /\ UNCHANGED <<closing, rpc>>
  \/ /\ head[1] \notin KnownId
     /\ closing' = TRUE
     /\ rbuf' = r3
     /\ rpc' = "message"
     /\ UNCHANGED delivered

Taken(totalSize, headSize, r2) ==
  LET len == IF headSize = HeadSize THEN HeadSize ELSE HeadS2SSize
  IN  TakenHead(totalSize, len, MemcpyFromBuffer(r2, len), RemoveDate(r2, len))

\* GetTcpPacket: the frame at the start of the stream is that of the next
\* packet to deliver, and it is taken as a whole.
LEMMA Parse ==
  ASSUME ChanInv, GetTcpPacket
  PROVE  /\ RingOK(rbuf')
         /\ \/ closing' = TRUE /\ rpc' = "message" /\ delivered' = delivered
            \/ /\ closing' = closing /\ rpc' = rpc
               /\ Len(delivered) < Len(sent)
               /\ delivered' = Append(delivered, sent[Len(delivered) + 1])
               /\ delivered' \in Seq(Message)
               /\ Flowing'
<1>1. rpc = "parse" /\ Complete(rbuf)
  BY DEF GetTcpPacket
<1>2. ropen /\ ~closing
  BY <1>1 DEF ChanInv, PlacesOK
<1> PICK b \in Stream, cut \in [Nat -> Nat], k \in Nat : Flow(b, cut, k)
  BY <1>2 DEF ChanInv, Flowing
<1> DEFINE d == Len(delivered)
           m == sent[d + 1]
           p == cut[d]
           e == cut[k]
           n == TotalSize(m)
           x == rbuf.dataSize
           y == Len(wire)
           z == sbuf.dataSize
           h == Len(HeadOf(m))
           q1 == RemoveDate(rbuf, SizeLen)
           q2 == RemoveDate(q1, SizeLen)
           q3 == RemoveDate(q2, h)
           q4 == RemoveDate(q3, Len(m.data))
<1>3. /\ RingOK(rbuf) /\ x \in Nat /\ y \in Nat /\ z \in Nat /\ d \in Nat
      /\ sent \in Seq(Message) /\ delivered \in Seq(Message) /\ p \in Nat /\ e \in Nat
  BY Sizes
<1>4. Frames(b, cut, d, k, sent) /\ Pieces(b, p, rbuf, wire, sbuf)
  BY DEF Flow
<1>5. d < k
  <2>1. p + UnderWay(rbuf, wire, sbuf) <= e
    BY DEF Flow
  <2>2. UnderWay(rbuf, wire, sbuf) = x + y + z
    BY DEF UnderWay
  <2>3. x > 0
    <3>1. x >= SizeLen
      BY <1>1 DEF Complete
    <3> HIDE DEF x
    <3> QED BY ONLY <1>3, <3>1 DEF SizeLen
  <2>4. d = k => p = e
    OBVIOUS
  <2>5. d <= k
    BY <1>4 DEF Frames
  <2> HIDE DEF d, p, e, x, y, z
  <2>6. p < e
    BY ONLY <1>3, <2>1, <2>2, <2>3
  <2>7. d # k
    BY <1>3, <2>4, <2>6
  <2> QED BY <1>3, <2>5, <2>7
<1>6. m \in Message /\ d < Len(sent)
  <2> HIDE DEF d
  <2>1. k <= Len(sent) /\ Len(sent) \in Nat
    BY <1>3, <1>4 DEF Frames
  <2> DEFINE l == Len(sent)
  <2>2. l \in Nat /\ k <= l /\ d \in Nat
    BY <1>3, <2>1
  <2> HIDE DEF l
  <2>3. d < l /\ d + 1 \in 1..l
    BY ONLY <1>5, <2>2, k \in Nat
  <2> QED BY <1>3, <2>3 DEF l
<1>7. cut[d + 1] = p + n /\ FrameAt(b, p, m)
  <2>1. d \in d..(k - 1)
    BY <1>3, <1>5
  <2> QED BY <1>4, <2>1 DEF Frames
<1>8. Held(rbuf, b, p) /\ HeldSeq(wire, b, p + x) /\ Held(sbuf, b, p + x + y)
  BY <1>4 DEF Pieces
<1>9. /\ ReadShort(MemcpyFromBuffer(rbuf, SizeLen)) = n
      /\ ReadShort(MemcpyFromBuffer(q1, SizeLen)) = h
      /\ MemcpyFromBuffer(q2, h) = HeadOf(m)
      /\ n - h - SizeLen * 2 = Len(m.data)
      /\ MemcpyFromBuffer(q3, Len(m.data)) = m.data
      /\ RingOK(q3) /\ RingOK(q4)
      /\ n <= x /\ q4.dataSize = x - n
      /\ Held(q4, b, p + n)
  BY <1>1, <1>3, <1>6, <1>7, <1>8, ReadFrame
<1>10. /\ (IF h = HeadSize THEN HeadSize ELSE HeadS2SSize) = h
       /\ HeadOf(m)[1] = m.id
       /\ m = [id |-> HeadOf(m)[1],
               entity |-> IF h = HeadSize THEN 0 ELSE HeadOf(m)[2],
               player |-> IF h = HeadSize THEN 0 ELSE HeadOf(m)[3],
               data |-> m.data]
  BY <1>6, HeadOfPacket
<1>11. \/ closing' = TRUE /\ rpc' = "message" /\ delivered' = delivered /\ rbuf' = q3
       \/ /\ closing' = closing /\ rpc' = rpc
          /\ delivered' = Append(delivered, m) /\ rbuf' = q4
  <2>0. GetTcpPacket
    OBVIOUS
  <2>1. Taken(ReadShort(MemcpyFromBuffer(rbuf, SizeLen)),
              ReadShort(MemcpyFromBuffer(q1, SizeLen)), q2)
    <3>1. \E totalSize \in {ReadShort(MemcpyFromBuffer(rbuf, SizeLen))} :
          \E r1 \in {RemoveDate(rbuf, SizeLen)} :
          \E headSize \in {ReadShort(MemcpyFromBuffer(r1, SizeLen))} :
          \E r2 \in {RemoveDate(r1, SizeLen)} :
          \E len \in {IF headSize = HeadSize THEN HeadSize ELSE HeadS2SSize} :
          \E head \in {MemcpyFromBuffer(r2, len)} :
          \E r3 \in {RemoveDate(r2, len)} :
             TakenHead(totalSize, len, head, r3)
      BY ONLY <2>0, Zenon DEF GetTcpPacket, TakenHead
    <3> QED BY ONLY <3>1 DEF Taken
  <2>2. Taken(n, h, q2)
    BY <1>9, <2>1
  <2>3. TakenHead(n, h, HeadOf(m), q3)
    <3> HIDE DEF n, h, m, q2
    <3> QED BY ONLY <1>9, <1>10, <2>2 DEF Taken, q3
  <2>4. HeadOf(m)[1] = m.id
    BY <1>10
  <2>5. Len(m.data) = n - h - SizeLen * 2 /\ MemcpyFromBuffer(q3, Len(m.data)) = m.data
    BY <1>9
  <2> HIDE DEF n, h, m, q3
  <2>6. CASE HeadOf(m)[1] \in KnownId
    BY <1>10, <2>3, <2>5, <2>6 DEF TakenHead
  <2>7. CASE HeadOf(m)[1] \notin KnownId
    BY <2>3, <2>7 DEF TakenHead
  <2> QED BY <2>6, <2>7
<1>12. RingOK(rbuf')
  BY <1>9, <1>11
<1>13. ASSUME closing' = closing, rpc' = rpc, delivered' = Append(delivered, m), rbuf' = q4
       PROVE  Flowing'
  <2>1. /\ open' = open /\ sbuf' = sbuf
        /\ wire' = wire /\ sent' = sent
    BY DEF GetTcpPacket, sender
  <2>2. Len(delivered') = d + 1
    BY <1>3, <1>6, <1>13
  <2>3. Frames(b, cut, d + 1, k, sent)
    <3> HIDE DEF d
    <3> QED BY <1>3, <1>4, <1>5, FramesNext
  <2>4. n \in Nat
    BY <1>6, FrameParts
  <2>5. p + UnderWay(rbuf, wire, sbuf) = p + (x + y + z)
    BY DEF UnderWay
  <2>6. UnderWay(rbuf', wire', sbuf') = (x - n) + y + z
    BY <1>9, <1>13, <2>1 DEF UnderWay
  <2>7. cut[d + 1] + UnderWay(rbuf', wire', sbuf') = p + UnderWay(rbuf, wire, sbuf)
    <3> DEFINE u == UnderWay(rbuf, wire, sbuf)
               v == UnderWay(rbuf', wire', sbuf')
               c == cut[d + 1]
    <3>1. c = p + n /\ v = (x - n) + y + z /\ p + u = p + (x + y + z)
      BY <1>7, <2>5, <2>6
    <3> HIDE DEF u, v, c, p, n, x, y, z
    <3>2. c + v = p + u
      BY ONLY <1>3, <2>4, <3>1
    <3> QED BY <3>2 DEF u, v, c
  <2>8. Pieces(b, cut[d + 1], rbuf', wire', sbuf')
    <3>1. /\ (p + n) + (x - n) = p + x
          /\ (p + n) + (x - n) + y = p + x + y
      <4> HIDE DEF p, n, x, y
      <4> QED BY ONLY <1>3, <2>4
    <3>2. /\ Held(rbuf', b, p + n) /\ HeldSeq(wire', b, p + x) /\ Held(sbuf', b, p + x + y)
          /\ rbuf'.dataSize = x - n /\ Len(wire') = y
      BY <1>8, <1>9, <1>13, <2>1
    <3> HIDE DEF p, n, x, y
    <3>3. Pieces(b, p + n, rbuf', wire', sbuf')
      BY <3>1, <3>2 DEF Pieces
    <3> QED BY <1>7, <3>3
  <2>9. /\ p + UnderWay(rbuf, wire, sbuf) <= e
        /\ open => p + UnderWay(rbuf, wire, sbuf) = e
        /\ open => k = Len(sent)
    BY DEF Flow
  <2>10. Flow(b, cut, k)'
    <3> HIDE DEF d
    <3>1. Frames(b, cut, Len(delivered'), k, sent')
      BY <2>1, <2>2, <2>3
    <3>2. Pieces(b, cut[Len(delivered')], rbuf', wire', sbuf')
      BY <2>2, <2>8
    <3>3. cut[Len(delivered')] + UnderWay(rbuf', wire', sbuf') <= cut[k]
      BY <2>2, <2>7, <2>9 DEF d
    <3>4. open' => cut[Len(delivered')] + UnderWay(rbuf', wire', sbuf') = cut[k]
      BY <2>1, <2>2, <2>7, <2>9 DEF d
    <3>5. open' => k = Len(sent')
      BY <2>1, <2>9
    <3> QED BY <3>1, <3>2, <3>3, <3>4, <3>5 DEF Flow
  <2> QED BY <2>10 DEF Flowing, Stream
<1>14. Append(delivered, m) \in Seq(Message)
  BY <1>3, <1>6
<1> QED BY <1>6, <1>11, <1>12, <1>13, <1>14

\* A connection that has just been made: nothing has been sent on it.
Fresh ==
  /\ sbuf.dataSize = 0 /\ rbuf.dataSize = 0
  /\ wire = <<>> /\ sent = <<>> /\ delivered = <<>>

LEMMA FreshFlow == Fresh => Flowing
<1> SUFFICES ASSUME Fresh PROVE Flowing
  OBVIOUS
<1> USE DEF Fresh
<1>1. 0 \in Byte
  BY StreamAssumption DEF HeadS2SSize
<1> DEFINE b == [j \in Nat |-> 0]
           cut == [j \in Nat |-> 0]
<1>2. b \in Stream /\ cut \in [Nat -> Nat] /\ cut[0] = 0
  BY <1>1 DEF Stream
<1>3. Len(delivered) = 0 /\ Len(sent) = 0 /\ Len(wire) = 0
  OBVIOUS
<1>4. Frames(b, cut, 0, 0, sent)
  BY <1>3 DEF Frames
<1>5. Pieces(b, 0, rbuf, wire, sbuf)
  BY <1>3 DEF Pieces, Held, HeldSeq
<1>6. UnderWay(rbuf, wire, sbuf) = 0
  BY <1>3 DEF UnderWay
<1>7. open => 0 = Len(sent)
  BY <1>3
<1> HIDE DEF b, cut
<1>8. cut[Len(delivered)] = 0 /\ 0 + UnderWay(rbuf, wire, sbuf) = 0
  BY <1>2, <1>3, <1>6
<1>9. Flow(b, cut, 0)
  BY ONLY <1>2, <1>3, <1>4, <1>5, <1>7, <1>8 DEF Flow
<1> QED BY <1>2, <1>9 DEF Flowing

LEMMA FreshFlowNext == Fresh' => Flowing'
BY FreshFlow, PTL

-----------------------------------------------------------------------------
(* Every step keeps the invariant.                                         *)

LEMMA ChanInit == Init => ChanInv
<1> SUFFICES ASSUME Init PROVE ChanInv
  OBVIOUS
<1>1. /\ closing = FALSE /\ open = TRUE /\ ropen = TRUE
      /\ sbuf = NewRing(SendSize) /\ rbuf = NewRing(RecvSize)
      /\ wire = <<>> /\ sent = <<>> /\ delivered = <<>>
      /\ rpc = "message"
  BY DEF Init
<1>2. SendInv
  BY SendInit
<1>3. RingOK(rbuf) /\ sbuf.dataSize = 0 /\ rbuf.dataSize = 0
  BY <1>1, NewRingOK, StreamAssumption, Fields DEF NewRing
<1>4. Flowing
  BY <1>1, <1>3, FreshFlow DEF Fresh
<1>5. HistoryOK
  BY <1>1 DEF HistoryOK
<1>6. PlacesOK
  BY <1>1 DEF PlacesOK
<1> QED BY <1>2, <1>3, <1>4, <1>5, <1>6 DEF ChanInv, RecvRingOK

\* The history holds packets.
LEMMA HistoryStep ==
  ASSUME ChanInv, [Next]_vars
  PROVE  HistoryOK'
<1>0. sent \in Seq(Message) /\ delivered \in Seq(Message)
  BY Sizes
<1>1. CASE AddPacket
  <2>1. HeadOfSendList \in Packet
    BY <1>1, Sizes DEF AddPacket, HeadOfSendList
  <2>2. HeadOfSendList.msg \in Message
    BY <2>1 DEF Packet
  <2> QED BY <1>0, <1>1, <2>2 DEF AddPacket, HistoryOK
<1>2. CASE GetTcpPacket
  <2>1. sent' = sent
    BY <1>2 DEF GetTcpPacket
  <2>2. delivered' \in Seq(Message)
    BY <1>0, <1>2, Parse
  <2> QED BY <1>0, <2>1, <2>2 DEF HistoryOK
<1>3. CASE CreateConnectObj
  BY <1>3 DEF CreateConnectObj, HistoryOK
<1>4. CASE (Sender /\ ~AddPacket) \/ (Receiver /\ ~GetTcpPacket) \/ UNCHANGED vars
            \/ (\E c \in 1..Len(fds), k \in Key, m \in Message : SendPacket(c, k, m))
            \/ (\E k \in ListenKey : HandleListenKey(k))
  <2>1. UNCHANGED <<sent, delivered>>
    BY <1>4 DEF Sender, Receiver, EpollOut, EpollHup, EpollNone, SendSome, SendDone, SendFails,
       DropPacket, GrowSendBuffer, UpdateDone, HandleDisconnect, EpollRdHup, EpollIn,
       EpollNothing, Recv, RecvEnd, NoPacket, SendPacket,
       HandleListenKey, vars
  <2> QED BY <1>0, <2>1 DEF HistoryOK
<1> QED BY <1>1, <1>2, <1>3, <1>4 DEF Next

\* The receive buffer stays sound.
LEMMA RecvRingStep ==
  ASSUME ChanInv, [Next]_vars
  PROVE  RingOK(rbuf')
<1>0. RingOK(rbuf)
  BY Sizes
<1>1. CASE HandleDisconnect \/ EpollRdHup
  BY <1>0, <1>1, BackToPoolOK DEF HandleDisconnect, EpollRdHup, RemoveReceiver
<1>2. CASE \E size \in 1..SockBuf : Recv(size)
  BY <1>2, RecvWrites
<1>3. CASE RecvEnd
  BY <1>0, <1>3, WithRoomOK DEF RecvEnd
<1>4. CASE GetTcpPacket
  BY <1>4, Parse
<1>5. CASE \/ \E c \in 1..Len(fds), k \in Key, m \in Message : SendPacket(c, k, m)
           \/ \E k \in ListenKey : HandleListenKey(k)
  <2>1. rbuf' = rbuf
    BY <1>5 DEF SendPacket, HandleListenKey, receiver
  <2> QED BY <1>0, <2>1
<1>6. CASE Sender \/ EpollIn \/ EpollNothing \/ NoPacket \/ CreateConnectObj \/ UNCHANGED vars
  <2>1. rbuf' = rbuf
    BY <1>6 DEF Sender, EpollOut, EpollHup, EpollNone, SendSome, SendDone, SendFails,
       DropPacket, GrowSendBuffer, AddPacket, UpdateDone, EpollIn, EpollNothing, NoPacket,
       CreateConnectObj, receiver, vars
  <2> QED BY <1>0, <2>1
<1> QED BY <1>1, <1>2, <1>3, <1>4, <1>5, <1>6 DEF Next, Receiver

LEMMA PlacesStep ==
  ASSUME ChanInv, [Next]_vars
  PROVE  PlacesOK'
<1>0. /\ closing => rpc = "message"
      /\ rpc \in {"recv", "recvMore", "parse"} => ropen
      /\ ~open => sbuf.dataSize = 0
      /\ ~ropen => rbuf.dataSize = 0
  BY DEF ChanInv, PlacesOK
<1>1. (~open => sbuf.dataSize = 0)'
  <2>1. CASE EpollHup \/ SendFails
    BY <2>1, Fields DEF EpollHup, SendFails, RemoveSender, BackToPool
  <2>2. CASE SendSome
    <3>1. open' = open /\ GetReadSize(sbuf) > 0
      BY <2>2 DEF SendSome
    <3>2. sbuf.dataSize # 0
      <4>1. sbuf.dataSize = 0 => GetReadSize(sbuf) = 0
        BY DEF GetReadSize
      <4> QED BY <3>1, <4>1
    <3> QED BY <1>0, <3>1, <3>2
  <2>3. CASE GrowSendBuffer \/ AddPacket \/ CreateConnectObj
    BY <2>3 DEF GrowSendBuffer, AddPacket, ForThis, CreateConnectObj
  <2>4. CASE \/ \E c \in 1..Len(fds), k \in Key, m \in Message : SendPacket(c, k, m)
             \/ \E k \in ListenKey : HandleListenKey(k)
    <3>1. open' = open /\ sbuf' = sbuf
      BY <2>4 DEF SendPacket, HandleListenKey, sender
    <3> QED BY <1>0, <3>1
  <2>5. CASE EpollOut \/ EpollNone \/ SendDone \/ DropPacket \/ UpdateDone \/ Receiver
             \/ UNCHANGED vars
    <3>1. open' = open /\ sbuf' = sbuf
      BY <2>5 DEF Receiver, EpollOut, EpollNone, SendDone, DropPacket, UpdateDone,
       HandleDisconnect, EpollRdHup, EpollIn, EpollNothing, Recv, RecvEnd, NoPacket, GetTcpPacket,
       sender, vars
    <3> QED BY <1>0, <3>1
  <2> QED BY <2>1, <2>2, <2>3, <2>4, <2>5 DEF Next, Sender
<1>2. /\ (closing => rpc = "message")'
      /\ (rpc \in {"recv", "recvMore", "parse"} => ropen)'
      /\ (~ropen => rbuf.dataSize = 0)'
  <2>1. CASE HandleDisconnect
    BY <1>0, <2>1, Fields DEF HandleDisconnect, RemoveReceiver, BackToPool
  <2>2. CASE EpollRdHup
    BY <1>0, <2>2, Fields DEF EpollRdHup, RemoveReceiver, BackToPool
  <2>3. CASE EpollIn \/ EpollNothing \/ NoPacket
    BY <1>0, <2>3 DEF EpollIn, EpollNothing, NoPacket
  <2>4. CASE (\E size \in 1..SockBuf : Recv(size)) \/ RecvEnd
    <3>1. /\ rpc \in {"recv", "recvMore"} /\ ropen' = ropen /\ closing' = closing
          /\ rpc' \in {"recvMore", "parse"}
      BY <2>4 DEF Recv, RecvEnd
    <3> QED BY <1>0, <3>1
  <2>5. CASE GetTcpPacket
    <3>1. rpc = "parse" /\ ropen' = ropen
      BY <2>5 DEF GetTcpPacket
    <3>2. rpc' = "message" \/ (closing' = closing /\ rpc' = rpc)
      BY <2>5, Parse
    <3> QED BY <1>0, <3>1, <3>2
  <2>6. CASE CreateConnectObj
    BY <1>0, <2>6 DEF CreateConnectObj
  <2>7. CASE \/ \E c \in 1..Len(fds), k \in Key, m \in Message : SendPacket(c, k, m)
             \/ \E k \in ListenKey : HandleListenKey(k)
    <3>1. UNCHANGED receiver
      BY <2>7 DEF SendPacket, HandleListenKey
    <3> QED BY <1>0, <3>1 DEF receiver
  <2>8. CASE Sender \/ UNCHANGED vars
    <3>1. UNCHANGED receiver
      BY <2>8 DEF Sender, EpollOut, EpollHup, EpollNone, SendSome, SendDone, SendFails,
       DropPacket, GrowSendBuffer, AddPacket, UpdateDone, receiver, vars
    <3> QED BY <1>0, <3>1 DEF receiver
  <2> QED BY <2>1, <2>2, <2>3, <2>4, <2>5, <2>6, <2>7, <2>8 DEF Next, Receiver
<1> QED BY <1>1, <1>2 DEF PlacesOK

LEMMA FlowStep ==
  ASSUME ChanInv, [Next]_vars, ropen', ~closing'
  PROVE  Flowing'
<1>0. ropen /\ ~closing => Flowing
  BY DEF ChanInv
<1>1. CASE \/ \E c \in 1..Len(fds), k \in Key, m \in Message : SendPacket(c, k, m)
           \/ \E k \in ListenKey : HandleListenKey(k)
  <2>1. UNCHANGED <<open, sbuf, wire, ropen, rbuf, closing, sent, delivered>>
    BY <1>1 DEF SendPacket, HandleListenKey, sender, receiver
  <2> QED BY <1>0, <2>1, FlowSame
<1>2. CASE Sender
  <2>0. ropen' = ropen /\ closing' = closing
    BY <1>2 DEF Sender, EpollOut, EpollHup, EpollNone, SendSome, SendDone, SendFails,
     DropPacket, GrowSendBuffer, AddPacket, UpdateDone, receiver
  <2>1. Flowing
    BY <1>0, <2>0
  <2>2. CASE EpollOut \/ EpollNone \/ SendDone \/ DropPacket \/ UpdateDone
    <3>1. UNCHANGED <<open, sbuf, wire, rbuf, sent, delivered>>
      BY <2>2 DEF EpollOut, EpollNone, SendDone, DropPacket, UpdateDone, sender, receiver
    <3> QED BY <2>1, <3>1, FlowSame
  <2>3. CASE EpollHup \/ SendFails
    <3>1. /\ open' = FALSE /\ sbuf' = BackToPool(sbuf)
          /\ UNCHANGED <<wire, rbuf, sent, delivered>>
      BY <2>3 DEF EpollHup, SendFails, RemoveSender, receiver
    <3> QED BY <2>1, <3>1, FlowRemove
  <2>4. CASE SendSome
    BY <2>1, <2>4, FlowSendSome
  <2>5. CASE GrowSendBuffer
    <3>1. /\ UNCHANGED <<open, wire, sent, delivered>>
          /\ rbuf' = rbuf /\ sbuf' = ReAllocBuffer(sbuf)
      BY <2>5 DEF GrowSendBuffer, receiver
    <3>2. /\ sbuf'.dataSize = sbuf.dataSize
          /\ \A i \in 1..sbuf.dataSize : Content(sbuf')[i] = Content(sbuf)[i]
      BY <3>1, Sizes, ReAllocBufferOK
    <3>3. \A b \in Stream, p \in Nat : Held(sbuf, b, p) => Held(sbuf', b, p)
      BY <3>2 DEF Held
    <3>4. \A b \in Stream, p \in Nat : Held(rbuf, b, p) => Held(rbuf', b, p)
      BY <3>1
    <3> QED BY <2>1, <3>1, <3>2, <3>3, <3>4, FlowRings
  <2>6. CASE AddPacket
    BY <2>1, <2>6, FlowAddPacket
  <2> QED BY <1>2, <2>2, <2>3, <2>4, <2>5, <2>6 DEF Sender
<1>3. CASE HandleDisconnect
  <2>1. /\ ~closing \/ ~ropen
        /\ UNCHANGED <<open, sbuf, wire, ropen, rbuf, sent, delivered>>
    BY <1>3 DEF HandleDisconnect, RemoveReceiver, sender
  <2>2. Flowing
    BY <1>0, <2>1
  <2> QED BY <2>1, <2>2, FlowSame
<1>4. CASE EpollRdHup
  BY <1>4 DEF EpollRdHup, RemoveReceiver
<1>5. CASE EpollIn \/ EpollNothing \/ NoPacket
  <2>1. UNCHANGED <<open, sbuf, wire, ropen, rbuf, closing, sent, delivered>>
    BY <1>5 DEF EpollIn, EpollNothing, NoPacket, sender
  <2> QED BY <1>0, <2>1, FlowSame
<1>6. CASE \E size \in 1..SockBuf : Recv(size)
  <2>1. ropen' = ropen /\ closing' = closing
    BY <1>6 DEF Recv
  <2> QED BY <1>0, <1>6, <2>1, FlowRecv
<1>7. CASE RecvEnd
  <2>1. /\ UNCHANGED <<open, wire, ropen, closing, sent, delivered>>
        /\ sbuf' = sbuf /\ rbuf' = WithRoom(rbuf)
    BY <1>7 DEF RecvEnd, sender
  <2>2. /\ rbuf'.dataSize = rbuf.dataSize
        /\ \A b \in Stream, p \in Nat : Held(rbuf, b, p) => Held(rbuf', b, p)
    BY <2>1, Sizes, WithRoomOK
  <2>3. \A b \in Stream, p \in Nat : Held(sbuf, b, p) => Held(sbuf', b, p)
    BY <2>1
  <2> QED BY <1>0, <2>1, <2>2, <2>3, FlowRings
<1>8. CASE GetTcpPacket
  BY <1>8, Parse
<1>9. CASE CreateConnectObj
  <2>1. /\ ~open /\ ~ropen
        /\ wire' = <<>> /\ sent' = <<>> /\ delivered' = <<>>
        /\ sbuf' = sbuf /\ rbuf' = rbuf
    BY <1>9 DEF CreateConnectObj
  <2>2. sbuf.dataSize = 0 /\ rbuf.dataSize = 0
    BY <2>1 DEF ChanInv, PlacesOK
  <2> QED BY <2>1, <2>2, FreshFlowNext DEF Fresh
<1>10. CASE UNCHANGED vars
  BY <1>0, <1>10, FlowSame DEF vars, sender, receiver
<1> QED BY <1>1, <1>2, <1>3, <1>4, <1>5, <1>6, <1>7, <1>8, <1>9, <1>10 DEF Next, Receiver

LEMMA ChanNext == ChanInv /\ [Next]_vars => ChanInv'
<1> SUFFICES ASSUME ChanInv, [Next]_vars PROVE ChanInv'
  OBVIOUS
<1>1. SendInv'
  BY SendNext DEF ChanInv
<1> QED BY <1>1, HistoryStep, RecvRingStep, PlacesStep, FlowStep DEF ChanInv, RecvRingOK

-----------------------------------------------------------------------------
(* What it gives.                                                          *)

\* The receive buffer of a ConnectObj stays sound for every buffer size, every
\* cut of the bytes by the kernels and every use again of the object: recv()
\* writes only free cells, and GetTcpPacket, which trusts the lengths it reads
\* from the stream, never removes more than there is.
THEOREM RecvBufferIsSound == Spec => []RecvRingOK
<1>1. ChanInv => RecvRingOK
  BY DEF ChanInv
<1> QED BY ChanInit, ChanNext, <1>1, PTL DEF Spec

LEMMA ChannelStep == ChanInv /\ [Next]_vars => [Channel!Next]_<<sent, delivered>>
<1> SUFFICES ASSUME ChanInv, [Next]_vars PROVE [Channel!Next]_<<sent, delivered>>
  OBVIOUS
<1> USE DEF Channel!Next
<1>1. CASE AddPacket
  <2>1. HeadOfSendList \in Packet
    BY <1>1, Sizes DEF AddPacket, HeadOfSendList
  <2>2. HeadOfSendList.msg \in Message
    BY <2>1 DEF Packet
  <2> QED BY <1>1, <2>2 DEF AddPacket, Channel!Send
<1>2. CASE GetTcpPacket
  <2>1. sent' = sent
    BY <1>2 DEF GetTcpPacket
  <2>2. \/ delivered' = delivered
        \/ /\ Len(delivered) < Len(sent)
           /\ delivered' = Append(delivered, sent[Len(delivered) + 1])
    BY <1>2, Parse
  <2> QED BY <2>1, <2>2 DEF Channel!Deliver
<1>3. CASE CreateConnectObj
  BY <1>3 DEF CreateConnectObj, Channel!Reset
<1>4. CASE (Sender /\ ~AddPacket) \/ (Receiver /\ ~GetTcpPacket) \/ UNCHANGED vars
            \/ (\E c \in 1..Len(fds), k \in Key, m \in Message : SendPacket(c, k, m))
            \/ (\E k \in ListenKey : HandleListenKey(k))
  <2>1. UNCHANGED <<sent, delivered>>
    BY <1>4 DEF Sender, Receiver, EpollOut, EpollHup, EpollNone, SendSome, SendDone, SendFails,
       DropPacket, GrowSendBuffer, UpdateDone, HandleDisconnect, EpollRdHup, EpollIn,
       EpollNothing, Recv, RecvEnd, NoPacket, SendPacket,
       HandleListenKey, vars
  <2> QED BY <2>1
<1> QED BY <1>1, <1>2, <1>3, <1>4 DEF Next

\* A connection implements the channel: for every size of the buffers and every
\* message, whatever parts of the stream send() and recv() take and whenever a
\* side goes, what Recv dispatches is a prefix of what OnNetworkUpdate gave to
\* this ConnectObj, each packet intact and once; nothing that a former
\* connection left in the buffers of the two pooled ConnectObjs comes through.
\* Whose packets OnNetworkUpdate gives to it is another matter: see ForThis.
THEOREM StreamIsChannel == Spec => ChannelSpec
<1>1. Init => Channel!Init
  BY DEF Init, Channel!Init
<1> QED BY ChanInit, ChanNext, ChannelStep, <1>1, PTL DEF Spec, ChannelSpec, Channel!Spec
=============================================================================
