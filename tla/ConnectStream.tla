---------------------------- MODULE ConnectStream ----------------------------
(***************************************************************************)
(* One direction of a TCP connection between two server processes          *)
(* (libs/libserver): the sending ConnectObj with its SendNetworkBuffer and *)
(* its epoll registration, the bytes in the kernels and on the wire, and   *)
(* the receiving ConnectObj with its RecvNetworkBuffer and the parser of   *)
(* packets.  Both ConnectObjs go back to their pools when the connection   *)
(* is removed and serve the next one with the same buffers, and the kernel *)
(* may give the next socket the file descriptor of the former.             *)
(*                                                                         *)
(* Each side is the loop of its network thread: the sender runs Epoll and  *)
(* OnNetworkUpdate, the receiver the message system and then Epoll.  The   *)
(* sender is a NetworkListen (InitKey holds no tags only) or a             *)
(* NetworkConnector (InitKey holds App tags, ListenKey is empty).          *)
(***************************************************************************)
EXTENDS RingBuffer, FiniteSets

CONSTANTS
  Message,        \* [id, entity, player, data]: entity is 0 without that tag
  KnownId,        \* the values of the enum Proto::MsgId
  Base,           \* 256: a byte is 0..Base-1, TotalSizeType is two of them
  SendSize,       \* DEFAULT_SEND_BUFFER_SIZE
  RecvSize,       \* DEFAULT_RECV_BUFFER_SIZE
  SockBuf,        \* what the kernels and the wire hold at most
  Fd,             \* file descriptors
  Key,            \* TagKeys of packets: functions of some of the TagTypes
  InitKey,        \* TagKeys a ConnectObj may be made with
  ListenKey,      \* TagKeys that MI_NetworkListenKey may bring
  MaxSent,        \* bound on the packets that wait or were sent per connection
  MaxConn         \* bound on the number of connections

SizeLen == 2                       \* sizeof(TotalSizeType)
PacketHead(m) == <<m.id>>
PacketHeadS2S(m) == <<m.id, m.entity, m.player>>
HeadOf(m) == IF m.entity = 0 THEN PacketHead(m) ELSE PacketHeadS2S(m)
HeadSize == 1
HeadS2SSize == 3

\* An unsigned short as the bytes in memory, and back.
Short(n) == <<n % Base, (n \div Base) % Base>>
ReadShort(s) == s[1] + s[2] * Base

\* The value that fits the unsigned short totalSize.
TotalSize(m) == (Len(m.data) + Len(HeadOf(m)) + SizeLen * 2) % (Base * Base)

\* What CompareTags looks at.
TagType == {"Account", "App"}

ASSUME StreamAssumption ==
  /\ Byte = 0..(Base - 1) /\ Base \in Nat /\ Base > HeadS2SSize
  /\ Message \subseteq [id : Byte, entity : Byte, player : Byte, data : Seq(Byte)]
  /\ \A m \in Message :
       \* A packet with a Player tag has an Entity tag as well.
       /\ m.entity = 0 => m.player = 0
       /\ Len(m.data) + Len(HeadOf(m)) + SizeLen * 2 < Base * Base
  /\ SendSize \in Nat \ {0} /\ RecvSize \in Nat \ {0}
  /\ SockBuf \in Nat \ {0} /\ Fd # {}
  /\ \A k \in Key \cup InitKey \cup ListenKey : DOMAIN k \subseteq TagType
  /\ MaxSent \in Nat /\ MaxConn \in Nat

VARIABLES
  fds,          \* the descriptors of the connections up to now, in order
  ckey,         \* the _tagKey of the sender's ConnectObj
  open,         \* the sender's ConnectObj of this connection exists
  sbuf,         \* its _sendBuffer
  epollout,     \* EPOLLOUT is among the events registered for its socket
  spc,          \* what the sender's network thread does
  sendList,     \* Network::_sendMsgList: [fd, key, msg]
  wire,         \* bytes accepted by send() and not yet returned by recv()
  ropen,        \* the receiver's ConnectObj of this connection exists
  rbuf,         \* its _recvBuffer
  closing,      \* its MI_NetworkRequestDisconnect waits in the message list
  rpc,          \* what the receiver's network thread does
  sent,         \* history: packets OnNetworkUpdate gave to this ConnectObj
  delivered     \* history: packets dispatched by Recv from this connection

conn == <<fds, ckey>>
sender == <<open, sbuf, epollout, spc>>
receiver == <<ropen, rbuf, closing, rpc>>
vars == <<conn, sender, sendList, wire, receiver, sent, delivered>>

Init ==
  \* Descriptors are only compared: any may be the first.
  /\ fds = <<CHOOSE f \in Fd : TRUE>>
  /\ ckey \in InitKey
  /\ open = TRUE /\ ropen = TRUE
  /\ sbuf = NewRing(SendSize) /\ rbuf = NewRing(RecvSize)
  /\ epollout = TRUE
  /\ spc = "epoll" /\ rpc = "message"
  /\ sendList = <<>> /\ wire = <<>>
  /\ closing = FALSE
  /\ sent = <<>> /\ delivered = <<>>

SmallerOf(a, b) == IF a <= b THEN a ELSE b

-----------------------------------------------------------------------------
(* The sender.                                                             *)

\* Network::SendPacket, called by any thread with the NetIdentify it has kept
\* of this connection or of a former one.
SendPacket(c, k, m) ==
  /\ Len(sent) + Len(sendList) < MaxSent
  /\ sendList' = Append(sendList, [fd |-> fds[c], key |-> k, msg |-> m])
  /\ UNCHANGED <<conn, sender, wire, receiver, sent, delivered>>

\* TagKey::CopyFrom, with AddTag: a tag that is there already is overwritten.
CopyFrom(k, l) ==
  [t \in DOMAIN k \cup DOMAIN l |-> IF t \in DOMAIN l THEN l[t] ELSE k[t]]

\* MI_NetworkListenKey names the socket, and may come from a former owner.
HandleListenKey(k) ==
  /\ spc = "epoll" /\ open
  /\ ckey' = CopyFrom(ckey, k)
  /\ UNCHANGED <<fds, sender, sendList, wire, receiver, sent, delivered>>

Writable == open /\ epollout /\ Len(wire) < SockBuf

\* Epoll: EPOLLOUT is reported for the socket.
EpollOut ==
  /\ spc = "epoll" /\ Writable
  /\ spc' = "send"
  /\ UNCHANGED <<conn, open, sbuf, epollout, sendList, wire, receiver, sent, delivered>>

\* RemoveConnectObj and, with it, NetworkBuffer::BackToPool.
RemoveSender ==
  /\ open' = FALSE
  /\ sbuf' = BackToPool(sbuf)
  /\ spc' = "update"
  /\ UNCHANGED epollout

\* Epoll: the peer has closed its socket.
EpollHup ==
  /\ spc = "epoll" /\ open /\ ~ropen
  /\ RemoveSender
  /\ UNCHANGED <<conn, sendList, wire, receiver, sent, delivered>>

\* Epoll: no event for this socket.
EpollNone ==
  /\ spc = "epoll" /\ ~Writable
  /\ spc' = "update"
  /\ UNCHANGED <<conn, open, sbuf, epollout, sendList, wire, receiver, sent, delivered>>

\* ConnectObj::Send returns true, and Epoll then calls ModifyEvent.
SendReturns ==
  /\ epollout' = FALSE
  /\ spc' = "update"

\* One turn of the loop of ConnectObj::Send: the kernel takes what fits.
SendSome ==
  /\ spc = "send" /\ GetReadSize(sbuf) > 0 /\ Len(wire) < SockBuf
  /\ LET need == GetReadSize(sbuf)
         size == SmallerOf(need, SockBuf - Len(wire))
     IN  /\ wire' = wire \o SubSeq(MemcpyFromBuffer(sbuf, need), 1, size)
         /\ sbuf' = RemoveDate(sbuf, size)
         /\ IF size < need THEN SendReturns ELSE UNCHANGED <<epollout, spc>>
  /\ UNCHANGED <<conn, open, sendList, receiver, sent, delivered>>

SendDone ==
  /\ spc = "send" /\ GetReadSize(sbuf) = 0
  /\ SendReturns
  /\ UNCHANGED <<conn, open, sbuf, sendList, wire, receiver, sent, delivered>>

\* send() fails, by EAGAIN or because the peer is gone: Send returns false.
SendFails ==
  /\ spc = "send" /\ GetReadSize(sbuf) > 0
  /\ Len(wire) = SockBuf \/ ~ropen
  /\ RemoveSender
  /\ UNCHANGED <<conn, sendList, wire, receiver, sent, delivered>>

HeadOfSendList == Head(sendList)

\* TagKey::CompareTags: a tag that either side lacks is no difference.
CompareTags(k, l) == \A t \in DOMAIN k \cap DOMAIN l : k[t] = l[t]

\* OnNetworkUpdate takes the packet for this ConnectObj: _connects has it
\* under the packet's descriptor, and their tags do not differ.  Nothing
\* tells a packet of a former connection with the same descriptor.
ForThis ==
  /\ open /\ HeadOfSendList.fd = fds[Len(fds)]
  /\ CompareTags(ckey, HeadOfSendList.key)

\* OnNetworkUpdate: no ConnectObj for the socket, or different tags.
DropPacket ==
  /\ spc = "update" /\ sendList # <<>> /\ ~ForThis
  /\ sendList' = Tail(sendList)
  /\ UNCHANGED <<conn, sender, wire, receiver, sent, delivered>>

\* The loop at the start of SendNetworkBuffer::AddPacket.
GrowSendBuffer ==
  /\ spc = "update" /\ sendList # <<>> /\ ForThis
  /\ GetEmptySize(sbuf) < TotalSize(HeadOfSendList.msg)
  /\ sbuf' = ReAllocBuffer(sbuf)
  /\ UNCHANGED <<conn, open, epollout, spc, sendList, wire, receiver, sent, delivered>>

\* The ModifyEvent at the end of OnNetworkUpdate's loop.
ModifyEvent == epollout' = TRUE

\* The rest of AddPacket: total length, head length, head, data; then
\* OnNetworkUpdate registers EPOLLOUT.
AddPacket ==
  /\ spc = "update" /\ sendList # <<>> /\ ForThis
  /\ LET m == HeadOfSendList.msg
     IN  /\ GetEmptySize(sbuf) >= TotalSize(m)
         /\ \E s1 \in {MemcpyToBuffer(sbuf, Short(TotalSize(m)))} :
            \E s2 \in {MemcpyToBuffer(s1, Short(Len(HeadOf(m))))} :
            \E s3 \in {MemcpyToBuffer(s2, HeadOf(m))} :
              sbuf' = MemcpyToBuffer(s3, m.data)
  /\ sent' = Append(sent, HeadOfSendList.msg)
  /\ ModifyEvent
  /\ sendList' = Tail(sendList)
  /\ UNCHANGED <<conn, open, spc, wire, receiver, delivered>>

UpdateDone ==
  /\ spc = "update" /\ sendList = <<>>
  /\ spc' = "epoll"
  /\ UNCHANGED <<conn, open, sbuf, epollout, sendList, wire, receiver, sent, delivered>>

-----------------------------------------------------------------------------
(* The receiver.                                                           *)

RemoveReceiver ==
  /\ ropen' = FALSE
  /\ rbuf' = BackToPool(rbuf)

\* The message system runs before the networks: Network::HandleDisconnect.
HandleDisconnect ==
  /\ rpc = "message"
  /\ IF closing /\ ropen THEN RemoveReceiver ELSE UNCHANGED <<ropen, rbuf>>
  /\ closing' = FALSE
  /\ rpc' = "epoll"
  /\ UNCHANGED <<conn, sender, sendList, wire, sent, delivered>>

\* Epoll: EPOLLRDHUP is looked at before EPOLLIN.
EpollRdHup ==
  /\ rpc = "epoll" /\ ropen /\ ~open
  /\ RemoveReceiver
  /\ rpc' = "message"
  /\ UNCHANGED <<conn, sender, sendList, wire, closing, sent, delivered>>

EpollIn ==
  /\ rpc = "epoll" /\ ropen /\ wire # <<>>
  /\ rpc' = "recv"
  /\ UNCHANGED <<conn, sender, sendList, wire, ropen, rbuf, closing, sent, delivered>>

EpollNothing ==
  /\ rpc = "epoll"
  /\ ropen => wire = <<>>
  /\ rpc' = "message"
  /\ UNCHANGED <<conn, sender, sendList, wire, ropen, rbuf, closing, sent, delivered>>

\* ConnectObj::Recv: room for a head, at least, before each recv().
WithRoom(r) ==
  IF GetEmptySize(r) < HeadS2SSize + SizeLen * 2 THEN ReAllocBuffer(r) ELSE r

\* One turn of its first loop: size bytes have arrived (EPOLLIN promises
\* some for the first turn).  recv() writes them at endIndex, no more than
\* GetWriteSize of them.
Recv(size) ==
  /\ rpc \in {"recv", "recvMore"}
  /\ LET r == WithRoom(rbuf)
     IN  /\ size <= SmallerOf(GetWriteSize(r), Len(wire))
         /\ rbuf' = FillDate(r, Memcpy(r.buffer, r.endIndex, wire, 0, size), size)
  /\ wire' = SubSeq(wire, size + 1, Len(wire))
  /\ rpc' = "recvMore"
  /\ UNCHANGED <<conn, sender, sendList, ropen, closing, sent, delivered>>

\* recv() returns nothing more.
RecvEnd ==
  /\ rpc = "recvMore"
  /\ rbuf' = WithRoom(rbuf)
  /\ rpc' = "parse"
  /\ UNCHANGED <<conn, sender, sendList, wire, ropen, closing, sent, delivered>>

\* Mutated form: a packet that ends with the data is not seen.
CompleteLate(r) ==
  r.dataSize >= SizeLen /\ r.dataSize > ReadShort(MemcpyFromBuffer(r, SizeLen))

\* RecvNetworkBuffer::GetTcpPacket.
Complete(r) ==
  r.dataSize >= SizeLen /\ r.dataSize >= ReadShort(MemcpyFromBuffer(r, SizeLen))

\* ... returns nullptr.
NoPacket ==
  /\ rpc = "parse" /\ ~Complete(rbuf)
  /\ rpc' = "message"
  /\ UNCHANGED <<conn, sender, sendList, wire, ropen, rbuf, closing, sent, delivered>>

GetTcpPacket ==
  /\ rpc = "parse" /\ Complete(rbuf)
  /\ \E totalSize \in {ReadShort(MemcpyFromBuffer(rbuf, SizeLen))} :
     \E r1 \in {RemoveDate(rbuf, SizeLen)} :
     \E headSize \in {ReadShort(MemcpyFromBuffer(r1, SizeLen))} :
     \E r2 \in {RemoveDate(r1, SizeLen)} :
     \E len \in {IF headSize = HeadSize THEN HeadSize ELSE HeadS2SSize} :
     \E head \in {MemcpyFromBuffer(r2, len)} :
     \E r3 \in {RemoveDate(r2, len)} :
       \/ /\ head[1] \in KnownId
          /\ LET dataLength == totalSize - len - SizeLen * 2
             IN  /\ delivered' = Append(delivered,
                      [id |-> head[1],
                       entity |-> IF len = HeadSize THEN 0 ELSE head[2],
                       player |-> IF len = HeadSize THEN 0 ELSE head[3],
                       data |-> MemcpyFromBuffer(r3, dataLength)])
                 /\ rbuf' = RemoveDate(r3, dataLength)
          /\ UNCHANGED <<closing, rpc>>
       \* Not a MsgId: Close(), and the data stays in the buffer.
       \/ /\ head[1] \notin KnownId
          /\ closing' = TRUE
          /\ rbuf' = r3
          /\ rpc' = "message"
          /\ UNCHANGED delivered
  /\ UNCHANGED <<conn, sender, sendList, wire, ropen, sent>>

-----------------------------------------------------------------------------
\* Both ends are gone and a new connection is made (Connect, Accept,
\* CreateConnectObj), with the ConnectObjs from the pools and whatever
\* descriptor the kernel gives; NetworkConnector does so before its Epoll,
\* NetworkListen after it and before OnNetworkUpdate.
CreateConnectObj ==
  /\ ~open /\ ~ropen /\ Len(fds) < MaxConn
  /\ spc \in {"epoll", "update"} /\ rpc \in {"epoll", "message"}
  /\ \E f \in Fd : fds' = Append(fds, f)
  /\ ckey' \in InitKey
  /\ open' = TRUE /\ ropen' = TRUE
  /\ epollout' = TRUE
  /\ wire' = <<>>
  /\ sent' = <<>> /\ delivered' = <<>>
  /\ UNCHANGED <<sbuf, spc, sendList, rbuf, closing, rpc>>

Sender ==
  \/ EpollOut \/ EpollHup \/ EpollNone
  \/ SendSome \/ SendDone \/ SendFails
  \/ DropPacket \/ GrowSendBuffer \/ AddPacket \/ UpdateDone

Receiver ==
  \/ HandleDisconnect \/ EpollRdHup \/ EpollIn \/ EpollNothing
  \/ (\E size \in 1..SockBuf : Recv(size)) \/ RecvEnd
  \/ NoPacket \/ GetTcpPacket

Next ==
  \/ \E c \in 1..Len(fds), k \in Key, m \in Message : SendPacket(c, k, m)
  \/ (\E k \in ListenKey : HandleListenKey(k))
  \/ Sender \/ Receiver \/ CreateConnectObj

Spec == Init /\ [][Next]_vars

\* Both network threads run, and the peer's kernel passes on what it got.
Fairness == WF_vars(Sender) /\ WF_vars(Receiver)

FairSpec == Spec /\ Fairness

-----------------------------------------------------------------------------
(* Properties.                                                             *)

\* The send buffer stays sound: its indexes are inside the buffer and
\* enclose exactly _dataSize bytes, all of them written, whatever the order
\* of AddPacket, partial sends, wraps and ReAllocBuffer; a full ring is not
\* taken for an empty one though begin = end in both.
SendRingOK == RingOK(sbuf)

\* The same for the receive buffer, which recv() writes directly and which
\* GetTcpPacket empties field by field: it never removes more than there is.
RecvRingOK == RingOK(rbuf)

\* The two buffers and the framing of AddPacket and GetTcpPacket implement a
\* channel: what OnNetworkUpdate gave to this ConnectObj comes out intact and
\* in order, none twice, and nothing that a former connection has left in the
\* pooled buffers.  It does not say for whom the packets were meant: a packet
\* for the former owner of the descriptor may be among them (ForThis).
Channel == INSTANCE PacketChannel
ChannelSpec == Channel!Spec

RestIsLeft == ~epollout /\ sbuf.dataSize > 0

\* Once nothing more is put on the list, what was given to the ConnectObj
\* arrives unless the connection is removed or a partial send leaves a rest (RestIsSent).
SentIsDelivered ==
  <>[](sendList = <<>>) =>
    (sent # delivered ~> (sent = delivered \/ ~open \/ ~ropen \/ RestIsLeft))

\* ConnectObj::Send: after a partial send the rest is sent in a later frame.
RestIsSent == (open /\ sbuf.dataSize > 0) ~> (~open \/ sbuf.dataSize = 0)
=============================================================================
