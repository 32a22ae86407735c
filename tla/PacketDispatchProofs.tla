------------------------ MODULE PacketDispatchProofs ------------------------
(***************************************************************************)
(* No packet is recycled while a list or a thread still points to it, and  *)
(* every listening message system handles every dispatched packet once, in *)
(* the order of the calls, for every number of threads, packets and        *)
(* created packets.                                                        *)
(***************************************************************************)
EXTENDS PacketDispatch, FiniteSetTheorems, SequenceTheorems, TLAPS

-----------------------------------------------------------------------------
(* Lists as sets of packets.                                               *)

\* What emplace_back does to the packets of a list.
LEMMA AppendElements ==
  ASSUME NEW S, NEW s \in Seq(S), NEW p \in S
  PROVE  /\ Append(s, p) \in Seq(S)
         /\ Elements(Append(s, p)) = Elements(s) \cup {p}
         /\ NoDup(s) /\ p \notin Elements(s) => NoDup(Append(s, p))
<1>1. /\ Append(s, p) \in Seq(S)
      /\ Len(Append(s, p)) = Len(s) + 1
      /\ \A i \in 1..Len(s) : Append(s, p)[i] = s[i]
      /\ Append(s, p)[Len(s) + 1] = p
  BY AppendProperties
<1>2. DOMAIN s = 1..Len(s) /\ DOMAIN Append(s, p) = 1..(Len(s) + 1) /\ Len(s) \in Nat
  BY <1>1, LenProperties
<1>3. Elements(Append(s, p)) = Elements(s) \cup {p}
  BY <1>1, <1>2 DEF Elements
<1>4. NoDup(s) /\ p \notin Elements(s) => NoDup(Append(s, p))
  BY <1>1, <1>2 DEF Elements, NoDup
<1> QED BY <1>1, <1>3, <1>4

\* What visiting the first packet of a list does to its packets.
LEMMA TailElements ==
  ASSUME NEW S, NEW s \in Seq(S), s # <<>>
  PROVE  /\ Tail(s) \in Seq(S)
         /\ Head(s) \in S
         /\ Elements(s) = Elements(Tail(s)) \cup {Head(s)}
         /\ NoDup(s) => NoDup(Tail(s)) /\ Head(s) \notin Elements(Tail(s))
<1>1. /\ Head(s) \in S /\ Head(s) = s[1]
      /\ Tail(s) \in Seq(S)
      /\ Len(Tail(s)) = Len(s) - 1
      /\ \A i \in 1..Len(Tail(s)) : Tail(s)[i] = s[i + 1]
  BY HeadTailProperties
<1>2. Len(s) \in Nat \ {0} /\ DOMAIN s = 1..Len(s) /\ DOMAIN Tail(s) = 1..(Len(s) - 1)
  BY <1>1, LenProperties, EmptySeq
<1>3. Elements(s) = Elements(Tail(s)) \cup {Head(s)}
  <2>1. ASSUME NEW x \in Elements(s)
        PROVE  x \in Elements(Tail(s)) \cup {Head(s)}
    <3>1. PICK i \in 1..Len(s) : x = s[i]
      BY <1>2 DEF Elements
    <3>2. CASE i = 1
      BY <3>1, <3>2, <1>1
    <3>3. CASE i # 1
      <4>1. i - 1 \in 1..(Len(s) - 1) /\ Tail(s)[i - 1] = s[i]
        BY <3>1, <3>3, <1>1, <1>2
      <4> QED BY <4>1, <3>1, <1>2 DEF Elements
    <3> QED BY <3>2, <3>3
  <2>2. Elements(Tail(s)) \subseteq Elements(s)
    BY <1>1, <1>2 DEF Elements
  <2>3. Head(s) \in Elements(s)
    BY <1>1, <1>2 DEF Elements
  <2> QED BY <2>1, <2>2, <2>3
<1>4. ASSUME NoDup(s) PROVE NoDup(Tail(s)) /\ Head(s) \notin Elements(Tail(s))
  BY <1>1, <1>2, <1>4 DEF NoDup, Elements
<1> QED BY <1>1, <1>3, <1>4

LEMMA EmptyElements == Elements(<<>>) = {} /\ NoDup(<<>>)
BY DEF Elements, NoDup

\* A packet's holders form a finite set.
LEMMA HoldersFinite ==
  ASSUME NEW p PROVE IsFiniteSet(Holders(p))
<1>1. IsFiniteSet(0..N) BY DispatchAssumption, FS_Interval DEF N
<1> QED BY <1>1, FS_Subset DEF Holders, MsgSystem

-----------------------------------------------------------------------------
(* Type correctness.                                                       *)

\* Thread numbers and caches: the three lists of no message system come
\* after those of the message systems.
LEMMA Caches ==
  /\ N \in Nat
  /\ MsgSystem \subseteq Cache
  /\ Main \in MsgSystem /\ NetThread \in MsgSystem
  /\ {DispatchList, CreateList, SendList} \subseteq Cache \ MsgSystem
  /\ DispatchList # CreateList /\ DispatchList # SendList /\ CreateList # SendList
BY DispatchAssumption
   DEF N, MsgSystem, Cache, Main, DispatchList, CreateList, SendList

\* The turn of a collector stays within the collector.
LEMMA NextThreadType ==
  /\ \A C \in Collectors : First(C) \in Threads(C)
  /\ \A C \in Collectors : \A t \in Threads(C) : NextThread(C, t) \in Threads(C)
  /\ \A C \in Collector : First(C) \in Nat
  /\ \A C \in Collector : \A t \in Nat : NextThread(C, t) \in Nat
  /\ \A C \in Collectors : C \in Collector /\ Threads(C) \subseteq MsgSystem
  /\ Listener \subseteq MsgSystem
BY DispatchAssumption
   DEF Collectors, Collector, First, Threads, NextThread, MsgSystem, N, Listener

\* ... and there are no others.
LEMMA CacheSplit == Cache = MsgSystem \cup Stage
BY DispatchAssumption
   DEF N, MsgSystem, Cache, Stage, DispatchList, CreateList, SendList

LEMMA InitType == Init => TypeOK
<1> SUFFICES ASSUME Init PROVE TypeOK
  OBVIOUS
<1>1. ListTypes
  BY DEF Init, ListTypes
<1>2. DistTypes
  BY NextThreadType DEF Init, DistTypes
<1>3. PoolTypes /\ CountTypes
  BY DEF Init, PoolTypes, CountTypes
<1>4. ThreadTypes
  BY DEF Init, ThreadTypes
<1>5. HistoryTypes
  BY DEF Init, HistoryTypes
<1> QED BY <1>1, <1>2, <1>3, <1>4, <1>5 DEF TypeOK

\* Removing from or adding to one list keeps all lists well typed.
LEMMA ListStepTypes ==
  ASSUME ListTypes, NEW c \in Cache
  PROVE  /\ \A p \in Packet : EmplaceBack(c, p) /\ UNCHANGED reader => ListTypes'
         /\ SwapCache(c) => ListTypes'
         /\ reader[c] # <<>> => Head(reader[c]) \in Packet
         /\ reader[c] # <<>> /\ Visited(c) /\ UNCHANGED writer => ListTypes'
<1>1. writer[c] \in Seq(Packet) /\ reader[c] \in Seq(Packet) /\ <<>> \in Seq(Packet)
  BY DEF ListTypes
<1>2. \A p \in Packet : Append(writer[c], p) \in Seq(Packet)
  BY <1>1, AppendElements
<1>3. reader[c] # <<>> => Tail(reader[c]) \in Seq(Packet) /\ Head(reader[c]) \in Packet
  BY <1>1, TailElements
<1> QED BY <1>1, <1>2, <1>3 DEF ListTypes, EmplaceBack, SwapCache, Visited

LEMMA ProduceType ==
  ASSUME TypeOK, NEW t \in MsgSystem, Produce(t) PROVE TypeOK'
<1> USE Caches DEF TypeOK, pool, counts, lists, dist, history
<1>1. ASSUME NEW p \in Packet, MallocPacket(t, p) PROVE TypeOK'
  <2>1. PoolTypes' /\ ListTypes' /\ DistTypes'
    BY <1>1 DEF MallocPacket, Awake, PoolTypes, ListTypes, DistTypes
  <2>2. CountTypes'
    BY <1>1 DEF MallocPacket, Awake, CountTypes
  <2>3. ThreadTypes'
    BY <1>1 DEF MallocPacket, Awake, ThreadTypes
  <2>4. HistoryTypes'
    BY <1>1 DEF MallocPacket, Awake, HistoryTypes
  <2> QED BY <2>1, <2>2, <2>3, <2>4
<1>2. ASSUME HandedOver(t), UNCHANGED <<pc, dist, created>> 
      PROVE  local[t] \in Packet /\ ThreadTypes' /\ DistTypes'
  BY <1>2 DEF HandedOver, ThreadTypes, DistTypes
<1>3. CASE DispatchPacket(t)
  <2>1. local[t] \in Packet /\ ThreadTypes' /\ DistTypes'
    BY <1>2, <1>3 DEF DispatchPacket
  <2>2. ListTypes'
    BY <2>1, <1>3, ListStepTypes DEF DispatchPacket
  <2>3. PoolTypes' /\ CountTypes'
    BY <1>3 DEF DispatchPacket, PoolTypes, CountTypes
  <2>4. HistoryTypes'
    BY <1>3, <2>1 DEF DispatchPacket, HistoryTypes
  <2> QED BY <2>1, <2>2, <2>3, <2>4
<1>4. CASE CreateComponentWithSn(t) \/ SendPacket(t)
  <2>1. local[t] \in Packet /\ ThreadTypes' /\ DistTypes'
    BY <1>2, <1>4 DEF CreateComponentWithSn, SendPacket
  <2>2. ListTypes'
    BY <2>1, <1>4, ListStepTypes DEF CreateComponentWithSn, SendPacket
  <2>3. PoolTypes' /\ CountTypes' /\ HistoryTypes'
    BY <1>4 DEF CreateComponentWithSn, SendPacket, PoolTypes, CountTypes, HistoryTypes
  <2> QED BY <2>1, <2>2, <2>3
<1>5. CASE Close(t)
  <2>1. local[t] \in Packet /\ ThreadTypes' /\ DistTypes'
    BY <1>2, <1>5 DEF Close
  <2>2. ListTypes'
    BY <2>1, <1>5, ListStepTypes DEF Close, AddPacketToList
  <2>3. CountTypes'
    BY <1>5, <2>1 DEF Close, AddPacketToList, CountTypes
  <2>4. PoolTypes' /\ HistoryTypes'
    BY <1>5 DEF Close, PoolTypes, HistoryTypes
  <2> QED BY <2>1, <2>2, <2>3, <2>4
<1>6. CASE FreeUnused(t) \/ Forget(t)
  <2>1. local[t] \in Packet /\ ThreadTypes' /\ DistTypes'
    BY <1>2, <1>6 DEF FreeUnused, Forget
  <2>2. PoolTypes' /\ CountTypes' /\ ListTypes' /\ HistoryTypes'
    BY <1>6, <2>1 DEF FreeUnused, Forget, PoolTypes, CountTypes, ListTypes, HistoryTypes
  <2> QED BY <2>1, <2>2
<1> QED BY <1>1, <1>3, <1>4, <1>5, <1>6 DEF Produce

LEMMA FrameType ==
  ASSUME TypeOK, NEW t \in MsgSystem, Frame(t) PROVE TypeOK'
<1> USE Caches DEF TypeOK, pool, counts, lists, dist, history
<1>1. CASE RemoveRef(t)
  <2>1. ListTypes' /\ Head(reader[t]) \in Packet
    BY <1>1, ListStepTypes DEF RemoveRef
  <2>2. CountTypes'
    BY <1>1, <2>1 DEF RemoveRef, CountTypes
  <2>3. HistoryTypes'
    BY <1>1, <2>1 DEF RemoveRef, HistoryTypes
  <2>4. PoolTypes' /\ ThreadTypes' /\ DistTypes'
    BY <1>1 DEF RemoveRef, PoolTypes, ThreadTypes, DistTypes
  <2> QED BY <2>1, <2>2, <2>3, <2>4
<1>2. CASE UpdateMessages(t) \/ MessagesDone(t) \/ SystemsDone(t)
  <2>1. ListTypes'
    BY <1>2, ListStepTypes DEF UpdateMessages, MessagesDone, SystemsDone, ListTypes
  <2>2. ThreadTypes'
    BY <1>2 DEF UpdateMessages, MessagesDone, SystemsDone, EndOfFrame, Goto, ThreadTypes
  <2>3. PoolTypes' /\ CountTypes' /\ DistTypes' /\ HistoryTypes'
    BY <1>2 DEF UpdateMessages, MessagesDone, SystemsDone, PoolTypes, CountTypes,
                DistTypes, HistoryTypes
  <2> QED BY <2>1, <2>2, <2>3
<1> QED BY <1>1, <1>2 DEF Frame

LEMMA NetworkStepType ==
  ASSUME TypeOK, NetworkStep PROVE TypeOK'
<1> USE Caches DEF TypeOK, pool, counts, lists, dist, history
<1>1. ListTypes'
  BY ListStepTypes DEF NetworkStep, OnNetworkUpdate, FreeSent, NetworkDone, ListTypes
<1>2. ThreadTypes'
  BY DEF NetworkStep, OnNetworkUpdate, FreeSent, NetworkDone, EndOfFrame, Goto, ThreadTypes
<1>3. PoolTypes'
  BY ListStepTypes DEF NetworkStep, OnNetworkUpdate, FreeSent, NetworkDone, PoolTypes
<1>4. CountTypes' /\ DistTypes' /\ HistoryTypes'
  BY DEF NetworkStep, OnNetworkUpdate, FreeSent, NetworkDone, CountTypes, DistTypes,
         HistoryTypes
<1> QED BY <1>1, <1>2, <1>3, <1>4

LEMMA ThreadMgrType ==
  ASSUME TypeOK, ThreadMgrUpdate PROVE TypeOK'
<1> USE Caches DEF TypeOK, pool, counts, lists, dist, history
<1>1. CASE \/ UpdateCreatePacket \/ UpdateDispatchPacket \/ CreateDone \/ DispatchDone
           \/ UnknownThreadType
  <2> USE DEF UpdateCreatePacket, UpdateDispatchPacket, CreateDone, DispatchDone,
              UnknownThreadType, LoopDone
  <2>1. ListTypes'
    BY <1>1, ListStepTypes DEF ListTypes
  <2>2. ThreadTypes'
    BY <1>1 DEF Goto, ThreadTypes
  <2>3. PoolTypes' /\ CountTypes' /\ DistTypes' /\ HistoryTypes'
    BY <1>1 DEF PoolTypes, CountTypes, DistTypes, HistoryTypes
  <2> QED BY <2>1, <2>2, <2>3
<1>2. CASE HandlerCreateMessage
  <2> USE DEF HandlerCreateMessage, Distribute
  <2>1. cur' \in Packet /\ ListTypes'
    BY <1>2, ListStepTypes
  <2>2. DistTypes'
    <3>1. ASSUME NEW C \in Collectors, ToAll(C) PROVE DistTypes'
      BY <2>1, <3>1, NextThreadType DEF ToAll, DistTypes
    <3>2. ASSUME NEW C \in Collectors, ToNext(C) PROVE DistTypes'
      BY <2>1, <3>2, NextThreadType DEF ToNext, DistTypes
    <3>3. CASE Collectors = {}
      BY <1>2, <2>1, <3>3 DEF DistTypes
    <3> QED BY <1>2, <3>1, <3>2, <3>3
  <2>3. PoolTypes' /\ CountTypes' /\ ThreadTypes' /\ HistoryTypes'
    BY <1>2 DEF PoolTypes, CountTypes, ThreadTypes, HistoryTypes
  <2> QED BY <2>1, <2>2, <2>3
<1>5. CASE HandlerMessage
  <2> USE DEF HandlerMessage, Distribute
  <2>1. cur' \in Packet /\ ListTypes'
    BY <1>5, ListStepTypes
  <2>2. DistTypes'
    <3>1. CASE todo' = MsgSystem /\ UNCHANGED next
      BY <2>1, <3>1 DEF DistTypes
    <3>2. CASE /\ "exclusive" \in Collectors
               /\ todo' = Listener \cup {next["exclusive"]}
               /\ next' = [next EXCEPT !["exclusive"] = NextThread("exclusive", @)]
      <4> DEFINE E == "exclusive"
      <4>1. E \in Collectors /\ E \in Collector /\ next[E] \in Threads(E) /\ next[E] \in Nat
        BY <3>2, NextThreadType DEF DistTypes
      <4>2. NextThread(E, next[E]) \in Threads(E) /\ NextThread(E, next[E]) \in Nat
        BY <4>1, NextThreadType
      <4>3. todo' \subseteq MsgSystem
        BY <3>2, <4>1, NextThreadType
      <4> HIDE DEF E
      <4>4. next' = [next EXCEPT ![E] = NextThread(E, next[E])]
        BY <3>2 DEF E
      <4> QED BY <2>1, <4>1, <4>2, <4>3, <4>4, NextThreadType DEF DistTypes
    <3> QED BY <1>5, <3>1, <3>2
  <2>3. PoolTypes' /\ CountTypes' /\ ThreadTypes' /\ HistoryTypes'
    BY <1>5 DEF PoolTypes, CountTypes, ThreadTypes, HistoryTypes
  <2> QED BY <2>1, <2>2, <2>3
<1>3. CASE AddToNextList
  <2>1. PICK t \in todo : AddPacketToList(t, cur) /\ todo' = todo \ {t}
    BY <1>3 DEF AddToNextList
  <2>2. cur \in Packet /\ t \in MsgSystem
    BY <1>3 DEF AddToNextList, DistTypes
  <2>3. ListTypes'
    BY <1>3, <2>1, <2>2, ListStepTypes DEF AddToNextList, AddPacketToList
  <2>4. CountTypes'
    BY <1>3, <2>1, <2>2 DEF AddToNextList, AddPacketToList, CountTypes
  <2>5. PoolTypes' /\ ThreadTypes' /\ DistTypes' /\ HistoryTypes'
    BY <1>3, <2>1 DEF AddToNextList, PoolTypes, ThreadTypes, DistTypes, HistoryTypes
  <2> QED BY <2>3, <2>4, <2>5
<1>4. CASE OpenRef
  BY <1>4 DEF OpenRef, DistTypes, CountTypes, PoolTypes, ListTypes, ThreadTypes, HistoryTypes
<1> QED BY <1>1, <1>2, <1>3, <1>4, <1>5 DEF ThreadMgrUpdate

LEMMA PoolUpdateType ==
  ASSUME TypeOK, PoolUpdate PROVE TypeOK'
<1> USE Caches DEF TypeOK, pool, counts, lists, dist, history
<1>1. PoolTypes'
  BY DEF PoolUpdate, PoolSwap, ScanPacket, ScanDone, InUse, PoolTypes
<1>2. ThreadTypes'
  BY DEF PoolUpdate, PoolSwap, ScanPacket, ScanDone, Goto, ThreadTypes
<1>3. CountTypes' /\ ListTypes' /\ DistTypes' /\ HistoryTypes'
  BY DEF PoolUpdate, PoolSwap, ScanPacket, ScanDone, CountTypes, ListTypes, DistTypes,
         HistoryTypes
<1> QED BY <1>1, <1>2, <1>3

\* Every variable of the packet's life keeps its type, whatever the number
\* of threads and packets.
THEOREM TypeCorrect == Spec => []TypeOK
<1>1. Init => TypeOK
  BY InitType
<1>2. TypeOK /\ [Next]_vars => TypeOK'
  <2> SUFFICES ASSUME TypeOK, [Next]_vars PROVE TypeOK'
    OBVIOUS
  <2>1. CASE UNCHANGED vars
    BY <2>1 DEF vars, pool, counts, lists, dist, history, TypeOK, PoolTypes, CountTypes,
                ListTypes, ThreadTypes, DistTypes, HistoryTypes
  <2>2. CASE Next
    BY <2>2, ProduceType, FrameType, NetworkStepType, ThreadMgrType, PoolUpdateType DEF Next
  <2> QED BY <2>1, <2>2
<1> QED BY <1>1, <1>2, PTL DEF Spec

-----------------------------------------------------------------------------
(* How a step changes what the lists hold.                                 *)

\* emplace_back adds one packet to one list.
LEMMA EmplaceIn ==
  ASSUME TypeOK, ListInv, NEW c \in Cache, NEW p \in Packet,
         ~In(c, p), EmplaceBack(c, p), UNCHANGED reader
  PROVE  /\ ListInv'
         /\ \A d \in Cache, q \in Packet : In(d, q)' <=> In(d, q) \/ (d = c /\ q = p)
<1> DEFINE s == writer[c]
<1>1. s \in Seq(Packet) /\ writer' = [writer EXCEPT ![c] = Append(s, p)] /\ DOMAIN writer = Cache
  BY DEF EmplaceBack, TypeOK, ListTypes
<1>2. p \notin Elements(s) /\ p \notin Elements(reader[c])
  BY DEF In
<1>3. Elements(Append(s, p)) = Elements(s) \cup {p} /\ NoDup(Append(s, p))
  BY <1>1, <1>2, AppendElements DEF ListInv
<1> HIDE DEF s
<1>4. \A d \in Cache : /\ writer'[d] = IF d = c THEN Append(s, p) ELSE writer[d]
                       /\ reader'[d] = reader[d]
  BY <1>1
<1>5. \A d \in Cache, q \in Packet : In(d, q)' <=> In(d, q) \/ (d = c /\ q = p)
  BY <1>3, <1>4 DEF In, s
<1>6. ListInv'
  BY <1>2, <1>3, <1>4 DEF ListInv, s
<1> QED BY <1>5, <1>6

\* Swap moves packets from a writer list to its empty reader list.
LEMMA SwapIn ==
  ASSUME TypeOK, ListInv, NEW c \in Cache, reader[c] = <<>>, SwapCache(c)
  PROVE  /\ ListInv'
         /\ \A d \in Cache, q \in Packet : In(d, q)' <=> In(d, q)
         /\ \A d \in Cache : d # c => reader'[d] = reader[d]
<1>1. \A d \in Cache : /\ writer'[d] = IF d = c THEN <<>> ELSE writer[d]
                       /\ reader'[d] = IF d = c THEN writer[c] ELSE reader[d]
  BY DEF SwapCache, TypeOK, ListTypes
<1>2. \A d \in Cache, q \in Packet : In(d, q)' <=> In(d, q)
  BY <1>1, EmptyElements DEF In
<1>3. ListInv'
  BY <1>1, EmptyElements DEF ListInv
<1> QED BY <1>1, <1>2, <1>3

\* Visiting the first packet of a reader list takes it off that list.
LEMMA VisitIn ==
  ASSUME TypeOK, ListInv, NEW c \in Cache, reader[c] # <<>>, NEW p, p = Head(reader[c]),
         Visited(c), UNCHANGED writer
  PROVE  /\ ListInv'
         /\ p \in Packet /\ In(c, p)
         /\ \A d \in Cache, q \in Packet : In(d, q)' <=> In(d, q) /\ ~(d = c /\ q = p)
         /\ \A d \in Cache : d # c => reader'[d] = reader[d]
<1> DEFINE s == reader[c]
<1>1. s \in Seq(Packet) /\ reader' = [reader EXCEPT ![c] = Tail(s)] /\ DOMAIN reader = Cache
  BY DEF Visited, TypeOK, ListTypes
<1>2. /\ Elements(s) = Elements(Tail(s)) \cup {p} /\ p \in Packet
      /\ NoDup(Tail(s)) /\ p \notin Elements(Tail(s))
  BY <1>1, TailElements DEF ListInv
<1>3. p \notin Elements(writer[c])
  BY <1>2 DEF ListInv
<1> HIDE DEF s
<1>4. \A d \in Cache : /\ reader'[d] = IF d = c THEN Tail(s) ELSE reader[d]
                       /\ writer'[d] = writer[d]
  BY <1>1
<1>5. \A d \in Cache, q \in Packet : In(d, q)' <=> In(d, q) /\ ~(d = c /\ q = p)
  BY <1>2, <1>3, <1>4 DEF In, s
<1>6. ListInv'
  BY <1>2, <1>4 DEF ListInv, s
<1> QED BY <1>2, <1>4, <1>5, <1>6 DEF In, s

LEMMA SameIn ==
  ASSUME UNCHANGED lists, ListInv
  PROVE  ListInv' /\ \A d \in Cache, q \in Packet : In(d, q)' <=> In(d, q)
BY DEF lists, ListInv, In

\* The reference counts stay right as long as neither they nor the holders
\* change.
LEMMA SameRefs ==
  ASSUME TypeOK, RefCountsLists, UNCHANGED ref,
         \A t \in MsgSystem, q \in Packet : In(t, q)' <=> In(t, q)
  PROVE  RefCountsLists'
<1>1. \A q \in Packet : Holders(q)' = Holders(q)
  BY DEF Holders
<1> QED BY <1>1 DEF RefCountsLists

\* One more holder, one more reference: AddPacketToList.
LEMMA MoreRefs ==
  ASSUME TypeOK, RefCountsLists, NEW t \in MsgSystem, NEW p \in Packet, ~In(t, p),
         \A u \in MsgSystem, q \in Packet : In(u, q)' <=> In(u, q) \/ (u = t /\ q = p),
         ref' = [ref EXCEPT ![p] = @ + 1]
  PROVE  RefCountsLists'
<1>1. \A q \in Packet : q # p => Holders(q)' = Holders(q)
  BY DEF Holders
<1>2. Holders(p)' = Holders(p) \cup {t} /\ t \notin Holders(p)
  BY DEF Holders
<1>3. Cardinality(Holders(p)') = Cardinality(Holders(p)) + 1
  BY <1>2, HoldersFinite, FS_AddElement
<1>4. \A q \in Packet : ref'[q] = IF q = p THEN ref[q] + 1 ELSE ref[q]
  BY DEF TypeOK, CountTypes
<1> QED BY <1>1, <1>3, <1>4 DEF RefCountsLists

\* One holder less, one reference less: RemoveRef.
LEMMA FewerRefs ==
  ASSUME TypeOK, RefCountsLists, NEW t \in MsgSystem, NEW p \in Packet, In(t, p),
         \A u \in MsgSystem, q \in Packet : In(u, q)' <=> In(u, q) /\ ~(u = t /\ q = p),
         ref' = [ref EXCEPT ![p] = @ - 1]
  PROVE  RefCountsLists'
<1>1. \A q \in Packet : q # p => Holders(q)' = Holders(q)
  BY DEF Holders
<1>2. Holders(p)' = Holders(p) \ {t} /\ t \in Holders(p)
  BY DEF Holders
<1>3. Cardinality(Holders(p)') = Cardinality(Holders(p)) - 1
  BY <1>2, HoldersFinite, FS_RemoveElement
<1>4. \A q \in Packet : ref'[q] = IF q = p THEN ref[q] - 1 ELSE ref[q]
  BY DEF TypeOK, CountTypes
<1> QED BY <1>1, <1>3, <1>4 DEF RefCountsLists

\* A count of zero means that no message system holds the packet.
LEMMA ZeroRefs ==
  ASSUME RefCountsLists, NEW p \in Packet, ref[p] = 0
  PROVE  \A t \in MsgSystem : ~In(t, p)
<1>1. Holders(p) = {}
  BY HoldersFinite, FS_EmptySet DEF RefCountsLists
<1> QED BY <1>1 DEF Holders

-----------------------------------------------------------------------------
(* The inductive invariant, action by action.                              *)

LEMMA InitInv == Init => IInv
<1> SUFFICES ASSUME Init PROVE IInv
  OBVIOUS
<1>1. TypeOK
  BY InitType
<1>2. \A c \in Cache, p \in Packet : ~In(c, p)
  BY EmptyElements DEF Init, In
<1>3. ListInv
  BY EmptyElements DEF Init, ListInv
<1>4. LoopInv /\ PoolInv
  BY Caches DEF Init, LoopInv, PoolInv, InUse
<1>5. \A p \in Packet : ~Reachable(p) /\ ~Fresh(p)
  BY <1>2, Caches, DispatchAssumption DEF Init, Reachable, Fresh, Stage
<1>6. OnePlace /\ FreshInv /\ NoUseAfterFree
  BY <1>5 DEF OnePlace, FreshInv, NoUseAfterFree, Fresh
<1>7. RefCountsLists
  <2>1. \A p \in Packet : Holders(p) = {}
    BY <1>2, Caches DEF Holders
  <2> QED BY <2>1, FS_EmptySet DEF Init, RefCountsLists
<1> QED BY <1>1, <1>3, <1>4, <1>6, <1>7 DEF IInv

\* Steps that only move a thread on in its loop.
LEMMA PcInv ==
  ASSUME IInv, TypeOK', LoopInv',
         UNCHANGED <<pool, scan, counts, lists, local, cur, todo>>
  PROVE  IInv'
<1> USE DEF pool, counts
<1>1. ListInv' /\ \A d \in Cache, q \in Packet : In(d, q)' <=> In(d, q)
  BY SameIn DEF IInv
<1>2. PoolInv' /\ NoUseAfterFree'
  BY <1>1 DEF IInv, PoolInv, NoUseAfterFree, Reachable, InUse
<1>3. OnePlace' /\ FreshInv'
  BY <1>1, Caches DEF IInv, OnePlace, FreshInv, Fresh, Stage
<1>4. RefCountsLists'
  BY <1>1, Caches, SameRefs DEF IInv
<1> QED BY <1>1, <1>2, <1>3, <1>4 DEF IInv

\* The four swaps: the reader list they fill was empty.
LEMMA SwapInv ==
  ASSUME IInv, TypeOK', NEW c \in Cache, reader[c] = <<>>, SwapCache(c), LoopInv',
         UNCHANGED <<pool, scan, counts, local, cur, todo>>
  PROVE  IInv'
<1> USE DEF pool, counts
<1>1. ListInv' /\ \A d \in Cache, q \in Packet : In(d, q)' <=> In(d, q)
  BY SwapIn DEF IInv
<1>2. PoolInv' /\ NoUseAfterFree'
  BY <1>1 DEF IInv, PoolInv, NoUseAfterFree, Reachable, InUse
<1>3. OnePlace' /\ FreshInv'
  BY <1>1, Caches DEF IInv, OnePlace, FreshInv, Fresh, Stage
<1>4. RefCountsLists'
  BY <1>1, Caches, SameRefs DEF IInv
<1> QED BY <1>1, <1>2, <1>3, <1>4 DEF IInv

LEMMA MallocInv ==
  ASSUME IInv, NEW t \in MsgSystem, NEW p \in Packet, MallocPacket(t, p), TypeOK'
  PROVE  IInv'
<1> USE DEF pool, counts, lists, dist
<1>1. ListInv' /\ \A d \in Cache, q \in Packet : In(d, q)' <=> In(d, q)
  BY SameIn DEF IInv, MallocPacket, Awake
<1>2. ~Reachable(p)
  BY DEF IInv, MallocPacket, Awake, NoUseAfterFree, PoolInv
<1>3. /\ \A u \in MsgSystem : local'[u] = IF u = t THEN p ELSE local[u]
      /\ \A c \in Cache : ~In(c, p)
      /\ \A u \in MsgSystem : local[u] # p
      /\ cur # p /\ cur' = cur /\ todo' = todo
  BY <1>2 DEF MallocPacket, Awake, Reachable, IInv, TypeOK, ThreadTypes
<1>4. LoopInv'
  BY DEF IInv, MallocPacket, Awake, LoopInv
<1>5. PoolInv'
  BY DEF IInv, MallocPacket, Awake, PoolInv, InUse
<1>6. NoUseAfterFree'
  BY <1>1, <1>3 DEF IInv, MallocPacket, Awake, NoUseAfterFree, Reachable, InUse, PoolInv
<1>7. OnePlace'
  BY <1>1, <1>3, Caches DEF IInv, OnePlace, Stage
<1>8. FreshInv'
  BY <1>1, <1>3, Caches DEF IInv, FreshInv, Fresh, Stage, MallocPacket, Awake
<1>9. RefCountsLists'
  <2>1. ref[p] = 0
    <3>1. Holders(p) = {}
      BY <1>3, Caches DEF Holders
    <3> QED BY <3>1, FS_EmptySet DEF IInv, RefCountsLists
  <2>2. ref' = ref
    BY <2>1 DEF MallocPacket, Awake, IInv, TypeOK, CountTypes
  <2> QED BY <2>2, <1>1, Caches, SameRefs DEF IInv
<1> QED BY <1>1, <1>4, <1>5, <1>6, <1>7, <1>8, <1>9 DEF IInv

\* DispatchPacket, CreateComponentWithSn and SendPacket: the thread's packet
\* moves to one of the three lists.
LEMMA HandOverInv ==
  ASSUME IInv, NEW t \in MsgSystem, NEW c \in Stage, HandedOver(t),
         EmplaceBack(c, local[t]), TypeOK',
         UNCHANGED <<pool, scan, counts, reader, pc, cur, todo>>
  PROVE  IInv'
<1> USE DEF pool, counts, lists
<1>1. PICK p \in Packet : p = local[t]
  BY DEF HandedOver, IInv, TypeOK, ThreadTypes
<1>2. c \in Cache /\ c \notin MsgSystem
  BY Caches DEF Stage
<1>3. /\ \A u \in MsgSystem : local'[u] = IF u = t THEN None ELSE local[u]
      /\ None # p
      /\ \A u \in MsgSystem : u # t => local[u] # p
      /\ cur # p /\ \A d \in Stage : ~In(d, p)
  BY <1>1, DispatchAssumption DEF HandedOver, IInv, TypeOK, ThreadTypes, OnePlace
<1>4. ListInv' /\ \A d \in Cache, q \in Packet : In(d, q)' <=> In(d, q) \/ (d = c /\ q = p)
  BY <1>1, <1>2, <1>3, EmplaceIn DEF IInv
<1>5. LoopInv'
  BY DEF IInv, LoopInv
<1>6. PoolInv'
  BY DEF IInv, PoolInv, InUse
<1>7. \A q \in Packet : Fresh(q)' => Fresh(q)
  <2> SUFFICES ASSUME NEW q \in Packet, Fresh(q)' PROVE Fresh(q)
    OBVIOUS
  <2>1. CASE q = p
    BY <1>1, <2>1 DEF Fresh
  <2>2. CASE q # p
    <3>1. \A d \in Stage : In(d, q)' => In(d, q)
      BY <1>4, <2>2, CacheSplit
    <3> QED BY <3>1, <1>3, DispatchAssumption DEF Fresh
  <2> QED BY <2>1, <2>2
<1>8. \A q \in Packet : Reachable(q)' => Reachable(q)
  <2> SUFFICES ASSUME NEW q \in Packet, Reachable(q)' PROVE Reachable(q)
    OBVIOUS
  <2>1. CASE q = p
    BY <1>1, <2>1 DEF Reachable
  <2>2. CASE q # p
    BY <2>2, <1>3, <1>4, DispatchAssumption DEF Reachable
  <2> QED BY <2>1, <2>2
<1>9. NoUseAfterFree'
  BY <1>8 DEF IInv, NoUseAfterFree, InUse
<1>10. OnePlace'
  <2> SUFFICES ASSUME NEW q \in Packet
               PROVE  /\ \A s, u \in MsgSystem : local'[s] = q /\ local'[u] = q => s = u
                      /\ \A d, e \in Stage : In(d, q)' /\ In(e, q)' => d = e
                      /\ \A u \in MsgSystem : local'[u] = q => cur # q /\ \A d \in Stage : ~In(d, q)'
                      /\ cur = q => \A d \in Stage : ~In(d, q)'
    BY DEF OnePlace
  <2>1. \A d \in Stage : In(d, q)' <=> In(d, q) \/ (d = c /\ q = p)
    BY <1>4, CacheSplit
  <2>2. CASE q = p
    BY <2>1, <2>2, <1>3
  <2>3. CASE q # p
    BY <2>1, <2>3, <1>3, DispatchAssumption DEF IInv, OnePlace
  <2> QED BY <2>2, <2>3
<1>11. \A u \in MsgSystem, q \in Packet : In(u, q)' <=> In(u, q)
  BY <1>2, <1>4, CacheSplit
<1>12. FreshInv'
  BY <1>7, <1>11 DEF IInv, FreshInv
<1>13. RefCountsLists'
  BY <1>11, SameRefs DEF IInv
<1> QED BY <1>4, <1>5, <1>6, <1>9, <1>10, <1>12, <1>13 DEF IInv

LEMMA CloseInv ==
  ASSUME IInv, NEW t \in MsgSystem, Close(t), TypeOK'
  PROVE  IInv'
<1> USE DEF pool, lists, dist
<1>1. PICK p \in Packet : p = local[t]
  BY DEF Close, HandedOver, IInv, TypeOK, ThreadTypes
<1>2. t \in Cache /\ t \notin Stage
  BY Caches DEF Stage
<1>3. /\ \A u \in MsgSystem : local'[u] = IF u = t THEN None ELSE local[u]
      /\ None # p
      /\ \A u \in MsgSystem : u # t => local[u] # p
      /\ cur # p /\ cur' = cur /\ todo' = todo
      /\ \A d \in Stage : ~In(d, p)
  BY <1>1, DispatchAssumption DEF Close, HandedOver, IInv, TypeOK, ThreadTypes, OnePlace
<1>4. \A u \in MsgSystem : ~In(u, p)
  BY <1>1, <1>3 DEF IInv, FreshInv, Fresh
<1>5. ListInv' /\ \A d \in Cache, q \in Packet : In(d, q)' <=> In(d, q) \/ (d = t /\ q = p)
  BY <1>1, <1>2, <1>4, EmplaceIn DEF IInv, Close, AddPacketToList
<1>6. LoopInv'
  BY DEF IInv, LoopInv, Close
<1>7. PoolInv'
  BY DEF IInv, PoolInv, InUse, Close
<1>8. \A d \in Stage, q \in Packet : In(d, q)' <=> In(d, q)
  BY <1>2, <1>5, CacheSplit
<1>9. ~Fresh(p)' /\ \A q \in Packet : Fresh(q)' => Fresh(q)
  BY <1>1, <1>3, <1>8, DispatchAssumption DEF Fresh
<1>10. \A q \in Packet : Reachable(q)' => Reachable(q)
  <2> SUFFICES ASSUME NEW q \in Packet, Reachable(q)' PROVE Reachable(q)
    OBVIOUS
  <2>1. CASE q = p
    BY <1>1, <2>1 DEF Reachable
  <2>2. CASE q # p
    BY <2>2, <1>3, <1>5, DispatchAssumption DEF Reachable
  <2> QED BY <2>1, <2>2
<1>11. NoUseAfterFree'
  BY <1>10 DEF IInv, NoUseAfterFree, InUse, Close
<1>12. OnePlace'
  BY <1>3, <1>8, DispatchAssumption DEF IInv, OnePlace
<1>13. FreshInv'
  <2>1. refOpen' = refOpen \cup {p}
    BY <1>1 DEF Close
  <2>2. \A u \in MsgSystem, q \in Packet : q # p => (In(u, q)' <=> In(u, q))
    BY <1>5, CacheSplit
  <2> QED BY <1>3, <1>9, <2>1, <2>2 DEF IInv, FreshInv
<1>14. RefCountsLists'
  <2>1. ref' = [ref EXCEPT ![p] = @ + 1]
    BY <1>1 DEF Close, AddPacketToList
  <2>2. \A u \in MsgSystem, q \in Packet : In(u, q)' <=> In(u, q) \/ (u = t /\ q = p)
    BY <1>5, CacheSplit
  <2> QED BY <1>4, <2>1, <2>2, MoreRefs DEF IInv
<1> QED BY <1>5, <1>6, <1>7, <1>11, <1>12, <1>13, <1>14 DEF IInv

\* FreeUnused and Forget: the thread's packet was in no list.
LEMMA DropInv ==
  ASSUME IInv, NEW t \in MsgSystem, FreeUnused(t) \/ Forget(t), TypeOK'
  PROVE  IInv'
<1> USE DEF pool, counts, lists, dist
<1>1. PICK p \in Packet : p = local[t]
  BY DEF FreeUnused, Forget, HandedOver, IInv, TypeOK, ThreadTypes
<1>2. /\ \A u \in MsgSystem : local'[u] = IF u = t THEN None ELSE local[u]
      /\ None # p
      /\ \A u \in MsgSystem : u # t => local[u] # p
      /\ cur # p /\ cur' = cur /\ todo' = todo
      /\ \A d \in Stage : ~In(d, p)
  BY <1>1, DispatchAssumption
     DEF FreeUnused, Forget, HandedOver, IInv, TypeOK, ThreadTypes, OnePlace
<1>3. \A u \in MsgSystem : ~In(u, p)
  BY <1>1, <1>2 DEF IInv, FreshInv, Fresh
<1>4. ListInv' /\ \A d \in Cache, q \in Packet : In(d, q)' <=> In(d, q)
  BY SameIn DEF IInv, FreeUnused, Forget
<1>5. \A c \in Cache : ~In(c, p)
  BY <1>2, <1>3, CacheSplit
<1>6. LoopInv'
  BY DEF IInv, LoopInv, FreeUnused, Forget
<1>7. removes' \subseteq removes \cup {p} /\ UNCHANGED <<free, adds, objs, scan, refOpen, ref>> /\ p \in InUse
  BY <1>1 DEF FreeUnused, Forget, IInv, NoUseAfterFree, Reachable
<1>8. PoolInv'
  BY <1>7 DEF IInv, PoolInv, InUse
<1>9. ~Reachable(p)' /\ \A q \in Packet : Reachable(q)' => Reachable(q)
  BY <1>2, <1>4, <1>5, DispatchAssumption DEF Reachable
<1>10. NoUseAfterFree'
  BY <1>7, <1>9 DEF IInv, NoUseAfterFree, InUse
<1>11. OnePlace'
  BY <1>2, <1>4, CacheSplit, DispatchAssumption DEF IInv, OnePlace
<1>12. \A q \in Packet : Fresh(q)' => Fresh(q)
  BY <1>2, <1>4, CacheSplit, DispatchAssumption DEF Fresh
<1>13. FreshInv'
  BY <1>2, <1>4, <1>7, <1>12, CacheSplit DEF IInv, FreshInv
<1>14. RefCountsLists'
  BY <1>4, <1>7, CacheSplit, SameRefs DEF IInv
<1> QED BY <1>4, <1>6, <1>8, <1>10, <1>11, <1>13, <1>14 DEF IInv

\* A packet in one of the three lists is nowhere else.
LEMMA StageAlone ==
  ASSUME IInv, NEW c \in Stage, NEW p \in Packet, In(c, p)
  PROVE  /\ \A t \in MsgSystem : local[t] # p
         /\ cur # p
         /\ \A d \in Cache : In(d, p) => d = c
         /\ p \notin refOpen
<1>1. cur # p /\ \A t \in MsgSystem : local[t] # p
  BY DEF IInv, OnePlace
<1>2. p \notin refOpen /\ \A t \in MsgSystem : ~In(t, p)
  BY <1>1 DEF IInv, FreshInv, Fresh
<1>3. \A d \in Stage : In(d, p) => d = c
  BY DEF IInv, OnePlace
<1> QED BY <1>1, <1>2, <1>3, CacheSplit

\* FreeSent and UnknownThreadType: a packet leaves its list for good.
LEMMA LeaveInv ==
  ASSUME IInv, NEW c \in Stage, reader[c] # <<>>, Visited(c), UNCHANGED writer, TypeOK',
         removes' \in {removes, removes \cup {Head(reader[c])}},
         UNCHANGED <<free, adds, objs, scan, counts, local, pc, cur, todo>>
  PROVE  IInv'
<1> USE DEF counts
<1>0. c \in Cache /\ c \notin MsgSystem
  BY Caches DEF Stage
<1>1. PICK p : p = Head(reader[c])
  OBVIOUS
<1>2. /\ ListInv' /\ p \in Packet /\ In(c, p)
      /\ \A d \in Cache, q \in Packet : In(d, q)' <=> In(d, q) /\ ~(d = c /\ q = p)
      /\ \A d \in Cache : d # c => reader'[d] = reader[d]
  BY <1>0, <1>1, VisitIn DEF IInv
<1>3. /\ cur # p /\ \A t \in MsgSystem : local[t] # p
      /\ \A d \in Cache : In(d, p) => d = c
  BY <1>2, StageAlone
<1>4. \A d \in Cache : reader'[d] # <<>> => reader[d] # <<>>
  BY <1>2
<1>5. LoopInv'
  BY <1>4, Caches DEF IInv, LoopInv
<1>6. ~Reachable(p)' /\ \A q \in Packet : Reachable(q)' => Reachable(q)
  BY <1>2, <1>3 DEF Reachable
<1>7. PoolInv'
  BY <1>0, <1>1, <1>2 DEF IInv, PoolInv, InUse, NoUseAfterFree, Reachable
<1>8. NoUseAfterFree'
  BY <1>1, <1>6 DEF IInv, NoUseAfterFree, InUse
<1>9. \A d \in Stage, q \in Packet : In(d, q)' => In(d, q)
  BY <1>2, CacheSplit
<1>10. \A u \in MsgSystem, q \in Packet : In(u, q)' <=> In(u, q)
  BY <1>0, <1>2, CacheSplit
<1>11. OnePlace'
  BY <1>9 DEF IInv, OnePlace
<1>12. \A q \in Packet : Fresh(q)' => Fresh(q)
  BY <1>9 DEF Fresh
<1>13. FreshInv'
  BY <1>10, <1>12 DEF IInv, FreshInv
<1>14. RefCountsLists'
  BY <1>10, SameRefs DEF IInv
<1> QED BY <1>2, <1>5, <1>7, <1>8, <1>11, <1>13, <1>14 DEF IInv

LEMMA RemoveRefInv ==
  ASSUME IInv, NEW t \in MsgSystem, RemoveRef(t), TypeOK'
  PROVE  IInv'
<1> USE DEF pool, dist
<1>0. t \in Cache /\ t \notin Stage
  BY Caches DEF Stage
<1>1. PICK p : p = Head(reader[t])
  OBVIOUS
<1>2. /\ ListInv' /\ p \in Packet /\ In(t, p)
      /\ \A d \in Cache, q \in Packet : In(d, q)' <=> In(d, q) /\ ~(d = t /\ q = p)
      /\ \A d \in Cache : d # t => reader'[d] = reader[d]
  BY <1>0, <1>1, VisitIn DEF IInv, RemoveRef
<1>3. \A d \in Cache : reader'[d] # <<>> => reader[d] # <<>>
  BY <1>2 DEF RemoveRef
<1>4. LoopInv'
  BY <1>3, Caches DEF IInv, LoopInv, RemoveRef
<1>5. PoolInv'
  BY DEF IInv, PoolInv, InUse, RemoveRef
<1>6. \A q \in Packet : Reachable(q)' => Reachable(q)
  BY <1>2 DEF Reachable, RemoveRef
<1>7. NoUseAfterFree'
  BY <1>6 DEF IInv, NoUseAfterFree, InUse, RemoveRef
<1>8. \A d \in Stage, q \in Packet : In(d, q)' <=> In(d, q)
  BY <1>0, <1>2, CacheSplit
<1>9. OnePlace'
  BY <1>8 DEF IInv, OnePlace, RemoveRef
<1>10. \A q \in Packet : Fresh(q)' => Fresh(q)
  BY <1>8 DEF Fresh, RemoveRef
<1>11. \A u \in MsgSystem, q \in Packet : In(u, q)' <=> In(u, q) /\ ~(u = t /\ q = p)
  BY <1>2, CacheSplit
<1>12. FreshInv'
  BY <1>10, <1>11 DEF IInv, FreshInv, RemoveRef
<1>13. RefCountsLists'
  <2>1. ref' = [ref EXCEPT ![p] = @ - 1]
    BY <1>1 DEF RemoveRef
  <2> QED BY <1>2, <1>11, <2>1, FewerRefs DEF IInv
<1> QED BY <1>2, <1>4, <1>5, <1>7, <1>9, <1>12, <1>13 DEF IInv

\* HandlerCreateMessage and HandlerMessage: the main thread takes a packet
\* off its list; no message system holds that packet yet.
LEMMA TakeInv ==
  ASSUME IInv, NEW c \in {DispatchList, CreateList}, Distribute(c), TypeOK',
         pc[Main] \in {"createLoop", "dispatchLoop"}
  PROVE  IInv'
<1> USE DEF pool, counts
<1>0. c \in Cache /\ c \notin MsgSystem /\ c \in Stage
  BY Caches DEF Stage
<1>1. PICK p : p = Head(reader[c])
  OBVIOUS
<1>2. /\ ListInv' /\ p \in Packet /\ In(c, p)
      /\ \A d \in Cache, q \in Packet : In(d, q)' <=> In(d, q) /\ ~(d = c /\ q = p)
      /\ \A d \in Cache : d # c => reader'[d] = reader[d]
  BY <1>0, <1>1, VisitIn DEF IInv, Distribute
<1>3. /\ cur = None /\ cur' = p /\ \A t \in MsgSystem : local[t] # p
      /\ \A d \in Cache : In(d, p) => d = c
      /\ p \notin refOpen
  BY <1>0, <1>1, <1>2, StageAlone DEF Distribute
<1>4. \A d \in Cache : reader'[d] # <<>> => reader[d] # <<>>
  BY <1>2 DEF Distribute
<1>5. LoopInv'
  BY <1>4, Caches DEF IInv, LoopInv, Distribute
<1>6. \A q \in Packet : Reachable(q)' => Reachable(q)
  BY <1>0, <1>2, <1>3 DEF Reachable, Distribute
<1>7. PoolInv'
  BY DEF IInv, PoolInv, InUse, Distribute
<1>8. NoUseAfterFree'
  BY <1>6 DEF IInv, NoUseAfterFree, InUse, Distribute
<1>9. \A d \in Stage, q \in Packet : In(d, q)' <=> In(d, q) /\ ~(d = c /\ q = p)
  BY <1>2, CacheSplit
<1>10. \A u \in MsgSystem, q \in Packet : In(u, q)' <=> In(u, q)
  BY <1>0, <1>2, CacheSplit
<1>11. OnePlace'
  <2> SUFFICES ASSUME NEW q \in Packet
               PROVE  /\ \A s, u \in MsgSystem : local[s] = q /\ local[u] = q => s = u
                      /\ \A d, e \in Stage : In(d, q)' /\ In(e, q)' => d = e
                      /\ \A u \in MsgSystem : local[u] = q => p # q /\ \A d \in Stage : ~In(d, q)'
                      /\ p = q => \A d \in Stage : ~In(d, q)'
    BY <1>3 DEF OnePlace, Distribute
  <2>1. CASE q = p
    BY <2>1, <1>3, <1>9, CacheSplit
  <2>2. CASE q # p
    BY <2>2, <1>9 DEF IInv, OnePlace
  <2> QED BY <2>1, <2>2
<1>12. \A q \in Packet : Fresh(q)' => Fresh(q)
  BY <1>0, <1>2, <1>3, <1>9 DEF Fresh, Distribute
<1>13. \A u \in MsgSystem : ~In(u, p)
  BY <1>0, <1>3, CacheSplit
<1>14. FreshInv'
  <2> SUFFICES ASSUME NEW q \in Packet, Fresh(q)'
               PROVE  /\ q \notin refOpen
                      /\ \A t \in MsgSystem : In(t, q)' => FALSE
    BY DEF FreshInv, Distribute
  <2>1. Fresh(q) /\ q # cur
    BY <1>3, <1>12, DispatchAssumption
  <2> QED BY <2>1, <1>10 DEF IInv, FreshInv
<1>15. RefCountsLists'
  BY <1>10, SameRefs DEF IInv, Distribute
<1> QED BY <1>2, <1>5, <1>7, <1>8, <1>11, <1>14, <1>15 DEF IInv

LEMMA AddInv ==
  ASSUME IInv, AddToNextList, TypeOK'
  PROVE  IInv'
<1> USE DEF pool
<1>1. PICK p \in Packet : p = cur
  BY DEF AddToNextList, IInv, TypeOK, DistTypes
<1>2. PICK t \in todo : AddPacketToList(t, p) /\ todo' = todo \ {t}
  BY <1>1 DEF AddToNextList
<1>3. t \in MsgSystem /\ t \in Cache /\ t \notin Stage
  BY Caches DEF IInv, TypeOK, DistTypes, Stage
<1>4. Fresh(p) /\ ~In(t, p)
  BY <1>1, <1>3 DEF IInv, FreshInv, Fresh
<1>5. ListInv' /\ \A d \in Cache, q \in Packet : In(d, q)' <=> In(d, q) \/ (d = t /\ q = p)
  BY <1>2, <1>3, <1>4, EmplaceIn DEF IInv, AddPacketToList, AddToNextList
<1>6. LoopInv' /\ PoolInv'
  BY DEF IInv, LoopInv, PoolInv, InUse, AddToNextList
<1>7. \A q \in Packet : Reachable(q)' => Reachable(q)
  BY <1>1, <1>5 DEF Reachable, AddToNextList
<1>8. NoUseAfterFree'
  BY <1>7 DEF IInv, NoUseAfterFree, InUse, AddToNextList
<1>9. \A d \in Stage, q \in Packet : In(d, q)' <=> In(d, q)
  BY <1>3, <1>5, CacheSplit
<1>10. OnePlace'
  BY <1>9 DEF IInv, OnePlace, AddToNextList
<1>11. \A q \in Packet : Fresh(q)' => Fresh(q)
  BY <1>9 DEF Fresh, AddToNextList
<1>12. \A u \in MsgSystem, q \in Packet : In(u, q)' <=> In(u, q) \/ (u = t /\ q = p)
  BY <1>5, CacheSplit
<1>13. FreshInv'
  BY <1>1, <1>2, <1>11, <1>12 DEF IInv, FreshInv, AddToNextList
<1>14. RefCountsLists'
  <2>1. ref' = [ref EXCEPT ![p] = @ + 1]
    BY <1>2 DEF AddPacketToList
  <2> QED BY <1>3, <1>4, <1>12, <2>1, MoreRefs DEF IInv
<1> QED BY <1>5, <1>6, <1>8, <1>10, <1>13, <1>14 DEF IInv

LEMMA OpenInv ==
  ASSUME IInv, OpenRef, TypeOK'
  PROVE  IInv'
<1> USE DEF pool
<1>1. PICK p \in Packet : p = cur
  BY DEF OpenRef, IInv, TypeOK, DistTypes
<1>2. refOpen' = refOpen \cup {p} /\ cur' = None /\ p # None
  BY <1>1, DispatchAssumption DEF OpenRef
<1>3. ListInv' /\ \A d \in Cache, q \in Packet : In(d, q)' <=> In(d, q)
  BY SameIn DEF IInv, OpenRef
<1>4. LoopInv' /\ PoolInv'
  BY <1>2 DEF IInv, LoopInv, PoolInv, InUse, OpenRef, lists
<1>5. \A q \in Packet : Reachable(q)' => Reachable(q)
  BY <1>2, <1>3, DispatchAssumption DEF Reachable, OpenRef
<1>6. NoUseAfterFree'
  BY <1>5 DEF IInv, NoUseAfterFree, InUse, OpenRef
<1>7. \A d \in Stage, q \in Packet : In(d, q)' <=> In(d, q)
  BY <1>3, CacheSplit
<1>8. OnePlace'
  BY <1>2, <1>7, DispatchAssumption DEF IInv, OnePlace, OpenRef
<1>9. ~Fresh(p)' /\ \A q \in Packet : Fresh(q)' => Fresh(q)
  <2>1. \A t \in MsgSystem : local[t] # p
    BY <1>1 DEF IInv, OnePlace
  <2>2. \A d \in Stage : ~In(d, p)
    BY <1>1 DEF IInv, OnePlace
  <2> QED BY <1>2, <1>7, <2>1, <2>2, DispatchAssumption DEF Fresh, OpenRef
<1>10. \A u \in MsgSystem, q \in Packet : In(u, q)' <=> In(u, q)
  BY <1>3, CacheSplit
<1>11. FreshInv'
  <2> SUFFICES ASSUME NEW q \in Packet, Fresh(q)'
               PROVE  q \notin refOpen' /\ \A u \in MsgSystem : ~In(u, q)'
    BY DEF FreshInv
  <2>1. Fresh(q) /\ q # p
    BY <1>9
  <2> QED BY <1>1, <1>2, <1>10, <2>1 DEF IInv, FreshInv
<1>12. RefCountsLists'
  BY <1>10, SameRefs DEF IInv, OpenRef
<1> QED BY <1>3, <1>4, <1>6, <1>8, <1>11, <1>12 DEF IInv

\* The steps of the pool touch neither lists nor threads.
LEMMA PoolStepInv ==
  ASSUME IInv, TypeOK', LoopInv', PoolInv', NoUseAfterFree',
         UNCHANGED <<counts, lists, local, cur, todo>>
  PROVE  IInv'
<1> USE DEF counts
<1>1. ListInv' /\ \A d \in Cache, q \in Packet : In(d, q)' <=> In(d, q)
  BY SameIn DEF IInv
<1>2. OnePlace' /\ FreshInv'
  BY <1>1, Caches DEF IInv, OnePlace, FreshInv, Fresh, Stage
<1>3. RefCountsLists'
  BY <1>1, Caches, SameRefs DEF IInv
<1> QED BY <1>1, <1>2, <1>3 DEF IInv

LEMMA PoolSwapInv ==
  ASSUME IInv, PoolSwap, TypeOK'
  PROVE  IInv'
<1>1. \A d \in Cache, q \in Packet : In(d, q)' <=> In(d, q)
  BY SameIn DEF IInv, PoolSwap
<1>2. \A q \in Packet : Reachable(q)' => Reachable(q)
  BY <1>1 DEF Reachable, PoolSwap, dist
<1>3. PoolInv' /\ NoUseAfterFree'
  BY <1>2 DEF IInv, PoolInv, NoUseAfterFree, PoolSwap, InUse
<1>4. LoopInv'
  <2>1. \A t \in MsgSystem : pc'[t] = IF t = Main THEN "scan" ELSE pc[t]
    BY DEF PoolSwap, Goto, IInv, TypeOK, ThreadTypes
  <2> QED BY <2>1, Caches DEF IInv, LoopInv, PoolSwap, lists, dist
<1> QED BY <1>3, <1>4, PoolStepInv DEF PoolSwap, dist

\* The scan only takes packets that no list holds and no thread points to.
LEMMA ScanInv ==
  ASSUME IInv, NEW p \in Packet, ScanPacket(p), TypeOK'
  PROVE  IInv'
<1>1. \A d \in Cache, q \in Packet : In(d, q)' <=> In(d, q)
  BY SameIn DEF IInv, ScanPacket
<1>2. \A q \in Packet : Reachable(q)' => Reachable(q)
  BY <1>1 DEF Reachable, ScanPacket, dist
<1>3. CanBack2Pool(p) => ~Reachable(p)
  <2> SUFFICES ASSUME CanBack2Pool(p) PROVE ~Reachable(p)
    OBVIOUS
  <2>1. \A t \in MsgSystem : ~In(t, p)
    BY ZeroRefs DEF CanBack2Pool, IInv
  <2>2. ~Fresh(p)
    BY DEF CanBack2Pool, IInv, FreshInv
  <2> QED BY <2>1, <2>2, CacheSplit DEF Fresh, Reachable
<1>4. NoUseAfterFree'
  BY <1>2, <1>3 DEF IInv, NoUseAfterFree, ScanPacket, InUse
<1>5. PoolInv'
  BY DEF IInv, PoolInv, ScanPacket, InUse
<1>6. LoopInv'
  BY DEF IInv, LoopInv, ScanPacket, lists, dist
<1> QED BY <1>4, <1>5, <1>6, PoolStepInv DEF ScanPacket, dist

-----------------------------------------------------------------------------
LEMMA ProduceInv ==
  ASSUME IInv, NEW t \in MsgSystem, Produce(t)
  PROVE  IInv'
<1> USE DEF dist
<1>1. TypeOK'
  BY ProduceType DEF IInv
<1>2. CASE \E p \in Packet : MallocPacket(t, p)
  BY <1>1, <1>2, MallocInv
<1>3. CASE DispatchPacket(t)
  BY <1>1, <1>3, HandOverInv DEF DispatchPacket, Stage
<1>4. CASE CreateComponentWithSn(t)
  BY <1>1, <1>4, HandOverInv DEF CreateComponentWithSn, Stage
<1>5. CASE SendPacket(t)
  BY <1>1, <1>5, HandOverInv DEF SendPacket, Stage
<1>6. CASE Close(t)
  BY <1>1, <1>6, CloseInv
<1>7. CASE FreeUnused(t) \/ Forget(t)
  BY <1>1, <1>7, DropInv
<1> QED BY <1>2, <1>3, <1>4, <1>5, <1>6, <1>7 DEF Produce

LEMMA FrameInv ==
  ASSUME IInv, NEW t \in MsgSystem, Frame(t)
  PROVE  IInv'
<1> USE Caches
<1>0. TypeOK'
  BY FrameType DEF IInv
<1>1. \A label : Goto(t, label) => \A u \in MsgSystem : pc'[u] = IF u = t THEN label ELSE pc[u]
  BY DEF Goto, IInv, TypeOK, ThreadTypes
<1>2. CASE UpdateMessages(t)
  <2>1. reader[t] = <<>> /\ t \in Cache
    BY <1>2 DEF UpdateMessages, IInv, LoopInv
  <2>2. \A d \in Cache : d # t => reader'[d] = reader[d]
    BY <1>2, <2>1, SwapIn DEF UpdateMessages, IInv
  <2>3. LoopInv'
    BY <1>1, <1>2, <2>2 DEF UpdateMessages, IInv, LoopInv, dist
  <2> QED BY <1>0, <1>2, <2>1, <2>3, SwapInv DEF UpdateMessages, dist
<1>3. CASE RemoveRef(t)
  BY <1>0, <1>3, RemoveRefInv
<1>4. CASE MessagesDone(t)
  <2>1. LoopInv'
    BY <1>1, <1>4 DEF MessagesDone, IInv, LoopInv, dist, lists
  <2> QED BY <1>0, <1>4, <2>1, PcInv DEF MessagesDone, dist
<1>5. CASE SystemsDone(t)
  <2>1. LoopInv'
    BY <1>1, <1>5 DEF SystemsDone, EndOfFrame, IInv, LoopInv, dist, lists
  <2> QED BY <1>0, <1>5, <2>1, PcInv DEF SystemsDone, dist
<1> QED BY <1>2, <1>3, <1>4, <1>5, Frame(t) DEF Frame

LEMMA NetworkStepInv ==
  ASSUME IInv, NetworkStep
  PROVE  IInv'
<1> USE Caches
<1>0. TypeOK' /\ SendList \in Stage
  BY NetworkStepType DEF IInv, Stage
<1>1. \A label : Goto(NetThread, label) =>
                   \A u \in MsgSystem : pc'[u] = IF u = NetThread THEN label ELSE pc[u]
  BY DEF Goto, IInv, TypeOK, ThreadTypes
<1>2. CASE OnNetworkUpdate
  <2>1. reader[SendList] = <<>> /\ SendList \in Cache
    BY <1>2 DEF OnNetworkUpdate, IInv, LoopInv
  <2>2. \A d \in Cache : d # SendList => reader'[d] = reader[d]
    BY <1>2, <2>1, SwapIn DEF OnNetworkUpdate, IInv
  <2>3. LoopInv'
    BY <1>1, <1>2, <2>2 DEF OnNetworkUpdate, IInv, LoopInv, dist
  <2> QED BY <1>0, <1>2, <2>1, <2>3, SwapInv DEF OnNetworkUpdate, dist
<1>3. CASE FreeSent
  BY <1>0, <1>3, LeaveInv DEF FreeSent, dist
<1>4. CASE NetworkDone
  <2>1. LoopInv'
    BY <1>1, <1>4 DEF NetworkDone, EndOfFrame, IInv, LoopInv, dist, lists
  <2> QED BY <1>0, <1>4, <2>1, PcInv DEF NetworkDone, dist
<1> QED BY <1>2, <1>3, <1>4 DEF NetworkStep

LEMMA ThreadMgrInv ==
  ASSUME IInv, ThreadMgrUpdate
  PROVE  IInv'
<1> USE Caches
<1>0. TypeOK' /\ CreateList \in Stage /\ DispatchList \in Stage
  BY ThreadMgrType DEF IInv, Stage
<1>1. \A label : Goto(Main, label) =>
                   \A u \in MsgSystem : pc'[u] = IF u = Main THEN label ELSE pc[u]
  BY DEF Goto, IInv, TypeOK, ThreadTypes
<1>2. CASE UpdateCreatePacket
  <2>1. reader[CreateList] = <<>> /\ CreateList \in Cache
    BY <1>2 DEF UpdateCreatePacket, IInv, LoopInv
  <2>2. \A d \in Cache : d # CreateList => reader'[d] = reader[d]
    BY <1>2, <2>1, SwapIn DEF UpdateCreatePacket, IInv
  <2>3. LoopInv'
    BY <1>1, <1>2, <2>2 DEF UpdateCreatePacket, IInv, LoopInv, dist
  <2> QED BY <1>0, <1>2, <2>1, <2>3, SwapInv DEF UpdateCreatePacket, dist
<1>3. CASE UpdateDispatchPacket
  <2>1. reader[DispatchList] = <<>> /\ DispatchList \in Cache
    BY <1>3 DEF UpdateDispatchPacket, IInv, LoopInv
  <2>2. \A d \in Cache : d # DispatchList => reader'[d] = reader[d]
    BY <1>3, <2>1, SwapIn DEF UpdateDispatchPacket, IInv
  <2>3. LoopInv'
    BY <1>1, <1>3, <2>2 DEF UpdateDispatchPacket, IInv, LoopInv, dist
  <2> QED BY <1>0, <1>3, <2>1, <2>3, SwapInv DEF UpdateDispatchPacket, dist
<1>4. CASE HandlerCreateMessage
  BY <1>0, <1>4, TakeInv DEF HandlerCreateMessage
<1>5. CASE UnknownThreadType
  BY <1>0, <1>5, LeaveInv DEF UnknownThreadType, pool, dist
<1>6. CASE HandlerMessage
  BY <1>0, <1>6, TakeInv DEF HandlerMessage
<1>7. CASE CreateDone
  <2>1. LoopInv'
    BY <1>1, <1>7 DEF CreateDone, LoopDone, IInv, LoopInv, dist, lists
  <2> QED BY <1>0, <1>7, <2>1, PcInv DEF CreateDone, LoopDone, dist
<1>8. CASE DispatchDone
  <2>1. LoopInv'
    BY <1>1, <1>8 DEF DispatchDone, LoopDone, IInv, LoopInv, dist, lists
  <2> QED BY <1>0, <1>8, <2>1, PcInv DEF DispatchDone, LoopDone, dist
<1>9. CASE AddToNextList
  BY <1>0, <1>9, AddInv
<1>10. CASE OpenRef
  BY <1>0, <1>10, OpenInv
<1> QED BY <1>2, <1>3, <1>4, <1>5, <1>6, <1>7, <1>8, <1>9, <1>10 DEF ThreadMgrUpdate

LEMMA PoolUpdateInv ==
  ASSUME IInv, PoolUpdate
  PROVE  IInv'
<1>0. TypeOK'
  BY PoolUpdateType DEF IInv
<1>1. CASE PoolSwap
  BY <1>0, <1>1, PoolSwapInv
<1>2. CASE \E p \in Packet : ScanPacket(p)
  BY <1>0, <1>2, ScanInv
<1>3. CASE ScanDone
  <2>1. \A u \in MsgSystem : pc'[u] = IF u = Main THEN "create" ELSE pc[u]
    BY <1>3 DEF ScanDone, Goto, IInv, TypeOK, ThreadTypes
  <2>2. LoopInv'
    BY <1>3, <2>1, Caches DEF ScanDone, IInv, LoopInv, dist, lists
  <2> QED BY <1>0, <1>3, <2>2, PcInv DEF ScanDone, dist
<1> QED BY <1>1, <1>2, <1>3 DEF PoolUpdate

\* Init establishes the inductive invariant and every step keeps it.
LEMMA InductiveStep == IInv /\ [Next]_vars => IInv'
<1> SUFFICES ASSUME IInv, [Next]_vars PROVE IInv'
  OBVIOUS
<1>1. CASE UNCHANGED vars
  <2>1. TypeOK' /\ LoopInv'
    BY <1>1 DEF vars, pool, counts, lists, dist, history, IInv, LoopInv, TypeOK, PoolTypes,
                CountTypes, ListTypes, ThreadTypes, DistTypes, HistoryTypes
  <2> QED BY <1>1, <2>1, PcInv DEF vars, dist
<1>2. CASE Next
  BY <1>2, ProduceInv, FrameInv, NetworkStepInv, ThreadMgrInv, PoolUpdateInv DEF Next
<1> QED BY <1>1, <1>2

LEMMA Inductive == Spec => []IInv
BY InitInv, InductiveStep, PTL DEF Spec

\* DynamicPacketPool::Update never recycles a packet that a list of any
\* thread still holds or a thread is still working on, for every number of
\* threads and packets.
THEOREM PacketsAreSafe == Spec => []NoUseAfterFree
<1>1. IInv => NoUseAfterFree
  BY DEF IInv
<1> QED BY <1>1, Inductive, PTL

\* Packet::_ref is the number of message lists that hold the packet, so it
\* is never negative.
THEOREM ReferencesAreCounted == Spec => []RefCountsLists
<1>1. IInv => RefCountsLists
  BY DEF IInv
<1> QED BY <1>1, Inductive, PTL

-----------------------------------------------------------------------------
(* The order of the packets, and what PacketBroadcast promises.            *)

\* Packet p is visited before packet q in the list c.
Ahead(c, p, q) ==
  \/ \E i, j \in DOMAIN writer[c] : i < j /\ writer[c][i] = p /\ writer[c][j] = q
  \/ \E i, j \in DOMAIN reader[c] : i < j /\ reader[c][i] = p /\ reader[c][j] = q
  \/ p \in Elements(reader[c]) /\ q \in Elements(writer[c])

\* The lists that dispatched packets go through.
Route == MsgSystem \cup {DispatchList}

\* Dispatched packets have the numbers up to sent; a packet that is still
\* its thread's own, or is to create a component, has none.
SerialInv ==
  /\ \A p \in Packet : serial[p] <= sent
  /\ \A t \in MsgSystem : handled[t] <= sent
  /\ \A p \in Packet : In(DispatchList, p) => serial[p] > 0
  /\ \A p \in Packet : In(CreateList, p) => serial[p] = 0
  /\ \A t \in MsgSystem : \A p \in Packet : local[t] = p => serial[p] = 0

\* Every list is in the order of the numbers.
SortedInv ==
  \A c \in Route : \A p, q \in Packet :
    Ahead(c, p, q) /\ serial[q] > 0 => serial[p] < serial[q]

\* What a message system has handled comes before what it has in its list,
NewInv ==
  \A t \in MsgSystem : \A p \in Packet :
    In(t, p) /\ serial[p] > 0 => handled[t] < serial[p]

\* that before the packet it is about to get,
Before(t, n) ==
  /\ handled[t] < n
  /\ \A p \in Packet : In(t, p) => serial[p] < n

CurInv ==
  \A p \in Packet : cur = p /\ serial[p] > 0 => \A t \in todo : Before(t, serial[p])

\* and all that before the packets the main thread has not yet distributed.
QueueInv ==
  \A q \in Packet : In(DispatchList, q) =>
    /\ \A t \in MsgSystem : Before(t, serial[q])
    /\ \A p \in Packet : cur = p => serial[p] < serial[q]

\* The packet p is on its way to the message system t, or in its list.
Coming(t, p) == In(t, p) \/ (cur = p /\ t \in todo) \/ In(DispatchList, p)

\* No dispatched packet is lost.
CompleteInv ==
  \A t \in Listener : \A n \in Nat :
    handled[t] < n /\ n <= sent => \E p \in Packet : serial[p] = n /\ Coming(t, p)

OrderInv == SerialInv /\ SortedInv /\ NewInv /\ CurInv /\ QueueInv /\ CompleteInv

\* What the operations of a list do to the order of its packets.
LEMMA EmplaceAhead ==
  ASSUME TypeOK, NEW c \in Cache, NEW p \in Packet, EmplaceBack(c, p), UNCHANGED reader
  PROVE  \A d \in Cache, x, y \in Packet :
           Ahead(d, x, y)' => Ahead(d, x, y) \/ (d = c /\ y = p /\ In(c, x))
<1>1. \A d \in Cache : /\ writer'[d] = IF d = c THEN Append(writer[c], p) ELSE writer[d]
                       /\ reader'[d] = reader[d]
  BY DEF EmplaceBack, TypeOK, ListTypes
<1> DEFINE s == writer[c]
<1>2. s \in Seq(Packet)
  BY DEF TypeOK, ListTypes
<1> HIDE DEF s
<1>3. /\ Len(s) \in Nat /\ DOMAIN s = 1..Len(s)
      /\ DOMAIN Append(s, p) = 1..(Len(s) + 1)
      /\ \A i \in 1..Len(s) : Append(s, p)[i] = s[i]
      /\ Append(s, p)[Len(s) + 1] = p
  BY <1>2, AppendProperties, LenProperties
<1>4. Elements(Append(s, p)) = Elements(s) \cup {p}
  BY <1>2, AppendElements
<1>5. SUFFICES ASSUME NEW d \in Cache, NEW x \in Packet, NEW y \in Packet, Ahead(d, x, y)',
                      ~(y = p /\ d = c /\ In(c, x))
               PROVE  Ahead(d, x, y)
  OBVIOUS
<1>6. CASE d # c
  BY <1>1, <1>5, <1>6 DEF Ahead
<1>7. CASE d = c
  <2>1. writer'[c] = Append(s, p) /\ reader'[c] = reader[c]
    BY <1>1 DEF s
  <2>2. CASE \E i, j \in DOMAIN writer'[c] : i < j /\ writer'[c][i] = x /\ writer'[c][j] = y
    <3>1. PICK i \in DOMAIN writer'[c], j \in DOMAIN writer'[c] :
            i < j /\ writer'[c][i] = x /\ writer'[c][j] = y
      BY <2>2
    <3>2. i \in 1..Len(s) /\ s[i] = x
      BY <1>3, <2>1, <3>1
    <3>3. In(c, x)
      BY <3>2, <1>3 DEF In, Elements, s
    <3>4. j \in 1..Len(s) /\ s[j] = y
      BY <1>3, <1>5, <1>7, <2>1, <3>1, <3>3
    <3> QED BY <1>3, <1>7, <3>1, <3>2, <3>4 DEF Ahead, s
  <2>3. CASE x \in Elements(reader'[c]) /\ y \in Elements(writer'[c])
    <3>1. In(c, x)
      BY <2>1, <2>3 DEF In
    <3> QED BY <1>4, <1>5, <1>7, <2>1, <2>3, <3>1 DEF Ahead, s
  <2>4. CASE \E i, j \in DOMAIN reader'[c] : i < j /\ reader'[c][i] = x /\ reader'[c][j] = y
    BY <1>7, <2>1, <2>4 DEF Ahead
  <2> QED BY <1>5, <1>7, <2>2, <2>3, <2>4 DEF Ahead
<1> QED BY <1>6, <1>7

LEMMA SwapAhead ==
  ASSUME TypeOK, NEW c \in Cache, reader[c] = <<>>, SwapCache(c)
  PROVE  \A d \in Cache, x, y \in Packet : Ahead(d, x, y)' => Ahead(d, x, y)
<1>1. \A d \in Cache : /\ writer'[d] = IF d = c THEN <<>> ELSE writer[d]
                       /\ reader'[d] = IF d = c THEN writer[c] ELSE reader[d]
  BY DEF SwapCache, TypeOK, ListTypes
<1>2. SUFFICES ASSUME NEW d \in Cache, NEW x \in Packet, NEW y \in Packet, Ahead(d, x, y)'
               PROVE  Ahead(d, x, y)
  OBVIOUS
<1>3. CASE d # c
  BY <1>1, <1>2, <1>3 DEF Ahead
<1>4. CASE d = c
  <2>1. writer'[c] = <<>> /\ reader'[c] = writer[c]
    BY <1>1
  <2>2. DOMAIN writer'[c] = {} /\ Elements(writer'[c]) = {}
    BY <2>1, EmptyElements
  <2> QED BY <1>2, <1>4, <2>1, <2>2 DEF Ahead
<1> QED BY <1>3, <1>4

\* The visited packet was ahead of all others of the list.
LEMMA VisitAhead ==
  ASSUME TypeOK, NEW c \in Cache, reader[c] # <<>>, Visited(c), UNCHANGED writer
  PROVE  /\ \A d \in Cache, x, y \in Packet : Ahead(d, x, y)' => Ahead(d, x, y)
         /\ \A y \in Packet : In(c, y)' => Ahead(c, Head(reader[c]), y)
<1> DEFINE s == reader[c]
<1>1. s \in Seq(Packet) /\ s # <<>>
  BY DEF TypeOK, ListTypes
<1>2. \A d \in Cache : /\ reader'[d] = IF d = c THEN Tail(s) ELSE reader[d]
                       /\ writer'[d] = writer[d]
  BY DEF Visited, TypeOK, ListTypes
<1> HIDE DEF s
<1>3. /\ Head(s) = s[1] /\ Len(Tail(s)) = Len(s) - 1 /\ Tail(s) \in Seq(Packet)
      /\ \A i \in 1..Len(Tail(s)) : Tail(s)[i] = s[i + 1]
  BY <1>1, HeadTailProperties
<1>4. /\ Len(s) \in Nat \ {0} /\ DOMAIN s = 1..Len(s)
      /\ DOMAIN Tail(s) = 1..(Len(s) - 1)
  BY <1>1, <1>3, LenProperties, EmptySeq
<1>5. Elements(s) = Elements(Tail(s)) \cup {Head(s)}
  BY <1>1, TailElements
<1>6. ASSUME NEW d \in Cache, NEW x \in Packet, NEW y \in Packet, Ahead(d, x, y)'
      PROVE  Ahead(d, x, y)
  <2>1. CASE d # c
    BY <1>2, <1>6, <2>1 DEF Ahead
  <2>2. CASE d = c
    <3>1. reader'[c] = Tail(s) /\ writer'[c] = writer[c]
      BY <1>2
    <3>2. CASE \E i, j \in DOMAIN reader'[c] : i < j /\ reader'[c][i] = x /\ reader'[c][j] = y
      <4>1. PICK i \in DOMAIN reader'[c], j \in DOMAIN reader'[c] :
              i < j /\ reader'[c][i] = x /\ reader'[c][j] = y
        BY <3>2
      <4>2. /\ i + 1 \in DOMAIN s /\ j + 1 \in DOMAIN s /\ i + 1 < j + 1
            /\ s[i + 1] = x /\ s[j + 1] = y
        BY <1>3, <1>4, <3>1, <4>1
      <4> QED BY <2>2, <4>2 DEF Ahead, s
    <3>3. CASE x \in Elements(reader'[c]) /\ y \in Elements(writer'[c])
      BY <1>5, <2>2, <3>1, <3>3 DEF Ahead, s
    <3>4. CASE \E i, j \in DOMAIN writer'[c] : i < j /\ writer'[c][i] = x /\ writer'[c][j] = y
      BY <2>2, <3>1, <3>4 DEF Ahead
    <3> QED BY <1>6, <2>2, <3>2, <3>3, <3>4 DEF Ahead
  <2> QED BY <2>1, <2>2
<1>7. ASSUME NEW y \in Packet, In(c, y)' PROVE Ahead(c, Head(s), y)
  <2>1. reader'[c] = Tail(s) /\ writer'[c] = writer[c]
    BY <1>2
  <2>2. CASE y \in Elements(writer[c])
    BY <1>5, <2>2 DEF Ahead, s
  <2>3. CASE y \in Elements(Tail(s))
    <3>1. PICK i \in DOMAIN Tail(s) : Tail(s)[i] = y
      BY <2>3 DEF Elements
    <3>2. 1 \in DOMAIN s /\ i + 1 \in DOMAIN s /\ 1 < i + 1 /\ s[1] = Head(s) /\ s[i + 1] = y
      BY <1>3, <1>4, <3>1
    <3> QED BY <3>2 DEF Ahead, s
  <2> QED BY <1>7, <2>1, <2>2, <2>3 DEF In
<1> QED BY <1>6, <1>7 DEF s

LEMMA SameAhead ==
  ASSUME UNCHANGED lists
  PROVE  \A d \in Cache, x, y \in Packet : Ahead(d, x, y)' => Ahead(d, x, y)
BY DEF lists, Ahead

\* The variables of the order, as a lemma's hypothesis.
LEMMA OrderTypes ==
  ASSUME TypeOK
  PROVE  /\ \A p \in Packet : serial[p] \in Nat
         /\ \A t \in MsgSystem : handled[t] \in Nat
         /\ sent \in Nat
         /\ Listener \subseteq MsgSystem
         /\ Route \subseteq Cache /\ MsgSystem \subseteq Route
         /\ DispatchList \in Route /\ CreateList \notin Route /\ SendList \notin Route
BY NextThreadType, Caches DEF TypeOK, HistoryTypes, Route

LEMMA InitOrder == Init => OrderInv
<1> SUFFICES ASSUME Init PROVE OrderInv
  OBVIOUS
<1>1. \A c \in Cache, p \in Packet : ~In(c, p)
  BY EmptyElements DEF Init, In
<1>2. \A c \in Cache : writer[c] = <<>> /\ reader[c] = <<>>
  BY DEF Init
<1>3. \A c \in Cache, p, q \in Packet : ~Ahead(c, p, q)
  BY <1>2, EmptyElements DEF Ahead
<1>4. SerialInv
  <2>1. \A p \in Packet : ~In(DispatchList, p) /\ ~In(CreateList, p)
    BY <1>1, Caches
  <2>2. \A t \in MsgSystem, p \in Packet : local[t] # p
    BY DispatchAssumption DEF Init
  <2>3. sent = 0 /\ (\A p \in Packet : serial[p] = 0) /\ (\A t \in MsgSystem : handled[t] = 0)
    BY DEF Init
  <2> QED BY <2>1, <2>2, <2>3 DEF SerialInv
<1>5. SortedInv
  BY <1>3, Caches DEF SortedInv, Route
<1>6. NewInv /\ QueueInv
  BY <1>1, Caches DEF NewInv, QueueInv
<1>7. CurInv
  BY DispatchAssumption DEF Init, CurInv
<1>8. CompleteInv
  BY NextThreadType DEF Init, CompleteInv
<1> QED BY <1>4, <1>5, <1>6, <1>7, <1>8 DEF OrderInv

\* Steps that neither add to a list nor number, take or handle a packet.
LEMMA SameOrder ==
  ASSUME IInv, OrderInv, TypeOK', UNCHANGED <<serial, sent, handled, cur, todo>>,
         \A c \in Route, p \in Packet : In(c, p)' <=> In(c, p),
         \A p \in Packet : In(CreateList, p)' => In(CreateList, p),
         \A c \in Route, p, q \in Packet : Ahead(c, p, q)' => Ahead(c, p, q),
         \A t \in MsgSystem, p \in Packet : local'[t] = p => local[t] = p
  PROVE  OrderInv'
<1> USE OrderTypes
<1>0. TypeOK
  BY DEF IInv
<1>1. SerialInv'
  BY <1>0 DEF OrderInv, SerialInv
<1>2. SortedInv'
  BY <1>0 DEF OrderInv, SortedInv
<1>3. NewInv'
  BY <1>0 DEF OrderInv, NewInv
<1>4. CurInv'
  <2>1. \A t \in MsgSystem, n \in Nat : Before(t, n) => Before(t, n)'
    BY <1>0 DEF Before
  <2> QED BY <1>0, <2>1 DEF OrderInv, CurInv, TypeOK, DistTypes
<1>5. QueueInv'
  <2>1. \A t \in MsgSystem, n \in Nat : Before(t, n) => Before(t, n)'
    BY <1>0 DEF Before
  <2> QED BY <1>0, <2>1 DEF OrderInv, QueueInv
<1>6. CompleteInv'
  BY <1>0 DEF OrderInv, CompleteInv, Coming
<1> QED BY <1>1, <1>2, <1>3, <1>4, <1>5, <1>6 DEF OrderInv

\* A new packet loses the number of its former life: no list holds it.
LEMMA MallocOrder ==
  ASSUME IInv, OrderInv, TypeOK', NEW t \in MsgSystem, NEW p \in Packet, MallocPacket(t, p)
  PROVE  OrderInv'
<1> USE OrderTypes
<1>0. TypeOK /\ UNCHANGED lists
  BY DEF IInv, MallocPacket
<1>1. \A c \in Cache, q \in Packet : In(c, q)' <=> In(c, q)
  BY <1>0, SameIn DEF IInv
<1>2. \A c \in Cache, x, y \in Packet : Ahead(c, x, y)' => Ahead(c, x, y)
  BY <1>0, SameAhead
<1>3. ~Reachable(p)
  BY DEF IInv, MallocPacket, NoUseAfterFree, PoolInv
<1>4. /\ \A c \in Cache : ~In(c, p)
      /\ \A u \in MsgSystem : local[u] # p
      /\ cur # p
  BY <1>3 DEF Reachable
<1>5. /\ cur' = cur /\ todo' = todo /\ sent' = sent /\ handled' = handled
      /\ \A q \in Packet : serial'[q] = IF q = p THEN 0 ELSE serial[q]
      /\ \A u \in MsgSystem : local'[u] = IF u = t THEN p ELSE local[u]
  BY <1>0 DEF MallocPacket, dist, TypeOK, HistoryTypes, ThreadTypes
<1>6. \A c \in Cache, x, y \in Packet : Ahead(c, x, y) => In(c, x) /\ In(c, y)
  BY DEF Ahead, In, Elements
<1>7. SerialInv'
  BY <1>0, <1>1, <1>4, <1>5, Caches DEF OrderInv, SerialInv
<1>8. SortedInv'
  BY <1>0, <1>2, <1>4, <1>5, <1>6 DEF OrderInv, SortedInv
<1>9. NewInv'
  BY <1>0, <1>1, <1>4, <1>5, Caches DEF OrderInv, NewInv
<1>10. \A u \in MsgSystem, n \in Nat : Before(u, n) => Before(u, n)'
  BY <1>0, <1>1, <1>4, <1>5, Caches DEF Before
<1>11. CurInv'
  BY <1>0, <1>4, <1>5, <1>10 DEF OrderInv, CurInv, TypeOK, DistTypes
<1>12. QueueInv'
  BY <1>0, <1>1, <1>4, <1>5, <1>10 DEF OrderInv, QueueInv
<1>13. CompleteInv'
  <2>1. \A u \in Listener, q \in Packet : Coming(u, q) => q # p /\ Coming(u, q)'
    BY <1>0, <1>1, <1>4, <1>5 DEF Coming
  <2> QED BY <1>0, <1>5, <2>1 DEF OrderInv, CompleteInv
<1> QED BY <1>7, <1>8, <1>9, <1>11, <1>12, <1>13 DEF OrderInv

\* DispatchPacket: the number is above all others, at the end of the list.
LEMMA DispatchOrder ==
  ASSUME IInv, OrderInv, TypeOK', NEW t \in MsgSystem, DispatchPacket(t)
  PROVE  OrderInv'
<1> USE OrderTypes
<1>0. TypeOK
  BY DEF IInv
<1>1. PICK p \in Packet : p = local[t]
  BY DEF DispatchPacket, HandedOver, IInv, TypeOK, ThreadTypes
<1>2. /\ cur # p /\ \A d \in Stage : ~In(d, p)
      /\ \A u \in MsgSystem : u # t => local[u] # p
  BY <1>1 DEF IInv, OnePlace
<1>3. \A u \in MsgSystem : ~In(u, p)
  BY <1>1, <1>2 DEF IInv, FreshInv, Fresh
<1>4. \A c \in Cache : ~In(c, p)
  BY <1>2, <1>3, CacheSplit
<1>5. EmplaceBack(DispatchList, p) /\ UNCHANGED reader
  BY <1>1 DEF DispatchPacket
<1>6. \A c \in Cache, q \in Packet : In(c, q)' <=> In(c, q) \/ (c = DispatchList /\ q = p)
  BY <1>4, <1>5, EmplaceIn, Caches DEF IInv
<1>7. \A c \in Cache, x, y \in Packet :
        Ahead(c, x, y)' => Ahead(c, x, y) \/ (c = DispatchList /\ y = p /\ In(c, x))
  BY <1>0, <1>5, EmplaceAhead, Caches
<1>8. \A c \in Cache, x, y \in Packet : Ahead(c, x, y) => In(c, x) /\ In(c, y)
  BY DEF Ahead, In, Elements
<1>9. /\ cur' = cur /\ todo' = todo /\ handled' = handled /\ sent' = sent + 1
      /\ \A q \in Packet : serial'[q] = IF q = p THEN sent + 1 ELSE serial[q]
      /\ \A u \in MsgSystem : local'[u] = IF u = t THEN None ELSE local[u]
      /\ None # p
  BY <1>0, <1>1, DispatchAssumption
     DEF DispatchPacket, HandedOver, dist, TypeOK, HistoryTypes, ThreadTypes
<1>10. DispatchList \in Cache /\ CreateList \in Cache /\ CreateList # DispatchList
       /\ MsgSystem \subseteq Cache /\ DispatchList \notin MsgSystem
  BY Caches
<1>11. SerialInv'
  <2>1. \A q \in Packet : serial'[q] <= sent'
    BY <1>0, <1>9 DEF OrderInv, SerialInv
  <2>2. \A u \in MsgSystem : handled'[u] <= sent'
    BY <1>0, <1>9 DEF OrderInv, SerialInv
  <2>3. /\ \A q \in Packet : In(DispatchList, q)' => serial'[q] > 0
        /\ \A q \in Packet : In(CreateList, q)' => serial'[q] = 0
    BY <1>0, <1>4, <1>6, <1>9, <1>10 DEF OrderInv, SerialInv
  <2>4. \A u \in MsgSystem : \A q \in Packet : local'[u] = q => serial'[q] = 0
    BY <1>2, <1>9, DispatchAssumption DEF OrderInv, SerialInv
  <2> QED BY <2>1, <2>2, <2>3, <2>4 DEF SerialInv
<1>12. SortedInv'
  <2> SUFFICES ASSUME NEW c \in Route, NEW x \in Packet, NEW y \in Packet,
                      Ahead(c, x, y)', serial'[y] > 0
               PROVE  serial'[x] < serial'[y]
    BY DEF SortedInv, Route
  <2>1. CASE Ahead(c, x, y)
    BY <2>1, <1>0, <1>4, <1>8, <1>9 DEF OrderInv, SortedInv
  <2>2. CASE y = p /\ In(c, x)
    BY <2>2, <1>0, <1>4, <1>9 DEF OrderInv, SerialInv
  <2> QED BY <2>1, <2>2, <1>0, <1>7
<1>13. NewInv'
  BY <1>0, <1>4, <1>6, <1>9, <1>10 DEF OrderInv, NewInv
<1>14. \A u \in MsgSystem, n \in Nat : Before(u, n) => Before(u, n)'
  BY <1>0, <1>4, <1>6, <1>9, <1>10 DEF Before
<1>15. \A u \in MsgSystem : Before(u, sent + 1)
  BY <1>0 DEF Before, OrderInv, SerialInv
<1>16. CurInv'
  BY <1>0, <1>2, <1>9, <1>14 DEF OrderInv, CurInv, TypeOK, DistTypes
<1>17. QueueInv'
  <2> SUFFICES ASSUME NEW q \in Packet, In(DispatchList, q)'
               PROVE  /\ (\A u \in MsgSystem : Before(u, serial[q]))'
                      /\ (\A x \in Packet : cur = x => serial[x] < serial[q])'
    BY DEF QueueInv
  <2>1. PICK n \in Nat : n = serial'[q]
    BY DEF TypeOK, HistoryTypes
  <2>2. CASE q = p
    <3>1. n = sent + 1
      BY <2>1, <2>2, <1>9
    <3>2. \A u \in MsgSystem : Before(u, n)'
      BY <3>1, <1>14, <1>15
    <3>3. \A x \in Packet : cur' = x => serial'[x] < n
      BY <3>1, <1>0, <1>2, <1>9 DEF OrderInv, SerialInv
    <3> QED BY <2>1, <3>2, <3>3 DEF Before
  <2>3. CASE q # p
    <3>1. n = serial[q] /\ In(DispatchList, q)
      BY <2>1, <2>3, <1>6, <1>9, <1>10
    <3>2. \A u \in MsgSystem : Before(u, n)'
      BY <3>1, <1>14 DEF OrderInv, QueueInv
    <3>3. \A x \in Packet : cur' = x => serial'[x] < n
      BY <3>1, <1>2, <1>9 DEF OrderInv, QueueInv
    <3> QED BY <2>1, <3>2, <3>3 DEF Before
  <2> QED BY <2>2, <2>3
<1>18. CompleteInv'
  <2>1. \A u \in Listener, q \in Packet : Coming(u, q) => q # p /\ Coming(u, q)'
    BY <1>0, <1>2, <1>4, <1>6, <1>9, <1>10 DEF Coming
  <2>2. \A u \in Listener : Coming(u, p)'
    BY <1>6, <1>10 DEF Coming
  <2> SUFFICES ASSUME NEW u \in Listener, NEW n \in Nat, handled[u] < n, n <= sent + 1
               PROVE  \E q \in Packet : serial'[q] = n /\ Coming(u, q)'
    BY <1>9 DEF CompleteInv
  <2>3. CASE n = sent + 1
    BY <2>2, <2>3, <1>9
  <2>4. CASE n # sent + 1
    <3>1. n <= sent
      BY <2>4, <1>0
    <3>2. PICK q \in Packet : serial[q] = n /\ Coming(u, q)
      BY <3>1 DEF OrderInv, CompleteInv
    <3> QED BY <3>2, <2>1, <1>9
  <2> QED BY <2>3, <2>4
<1> QED BY <1>11, <1>12, <1>13, <1>16, <1>17, <1>18 DEF OrderInv

\* A packet without a number enters a list: Close and CreateComponentWithSn.
LEMMA UnnumberedOrder ==
  ASSUME IInv, OrderInv, TypeOK', NEW t \in MsgSystem, HandedOver(t),
         NEW c \in Cache, c # DispatchList, EmplaceBack(c, local[t]),
         UNCHANGED <<reader, serial, sent, handled, cur, todo>>
  PROVE  OrderInv'
<1> USE OrderTypes
<1>0. TypeOK
  BY DEF IInv
<1>1. PICK p \in Packet : p = local[t]
  BY DEF HandedOver, IInv, TypeOK, ThreadTypes
<1>2. cur # p /\ (\A d \in Stage : ~In(d, p)) /\ serial[p] = 0
  BY <1>1 DEF IInv, OnePlace, OrderInv, SerialInv
<1>3. \A u \in MsgSystem : ~In(u, p)
  BY <1>1, <1>2 DEF IInv, FreshInv, Fresh
<1>4. \A d \in Cache : ~In(d, p)
  BY <1>2, <1>3, CacheSplit
<1>5. \A d \in Cache, q \in Packet : In(d, q)' <=> In(d, q) \/ (d = c /\ q = p)
  BY <1>1, <1>4, EmplaceIn DEF IInv
<1>6. \A d \in Cache, x, y \in Packet : Ahead(d, x, y)' => Ahead(d, x, y) \/ y = p
  BY <1>0, <1>1, EmplaceAhead
<1>7. \A u \in MsgSystem, q \in Packet : local'[u] = q => local[u] = q
  BY <1>1, DispatchAssumption DEF HandedOver, IInv, TypeOK, ThreadTypes
<1>8. DispatchList \in Cache /\ CreateList \in Cache /\ MsgSystem \subseteq Cache
  BY Caches
<1>9. SerialInv'
  BY <1>0, <1>2, <1>5, <1>7, <1>8 DEF OrderInv, SerialInv
<1>10. SortedInv'
  BY <1>0, <1>2, <1>6 DEF OrderInv, SortedInv
<1>11. NewInv'
  BY <1>0, <1>2, <1>5, <1>8 DEF OrderInv, NewInv
<1>12. \A u \in MsgSystem, n \in Nat : Before(u, n) => Before(u, n)'
  BY <1>0, <1>2, <1>5, <1>8 DEF Before
<1>13. CurInv'
  BY <1>0, <1>12 DEF OrderInv, CurInv, TypeOK, DistTypes
<1>14. QueueInv'
  BY <1>0, <1>5, <1>8, <1>12 DEF OrderInv, QueueInv
<1>15. CompleteInv'
  <2>1. \A u \in Listener, q \in Packet : Coming(u, q) => Coming(u, q)'
    BY <1>0, <1>5, <1>8 DEF Coming
  <2> QED BY <1>0, <2>1 DEF OrderInv, CompleteInv
<1> QED BY <1>9, <1>10, <1>11, <1>13, <1>14, <1>15 DEF OrderInv

\* Handling the first packet of a list: no packet of a lower number comes
\* after it, and none is left out.
LEMMA RemoveRefOrder ==
  ASSUME IInv, OrderInv, TypeOK', NEW t \in MsgSystem, RemoveRef(t)
  PROVE  /\ OrderInv'
         /\ serial[Head(reader[t])] > 0 =>
              /\ handled[t] < serial[Head(reader[t])]
              /\ serial[Head(reader[t])] <= sent
              /\ t \in Listener => serial[Head(reader[t])] = handled[t] + 1
<1> USE OrderTypes
<1>0. TypeOK /\ t \in Cache /\ MsgSystem \subseteq Cache
  BY Caches DEF IInv
<1>1. PICK p : p = Head(reader[t])
  OBVIOUS
<1>2. /\ p \in Packet /\ In(t, p)
      /\ \A d \in Cache, q \in Packet : In(d, q)' <=> In(d, q) /\ ~(d = t /\ q = p)
  BY <1>0, <1>1, VisitIn DEF IInv, RemoveRef
<1>3. /\ \A d \in Cache, x, y \in Packet : Ahead(d, x, y)' => Ahead(d, x, y)
      /\ \A y \in Packet : In(t, y)' => Ahead(t, p, y)
  BY <1>0, <1>1, VisitAhead DEF RemoveRef
<1>4. \A y \in Packet : In(t, y) /\ serial[y] > 0 /\ y # p => serial[p] < serial[y]
  BY <1>0, <1>2, <1>3 DEF OrderInv, SortedInv
<1>5. serial[p] > 0 => handled[t] < serial[p] /\ serial[p] <= sent
  BY <1>2 DEF OrderInv, NewInv, SerialInv
<1>6. ASSUME t \in Listener, serial[p] > 0 PROVE serial[p] = handled[t] + 1
  <2>1. PICK n \in Nat : n = handled[t] + 1
    BY <1>0
  <2>2. handled[t] < n /\ n <= sent /\ n <= serial[p] /\ n > 0
    BY <2>1, <1>0, <1>2, <1>5, <1>6
  <2>3. PICK q \in Packet : serial[q] = n /\ Coming(t, q)
    BY <2>2, <1>6 DEF OrderInv, CompleteInv
  <2>4. CASE In(t, q)
    BY <2>1, <2>2, <2>3, <2>4, <1>0, <1>2, <1>4
  <2>5. CASE cur = q /\ t \in todo
    <3>1. serial[p] < serial[q]
      BY <2>2, <2>3, <2>5, <1>2 DEF OrderInv, CurInv, Before
    <3> QED BY <3>1, <2>2, <2>3, <1>0, <1>2
  <2>6. CASE In(DispatchList, q)
    <3>1. serial[p] < serial[q]
      BY <2>6, <1>2 DEF OrderInv, QueueInv, Before
    <3> QED BY <3>1, <2>2, <2>3, <1>0, <1>2
  <2> QED BY <2>3, <2>4, <2>5, <2>6 DEF Coming
<1>7. /\ UNCHANGED <<serial, sent, cur, todo, local>>
      /\ \A u \in MsgSystem : handled'[u] =
           IF u = t /\ serial[p] # 0 THEN serial[p] ELSE handled[u]
  BY <1>0, <1>1 DEF RemoveRef, dist, TypeOK, HistoryTypes
<1>8. DispatchList \in Cache /\ CreateList \in Cache
      /\ DispatchList \notin MsgSystem /\ CreateList \notin MsgSystem
  BY Caches
<1>9. SerialInv'
  BY <1>0, <1>2, <1>5, <1>7, <1>8 DEF OrderInv, SerialInv
<1>10. SortedInv'
  BY <1>0, <1>3, <1>7 DEF OrderInv, SortedInv
<1>11. NewInv'
  <2> SUFFICES ASSUME NEW u \in MsgSystem, NEW y \in Packet, In(u, y)', serial[y] > 0
               PROVE  handled'[u] < serial[y]
    BY <1>7 DEF NewInv
  <2>1. In(u, y) /\ handled[u] < serial[y]
    BY <1>0, <1>2 DEF OrderInv, NewInv
  <2>2. u = t => serial[p] < serial[y]
    BY <2>1, <1>0, <1>2, <1>4
  <2> QED BY <2>1, <2>2, <1>7
<1>12. \A u \in MsgSystem, n \in Nat : n > 0 /\ Before(u, n) => Before(u, n)'
  BY <1>0, <1>2, <1>7 DEF Before
<1>13. CurInv'
  BY <1>0, <1>7, <1>12 DEF OrderInv, CurInv, TypeOK, DistTypes
<1>14. QueueInv'
  BY <1>0, <1>2, <1>7, <1>8, <1>12 DEF OrderInv, QueueInv, SerialInv
<1>15. CompleteInv'
  <2> SUFFICES ASSUME NEW u \in Listener, NEW n \in Nat, handled'[u] < n, n <= sent
               PROVE  \E q \in Packet : serial[q] = n /\ Coming(u, q)'
    BY <1>7 DEF CompleteInv
  <2>1. u \in MsgSystem /\ handled[u] < n
    BY <1>0, <1>2, <1>5, <1>7
  <2>2. PICK q \in Packet : serial[q] = n /\ Coming(u, q)
    BY <2>1 DEF OrderInv, CompleteInv
  <2>3. ~(u = t /\ q = p)
    BY <2>1, <2>2, <1>0, <1>2, <1>7
  <2> QED BY <2>1, <2>2, <2>3, <1>0, <1>2, <1>7, <1>8 DEF Coming
<1> QED BY <1>1, <1>5, <1>6, <1>9, <1>10, <1>11, <1>13, <1>14, <1>15 DEF OrderInv

\* The main thread takes the first packet of a list: it comes before the
\* other packets of the DispatchList, and after those of the threads.
LEMMA TakeOrder ==
  ASSUME IInv, OrderInv, TypeOK', NEW c \in {DispatchList, CreateList}, Distribute(c),
         c = DispatchList => Listener \subseteq todo'
  PROVE  OrderInv'
<1> USE OrderTypes
<1>0. /\ TypeOK /\ c \in Cache /\ DispatchList \in Cache /\ CreateList \in Cache
      /\ MsgSystem \subseteq Cache /\ c \notin MsgSystem /\ DispatchList # CreateList
      /\ DispatchList \notin MsgSystem /\ CreateList \notin MsgSystem
  BY Caches DEF IInv
<1>1. PICK p : p = Head(reader[c])
  OBVIOUS
<1>2. /\ p \in Packet /\ In(c, p)
      /\ \A d \in Cache, q \in Packet : In(d, q)' <=> In(d, q) /\ ~(d = c /\ q = p)
  BY <1>0, <1>1, VisitIn DEF IInv, Distribute
<1>3. /\ \A d \in Cache, x, y \in Packet : Ahead(d, x, y)' => Ahead(d, x, y)
      /\ \A y \in Packet : In(c, y)' => Ahead(c, p, y)
  BY <1>0, <1>1, VisitAhead DEF Distribute
<1>4. /\ cur = None /\ cur' = p /\ todo' \subseteq MsgSystem
      /\ UNCHANGED <<serial, sent, handled, local>>
  BY <1>1 DEF Distribute, history, TypeOK, DistTypes
<1>5. \A u \in MsgSystem, n \in Nat : Before(u, n) => Before(u, n)'
  BY <1>0, <1>2, <1>4 DEF Before
<1>6. SerialInv'
  BY <1>0, <1>2, <1>4 DEF OrderInv, SerialInv
<1>7. SortedInv'
  BY <1>0, <1>3, <1>4 DEF OrderInv, SortedInv
<1>8. NewInv'
  BY <1>0, <1>2, <1>4 DEF OrderInv, NewInv
<1>9. c = CreateList => serial[p] = 0
  BY <1>2 DEF OrderInv, SerialInv
<1>10. c = DispatchList => \A u \in MsgSystem : Before(u, serial[p])
  BY <1>2 DEF OrderInv, QueueInv
<1>11. CurInv'
  <2> SUFFICES ASSUME serial[p] > 0, NEW u \in todo' PROVE Before(u, serial[p])'
    BY <1>2, <1>4 DEF CurInv
  <2>1. PICK n \in Nat : n = serial[p]
    BY <1>0, <1>2
  <2>2. c = DispatchList /\ u \in MsgSystem
    BY <1>0, <1>4, <1>9
  <2>3. Before(u, n)'
    BY <2>1, <2>2, <1>5, <1>10
  <2> QED BY <2>1, <2>3, <1>4 DEF Before
<1>12. QueueInv'
  <2> SUFFICES ASSUME NEW q \in Packet, In(DispatchList, q)'
               PROVE  /\ (\A u \in MsgSystem : Before(u, serial[q]))'
                      /\ serial[p] < serial[q]
    BY <1>2, <1>4 DEF QueueInv
  <2>1. In(DispatchList, q) /\ serial[q] > 0
    BY <1>0, <1>2 DEF OrderInv, SerialInv
  <2>2. PICK n \in Nat : n = serial[q]
    BY <1>0
  <2>3. \A u \in MsgSystem : Before(u, n)'
    BY <2>1, <2>2, <1>5 DEF OrderInv, QueueInv
  <2>4. c = DispatchList => serial[p] < serial[q]
    BY <2>1, <1>0, <1>2, <1>3 DEF OrderInv, SortedInv
  <2> QED BY <2>1, <2>2, <2>3, <2>4, <1>4, <1>9 DEF Before
<1>13. CompleteInv'
  <2>1. \A u \in Listener, q \in Packet : serial[q] > 0 /\ Coming(u, q) => Coming(u, q)'
    <3> SUFFICES ASSUME NEW u \in Listener, NEW q \in Packet, serial[q] > 0, Coming(u, q)
                 PROVE  Coming(u, q)'
      OBVIOUS
    <3>1. In(u, q) => In(u, q)'
      BY <1>0, <1>2
    <3>2. cur # q
      BY <1>4, DispatchAssumption
    <3>3. In(DispatchList, q) => In(DispatchList, q)' \/ (q = p /\ c = DispatchList)
      BY <1>0, <1>2
    <3> QED BY <3>1, <3>2, <3>3, <1>4 DEF Coming
  <2> SUFFICES ASSUME NEW u \in Listener, NEW n \in Nat, handled[u] < n, n <= sent
               PROVE  \E q \in Packet : serial[q] = n /\ Coming(u, q)'
    BY <1>4 DEF CompleteInv
  <2>2. PICK q \in Packet : serial[q] = n /\ Coming(u, q)
    BY DEF OrderInv, CompleteInv
  <2>3. n > 0
    BY <1>0
  <2> QED BY <2>1, <2>2, <2>3
<1> QED BY <1>6, <1>7, <1>8, <1>11, <1>12, <1>13 DEF OrderInv

LEMMA AddOrder ==
  ASSUME IInv, OrderInv, TypeOK', AddToNextList
  PROVE  OrderInv'
<1> USE OrderTypes
<1>0. /\ TypeOK /\ DispatchList \in Cache /\ CreateList \in Cache
      /\ MsgSystem \subseteq Cache
      /\ DispatchList \notin MsgSystem /\ CreateList \notin MsgSystem
  BY Caches DEF IInv
<1>1. PICK p \in Packet : p = cur
  BY DEF AddToNextList, IInv, TypeOK, DistTypes
<1>2. PICK t \in todo : EmplaceBack(t, p) /\ todo' = todo \ {t}
  BY <1>1 DEF AddToNextList, AddPacketToList
<1>3. t \in MsgSystem /\ t \in Cache /\ todo \subseteq MsgSystem
  BY Caches DEF IInv, TypeOK, DistTypes
<1>4. ~In(t, p)
  BY <1>1, <1>3 DEF IInv, FreshInv, Fresh
<1>5. UNCHANGED <<reader, serial, sent, handled, cur, local>>
  BY DEF AddToNextList, history
<1>6. \A d \in Cache, q \in Packet : In(d, q)' <=> In(d, q) \/ (d = t /\ q = p)
  BY <1>2, <1>3, <1>4, <1>5, EmplaceIn DEF IInv
<1>7. \A d \in Cache, x, y \in Packet :
        Ahead(d, x, y)' => Ahead(d, x, y) \/ (d = t /\ y = p /\ In(t, x))
  BY <1>0, <1>2, <1>3, <1>5, EmplaceAhead
<1>8. serial[p] > 0 => Before(t, serial[p])
  BY <1>1 DEF OrderInv, CurInv
<1>9. SerialInv'
  BY <1>0, <1>3, <1>5, <1>6 DEF OrderInv, SerialInv
<1>10. SortedInv'
  <2> SUFFICES ASSUME NEW c \in Route, NEW x \in Packet, NEW y \in Packet,
                      Ahead(c, x, y)', serial[y] > 0
               PROVE  serial[x] < serial[y]
    BY <1>5 DEF SortedInv, Route
  <2>1. CASE Ahead(c, x, y)
    BY <2>1 DEF OrderInv, SortedInv
  <2>2. CASE y = p /\ In(t, x)
    BY <2>2, <1>8 DEF Before
  <2> QED BY <2>1, <2>2, <1>0, <1>7
<1>11. NewInv'
  <2> SUFFICES ASSUME NEW u \in MsgSystem, NEW y \in Packet, In(u, y)', serial[y] > 0
               PROVE  handled[u] < serial[y]
    BY <1>5 DEF NewInv
  <2>1. CASE In(u, y)
    BY <2>1 DEF OrderInv, NewInv
  <2>2. CASE u = t /\ y = p
    BY <2>2, <1>8 DEF Before
  <2> QED BY <2>1, <2>2, <1>0, <1>6
<1>12. \A u \in MsgSystem, n \in Nat :
         Before(u, n) /\ (u = t => serial[p] < n) => Before(u, n)'
  BY <1>0, <1>5, <1>6 DEF Before
<1>13. CurInv'
  <2> SUFFICES ASSUME serial[p] > 0, NEW u \in todo' PROVE Before(u, serial[p])'
    BY <1>1, <1>5 DEF CurInv
  <2>1. PICK n \in Nat : n = serial[p]
    BY <1>0
  <2>2. u \in MsgSystem /\ u # t /\ Before(u, n)
    BY <2>1, <1>1, <1>2, <1>3 DEF OrderInv, CurInv
  <2>3. Before(u, n)'
    BY <2>2, <1>12
  <2> QED BY <2>1, <2>3, <1>5 DEF Before
<1>14. QueueInv'
  <2> SUFFICES ASSUME NEW q \in Packet, In(DispatchList, q)'
               PROVE  /\ (\A u \in MsgSystem : Before(u, serial[q]))'
                      /\ serial[p] < serial[q]
    BY <1>1, <1>5 DEF QueueInv
  <2>1. In(DispatchList, q)
    BY <1>0, <1>3, <1>6
  <2>2. PICK n \in Nat : n = serial[q]
    BY <1>0
  <2>3. serial[p] < n /\ \A u \in MsgSystem : Before(u, n)
    BY <2>1, <2>2, <1>1 DEF OrderInv, QueueInv
  <2>4. \A u \in MsgSystem : Before(u, n)'
    BY <2>3, <1>12
  <2> QED BY <2>2, <2>3, <2>4, <1>5 DEF Before
<1>15. CompleteInv'
  <2>1. \A u \in Listener, q \in Packet : Coming(u, q) => Coming(u, q)'
    BY <1>0, <1>1, <1>2, <1>5, <1>6 DEF Coming
  <2> QED BY <1>0, <1>5, <2>1 DEF OrderInv, CompleteInv
<1> QED BY <1>9, <1>10, <1>11, <1>13, <1>14, <1>15 DEF OrderInv

LEMMA OpenOrder ==
  ASSUME IInv, OrderInv, TypeOK', OpenRef
  PROVE  OrderInv'
<1> USE OrderTypes
<1>0. TypeOK /\ UNCHANGED <<lists, serial, sent, handled, local>>
  BY DEF IInv, OpenRef, history
<1>1. \A c \in Cache, q \in Packet : In(c, q)' <=> In(c, q)
  BY <1>0, SameIn DEF IInv
<1>2. \A c \in Cache, x, y \in Packet : Ahead(c, x, y)' => Ahead(c, x, y)
  BY <1>0, SameAhead
<1>3. todo = {} /\ cur' = None /\ None \notin Packet
  BY DispatchAssumption DEF OpenRef
<1>4. DispatchList \in Cache /\ CreateList \in Cache /\ MsgSystem \subseteq Cache
  BY Caches
<1>5. SerialInv' /\ NewInv'
  BY <1>0, <1>1, <1>4 DEF OrderInv, SerialInv, NewInv
<1>6. SortedInv'
  BY <1>0, <1>2 DEF OrderInv, SortedInv
<1>7. CurInv'
  BY <1>3 DEF CurInv
<1>8. QueueInv'
  BY <1>0, <1>1, <1>3, <1>4 DEF OrderInv, QueueInv, Before
<1>9. CompleteInv'
  BY <1>0, <1>1, <1>3, <1>4 DEF OrderInv, CompleteInv, Coming
<1> QED BY <1>5, <1>6, <1>7, <1>8, <1>9 DEF OrderInv

\* Steps that leave all lists alone.
LEMMA QuietOrder ==
  ASSUME IInv, OrderInv, TypeOK', UNCHANGED <<lists, serial, sent, handled, cur, todo>>,
         \A t \in MsgSystem, p \in Packet : local'[t] = p => local[t] = p
  PROVE  OrderInv'
<1>1. \A c \in Cache, p \in Packet : In(c, p)' <=> In(c, p)
  BY SameIn DEF IInv
<1>2. \A c \in Cache, p, q \in Packet : Ahead(c, p, q)' => Ahead(c, p, q)
  BY SameAhead
<1> QED BY <1>1, <1>2, SameOrder, OrderTypes, Caches DEF IInv

\* The four swaps.
LEMMA SwapOrder ==
  ASSUME IInv, OrderInv, TypeOK', NEW c \in Cache, reader[c] = <<>>, SwapCache(c),
         UNCHANGED <<serial, sent, handled, cur, todo, local>>
  PROVE  OrderInv'
<1>1. \A d \in Cache, p \in Packet : In(d, p)' <=> In(d, p)
  BY SwapIn DEF IInv
<1>2. \A d \in Cache, p, q \in Packet : Ahead(d, p, q)' => Ahead(d, p, q)
  BY SwapAhead DEF IInv
<1> QED BY <1>1, <1>2, SameOrder, OrderTypes, Caches DEF IInv

\* FreeSent and UnknownThreadType: a packet without a number leaves.
LEMMA LeaveOrder ==
  ASSUME IInv, OrderInv, TypeOK', NEW c \in {CreateList, SendList}, reader[c] # <<>>,
         Visited(c), UNCHANGED <<writer, serial, sent, handled, cur, todo, local>>
  PROVE  OrderInv'
<1>1. c \in Cache /\ c \notin Route /\ CreateList \in Cache
  BY Caches, OrderTypes DEF IInv
<1>2. \A d \in Cache, p \in Packet : In(d, p)' <=> In(d, p) /\ ~(d = c /\ p = Head(reader[c]))
  BY <1>1, VisitIn DEF IInv
<1>3. \A d \in Cache, p, q \in Packet : Ahead(d, p, q)' => Ahead(d, p, q)
  BY <1>1, VisitAhead DEF IInv
<1>4. Route \subseteq Cache
  BY OrderTypes DEF IInv
<1> QED BY <1>1, <1>2, <1>3, <1>4, SameOrder

LEMMA ProduceOrder ==
  ASSUME IInv, OrderInv, TypeOK', NEW t \in MsgSystem, Produce(t)
  PROVE  OrderInv'
<1>1. CASE \E p \in Packet : MallocPacket(t, p)
  BY <1>1, MallocOrder
<1>2. CASE DispatchPacket(t)
  BY <1>2, DispatchOrder
<1>3. CASE CreateComponentWithSn(t)
  BY <1>3, UnnumberedOrder, Caches DEF CreateComponentWithSn, dist, history
<1>4. CASE SendPacket(t)
  BY <1>4, UnnumberedOrder, Caches DEF SendPacket, dist, history
<1>5. CASE Close(t)
  <2>1. t \in Cache /\ t # DispatchList
    BY Caches
  <2> QED BY <1>5, <2>1, UnnumberedOrder DEF Close, AddPacketToList, dist, history
<1>6. CASE FreeUnused(t) \/ Forget(t)
  <2>1. \A u \in MsgSystem, p \in Packet : local'[u] = p => local[u] = p
    BY <1>6, DispatchAssumption DEF FreeUnused, Forget, HandedOver, IInv, TypeOK, ThreadTypes
  <2> QED BY <1>6, <2>1, QuietOrder DEF FreeUnused, Forget, dist, history
<1> QED BY <1>1, <1>2, <1>3, <1>4, <1>5, <1>6 DEF Produce

LEMMA FrameOrder ==
  ASSUME IInv, OrderInv, TypeOK', NEW t \in MsgSystem, Frame(t)
  PROVE  OrderInv'
<1>1. CASE UpdateMessages(t)
  <2>1. t \in Cache /\ reader[t] = <<>>
    BY <1>1, Caches DEF UpdateMessages, IInv, LoopInv
  <2> QED BY <1>1, <2>1, SwapOrder DEF UpdateMessages, dist, history
<1>2. CASE RemoveRef(t)
  BY <1>2, RemoveRefOrder
<1>3. CASE MessagesDone(t) \/ SystemsDone(t)
  BY <1>3, QuietOrder DEF MessagesDone, SystemsDone, dist, history
<1> QED BY <1>1, <1>2, <1>3 DEF Frame

LEMMA NetworkStepOrder ==
  ASSUME IInv, OrderInv, TypeOK', NetworkStep
  PROVE  OrderInv'
<1>1. CASE OnNetworkUpdate
  <2>1. SendList \in Cache /\ reader[SendList] = <<>>
    BY <1>1, Caches DEF OnNetworkUpdate, IInv, LoopInv
  <2> QED BY <1>1, <2>1, SwapOrder DEF OnNetworkUpdate, dist, history
<1>2. CASE FreeSent
  BY <1>2, LeaveOrder DEF FreeSent, dist, history
<1>3. CASE NetworkDone
  BY <1>3, QuietOrder DEF NetworkDone, dist, history
<1> QED BY <1>1, <1>2, <1>3 DEF NetworkStep

LEMMA ThreadMgrOrder ==
  ASSUME IInv, OrderInv, TypeOK', ThreadMgrUpdate
  PROVE  OrderInv'
<1>1. CASE UpdateCreatePacket
  <2>1. CreateList \in Cache /\ reader[CreateList] = <<>>
    BY <1>1, Caches DEF UpdateCreatePacket, IInv, LoopInv
  <2> QED BY <1>1, <2>1, SwapOrder DEF UpdateCreatePacket, dist, history
<1>2. CASE UpdateDispatchPacket
  <2>1. DispatchList \in Cache /\ reader[DispatchList] = <<>>
    BY <1>2, Caches DEF UpdateDispatchPacket, IInv, LoopInv
  <2> QED BY <1>2, <2>1, SwapOrder DEF UpdateDispatchPacket, dist, history
<1>3. CASE HandlerCreateMessage
  BY <1>3, TakeOrder, Caches DEF HandlerCreateMessage
<1>4. CASE HandlerMessage
  BY <1>4, TakeOrder, OrderTypes DEF HandlerMessage, IInv
<1>5. CASE UnknownThreadType
  BY <1>5, LeaveOrder DEF UnknownThreadType, dist, history
<1>6. CASE CreateDone \/ DispatchDone
  BY <1>6, QuietOrder DEF CreateDone, DispatchDone, LoopDone, dist, history
<1>7. CASE AddToNextList
  BY <1>7, AddOrder
<1>8. CASE OpenRef
  BY <1>8, OpenOrder
<1> QED BY <1>1, <1>2, <1>3, <1>4, <1>5, <1>6, <1>7, <1>8 DEF ThreadMgrUpdate

LEMMA PoolUpdateOrder ==
  ASSUME IInv, OrderInv, TypeOK', PoolUpdate
  PROVE  OrderInv'
<1>1. UNCHANGED <<lists, serial, sent, handled, cur, todo, local>>
  BY DEF PoolUpdate, PoolSwap, ScanPacket, ScanDone, dist, history
<1> QED BY <1>1, QuietOrder

LEMMA OrderStep == IInv /\ OrderInv /\ [Next]_vars => OrderInv'
<1> SUFFICES ASSUME IInv, OrderInv, [Next]_vars PROVE OrderInv'
  OBVIOUS
<1>1. TypeOK'
  BY InductiveStep DEF IInv
<1>2. CASE UNCHANGED vars
  BY <1>1, <1>2, QuietOrder DEF vars, dist, history
<1>3. CASE Next
  BY <1>1, <1>3, ProduceOrder, FrameOrder, NetworkStepOrder, ThreadMgrOrder, PoolUpdateOrder
     DEF Next
<1> QED BY <1>2, <1>3

LEMMA OrderInductive == Spec => [](IInv /\ OrderInv)
<1>1. Init => OrderInv
  BY InitOrder
<1> QED BY <1>1, Inductive, OrderStep, PTL DEF Spec

\* Only DispatchPacket and RemoveRef change what has been sent and handled.
LEMMA OtherSteps ==
  ASSUME [Next]_vars,
         \A t \in MsgSystem : ~DispatchPacket(t) /\ ~RemoveRef(t)
  PROVE  UNCHANGED <<sent, handled>>
<1>1. ASSUME NEW t \in MsgSystem, Produce(t) PROVE UNCHANGED <<sent, handled>>
  BY <1>1 DEF Produce, MallocPacket, CreateComponentWithSn, SendPacket, Close, FreeUnused,
              Forget, history
<1>2. ASSUME NEW t \in MsgSystem, Frame(t) PROVE UNCHANGED <<sent, handled>>
  BY <1>2 DEF Frame, UpdateMessages, MessagesDone, SystemsDone, history
<1>3. CASE NetworkStep
  BY <1>3 DEF NetworkStep, OnNetworkUpdate, FreeSent, NetworkDone, history
<1>4. CASE ThreadMgrUpdate
  BY <1>4 DEF ThreadMgrUpdate, UpdateCreatePacket, HandlerCreateMessage, UnknownThreadType,
              CreateDone, UpdateDispatchPacket, HandlerMessage, DispatchDone, LoopDone,
              Distribute, AddToNextList, OpenRef, history
<1>5. CASE PoolUpdate
  BY <1>5 DEF PoolUpdate, PoolSwap, ScanPacket, ScanDone, history
<1>6. CASE UNCHANGED vars
  BY <1>6 DEF vars, history
<1> QED BY <1>1, <1>2, <1>3, <1>4, <1>5, <1>6 DEF Next

\* What RemoveRef does to the history.
LEMMA HandledStep ==
  ASSUME TypeOK, NEW t \in MsgSystem, RemoveRef(t)
  PROVE  /\ sent' = sent
         /\ handled' = IF serial[Head(reader[t])] = 0 THEN handled
                       ELSE [handled EXCEPT ![t] = serial[Head(reader[t])]]
         /\ reader[t] # <<>> => serial[Head(reader[t])] \in Nat
<1>1. reader[t] # <<>> => Head(reader[t]) \in Packet
  BY Caches, ListStepTypes DEF TypeOK
<1> QED BY <1>1 DEF RemoveRef, TypeOK, HistoryTypes

LEMMA StepInOrder ==
  ASSUME IInv, OrderInv, [Next]_vars, NEW u \in MsgSystem, handled'[u] # handled[u]
  PROVE  handled'[u] > handled[u]
<1>1. CASE \A t \in MsgSystem : ~DispatchPacket(t) /\ ~RemoveRef(t)
  BY <1>1, OtherSteps
<1>2. ASSUME NEW t \in MsgSystem, DispatchPacket(t) PROVE handled'[u] > handled[u]
  BY <1>2 DEF DispatchPacket
<1>3. ASSUME NEW t \in MsgSystem, RemoveRef(t) PROVE handled'[u] > handled[u]
  <2>1. TypeOK /\ TypeOK'
    BY InductiveStep DEF IInv
  <2>2. PICK n : n = serial[Head(reader[t])]
    OBVIOUS
  <2>3. /\ handled' = IF n = 0 THEN handled ELSE [handled EXCEPT ![t] = n]
        /\ n \in Nat
    BY <1>3, <2>1, <2>2, HandledStep DEF RemoveRef
  <2>4. n > 0 => handled[t] < n
    BY <1>3, <2>1, <2>2, RemoveRefOrder
  <2>5. handled \in [MsgSystem -> Nat]
    BY <2>1 DEF TypeOK, HistoryTypes
  <2> QED BY <2>3, <2>4, <2>5
<1> QED BY <1>1, <1>2, <1>3

\* Every message system, the MySQL threads' included, handles the packets it
\* gets in the order of the calls of DispatchPacket and none twice, for every
\* number of threads and packets: the lists of ThreadMgr and of the threads
\* never overtake one another.
THEOREM PacketsInOrder == Spec => HandledInOrder
<1>1. IInv /\ OrderInv /\ [Next]_vars =>
        [\A t \in MsgSystem : handled'[t] # handled[t] => handled'[t] > handled[t]]_vars
  BY StepInOrder
<1> QED BY <1>1, OrderInductive, PTL DEF Spec, HandledInOrder

-----------------------------------------------------------------------------
(* The refinement of PacketBroadcast.                                      *)

LEMMA InitBroadcast == Init => Broadcast!Init
BY NextThreadType DEF Init, Broadcast!Init

LEMMA StepBroadcast ==
  ASSUME IInv, OrderInv, [Next]_vars
  PROVE  [Broadcast!Next]_(Broadcast!vars)
<1>0. TypeOK /\ TypeOK' /\ Listener \subseteq MsgSystem
  BY InductiveStep, NextThreadType DEF IInv
<1>1. CASE \A t \in MsgSystem : ~DispatchPacket(t) /\ ~RemoveRef(t)
  BY <1>1, OtherSteps DEF Broadcast!vars
<1>2. ASSUME NEW t \in MsgSystem, DispatchPacket(t) PROVE Broadcast!Publish
  BY <1>2 DEF DispatchPacket, Broadcast!Publish
<1>3. ASSUME NEW t \in MsgSystem, RemoveRef(t)
      PROVE  \/ \E u \in Listener : Broadcast!Handle(u)
             \/ UNCHANGED Broadcast!vars
  <2>2. PICK n : n = serial[Head(reader[t])]
    OBVIOUS
  <2>3. /\ sent' = sent
        /\ handled' = IF n = 0 THEN handled ELSE [handled EXCEPT ![t] = n]
        /\ n \in Nat
    BY <1>0, <1>3, <2>2, HandledStep DEF RemoveRef
  <2>4. n > 0 => /\ handled[t] < n /\ n <= sent
                 /\ t \in Listener => n = handled[t] + 1
    BY <1>0, <1>3, <2>2, RemoveRefOrder
  <2>5. handled \in [MsgSystem -> Nat] /\ sent \in Nat
    BY <1>0 DEF TypeOK, HistoryTypes
  <2>6. CASE n > 0 /\ t \in Listener
    <3>1. handled[t] < sent /\ handled' = [handled EXCEPT ![t] = handled[t] + 1]
      BY <2>3, <2>4, <2>5, <2>6
    <3>2. [u \in Listener |-> handled'[u]] =
            [[u \in Listener |-> handled[u]] EXCEPT ![t] = handled[t] + 1]
      BY <1>0, <2>5, <2>6, <3>1
    <3>3. Broadcast!Handle(t)
      BY <2>3, <2>6, <3>1, <3>2 DEF Broadcast!Handle
    <3> QED BY <2>6, <3>3
  <2>7. CASE n = 0 \/ t \notin Listener
    <3>1. \A u \in Listener : handled'[u] = handled[u]
      BY <1>0, <2>3, <2>5, <2>7
    <3>2. [u \in Listener |-> handled'[u]] = [u \in Listener |-> handled[u]]
      BY <3>1
    <3> QED BY <2>3, <3>2 DEF Broadcast!vars
  <2> QED BY <2>3, <2>6, <2>7
<1> QED BY <1>1, <1>2, <1>3 DEF Broadcast!Next

\* ThreadMgr and the message systems do what PacketBroadcast says: a listening
\* message system that handles a dispatched packet handles the one after the
\* last it handled, none left out and none twice, for every number of threads
\* and packets.
THEOREM ImplementsBroadcast == Spec => Broadcast!Safety
<1>1. IInv /\ OrderInv /\ [Next]_vars => [Broadcast!Next]_(Broadcast!vars)
  BY StepBroadcast
<1> QED BY <1>1, InitBroadcast, OrderInductive, PTL DEF Spec, Broadcast!Safety
=============================================================================
