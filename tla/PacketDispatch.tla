--------------------------- MODULE PacketDispatch ---------------------------
(***************************************************************************)
(* The life of a Packet in one server process (libs/libserver): it is      *)
(* taken from DynamicPacketPool, handed over to ThreadMgr or to a Network, *)
(* put by the main thread into the message list of every thread, handled   *)
(* there, and taken back by the pool when its reference count is zero.     *)
(*                                                                         *)
(* Message system 0 is the main thread's (ThreadMgr is a SystemManager),   *)
(* 1..N are those of the worker threads, in the order of their SNs: first  *)
(* the threads of the ThreadCollectors (logic, listen, connect), which all *)
(* get every packet, then those of the ThreadCollectorExclusive (MySQL),   *)
(* which gives a packet to one thread in turn.                             *)
(*                                                                         *)
(* Every CacheSwap of the process that holds packets is a cache here: the  *)
(* list of each message system, ThreadMgr::_packets, ::_createPackets and  *)
(* Network::_sendMsgList.  A reader list is kept as the part its loop has  *)
(* still to visit; the loop's final clear() is the last Tail.              *)
(***************************************************************************)
EXTENDS Integers, Sequences, FiniteSets

CONSTANTS
  LogicNum,     \* number of threads that get every packet
  MysqlNum,     \* number of threads of the ThreadCollectorExclusive
  NetThread,    \* the thread that runs the Network component
  Packet,       \* the packet objects the pool has allocated
  None,         \* "no packet": nullptr
  MaxMalloc     \* bound on the number of packets ever created

ASSUME DispatchAssumption ==
  /\ LogicNum \in Nat /\ MysqlNum \in Nat
  /\ NetThread \in 0..(LogicNum + MysqlNum)
  /\ None \notin Packet
  /\ MaxMalloc \in Nat

N == LogicNum + MysqlNum
MsgSystem == 0..N
Main == 0

\* ThreadMgr::_threads: the collectors, their first thread (begin()) and
\* their threads.
Collector == {"shared", "exclusive"}
First(C) == IF C = "shared" THEN 1 ELSE LogicNum + 1
Threads(C) == IF C = "shared" THEN 1..LogicNum ELSE (LogicNum + 1)..N
Collectors == {C \in Collector : Threads(C) # {}}
Listener == MsgSystem \ Threads("exclusive")

\* The three caches that belong to no message system.
DispatchList == N + 1       \* ThreadMgr::_packets
CreateList == N + 2         \* ThreadMgr::_createPackets
SendList == N + 3           \* Network::_sendMsgList
Cache == 0..(N + 3)

VARIABLES
  free,         \* DynamicObjectPool::_free
  adds,         \* _objInUse._adds: created since the last pool Swap
  objs,         \* _objInUse._objs
  removes,      \* _objInUse._removes (by packet instead of by its SN)
  scan,         \* packets the loop of DynamicPacketPool::Update has still to visit
  ref,          \* Packet::_ref
  refOpen,      \* the packets whose _isRefOpen is true
  writer,       \* the writer list of each cache
  reader,       \* the unvisited part of the reader list of each cache
  local,        \* the packet each thread has created and not handed over yet
  pc,           \* what each thread is doing
  cur,          \* the packet the main thread is distributing
  todo,         \* the message systems that have still to get cur
  next,         \* ThreadCollector::_nextThreadSn of each collector
  created,      \* number of packets created so far (bounds the model)
  serial,       \* history: serial[p] = n when p was the n-th dispatched, else 0
  sent,         \* history: number of packets dispatched
  handled       \* history: the serial each message system handled last

pool == <<free, adds, objs, removes>>
counts == <<ref, refOpen>>
lists == <<writer, reader>>
dist == <<cur, todo, next>>
history == <<serial, sent, handled>>
vars == <<pool, scan, counts, lists, local, pc, dist, created, history>>

InUse == adds \cup objs

\* Mutated form: begin() at the end is forgotten.
NextThreadWithoutWrap(C, t) == t + 1

\* The thread after t in the collector C: ++iter, and begin() at the end.
NextThread(C, t) == IF t + 1 \in Threads(C) THEN t + 1 ELSE First(C)

Init ==
  /\ free = Packet /\ adds = {} /\ objs = {} /\ removes = {} /\ scan = {}
  /\ ref = [p \in Packet |-> 0]
  /\ refOpen = {}
  /\ writer = [c \in Cache |-> <<>>]
  /\ reader = [c \in Cache |-> <<>>]
  /\ local = [t \in MsgSystem |-> None]
  /\ pc = [t \in MsgSystem |-> IF t = Main THEN "create" ELSE "entity"]
  /\ cur = None /\ todo = {}
  /\ next = [C \in Collector |-> First(C)]
  /\ created = 0
  /\ serial = [p \in Packet |-> 0]
  /\ sent = 0
  /\ handled = [t \in MsgSystem |-> 0]

-----------------------------------------------------------------------------
(* Operations on a CacheSwap.                                              *)

\* Mutated form: push_front.
EmplaceFront(c, p) == writer' = [writer EXCEPT ![c] = <<p>> \o @]

EmplaceBack(c, p) == writer' = [writer EXCEPT ![c] = Append(@, p)]

\* CanSwap and Swap under the cache's lock: the reader list was cleared.
SwapCache(c) ==
  /\ reader' = [reader EXCEPT ![c] = writer[c]]
  /\ writer' = [writer EXCEPT ![c] = <<>>]

Visited(c) == reader' = [reader EXCEPT ![c] = Tail(@)]

\* Mutated form: no AddRef.
AddPacketUncounted(t, p) == EmplaceBack(t, p) /\ UNCHANGED ref

\* MessageSystem::AddPacketToList: both under the message system's lock.
AddPacketToList(t, p) ==
  /\ EmplaceBack(t, p)
  /\ ref' = [ref EXCEPT ![p] = @ + 1]

Goto(t, label) == pc' = [pc EXCEPT ![t] = label]

-----------------------------------------------------------------------------
(* Code of handlers and components, on any thread: it creates packets and  *)
(* hands them over.  It runs while a component system is updated and while *)
(* a message is handled.                                                   *)

UserCode(t) ==
  \/ pc[t] \in {"entity", "systems"}
  \/ pc[t] = "message" /\ reader[t] # <<>>

\* The pool's lock is held during DynamicPacketPool::Update.
PoolUnlocked == pc[Main] # "scan"

\* Mutated form: _isRefOpen keeps the value of the packet's former life.
AwakeStillOpen(p) ==
  /\ ref' = [ref EXCEPT ![p] = 0]
  /\ UNCHANGED refOpen

\* Packet::Awake.
Awake(p) ==
  /\ ref' = [ref EXCEPT ![p] = 0]
  /\ refOpen' = refOpen \ {p}

\* DynamicPacketPool::MallocPacket.
MallocPacket(t, p) ==
  /\ UserCode(t) /\ local[t] = None
  /\ PoolUnlocked
  /\ created < MaxMalloc
  /\ p \in free
  /\ free' = free \ {p}
  /\ adds' = adds \cup {p}
  /\ Awake(p)
  /\ serial' = [serial EXCEPT ![p] = 0]
  /\ local' = [local EXCEPT ![t] = p]
  /\ created' = created + 1
  /\ UNCHANGED <<objs, removes, scan, lists, pc, dist, sent, handled>>

HandedOver(t) ==
  /\ UserCode(t)
  /\ local[t] # None
  /\ local' = [local EXCEPT ![t] = None]

\* ThreadMgr::DispatchPacket.
DispatchPacket(t) ==
  /\ HandedOver(t)
  /\ EmplaceBack(DispatchList, local[t])
  /\ sent' = sent + 1
  /\ serial' = [serial EXCEPT ![local[t]] = sent + 1]
  /\ UNCHANGED <<pool, scan, counts, reader, pc, dist, created, handled>>

\* ThreadMgr::CreateComponentWithSn.
CreateComponentWithSn(t) ==
  /\ HandedOver(t)
  /\ EmplaceBack(CreateList, local[t])
  /\ UNCHANGED <<pool, scan, counts, reader, pc, dist, created, history>>

\* Network::SendPacket.
SendPacket(t) ==
  /\ HandedOver(t)
  /\ EmplaceBack(SendList, local[t])
  /\ UNCHANGED <<pool, scan, counts, reader, pc, dist, created, history>>

\* ConnectObj::Close: a packet for this thread's own message system only.
Close(t) ==
  /\ HandedOver(t)
  /\ AddPacketToList(t, local[t])
  /\ refOpen' = refOpen \cup {local[t]}
  /\ UNCHANGED <<pool, scan, reader, pc, dist, created, history>>

\* DynamicPacketPool::FreeObject of a received packet that is not dispatched.
FreeUnused(t) ==
  /\ HandedOver(t)
  /\ PoolUnlocked
  /\ removes' = removes \cup {local[t]}
  /\ UNCHANGED <<free, adds, objs, scan, counts, lists, pc, dist, created, history>>

\* A received MI_Ping, and a packet for which no Network is found, are left
\* where they are: neither dispatched nor freed.
Forget(t) ==
  /\ HandedOver(t)
  /\ UNCHANGED <<pool, scan, counts, lists, pc, dist, created, history>>

-----------------------------------------------------------------------------
(* SystemManager::Update, on every thread: the entities, the messages, the *)
(* systems.                                                                *)

Between(t) == local[t] = None

\* The swap at the start of MessageSystem::Update.
UpdateMessages(t) ==
  /\ pc[t] = "entity" /\ Between(t)
  /\ SwapCache(t)
  /\ Goto(t, "message")
  /\ UNCHANGED <<pool, scan, counts, local, dist, created, history>>

\* The callbacks have returned: the packet loses this thread's reference.
RemoveRef(t) ==
  /\ pc[t] = "message" /\ Between(t)
  /\ reader[t] # <<>>
  /\ LET p == Head(reader[t])
     IN  /\ ref' = [ref EXCEPT ![p] = @ - 1]
         /\ handled' = IF serial[p] = 0 THEN handled
                       ELSE [handled EXCEPT ![t] = serial[p]]
  /\ Visited(t)
  /\ UNCHANGED <<pool, scan, refOpen, writer, local, pc, dist, created, serial, sent>>

MessagesDone(t) ==
  /\ pc[t] = "message"
  /\ reader[t] = <<>>
  /\ Goto(t, "systems")
  /\ UNCHANGED <<pool, scan, counts, lists, local, dist, created, history>>

\* The end of a frame: ServerApp::Run calls the packet pool's Update after
\* the main thread's, a worker starts over.
EndOfFrame(t) == Goto(t, IF t = Main THEN "pool" ELSE "entity")

SystemsDone(t) ==
  /\ pc[t] = "systems" /\ Between(t)
  /\ t # NetThread
  /\ EndOfFrame(t)
  /\ UNCHANGED <<pool, scan, counts, lists, local, dist, created, history>>

\* The swap at the start of Network::OnNetworkUpdate, in the network's
\* thread, after the sockets have been read.
OnNetworkUpdate ==
  /\ pc[NetThread] = "systems" /\ Between(NetThread)
  /\ SwapCache(SendList)
  /\ Goto(NetThread, "network")
  /\ UNCHANGED <<pool, scan, counts, local, dist, created, history>>

\* Mutated form: the packet is not freed.
FreeSentForgotten ==
  /\ pc[NetThread] = "network"
  /\ reader[SendList] # <<>>
  /\ Visited(SendList)
  /\ UNCHANGED <<pool, scan, counts, writer, local, pc, dist, created, history>>

\* One packet of its loop: copied into a connection's send buffer or
\* refused, it is freed in either case.
FreeSent ==
  /\ pc[NetThread] = "network"
  /\ reader[SendList] # <<>>
  /\ PoolUnlocked
  /\ removes' = removes \cup {Head(reader[SendList])}
  /\ Visited(SendList)
  /\ UNCHANGED <<free, adds, objs, scan, counts, writer, local, pc, dist, created, history>>

NetworkDone ==
  /\ pc[NetThread] = "network"
  /\ reader[SendList] = <<>>
  /\ EndOfFrame(NetThread)
  /\ UNCHANGED <<pool, scan, counts, lists, local, dist, created, history>>

-----------------------------------------------------------------------------
(* ThreadMgr::Update on the main thread.                                   *)

\* The swaps at the start of UpdateCreatePacket and UpdateDispatchPacket.
UpdateCreatePacket ==
  /\ pc[Main] = "create"
  /\ SwapCache(CreateList)
  /\ Goto(Main, "createLoop")
  /\ UNCHANGED <<pool, scan, counts, local, dist, created, history>>

UpdateDispatchPacket ==
  /\ pc[Main] = "dispatch"
  /\ SwapCache(DispatchList)
  /\ Goto(Main, "dispatchLoop")
  /\ UNCHANGED <<pool, scan, counts, local, dist, created, history>>

\* ThreadCollector::HandlerCreateMessage: all threads of C, or its next one.
ToAll(C) ==
  /\ todo' = Threads(C)
  /\ UNCHANGED next

ToNext(C) ==
  /\ todo' = {next[C]}
  /\ next' = [next EXCEPT ![C] = NextThread(C, @)]

Distribute(c) ==
  /\ cur = None /\ reader[c] # <<>>
  /\ cur' = Head(reader[c])
  /\ Visited(c)
  /\ UNCHANGED <<pool, scan, counts, writer, local, pc, created, history>>

\* One packet of UpdateCreatePacket; without threads it goes to the main
\* thread's own list.
HandlerCreateMessage ==
  /\ pc[Main] = "createLoop"
  /\ Distribute(CreateList)
  /\ IF Collectors = {}
     THEN todo' = {Main} /\ UNCHANGED next
     ELSE \E C \in Collectors : ToAll(C) \/ ToNext(C)

\* The thread type has no collector: continue, before OpenRef.
UnknownThreadType ==
  /\ pc[Main] = "createLoop"
  /\ cur = None /\ reader[CreateList] # <<>>
  /\ Collectors # {}
  /\ Visited(CreateList)
  /\ UNCHANGED <<pool, scan, counts, writer, local, pc, dist, created, history>>

\* Mutated form: the main thread does not handle the packets itself.
HandlerMessageNotMain ==
  /\ pc[Main] = "dispatchLoop"
  /\ Distribute(DispatchList)
  /\ todo' = MsgSystem \ {Main}
  /\ UNCHANGED next

\* One packet of UpdateDispatchPacket: the main thread, every thread of a
\* ThreadCollector, and one of a ThreadCollectorExclusive unless the packet
\* is MI_CmdThread.
HandlerMessage ==
  /\ pc[Main] = "dispatchLoop"
  /\ Distribute(DispatchList)
  /\ \/ /\ todo' = MsgSystem
        /\ UNCHANGED next
     \/ /\ "exclusive" \in Collectors
        /\ todo' = Listener \cup {next["exclusive"]}
        /\ next' = [next EXCEPT !["exclusive"] = NextThread("exclusive", @)]

AddToNextList ==
  /\ cur # None
  /\ \E t \in todo :
       /\ \A u \in todo : t <= u
       /\ AddPacketToList(t, cur)
       /\ todo' = todo \ {t}
  /\ UNCHANGED <<pool, scan, refOpen, reader, local, pc, cur, next, created, history>>

\* Mutated form: the call of OpenRef is missing.
OpenRefForgotten ==
  /\ cur # None /\ todo = {}
  /\ cur' = None
  /\ UNCHANGED <<pool, scan, counts, lists, local, pc, todo, next, created, history>>

\* Packet::OpenRef once every list has it.
OpenRef ==
  /\ cur # None /\ todo = {}
  /\ refOpen' = refOpen \cup {cur}
  /\ cur' = None
  /\ UNCHANGED <<pool, scan, ref, lists, local, pc, todo, next, created, history>>

LoopDone(label, c, following) ==
  /\ pc[Main] = label
  /\ cur = None /\ reader[c] = <<>>
  /\ Goto(Main, following)
  /\ UNCHANGED <<pool, scan, counts, lists, local, dist, created, history>>

CreateDone == LoopDone("createLoop", CreateList, "dispatch")
DispatchDone == LoopDone("dispatchLoop", DispatchList, "entity")

-----------------------------------------------------------------------------
(* DynamicPacketPool::Update, on the main thread, under the pool's lock.   *)

\* CacheRefresh::Swap: what was freed since the last Update goes back to
\* _free, if it is found in use; then the scan of the packets in use begins.
PoolSwap ==
  /\ pc[Main] = "pool"
  /\ objs' = InUse \ removes
  /\ free' = free \cup (removes \cap InUse)
  /\ adds' = {} /\ removes' = {}
  /\ scan' = objs'
  /\ Goto(Main, "scan")
  /\ UNCHANGED <<counts, lists, local, dist, created, history>>

\* Mutated form: the references are not looked at.
CanBack2PoolIfOpen(p) == p \in refOpen

\* Packet::CanBack2Pool.
CanBack2Pool(p) == p \in refOpen /\ ref[p] = 0

\* Other threads drop references while the loop runs.
ScanPacket(p) ==
  /\ pc[Main] = "scan" /\ p \in scan
  /\ scan' = scan \ {p}
  /\ removes' = IF CanBack2Pool(p) THEN removes \cup {p} ELSE removes
  /\ UNCHANGED <<free, adds, objs, counts, lists, local, pc, dist, created, history>>

ScanDone ==
  /\ pc[Main] = "scan" /\ scan = {}
  /\ Goto(Main, "create")
  /\ UNCHANGED <<pool, scan, counts, lists, local, dist, created, history>>

-----------------------------------------------------------------------------
Produce(t) ==
  \/ \E p \in Packet : MallocPacket(t, p)
  \/ DispatchPacket(t) \/ CreateComponentWithSn(t) \/ SendPacket(t)
  \/ Close(t) \/ FreeUnused(t) \/ Forget(t)

Frame(t) ==
  UpdateMessages(t) \/ RemoveRef(t) \/ MessagesDone(t) \/ SystemsDone(t)

NetworkStep == OnNetworkUpdate \/ FreeSent \/ NetworkDone

ThreadMgrUpdate ==
  \/ UpdateCreatePacket \/ HandlerCreateMessage \/ UnknownThreadType \/ CreateDone
  \/ UpdateDispatchPacket \/ HandlerMessage \/ DispatchDone
  \/ AddToNextList \/ OpenRef

PoolUpdate == PoolSwap \/ (\E p \in Packet : ScanPacket(p)) \/ ScanDone

Next ==
  \/ \E t \in MsgSystem : Produce(t) \/ Frame(t)
  \/ NetworkStep
  \/ ThreadMgrUpdate
  \/ PoolUpdate

Spec == Init /\ [][Next]_vars

\* The operating system runs every thread; a handler that has created a
\* packet goes on and returns.  FreeSent needs the pool's mutex, which the
\* main thread gives up for the rest of each frame, its 1 ms sleep included:
\* a thread waiting for it gets it, hence strong fairness.
Fairness ==
  /\ \A t \in MsgSystem : WF_vars(Frame(t))
  /\ \A t \in MsgSystem : WF_vars(local[t] # None /\ Produce(t))
  /\ WF_vars(OnNetworkUpdate \/ NetworkDone) /\ SF_vars(FreeSent)
  /\ WF_vars(ThreadMgrUpdate)
  /\ WF_vars(PoolUpdate)

FairSpec == Spec /\ Fairness

-----------------------------------------------------------------------------
(* Properties.                                                             *)

Elements(s) == {s[i] : i \in DOMAIN s}

In(c, p) == p \in Elements(writer[c]) \cup Elements(reader[c])

Holders(p) == {t \in MsgSystem : In(t, p)}

\* A pointer to p is still going to be used.
Reachable(p) ==
  \/ \E c \in Cache : In(c, p)
  \/ \E t \in MsgSystem : local[t] = p
  \/ cur = p

PoolTypes ==
  /\ free \subseteq Packet /\ adds \subseteq Packet /\ objs \subseteq Packet
  /\ removes \subseteq Packet /\ scan \subseteq Packet

CountTypes == ref \in [Packet -> Int] /\ refOpen \subseteq Packet

ListTypes == writer \in [Cache -> Seq(Packet)] /\ reader \in [Cache -> Seq(Packet)]

ThreadTypes ==
  /\ local \in [MsgSystem -> Packet \cup {None}]
  /\ pc \in [MsgSystem -> {"entity", "message", "systems", "network", "create",
                           "createLoop", "dispatch", "dispatchLoop", "pool", "scan"}]

DistTypes ==
  /\ cur \in Packet \cup {None}
  /\ todo \subseteq MsgSystem
  /\ next \in [Collector -> Nat]
  /\ \A C \in Collectors : next[C] \in Threads(C)

HistoryTypes ==
  /\ created \in Nat /\ sent \in Nat
  /\ serial \in [Packet -> Nat]
  /\ handled \in [MsgSystem -> Nat]

\* Every variable has its type: the lists hold packets, the pool's sets are
\* sets of packets, each thread is at a step of its loop.
TypeOK ==
  PoolTypes /\ CountTypes /\ ListTypes /\ ThreadTypes /\ DistTypes /\ HistoryTypes

\* No use after free: as long as some list or some thread holds a pointer to
\* a packet, the pool has neither recycled that packet nor been told to
\* (DynamicPacketPool::Update against the lists of all threads).
NoUseAfterFree == \A p \in Packet : Reachable(p) => p \in InUse \ removes

\* Packet::_ref counts the message systems whose list holds the packet, so
\* the "packet ref < 0" error of Packet::RemoveRef never shows.
RefCountsLists == \A p \in Packet : ref[p] = Cardinality(Holders(p))

-----------------------------------------------------------------------------
(* The inductive invariant behind the last two.                            *)

NoDup(s) == \A i, j \in DOMAIN s : s[i] = s[j] => i = j

\* A list holds a packet once, in its writer or in its reader part.
ListInv ==
  \A c \in Cache :
    /\ NoDup(writer[c]) /\ NoDup(reader[c])
    /\ Elements(writer[c]) \cap Elements(reader[c]) = {}

\* A reader list is only non-empty while its owner's loop is running, so a
\* Swap never overwrites packets.
LoopInv ==
  /\ \A t \in MsgSystem : reader[t] # <<>> => pc[t] = "message"
  /\ reader[DispatchList] # <<>> => pc[Main] = "dispatchLoop"
  /\ reader[CreateList] # <<>> => pc[Main] = "createLoop"
  /\ reader[SendList] # <<>> => pc[NetThread] = "network"
  /\ cur # None => pc[Main] \in {"createLoop", "dispatchLoop"}

PoolInv == free \cap InUse = {} /\ removes \subseteq InUse /\ scan \subseteq InUse

Stage == {DispatchList, CreateList, SendList}

\* A packet that is not yet in all the lists it has to reach: a thread's, the
\* main thread's loop's or one of the three other lists'.
Fresh(p) ==
  \/ \E t \in MsgSystem : local[t] = p
  \/ cur = p
  \/ \E c \in Stage : In(c, p)

\* ... and it is so in one way only.
OnePlace ==
  \A p \in Packet :
    /\ \A t, u \in MsgSystem : local[t] = p /\ local[u] = p => t = u
    /\ \A c, d \in Stage : In(c, p) /\ In(d, p) => c = d
    /\ \A t \in MsgSystem : local[t] = p => cur # p /\ \A c \in Stage : ~In(c, p)
    /\ cur = p => \A c \in Stage : ~In(c, p)

\* Such a packet is closed to the pool, and only the lists the main thread
\* has already served hold it.
FreshInv ==
  \A p \in Packet :
    Fresh(p) => /\ p \notin refOpen
                /\ \A t \in MsgSystem : In(t, p) => cur = p /\ t \notin todo

IInv ==
  /\ TypeOK /\ ListInv /\ LoopInv /\ PoolInv /\ OnePlace /\ FreshInv
  /\ NoUseAfterFree /\ RefCountsLists

-----------------------------------------------------------------------------
\* What DispatchPacket promises: every thread but the MySQL ones handles
\* every dispatched packet once, in the order of the dispatch calls, and
\* under fairness does handle it.
Broadcast ==
  INSTANCE PacketBroadcast
    WITH Listener <- Listener, handled <- [t \in Listener |-> handled[t]]

BroadcastSpec == Broadcast!Spec

\* Every thread, the MySQL ones included, handles the packets it gets in the
\* order of the dispatch calls, each once.
HandledInOrder ==
  [][\A t \in MsgSystem : handled'[t] # handled[t] => handled'[t] > handled[t]]_vars

\* A dispatched packet comes back to the pool once every thread has handled
\* it (RemoveRef, then two rounds of DynamicPacketPool::Update).
DispatchedIsRecycled == \A p \in Packet : In(DispatchList, p) ~> p \in free

\* A packet handed to a Network comes back to the pool as well, by the
\* explicit FreeObject of Network::OnNetworkUpdate.
SentIsRecycled == \A p \in Packet : In(SendList, p) ~> p \in free
=============================================================================
