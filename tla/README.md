# Verification of the GameBookServer engine and servers

`src/` is the source of a book: each directory `NN_MM_name` is the state of the server after
one chapter. The last one, `src/12_02_move`, is the complete system, and it is the one that is
modelled here; the others are older snapshots of the same files. Paths below are relative to
`src/12_02_move/src`. Comments in the code are Chinese, in GBK; where one is quoted it is
translated.

## 1. Inventory

A server *process* is an *app* (`login`, `game`, `space`, `appmgr`, `dbmgr`, or all of them in
`allinone`). Every app is the same engine (`libs/libserver`) with other components in it. Apps
are connected with each other by TCP; clients and robots connect to `login` and `game`;
`login` talks to an HTTP account service; `login` and `game` share a Redis, `dbmgr` owns MySQL.

### Engine (`libs/libserver`)

| Part | State | Operations | Interaction | What makes it correct |
|---|---|---|---|---|
| Threads (`thread_mgr`, `thread_collector*`, `thread`, `system_manager`, `server_app`) | the main thread's and each worker's systems; `_threads`, `_index` of a collector; `Global::IsStop`, `Thread::_state` | frame loop, `DispatchPacket`, `UpdateCreatePacket`, `UpdateDispatchPacket`, shutdown | lists of packets under one mutex each; shutdown by flags | every thread gets every packet in one order; nobody uses a disposed message system |
| Packets and their pool (`packet`, `object_pool*`, `cache_swap.h`, `cache_refresh.h`) | `_ref`, `_isRefOpen`; in-use map, free queue | `MallocPacket`, `AddRef`, `RemoveRef`, `OpenRef`, `FreeObject`, `Update` (scan) | every thread holds pointers to the same packets; the main thread recycles | a packet is recycled once, when no list and no thread uses it, and then it is recycled eventually |
| Message system (`message_system*`, `message_callback`) | `_cachePackets`, callback tables | `AddPacketToList`, `Update`, registration | handlers run inside `Update` and send more packets | packets are handled in order, callbacks of removed objects do not run |
| Ring buffers (`base_buffer`, `network_buffer`) | `_beginIndex`, `_endIndex`, `_dataSize`, memory | `FillDate`, `RemoveDate`, `ReAllocBuffer`, `MemcpyToBuffer`, `MemcpyFromBuffer`, `AddPacket`, `GetTcpPacket`, `GetHttpPacket` | `recv`/`send` work on the memory directly | bytes come out in the order they went in, whatever wraps, fills or grows |
| Connections (`connect_obj`, `network`, `network_listen`, `network_connector`) | `_connects`, `_sockets`, epoll registration, `_sendMsgList`, connection state | `Epoll`, `Recv`, `Send`, `OnNetworkUpdate`, `Accept`, `Connect`, `Close`, `HandleDisconnect` | `ConnectObj`s come from a pool; other threads ask for a disconnect by packet | a packet that is sent arrives whole, once, in order, or the connection ends; nothing of an old connection reaches a new one |
| Finding connections (`network_locator`, `socket_locator`, `sync_component`, `socket_object`) | app to socket, socket to entity | registration, disconnect, app info broadcast | written by several threads under a mutex | an entry disappears with its socket |
| Entities and components (`component`, `entity`, `entity_system`, `component_collections`, `component_factory`, `create_component`) | object maps with deferred add and remove, pools | `AddComponent`, `RemoveComponent`, `Swap`, `ComponentBackToPool` | parents own components; callbacks and timers are bound to them | an object goes to its pool exactly once and nothing is called on it afterwards |
| Timers (`timer_component`, `update_component`) | heap of timers | `Add`, `Remove`, `Update` | handlers may add and remove timers | the heap order holds, a removed timer does not fire |
| Serial numbers (`global`, `sn_object`) | `_snTicket` (16 bits), time | `GenerateSN`, `GetAppIdFromSN` | all objects are keyed by SN | two live objects have different SNs |
| Redis client (`redis_connector`) | a connection | `Setex`, `SetnxExpire`, `Delete`, `GetInt` | shared by apps | a flag that is set expires |
| Console, log, trace, YAML, strings, time (`console*`, `log4*`, `trace_component`, `efficiency*`, `yaml`, `util_*`, `vector3`, `res_path`) | none that other parts depend on | — | — | — |

### Servers

| Part | State | Operations | What makes it correct |
|---|---|---|---|
| `apps/login` (`account`, `redis_login`, components of the player) | players by socket and by account; the login flag and the token in Redis | account check, online query, HTTP check, player list, create, select, token, disconnect | one login per account at a time over all login apps; every client gets an answer (answers are matched by account, so perhaps one to another connection) |
| `apps/game` (`lobby`, `world_proxy*`, `world_component_teleport`, `redis_game`, `teleport_object`) | players waiting for a world, proxies of worlds, the online flag | login by token, query of the player, teleport, forwarding | a player is in exactly one world, and one who waits is let in or removed |
| `apps/space` (`world`, `world_operator_component`, `world_gather`, `move_*`, `player_manager_component`) | worlds and the players in them, positions | create world, enter, leave, sync, move | the world and its proxy agree on who is inside; data is saved on leaving |
| `apps/appmgr` (`create_world_component`, `app_sync_component`) | `_created`, `_creating`, load of apps | request, query and broadcast of worlds, load of apps | one instance of a public world, also when a space app fails while it creates one |
| `apps/dbmgr` (`mysql_*`) | MySQL connections | query, create, save players | requests of one player are answered in order |
| `libs/libplayer`, `libs/libresource` | player entity, players by socket/account/SN, last map; world tables | add, remove, find | the two indexes of players agree |
| `tools/robots` | a state machine per robot | login and walk about | (a test driver) |

### What is hard

*Concurrency without ownership.* A packet is a raw pointer. `DispatchPacket` puts it on a list;
the main thread spreads it to the lists of all threads; each handles it in its own frame; the
main thread frees it when a counter is zero. Nothing but the protocol of `_ref` and
`_isRefOpen` keeps it alive. *Streams.* `recv` and `send` stop anywhere, also inside a length
field; the rings are full and empty at the same indexes. *Reuse.* Packets, connections and
components return to pools and come back with their old memory. *Distribution.* A login touches
the client, a login app, Redis, an HTTP service and the database, and each leg can fail or
answer late; a world is created by three apps, each of which may disconnect. *Shutdown.* The
threads stop on a flag and dispose of lists that others still write to.

`PROJECT.json` lists these hazards at the lines where they bite.

## 2. Modules

### PacketDispatch — the life of a packet in one process

State: the pool (`free`, `adds`, `objs`, `removes`, `scan`), per packet `ref` and `refOpen`,
the writer and reader list of every `CacheSwap` that holds packets (`writer`, `reader`, indexed
by message system or by one of `DispatchList`, `CreateList`, `SendList`), each thread's place in
its frame (`pc`) and the packet it has created and not handed over (`local`), the main thread's
distribution loop (`cur`, `todo`, `next`). `serial`, `sent`, `handled` are history.

Message system 0 is the main thread's, `1..LogicNum` those of the shared collectors,
the next `MysqlNum` those of a `ThreadCollectorExclusive`. One action is one critical section
or one access to shared state: a swap under its lock, one `AddPacketToList`, one `RemoveRef`,
`OpenRef`, one packet of the pool's scan. So every interleaving of the main thread's loops, the
workers' frames and the pool is explored.

What is merged or bounded: a thread holds one created packet at a time (the 404 path of `Recv`
holds two, which adds no interaction); `Close` is one step although it adds to the list and
opens the reference in two (only the pool's scan could see the state between, where the packet
is not yet open); `Forget` stands for the places where a packet is neither handed over nor freed
(a received `MI_Ping`, `connect_obj.cpp:157`; no network found, `message_system_help.cpp:178`;
a network of the wrong type, `network.cpp:347`): such a packet is never recycled. `MaxMalloc`
bounds the number of packets ever created. The abstract side is **PacketBroadcast**: a dispatched
packet is handled once by every listening message system, in dispatch order.

| Run | Instance | Checks |
|---|---|---|
| `dispatch_safety` | two exclusive threads (as `dbmgr` has for MySQL) served in turn; 2 packets, 3 creations (so one is reused) | `TypeOK`, `NoUseAfterFree`, `RefCountsLists`, `HandledInOrder` |
| `dispatch_live` | main and one worker with the network, with fairness | `NoUseAfterFree`, `RefCountsLists`, `BroadcastSpec` (refinement), `DispatchedIsRecycled`, `SentIsRecycled` |

Two packets and one reuse suffice for the races: each involves one packet in two lists, or a
packet and its next life; a further thread of a kind would behave like the first. The theorems
remove the bound for the safety properties.

Fairness: every thread's loop runs (the operating system schedules it), a handler that created a
packet goes on, and `FreeSent`, which needs the pool's mutex, is strongly fair: the main thread
holds that mutex only during `Update` and sleeps 1 ms per frame without it.

### RingBuffer — the ring of NetworkBuffer

Operators on a record with the fields of the class; each takes the ring before a call and gives
the ring after it. The memory is modelled cell by cell, with a value for "never written", so
that a byte read from the wrong place is a wrong byte. `RingOK` says that the indexes enclose
exactly `_dataSize` written cells, `Content` is the bytes in order.

### ConnectStream — one direction of a connection

The sending side (`_sendMsgList`, `SendNetworkBuffer`, the epoll registration, the thread's
loop), the bytes in flight, and the receiving side (`RecvNetworkBuffer`, the parser, the pending
disconnect). Both sides' objects go back to their pools and serve the next connection.
`SendSome` is one `::send` that takes as much as the kernel has room for; `Recv(size)` is one
`::recv` that returns any number of bytes, so a frame is cut anywhere. The frame is the real one:
total length and head length as two-byte integers, a head with or without the S2S fields, data.
A byte is `0..Base-1` with a small `Base` in the runs; the structure of the code does not depend
on it. `StreamAssumption` excludes messages whose length overflows the two bytes (the code does
not check it: a hazard) and a Player tag without an Entity tag, which no caller of `AddTag` makes and
which would be lost, because the head's kind is chosen by the Entity tag alone.

A packet in `_sendMsgList` names a file descriptor and carries tags, no more. `OnNetworkUpdate` finds the
`ConnectObj` by the descriptor and drops the packet if `CompareTags` finds a tag on both sides that
differs (`ForThis`, `DropPacket`). The kernel may give the next connection the descriptor of the former
(`fds`), and one that was just accepted has no tags until `MI_NetworkListenKey` brings them
(`HandleListenKey`, which finds it by the descriptor too). So **a packet for the former owner of a
descriptor can be written to the next one**, and does so in `stream_safety`. Nothing in the repository
says otherwise, and no property here does: the abstract side, **PacketChannel**, is about what
`OnNetworkUpdate` gave to the `ConnectObj` (`sent`), of which `delivered` is a prefix: each packet
intact, once and in order, and nothing left in the pooled buffers by the former connection.

Not modelled: `GetHttpPacket`, the `Connecting` state, several connections at a time, and
`MI_NetworkRequestDisconnect` at the sending side (its `ConnectObj` goes when the peer has closed or
`send` fails). The delay of the network is the receiver's freedom to read late.

| Run | Instance | Checks |
|---|---|---|
| `stream_safety` | two connections in turn with the same objects, on one or two descriptors; made without tags and tagged later, packets of another account; frames of 5 and 9 bytes, one with an unknown id, two waiting or sent per connection; rings of 10 and 8 that wrap, fill and grow by 6; kernel buffer of 5, under fairness | `SendRingOK`, `RecvRingOK`, `ChannelSpec`, `SentIsDelivered` |
| `stream_rest` | one connection, kernel buffer of 4 | `RestIsSent`, **violated** (see Findings) |

The sizes are chosen so that each of the cases happens: a length field that straddles the end of
the ring, a full ring with begin = end, a reallocation of a wrapped ring, a frame larger than the
kernel's buffer. Fairness: both network threads run. Because of `stream_rest`,
`SentIsDelivered` excepts the case in which a partial send left a rest (`RestIsLeft`).

### Teleport — players of one game process

The Lobby and each WorldProxy are actors with the packets that concern them in a queue (`box`):
that all threads get all packets in one order is what `PacketDispatch` shows. Each handler of
`lobby.cpp`, `world_proxy.cpp`, `world_component_teleport.cpp`, `redis_game.cpp` and the handlers
of `space/world.cpp` that concern a player's presence are actions; a guard picks the first packet
of a type, and what the handler sends is appended to the readers' queues. A place's frame is
modelled where order matters: handlers, then the timers (`TimerUpdate` sends what
`SetOnlineFlag` sends), then the next frame's `Swap` (`EntityUpdate`: components that were
removed go to the pool, and `PlayerComponentOnlineInGame::BackToPool` deletes the flag).
`players[p]` is `_players`; `accounts` is the Lobby's `_accounts`; `objects[w]` is `_objects` with the
two flags of a `TeleportObject`; `flag` and `token` are the keys in Redis; `locator` is
`SocketLocator`. A loop that never ends takes its place out of the model (`hung`), a null pointer
stops the process (`crashed`): both are outcomes of the code as it is.

Assumed: a client connects when the login server has found its account offline (which Login shows of the
players Redis has let in, but a token may reach another connection) and all packets
of the account's earlier login are handled (`Quiet`; a login takes several round trips and an
HTTP request); one connection per account at a time (what the login flag is for); clients wait
for `S2C_EnterWorld` before they ask again (`Patient`; without it `InOnePlace` fails with three worlds, a
hazard; it also fails, with `Patient`, for an account that closes while it waits for a world and
logs in again: its SN stays in `_waitingForWorld`, so it can be teleported by
`HandleQueryPlayerRs` and again by `HandleBroadcastCreateWorldProxy`; hence `teleport_moves` has one
connection, and `teleport_relogin` does not state it); what a WorldProxy sends to a client goes out after the `MI_NetworkListenKey` that was sent
a round trip earlier; Redis' key expires only when nothing refreshes it. Public worlds only; a
space process does not fail; socket numbers are not reused.

| Run | Instance | Checks |
|---|---|---|
| `teleport_moves` | one client, two moves between A and B, B yet to be created | `TypeOK`, `InOnePlace`, `OnlineFlagSet` |
| `teleport_relogin` | one world, yet to be created; two connections of the account that may close at any moment; one periodic refresh, expiry | `OnlineFlagSet`, `WorldsAgree` |
| `teleport_live` | one move, no closes, both worlds exist | `Arrives` |
| `teleport_hang` | as `teleport_moves` with one move, under fairness | `AllWaitingTeleport`, **violated** (see Findings) |

Two moves are the least that bring a player back to where a flag of an older version may still be
about to be deleted. Two accounts meet only in the order within `_waitingForWorld` and `_objects`,
and in what a place that hangs or crashes for one does to the other; instances with two accounts
and three worlds are too large to exhaust and were explored by simulation. Fairness: every thread runs its
frames, Redis, dbmgr and the spaces answer, a requested world is created in the end; nothing is
assumed of clients, periods or expiry. `CHECK_DEADLOCK` is off since moves are bounded and a
crash stops everything.

### WorldCreate — public worlds, from the request to the failure of their process

The appmgr (`CreateWorldComponent`: `apps`, `creating`, `created`), the space processes (`up`,
`worlds`), and in each game process the main thread with `WorldProxyLocator` and the logic
thread with Lobby and the proxies. Sockets and packet lists are queues: `toMgr`, `toSpace`,
`main` (by sender, since two connections have no common order) and `logic`. A space process may
fail at any point (`Crash`): of what it has sent, each receiver gets some first part, then
sees the disconnect; `Restart` brings it back with nothing in it. Appmgr and games do not fail.

A frame of the logic thread matters in one place: a proxy that `RemoveComponent` has been called
for still handles what is left of the frame. `doomed` are these proxies, `rest` the packets left
(any number of those queued, since a frame takes what was on its list when it began), and
`SwapEntities` the next frame's `EntitySystem::Update`. A player teleported to a doomed proxy
loses its Player but not its connection (`Adrift`; a hazard). `strays` are the worlds of the
second proxies that `ComponentCollections::Add` refuses; such an object has registered itself in
the locator and is never removed.

Assumed: a game process has one logic thread (`thread_logic: 2` in the configuration gives two;
then Lobby and proxies are on either, and their lists get the same packets in the same order);
a component that is created through the creation list can overtake packets dispatched before it,
which changes nothing here since nothing addressed to a proxy precedes it; any app may be the one
with the smallest load; the teleport itself is one step (its steps are in Teleport).

| Run | Instance | Checks |
|---|---|---|
| `world_create` | one world, two space processes of which one may fail and start again, one game, two players that log in twice in all; under fairness | `TypeOK`, `CreatingIsUnderWay`, `CreatedExists`, `OnceUnlessAgain`, `RegisteredHasProxy`, `CreatingEnds`, `ServedUnlessFailure` |
| `world_proxy_twice` | one world, one space process, two games, no failure | `OneProxy`, **violated** (see Findings) |

One world is enough: the tables are keyed by world and no handler relates two of them except
the loop over what a failed process was creating, which the proofs cover for any number. One
failure suffices for each window (request under way, world created but not announced, announced
to some only). `world_create` has one game; two games with two logins (1.9 million states) were
checked by hand for the same invariants, and the proofs hold for any number. Fairness: threads
run, packets arrive and connections are made again (NetworkLocator retries for ever); no process
has to fail or start and no player to come or go. `CHECK_DEADLOCK` is off because logins and
failures are bounded.

### Login — an account at the login servers

Clients, the logic thread of each login process (Account, its players, the component
PlayerComponentOnlineInLogin with its timer) and its RedisLogin thread, with the packets between
the two (`box`, `redis`), the questions to HTTP server and dbmgr (`asked`) and the keys in Redis.
`SetnxExpire` is the two commands it sends (`step`), between which the process may fail; answers
name only the account, so each handler applies them to whoever logs in with that account by
then.

This lets in a client that should not be. A connection closes while its HTTP request, its query or its
token is under way; another connection of the account, which Redis refuses or has not answered
yet, is in `_players` as soon as its `C2L_AccountCheck` is handled; the answer is applied to it
(`account.cpp:366`, `:219` and `:450`), and it gets the list and a token, with a password that nobody
checked. TLC reaches this. Nothing in the repository denies it, so no property does; `OneInLogin` and
`FlagHeld` speak of the players that Redis has let in, and `Answered` says only that a client gets
some answer.

A process fails between any two steps and starts again empty; Redis does not fail.

Assumed: a key with a time to live does not end while its process still has a live component,
a packet or an answer for it (`Concerned`): `SetOnlineFlag` is called every 180 s of the key's
360 s. So a thread of Redis that is stalled for three minutes is outside the model. A client sends
C2L_AccountCheck once per connection and selects once; creation of players is left out.

Run `login`: two connections of one account, two processes, one failure; `TypeOK`, `OneInLogin`,
`FlagHeld`, `Answered`, `FlagEnds`. Two connections are what a mutual exclusion needs, at one or
two processes; accounts share nothing but the threads. Fairness: threads run, a connection that
the server closes closes, HTTP server and dbmgr answer (or the HTTP connection or dbmgr's query
fails, `HttpFails` and `QueryFails`, which nobody tells the client: `unanswered`), keys end, and a
client that has a list selects, as the robots do. It may select a player that is not in its list, and
is then told so (`HandleSelectPlayer`). `FlagEnds` excepts a process that failed between SETNX and EXPIRE (`cut`): then the
key stays for ever, a hazard that no property excludes.

### EntityFrame — the frame of the entities of one thread

`DynamicObjectPool` and `ComponentCollections` with their deferred additions and removals, an
entity (Player) with a component (MoveComponent), the index by player number, the handlers of a
World that create and remove them, and MoveSystem, which visits all MoveComponents and follows
`GetParent`. `pc` is the place in `SystemManager::Update`. EntitySystem swaps the classes in the
order of `typeid(T).hash_code()`, which the C++ library chooses; `movesFirst` is this choice,
made in Init.

Run `entity_frame` (3 Players, 2 MoveComponents, 2 numbers): `TypeOK`, `FreeIsUnused`, `NoneLost`,
`OneMoveEach`, `CrashOnlyMovesFirst`, `RemovedIsFreed`. With three objects for two numbers a player can
leave and come back while its former object is still on the way to the pool; two MoveComponents
let a new one be made while the old one is on its way there. Fairness: the frame goes on
(`WF_vars(FrameStep)`): `MessagesDone` is never disabled while handlers run, so a frame's messages
end. With `movesFirst` a player's MoveComponent outlives it by a frame and MoveSystem
uses a Player without components: this is the outcome `crashed`, and `CrashOnlyMovesFirst` says that
the other order is safe.

### Queues

Which packets wait in a queue and what `Append` and `Tail` do to that: lemmas used by the proofs
about Login, WorldCreate and Teleport. Models nothing.

### What is proved

`PacketDispatchProofs` proves, for every number of threads and packets, `TypeCorrect`,
`PacketsAreSafe` (`NoUseAfterFree`) and
`ReferencesAreCounted` (`RefCountsLists`), from `DispatchAssumption` alone. `NoUseAfterFree` is not
inductive: that a packet with `ref = 0` is in no list needs `RefCountsLists`; that it is with no
thread and in none of the three other lists needs that such a packet is not `refOpen`
(`FreshInv`), which needs that it is in one such place only (`OnePlace`); `RefCountsLists` needs
that a list holds a packet once (`ListInv`) and that a swap overwrites nothing (`LoopInv`); a
packet freshly taken from the pool is in no list because the pool's sets are disjoint
(`PoolInv`). `IInv` is the conjunction; lemma `Inductive` has one step per action.

`RingBufferProofs` proves for every size what the ring's operations do to its content:
`MemcpyToBuffer` appends, `RemoveDate` removes at the front, `MemcpyFromBuffer` copies the front,
`ReAllocBuffer` keeps everything (also of a full ring). `ConnectStreamProofs` uses these to prove
`SendBufferIsSound`: `SendRingOK` holds for every buffer size and every set of messages of legal
length. The strengthening `SendInv` adds that the send list holds messages and that the wire
holds bytes; the argument for `AddPacket` is that the four parts of a frame add up to the total
that `GrowSendBuffer` made room for.

It also proves `RecvBufferIsSound` (`RecvRingOK`) and `StreamIsChannel`
(`ChannelSpec`: a connection implements `PacketChannel`) from `StreamAssumption` and
`RingAssumption` alone, for every size of the buffers, every set of messages and any number of
connections. The receiver's ring is sound only because the length fields it acts on are those
that the sender wrote, so the invariant has to describe all the bytes of a connection. It says
that there is a stream `b` with positions `cut` (`Flowing`): the packets of `sent` from the next one to
deliver up to the `k`-th, which is the last while the sender is there, lie in it as frames (`Frames`); the receive buffer, the wire and the send buffer hold
three adjoining pieces of it, from `cut[Len(delivered)]` on (`Pieces`), up to `cut[k]` while the sender is there. Moving bytes between the pieces leaves the stream alone
(`PiecesSend`, `PiecesRecv`), `AddPacket` writes one frame behind it (`FramesPut`), and
`GetTcpPacket` takes one frame off it (`ReadFrame`, `Parse`). `PlacesOK` says that the buffers of a pooled
`ConnectObj` are empty, which is what lets `CreateConnectObj` start a new stream (`FreshFlow`).
When the parser meets an id that is no `MsgId` the claim is dropped until the
connection is gone: `Recv` stops parsing and the disconnect is handled before the next epoll.

`EntityFrameProofs` proves the five invariants of the run. The inductive one adds that the pool's
sets are disjoint (`PoolCounts`), that collections hold what is alive (`CollectionsHold`), that a Player and
its MoveComponent point at each other unless the component is being removed (`Linked`), which
MoveComponents may outlive their Player, at which place of the frame (`Outlived`), and that where
handlers run no MoveComponent is about to be removed whose Player is still there (`NoneStopped`),
which is why a second one never stands beside it.

`LoginProofs` proves `TypeCorrect`, `FlagIsHeld` and `LogsInOnce` for any accounts, connections,
processes and failures. The flag is safe because it is claimed by one trace at most: the
question, the offline answer, the component with its refresh, or the deletion. `Claim(l, a)`
says for a process and an account which of these exist, that they exclude each other and that the
flag then names the process; together with `OnePlayer` (a process has one player per account) it is
inductive. The timing assumption on `Expire` is what makes it so.

`WorldCreateProofs` proves `TypeCorrect`, `LocatorNamesProxies` (`RegisteredHasProxy`), `CreatedIsThere`
(`CreatedExists`) and `CreatingIsLive` (`CreatingIsUnderWay`) for any number of worlds, games,
spaces, players and failures. `MgrInv` adds what a queue from a space process may hold
(`Sound`: an announced world exists unless a disconnect follows in the queue; a process that is
down has its disconnect in the queue; `Own`: it announces its own worlds).

`WorldsExistOnce` (`OnceUnlessAgain`) adds `OnceInv`: for a world that has not been requested again,
the request, the creation at one space process and the announcement exclude each other, so all
that speaks of it speaks of one process.

`PacketsInOrder` (`HandledInOrder`) and `ImplementsBroadcast` in `PacketDispatchProofs` rest on
`OrderInv`: along the way of a packet, from `DispatchList` over the main thread's loop and the
writer's list to the reader's list of a message system, the packets stand in the order in which
they were dispatched, and what a message system has handled is the first part of that. The
second theorem is about `Broadcast!Safety`, `PacketBroadcast` without its fairness; each step of
the engine is a step of it or a stutter.

`TeleportProofs` proves `TypeCorrect`, and that World and WorldProxy agree (`WorldsAgree`). The
latter holds only when nothing is under way to the World; inductive is `AgreeInv`, which says of
each account that the last packet about it under way to the World, or the World's own list if
there is none, says whether the proxy has a player of it (`Coming`). Appending a packet or
handling one keeps this (`ComingAppend`, `ComingTail`). A proxy that loses one of two players of one
account would break it, since both are the same number to the World: `NoTwins` excludes this.
`WorldsInStep` has it as a hypothesis about the behaviour, `WorldsInStepForSessions` derives it from
`OneSession`, each account connecting once, by way of `NamesInv` (a player's SN is that of its
socket's account; a proxy has one player per socket). The runs have accounts that come back.

`PlayerInOnePlace` (`InOnePlace`) and `OnlineFlagKept` (`OnlineFlagSet`) rest on `SessionInv(s)`, about
one socket whose client has connected and not closed. It says where the player is: `Led`, the place
in `SocketLocator` has the newest version of it, and every other place that still has one has just one
`MI_TeleportAfter` in its queue, which removes it; that `Flagged`, its flag is set or its
`SyncOnline` under way, and only older versions are being deleted; and what carries the session on.
The last part makes it inductive: at any time there is one packet about the session in all queues
(`Carried`), or one entry in `_waitingForWorld` (`Waiting`), or one `TeleportObject` (`Moving`), or else only
the client can go on (`Resting`). So a player never sets out twice, and the packet
that arrives is the one that its present place has sent (`Fits`). A step of another client leaves all of
that alone (`SessionElsewhere`); one that handles what carries the session on replaces it by one
other (`SessionGoesOn`). Both theorems have two hypotheses on the constants, which `teleport_moves` meets:
`OneSession`, since an account that closes while it waits leaves its SN in `_waitingForWorld`, and
`Patient`, since a client that asks again before it has arrived sets out a second time: without the one or the other
`InOnePlace` is false (see Hazards in PROJECT.json, `lobby.cpp:269` and `world_proxy.cpp:287`). Accounts that
come back are covered for `OnlineFlagSet` by the run `teleport_relogin` only. `OnlineFlagKept` rests
besides on the guard of `Expire`: the key outlives the timer that refreshes it, which has half its period.

Only model-checked: the liveness properties, and with them the fair `BroadcastSpec` (liveness is out
of the prover's reach).

### Findings

`stream_rest`: `ConnectObj::Send` stops after a partial send with the comment "send it in the next
frame" (`connect_obj.cpp:220`) and returns true; `Network::Epoll` then registers the socket
without `EPOLLOUT` (`network.cpp:231`). The rest stays in the buffer until some other packet is
sent on the same socket, for ever if none is.

`teleport_hang`: the loop in `WorldComponentTeleport::HandleBroadcastCreateWorldProxy` ("all the
waiting players jump to it", `world_component_teleport.cpp:124`) finds the same object again when
`Check` returned false because the player's data has not come yet. The proxy of the new world
announces itself in the same process, so its packet overtakes the round trip to the old world's
space process easily; the thread never leaves the loop.

`world_proxy_twice`: the locator checks `_publics` for a world before it has a proxy made
(`world_proxy_locator.cpp:83`), but the proxy registers itself on another thread, a packet later.
A space process's announcement and the appmgr's answer to a request that was sent meanwhile both
pass, and a second `WorldProxy` with the same SN is made, which
the locator and `ComponentCollections::Add` log as an error.

## 3. Plan

Done, in this order:

1. **PacketDispatch**, refining **PacketBroadcast**; theorems on type, use after free, counts.
2. **RingBuffer**, **ConnectStream**, refining **PacketChannel**; theorems on the rings and on the
   refinement.
3. **Teleport**: players between lobby, world proxies and worlds, the versioned online flag of the
   game, closing clients; theorems on World and WorldProxy, and on the place and the flag of a player.
4. **WorldCreate**: worlds over appmgr, game and space, with failing space processes; theorems on
   the appmgr's tables and the locator.
5. **Login**: the login flag in Redis over several login processes; theorem of mutual exclusion.
   It justifies in part what Teleport assumes of a login: Redis lets in one connection of an
   account at a time, but a token may reach a connection that Redis has not let in (see Login).
6. **EntityFrame**: components and entities with deferred removal; theorems on all its invariants.

Left:

7. Connect, reconnect and registration of apps (`network_connector`, `network_locator`), and the
   reuse of socket numbers by several connections at a time.
8. Shutdown of the threads.
9. Dungeons in WorldCreate and Teleport; the creation of players in Login.
10. Proofs: `OnlineFlagSet` of Teleport for accounts that come back; what a session leaves in
    `_waitingForWorld`, `_objects` and the queues needs an invariant of its own.

### Not modelled

Drawing up connections (non-blocking connect, select, failing accept), HTTP parsing, the MySQL
and Redis clients' wire formats, configuration and logging are input and output whose state
nothing else depends on. Positions and the appear timer of a World are computed from clock and
floating point. The heap of the timers is the C++ library's, and all timers of this repository
are endless, so none is removed by its own handler. Serial numbers are assumed distinct. Load
figures choose an app; the models let any be chosen. The earlier chapters are older versions of
the same files.
