------------------------------ MODULE Teleport ------------------------------
(***************************************************************************)
(* Players in one game process (apps/game) and in the worlds of the space  *)
(* processes: a client logs in by token to the Lobby, is teleported to the *)
(* WorldProxy of its last world, and from there to other worlds.  While it *)
(* is in the game, PlayerComponentOnlineInGame keeps a versioned flag in   *)
(* Redis.                                                                  *)
(*                                                                         *)
(* The Lobby and every WorldProxy are entities, here each on a thread of   *)
(* its own; all of them get every packet in the same order (that is what   *)
(* PacketBroadcast shows of the engine), so a box holds for each reader    *)
(* the packets that concern it.  All worlds are public ones.               *)
(***************************************************************************)
EXTENDS Integers, Sequences, FiniteSets, SequencesExt

CONSTANTS
  Account,      \* numbers; the account's one player has the same number as SN
  Socket,       \* connections of clients (numbers), each used once
  Owner,        \* the account of each socket
  World,        \* ids of public worlds (for a public world id and SN agree)
  Pending,      \* the worlds that have no proxy in this process initially
  Home,         \* the worlds in which players may be saved initially
  None,         \* nothing
  Patient,      \* clients wait for S2C_EnterWorld before the next C2G_EnterWorld
  MayClose,     \* clients may close their connection
  MaxMove,      \* bound on the number of C2G_EnterWorld
  MaxRefresh    \* bound on the periodic calls of SetOnlineFlag

ASSUME TeleportAssumption ==
  /\ Account \subseteq Nat \ {0}
  /\ Socket \subseteq Nat
  /\ Owner \in [Socket -> Account]
  /\ Pending \subseteq World /\ Home \subseteq World
  /\ None \notin World \cup Socket
  /\ Patient \in BOOLEAN /\ MayClose \in BOOLEAN
  /\ MaxMove \in Nat /\ MaxRefresh \in Nat

Lobby == <<"lobby">>
Net == <<"net">>          \* the listen thread
Redis == <<"redis">>      \* the thread of RedisGame
Db == <<"db">>            \* dbmgr
Space(w) == <<"space", w>>   \* the World of a space process behind a proxy

Place == {Lobby} \cup World
Queue == Place \cup {Net, Redis, Db} \cup {Space(w) : w \in World}

\* A world's id is not the name of something else.
ASSUME NamesAssumption ==
  /\ None # Lobby
  /\ World \cap ({Lobby, Net, Redis, Db} \cup {Space(w) : w \in World}) = {}

VARIABLES
  conn,         \* state of each client connection
  tagged,       \* sockets whose ConnectObj carries the account's tag
  locator,      \* SocketLocator::_componentes
  token,        \* the token in Redis, named after the socket it is meant for
  flag,         \* the online flag in Redis: a version, 0 if there is none
  saved,        \* the last world of each player in the database
  at, want,     \* what the client knows: its world; the world it asked for
  box,          \* packets under way to each reader
  players,      \* PlayerCollectorComponent::_players of each place
  accounts,     \* PlayerCollectorComponent::_accounts of the Lobby
  due,          \* online components whose first timer call is to come
  removed,      \* online components that go to the pool in the next Swap
  frame,        \* the part of its frame each place's thread is in
  waiting,      \* Lobby::_waitingForWorld
  objects,      \* WorldComponentTeleport::_objects of each proxy
  proxies,      \* WorldProxyLocator::_publics: the worlds with a proxy here
  requested,    \* worlds the appmgr has been asked for
  inWorld,      \* PlayerManagerComponent::_players of each World
  hung,         \* places whose thread never leaves a loop again
  crashed,      \* the process died of a null pointer
  moves, refreshes      \* counters that bound the model

client == <<conn, at, want, moves>>
redis == <<token, flag>>
thread == <<due, removed, frame, refreshes>>
lobby == <<accounts, waiting>>
world == <<objects, proxies, requested>>
space == <<inWorld, saved>>
fate == <<hung, crashed>>
vars == <<client, tagged, locator, redis, box, players, thread, lobby, world,
          space, fate>>

(***************************************************************************)
(* Packets.                                                                *)
(***************************************************************************)
LoginByToken(s) == [type |-> "LoginByToken", sock |-> s]
Disconnect(s, tag) == [type |-> "Disconnect", sock |-> s, tag |-> tag]
NetworkListenKey(s) == [type |-> "ListenKey", sock |-> s]
GameToken(a) == [type |-> "GameToken", acct |-> a]
GameTokenRs(a, t) == [type |-> "GameTokenRs", acct |-> a, token |-> t]
QueryPlayer(a) == [type |-> "QueryPlayer", acct |-> a]
SavePlayer(a, w) == [type |-> "SavePlayer", acct |-> a, world |-> w]
QueryPlayerRs(a, w) == [type |-> "QueryPlayerRs", acct |-> a, world |-> w]
BroadcastProxy(w) == [type |-> "BroadcastProxy", world |-> w]
TeleportTo(x, from) == [type |-> "Teleport", player |-> x, from |-> from]
TeleportAfter(a) == [type |-> "TeleportAfter", acct |-> a]
EnterWorld(s, w) == [type |-> "EnterWorld", sock |-> s, world |-> w]
SyncPlayer(a) == [type |-> "SyncPlayer", acct |-> a]
S2GSyncPlayer(a) == [type |-> "S2GSyncPlayer", acct |-> a]
RequestSync(a) == [type |-> "RequestSync", acct |-> a]
RemovePlayer(a) == [type |-> "RemovePlayer", acct |-> a]
PlayerGone(a) == [type |-> "PlayerGone", acct |-> a]
ToClient(a, w) == [type |-> "ToClient", acct |-> a, world |-> w]
Send(s, w) == [type |-> "Send", sock |-> s, world |-> w]
SyncOnline(o) == [type |-> "SyncOnline", acct |-> Owner[o.sock], ver |-> o.ver]
DeleteOnline(o) == [type |-> "DeleteOnline", acct |-> Owner[o.sock], ver |-> o.ver]

\* posts gives each reader the packets that come after those in its box; a
\* thread that replies has taken the first of its own.
Nothing == [q \in Queue |-> <<>>]
To(r, m) == [Nothing EXCEPT ![r] = <<m>>]
ToAll(m) == [q \in Queue |-> IF q \in Place THEN <<m>> ELSE <<>>]

Post(posts) == box' = [q \in Queue |-> box[q] \o posts[q]]
Reply(r, posts) ==
  box' = [q \in Queue |-> (IF q = r THEN Tail(box[q]) ELSE box[q]) \o posts[q]]

\* The thread of q handles a packet of this type.
Handles(q, type) ==
  /\ ~crashed
  /\ box[q] # <<>>
  /\ Head(box[q]).type = type
  /\ q \in Place => q \notin hung /\ frame[q] = "messages"

Message(q) == Head(box[q])

(***************************************************************************)
(* Player, PlayerCollectorComponent and PlayerComponentOnlineInGame.       *)
(***************************************************************************)
NewPlayer(s, sn, ver) == [sock |-> s, sn |-> sn, ver |-> ver]

BySocket(p, s) == {x \in players[p] : x.sock = s}

\* _players is a map ordered by socket: the first player found is the result.
BySn(p, a) ==
  LET found == {x \in players[p] : x.sn = a}
  IN  {x \in found : \A y \in found : x.sock <= y.sock}

ByAccount(a) == {x \in players[Lobby] : x.sock = accounts[a]}

\* Mutated form: ParserFromProto is not called.
IdentifiedNot(x, a) == x

\* Player::ParserFromProto: the player learns its SN.
Identified(x, a) == [x EXCEPT !.sn = a]

\* Mutated form: Awake does not count the version up.
SameVersion(x) == x.ver

\* A component that is made for a Teleport has a newer version than the old one.
NewerVersion(x) == x.ver + 1

Online(x) == [sock |-> x.sock, ver |-> x.ver]

\* The new player's timer is due; NetworkListenKey is left to the caller.
AddPlayer(p, x) ==
  /\ players' = [players EXCEPT ![p] = @ \cup {x}]
  /\ due' = [due EXCEPT ![p] = @ \cup {Online(x)}]

RemovePlayerOf(p, x) ==
  /\ players' = [players EXCEPT ![p] = @ \ {x}]
  /\ removed' = [removed EXCEPT ![p] = @ \cup {Online(x)}]

Init ==
  /\ conn = [s \in Socket |-> "idle"]
  /\ tagged = {}
  /\ locator = [s \in Socket |-> None]
  /\ token = [a \in Account |-> None]
  /\ flag = [a \in Account |-> 0]
  /\ saved \in [Account -> Home]
  /\ at = [s \in Socket |-> None]
  /\ want = [s \in Socket |-> None]
  /\ box = [q \in Queue |-> <<>>]
  /\ players = [p \in Place |-> {}]
  /\ accounts = [a \in Account |-> None]
  /\ due = [p \in Place |-> {}]
  /\ removed = [p \in Place |-> {}]
  /\ frame = [p \in Place |-> "messages"]
  /\ waiting = [w \in World |-> {}]
  /\ objects = [w \in World |-> {}]
  /\ proxies = World \ Pending
  /\ requested = {}
  /\ inWorld = [w \in World |-> {}]
  /\ hung = {}
  /\ crashed = FALSE
  /\ moves = 0
  /\ refreshes = 0

(***************************************************************************)
(* The clients, as the game process meets them.                            *)
(***************************************************************************)
Concerns(m, a) ==
  \/ "acct" \in DOMAIN m /\ m.acct = a
  \/ "sock" \in DOMAIN m /\ Owner[m.sock] = a
  \/ "player" \in DOMAIN m /\ Owner[m.player.sock] = a

\* Nothing of an earlier login of the account is under way: its packets are
\* handled, and its flags set or deleted, before the account logs in again.
Quiet(a) ==
  /\ \A p \in Place \ hung : \A o \in due[p] \cup removed[p] : Owner[o.sock] # a
  /\ \A q \in Queue \ hung : \A i \in 1..Len(box[q]) : ~Concerns(box[q][i], a)

\* The login server has found the account offline and written a token.
Connect(s) ==
  LET a == Owner[s] IN
  /\ ~crashed
  /\ conn[s] = "idle"
  /\ flag[a] = 0
  /\ \A other \in Socket : Owner[other] = a => conn[other] # "open"
  /\ Quiet(a)
  /\ conn' = [conn EXCEPT ![s] = "open"]
  /\ token' = [token EXCEPT ![a] = s]
  /\ Post(To(Lobby, LoginByToken(s)))
  /\ UNCHANGED <<at, want, moves, tagged, locator, flag, players, thread,
                 lobby, world, space, fate>>

Close(s) ==
  /\ ~crashed
  /\ MayClose
  /\ conn[s] = "open"
  /\ conn' = [conn EXCEPT ![s] = "closed"]
  /\ locator' = [locator EXCEPT ![s] = None]
  /\ Post(ToAll(Disconnect(s, s \in tagged)))
  /\ UNCHANGED <<at, want, moves, tagged, redis, players, thread, lobby,
                 world, space, fate>>

ClientEnterWorld(s, w) ==
  /\ ~crashed
  /\ moves < MaxMove
  /\ conn[s] = "open"
  /\ at[s] \in World \ {w}
  /\ Patient => want[s] = None
  /\ moves' = moves + 1
  /\ want' = [want EXCEPT ![s] = w]
  /\ IF s \in tagged /\ locator[s] # None
       THEN Post(To(locator[s], EnterWorld(s, w)))
       ELSE UNCHANGED box
  /\ UNCHANGED <<conn, at, tagged, locator, redis, players, thread, lobby,
                 world, space, fate>>

(***************************************************************************)
(* The listen thread and Redis and dbmgr, which answer one packet a step.  *)
(***************************************************************************)
\* MI_NetworkListenKey: the ConnectObj of the socket gets the account's tag.
HandleNetworkListenKey ==
  /\ Handles(Net, "ListenKey")
  /\ LET s == Message(Net).sock
     IN  tagged' = IF conn[s] = "open" THEN tagged \cup {s} ELSE tagged
  /\ Reply(Net, Nothing)
  /\ UNCHANGED <<client, locator, redis, players, thread, lobby, world, space,
                 fate>>

\* S2C_EnterWorld reaches the client.
SendToClient ==
  /\ Handles(Net, "Send")
  /\ LET s == Message(Net).sock IN
       /\ at' = IF conn[s] = "open" THEN [at EXCEPT ![s] = Message(Net).world]
                                    ELSE at
       /\ want' = IF conn[s] = "open" THEN [want EXCEPT ![s] = None] ELSE want
  /\ Reply(Net, Nothing)
  /\ UNCHANGED <<conn, moves, tagged, locator, redis, players, thread, lobby,
                 world, space, fate>>

HandleGameTokenToRedis ==
  /\ Handles(Redis, "GameToken")
  /\ LET a == Message(Redis).acct IN
       /\ token' = [token EXCEPT ![a] = None]
       /\ Reply(Redis, To(Lobby, GameTokenRs(a, token[a])))
  /\ UNCHANGED <<client, tagged, locator, flag, players, thread, lobby, world,
                 space, fate>>

\* Mutated form: the versions are not compared.
SetFlagAlways(m, value) ==
  /\ flag' = [flag EXCEPT ![m.acct] = value]
  /\ Reply(Redis, Nothing)
  /\ UNCHANGED <<client, tagged, locator, token, players, thread, lobby, world,
                 space, fate>>

\* A version that is older than the flag's changes nothing.
SetFlag(m, value) ==
  /\ flag' = IF m.ver < flag[m.acct] THEN flag
                                     ELSE [flag EXCEPT ![m.acct] = value]
  /\ Reply(Redis, Nothing)
  /\ UNCHANGED <<client, tagged, locator, token, players, thread, lobby, world,
                 space, fate>>

HandlePlayerSyncOnlineToRedis ==
  Handles(Redis, "SyncOnline") /\ SetFlag(Message(Redis), Message(Redis).ver)

HandlePlayerDeleteOnlineToRedis ==
  Handles(Redis, "DeleteOnline") /\ SetFlag(Message(Redis), 0)

HandleQueryPlayer ==
  /\ Handles(Db, "QueryPlayer")
  /\ LET a == Message(Db).acct
     IN  Reply(Db, To(Lobby, QueryPlayerRs(a, saved[a])))
  /\ UNCHANGED <<client, tagged, locator, redis, players, thread, lobby, world,
                 space, fate>>

HandleSavePlayer ==
  /\ Handles(Db, "SavePlayer")
  /\ saved' = [saved EXCEPT ![Message(Db).acct] = Message(Db).world]
  /\ Reply(Db, Nothing)
  /\ UNCHANGED <<client, tagged, locator, redis, players, thread, lobby, world,
                 inWorld, fate>>

\* The flag's timeout: only the flag of an account that no place refreshes.
Expire(a) ==
  LET Of(O) == {o \in O : Owner[o.sock] = a} IN
  /\ ~crashed
  /\ flag[a] # 0
  /\ \A p \in Place \ hung :
       Of(players[p]) = {} /\ Of(due[p]) = {} /\ Of(removed[p]) = {}
  /\ \A i \in 1..Len(box[Redis]) :
       box[Redis][i].type = "SyncOnline" => box[Redis][i].acct # a
  /\ flag' = [flag EXCEPT ![a] = 0]
  /\ UNCHANGED <<client, tagged, locator, token, box, players, thread, lobby,
                 world, space, fate>>

(***************************************************************************)
(* The rest of a place's frame: its timers, then the next frame's Swap.    *)
(***************************************************************************)
\* One packet for each element of S, in some order.
Each(S, Packet(_)) == {[i \in 1..Len(all) |-> Packet(all[i])] : all \in SetToSeqs(S)}

Alive(p) == ~crashed /\ p \notin hung

\* SetOnlineFlag of each timer that is due.
TimerUpdate(p) ==
  /\ Alive(p) /\ frame[p] = "messages"
  /\ due[p] \cup removed[p] # {}
  /\ \E packets \in Each(due[p], SyncOnline) : Post([Nothing EXCEPT ![Redis] = packets])
  /\ due' = [due EXCEPT ![p] = {}]
  /\ frame' = [frame EXCEPT ![p] = "entities"]
  /\ UNCHANGED <<client, tagged, locator, redis, players, removed, refreshes,
                 lobby, world, space, fate>>

\* Removed components go to the pool, which deletes their flags.
EntityUpdate(p) ==
  /\ Alive(p) /\ frame[p] = "entities"
  /\ \E packets \in Each(removed[p], DeleteOnline) : Post([Nothing EXCEPT ![Redis] = packets])
  /\ removed' = [removed EXCEPT ![p] = {}]
  /\ frame' = [frame EXCEPT ![p] = "messages"]
  /\ UNCHANGED <<client, tagged, locator, redis, players, due, refreshes,
                 lobby, world, space, fate>>

\* Half of the flag's timeout has passed since the player's last SetOnlineFlag.
Period(p) ==
  /\ Alive(p) /\ frame[p] = "messages"
  /\ refreshes < MaxRefresh
  /\ refreshes' = refreshes + 1
  /\ \E x \in players[p] : due' = [due EXCEPT ![p] = @ \cup {Online(x)}]
  /\ UNCHANGED <<client, tagged, locator, redis, box, players, removed, frame,
                 lobby, world, space, fate>>

(***************************************************************************)
(* Lobby.                                                                  *)
(***************************************************************************)
HandleLoginByToken ==
  /\ Handles(Lobby, "LoginByToken")
  /\ LET s == Message(Lobby).sock
         a == Owner[s]
     IN  /\ AddPlayer(Lobby, NewPlayer(s, 0, 1))
         /\ accounts' = [accounts EXCEPT ![a] = s]
         /\ locator' = [locator EXCEPT ![s] = Lobby]
         /\ Reply(Lobby, [Nothing EXCEPT ![Net] = <<NetworkListenKey(s)>>,
                                    ![Redis] = <<GameToken(a)>>])
  /\ UNCHANGED <<client, tagged, redis, removed, frame, refreshes, waiting,
                 world, space, fate>>

\* Also _accounts forgets the account, whichever socket it is at.
RemovePlayerFromLobby(x) ==
  /\ RemovePlayerOf(Lobby, x)
  /\ accounts' = [accounts EXCEPT ![Owner[x.sock]] = None]

\* The packet is dropped.
Ignored(q) ==
  /\ Reply(q, Nothing)
  /\ UNCHANGED <<client, tagged, locator, redis, players, thread, lobby, world,
                 space, fate>>

LobbyDisconnect ==
  /\ Handles(Lobby, "Disconnect")
  /\ LET m == Message(Lobby)
         gone == IF m.tag THEN BySocket(Lobby, m.sock) ELSE {}
     IN  \/ /\ gone = {}
            /\ Ignored(Lobby)
         \/ \E x \in gone :
              /\ RemovePlayerFromLobby(x)
              /\ Reply(Lobby, Nothing)
              /\ UNCHANGED <<client, tagged, locator, redis, due, frame,
                             refreshes, waiting, world, space, fate>>

HandleGameTokenToRedisRs ==
  /\ Handles(Lobby, "GameTokenRs")
  /\ LET m == Message(Lobby)
         valid == {x \in ByAccount(m.acct) : x.sock = m.token}
     IN  Reply(Lobby, IF valid = {} THEN Nothing ELSE To(Db, QueryPlayer(m.acct)))
  /\ UNCHANGED <<client, tagged, locator, redis, players, thread, lobby, world,
                 space, fate>>

\* EnterPublicWorld: teleport, or wait for the world's proxy; only the first
\* that waits asks the appmgr for the world.
HandleQueryPlayerRs ==
  /\ Handles(Lobby, "QueryPlayerRs")
  /\ LET m == Message(Lobby) IN
       \/ /\ ByAccount(m.acct) = {}
          /\ Ignored(Lobby)
       \/ \E x \in ByAccount(m.acct) :
            LET y == Identified(x, m.acct) IN
            /\ players' = [players EXCEPT ![Lobby] = (@ \ {x}) \cup {y}]
            /\ IF m.world \in proxies
                 THEN /\ Reply(Lobby, To(m.world, TeleportTo(y, Lobby)))
                      /\ UNCHANGED <<waiting, requested>>
                 ELSE /\ Reply(Lobby, Nothing)
                      /\ waiting' = [waiting EXCEPT ![m.world] = @ \cup {y.sn}]
                      /\ requested' = IF waiting[m.world] = {}
                                        THEN requested \cup {m.world}
                                        ELSE requested
            /\ UNCHANGED <<client, tagged, locator, redis, thread, accounts,
                           objects, proxies, space, fate>>

\* Teleports of the players of S from p, in the order of their SN.
Teleports(S, p) ==
  {[i \in 1..Len(order) |-> TeleportTo(order[i], p)] :
     order \in {o \in SetToSeqs(S) : \A i, j \in 1..Len(o) : i < j => o[i].sn <= o[j].sn}}

LobbyBroadcastCreateWorldProxy ==
  /\ Handles(Lobby, "BroadcastProxy")
  /\ LET w == Message(Lobby).world
         ready == UNION {BySn(Lobby, a) : a \in waiting[w]}
     IN  /\ \E packets \in Teleports(ready, Lobby) :
              Reply(Lobby, [Nothing EXCEPT ![w] = packets])
         /\ waiting' = [waiting EXCEPT ![w] = {}]
  /\ UNCHANGED <<client, tagged, locator, redis, players, thread, accounts,
                 world, space, fate>>

LobbyTeleportAfter ==
  /\ Handles(Lobby, "TeleportAfter")
  /\ LET found == BySn(Lobby, Message(Lobby).acct) IN
       \/ /\ found = {}
          /\ Ignored(Lobby)
       \/ \E x \in found :
            /\ RemovePlayerFromLobby(x)
            /\ Reply(Lobby, Nothing)
            /\ UNCHANGED <<client, tagged, locator, redis, due, frame,
                           refreshes, waiting, world, space, fate>>

(***************************************************************************)
(* WorldProxy and WorldComponentTeleport.                                  *)
(***************************************************************************)
\* MI_Teleport.  The player is created whether or not its client is still
\* connected; the version of the flag becomes one more than at the old place.
HandleTeleport(w) ==
  /\ Handles(w, "Teleport")
  /\ LET old == Message(w).player
         x == NewPlayer(old.sock, old.sn, NewerVersion(old))
     IN  \/ /\ BySocket(w, x.sock) # {}
            /\ Ignored(w)
         \/ /\ BySocket(w, x.sock) = {}
            /\ AddPlayer(w, x)
            /\ locator' = [locator EXCEPT ![x.sock] = w]
            /\ Reply(w, [Nothing EXCEPT ![Net] = <<NetworkListenKey(x.sock)>>,
                                        ![Space(w)] = <<SyncPlayer(x.sn)>>,
                                        ![Message(w).from] = <<TeleportAfter(x.sn)>>])
            /\ UNCHANGED <<client, tagged, redis, removed, frame, refreshes,
                           lobby, world, space, fate>>

\* The player leaves the place, and its World too.
Leave(w, x, packet) ==
  /\ RemovePlayerOf(w, x)
  /\ Reply(w, To(Space(w), packet))
  /\ UNCHANGED <<client, tagged, locator, redis, due, frame, refreshes, lobby,
                 world, space, fate>>

\* Mutated forms: the player stays at the old place; its World is not told.
HandleTeleportAfterKept(w) == Handles(w, "TeleportAfter") /\ Ignored(w)

HandleTeleportAfterSilent(w) ==
  /\ Handles(w, "TeleportAfter")
  /\ \E x \in BySn(w, Message(w).acct) : RemovePlayerOf(w, x)
  /\ Reply(w, Nothing)
  /\ UNCHANGED <<client, tagged, locator, redis, due, frame, refreshes, lobby,
                 world, space, fate>>

HandleTeleportAfter(w) ==
  /\ Handles(w, "TeleportAfter")
  /\ LET a == Message(w).acct IN
       \/ BySn(w, a) = {} /\ Ignored(w)
       \/ \E x \in BySn(w, a) : Leave(w, x, RemovePlayer(a))

HandleNetworkDisconnect(w) ==
  /\ Handles(w, "Disconnect")
  /\ LET m == Message(w)
         gone == IF m.tag THEN BySocket(w, m.sock) ELSE {}
     IN  \/ gone = {} /\ Ignored(w)
         \/ \E x \in gone : Leave(w, x, PlayerGone(x.sn))

IsTeleporting(w, x) == \E o \in objects[w] : o.sn = x.sn

\* CreateTeleportObject: the world's SN is set at once if the world has a
\* proxy, else the world is requested; the player's data is always requested.
HandleC2GEnterWorld(w) ==
  /\ Handles(w, "EnterWorld")
  /\ LET m == Message(w)
         free == {x \in BySocket(w, m.sock) : ~IsTeleporting(w, x)}
     IN  \/ free = {} /\ Ignored(w)
         \/ \E x \in free :
              /\ objects' = [objects EXCEPT ![w] = @ \cup
                   {[sn |-> x.sn, target |-> m.world,
                     world |-> m.world \in proxies, sync |-> FALSE]}]
              /\ requested' = IF m.world \in proxies
                                THEN requested ELSE requested \cup {m.world}
              /\ Reply(w, To(Space(w), RequestSync(x.sn)))
              /\ UNCHANGED <<client, tagged, locator, redis, players, thread,
                             lobby, proxies, space, fate>>

\* Mutated form: BroadcastSyncPlayer does not call Check.
HandleS2GSyncPlayerUnchecked(w) ==
  /\ Handles(w, "S2GSyncPlayer")
  /\ objects' = [objects EXCEPT ![w] =
       {IF o.sn = Message(w).acct THEN [o EXCEPT !.sync = TRUE] ELSE o : o \in @}]
  /\ Reply(w, Nothing)
  /\ UNCHANGED <<client, tagged, locator, redis, players, thread, lobby,
                 proxies, requested, space, fate>>

\* S2G_SyncPlayer: the data is there; Check teleports if the world is too.
HandleS2GSyncPlayer(w) ==
  /\ Handles(w, "S2GSyncPlayer")
  /\ LET a == Message(w).acct
         mine == {o \in objects[w] : o.sn = a}
     IN  \/ /\ BySn(w, a) = {} \/ mine = {}
            /\ Ignored(w)
         \/ \E x \in BySn(w, a), o \in mine :
              /\ objects' = [objects EXCEPT ![w] =
                   (@ \ {o}) \cup IF o.world THEN {}
                                  ELSE {[o EXCEPT !.sync = TRUE]}]
              /\ Reply(w, IF o.world THEN To(o.target, TeleportTo(x, w)) ELSE Nothing)
              /\ UNCHANGED <<client, tagged, locator, redis, players, thread,
                             lobby, proxies, requested, space, fate>>

\* The objects for target t that the loop finds and erases, in the order of
\* their SN: those before the first whose player's data has not arrived.
Checked(w, t) ==
  {o \in objects[w] :
     /\ o.target = t /\ o.sync
     /\ \A k \in objects[w] : k.target = t /\ ~k.sync => o.sn < k.sn}

\* Check returns FALSE for an object without the player's data, and the loop
\* finds the same object again: the thread never leaves it.  For a player that
\* has left, Check passes a null pointer to Teleport.
HandleBroadcastCreateWorldProxy(w) ==
  /\ Handles(w, "BroadcastProxy")
  /\ LET t == Message(w).world
         checked == Checked(w, t)
     IN  \/ /\ \E o \in checked : BySn(w, o.sn) = {}
            /\ crashed' = TRUE
            /\ UNCHANGED <<box, objects, hung>>
         \/ /\ \A o \in checked : BySn(w, o.sn) # {}
            /\ \E packets \in Teleports(UNION {BySn(w, o.sn) : o \in checked}, w) :
                 Reply(w, [Nothing EXCEPT ![t] = packets])
            /\ objects' = [objects EXCEPT ![w] = @ \ checked]
            /\ hung' = IF \E o \in objects[w] \ checked : o.target = t
                         THEN hung \cup {w} ELSE hung
            /\ UNCHANGED crashed
  /\ UNCHANGED <<client, tagged, locator, redis, players, thread, lobby,
                 proxies, requested, space>>

(***************************************************************************)
(* The appmgr has had the world created in a space process, and its        *)
(* WorldProxy awakes here: it is registered before it tells the others.    *)
(***************************************************************************)
ProxyAwake(w) ==
  /\ ~crashed
  /\ w \in requested \ proxies
  /\ proxies' = proxies \cup {w}
  /\ Post(ToAll(BroadcastProxy(w)))
  /\ UNCHANGED <<client, tagged, locator, redis, players, thread, lobby,
                 objects, requested, space, fate>>

(***************************************************************************)
(* World, in a space process.                                              *)
(***************************************************************************)
HandleSyncPlayer(w) ==
  /\ Handles(Space(w), "SyncPlayer")
  /\ LET a == Message(Space(w)).acct IN
       /\ inWorld' = [inWorld EXCEPT ![w] = @ \cup {a}]
       /\ Reply(Space(w), IF a \in inWorld[w] THEN Nothing ELSE To(w, ToClient(a, w)))
  /\ UNCHANGED <<client, tagged, locator, redis, players, thread, lobby, world,
                 saved, fate>>

HandleRequestSyncPlayer(w) ==
  /\ Handles(Space(w), "RequestSync")
  /\ LET a == Message(Space(w)).acct
     IN  Reply(Space(w), IF a \in inWorld[w] THEN To(w, S2GSyncPlayer(a)) ELSE Nothing)
  /\ UNCHANGED <<client, tagged, locator, redis, players, thread, lobby, world,
                 space, fate>>

HandleG2SRemovePlayer(w) ==
  /\ Handles(Space(w), "RemovePlayer")
  /\ inWorld' = [inWorld EXCEPT ![w] = @ \ {Message(Space(w)).acct}]
  /\ Reply(Space(w), Nothing)
  /\ UNCHANGED <<client, tagged, locator, redis, players, thread, lobby, world,
                 saved, fate>>

\* Mutated form: the player is saved but not removed.
WorldDisconnectKept(w) ==
  /\ Handles(Space(w), "PlayerGone")
  /\ Reply(Space(w), To(Db, SavePlayer(Message(Space(w)).acct, w)))
  /\ UNCHANGED <<client, tagged, locator, redis, players, thread, lobby, world,
                 space, fate>>

\* A player whose client is gone is saved as being in this world.
WorldDisconnect(w) ==
  /\ Handles(Space(w), "PlayerGone")
  /\ LET a == Message(Space(w)).acct IN
       /\ inWorld' = [inWorld EXCEPT ![w] = @ \ {a}]
       /\ Reply(Space(w), IF a \in inWorld[w] THEN To(Db, SavePlayer(a, w)) ELSE Nothing)
  /\ UNCHANGED <<client, tagged, locator, redis, players, thread, lobby, world,
                 saved, fate>>

\* HandleDefaultFunction passes a packet of the World on to the client.
HandleDefaultFunction(w) ==
  /\ Handles(w, "ToClient")
  /\ \/ /\ BySn(w, Message(w).acct) = {}
        /\ Reply(w, Nothing)
     \/ \E x \in BySn(w, Message(w).acct) :
          Reply(w, To(Net, Send(x.sock, Message(w).world)))
  /\ UNCHANGED <<client, tagged, locator, redis, players, thread, lobby, world,
                 space, fate>>

(***************************************************************************)
(* The system.                                                             *)
(***************************************************************************)
ClientStep == \E s \in Socket :
  Connect(s) \/ Close(s) \/ \E w \in World : ClientEnterWorld(s, w)

NetStep == HandleNetworkListenKey \/ SendToClient

RedisStep ==
  \/ HandleGameTokenToRedis
  \/ HandlePlayerSyncOnlineToRedis
  \/ HandlePlayerDeleteOnlineToRedis

DbStep == HandleQueryPlayer \/ HandleSavePlayer

LobbyHandler ==
  \/ HandleLoginByToken
  \/ LobbyDisconnect
  \/ HandleGameTokenToRedisRs
  \/ HandleQueryPlayerRs
  \/ LobbyBroadcastCreateWorldProxy
  \/ LobbyTeleportAfter

ProxyHandler(w) ==
  \/ HandleTeleport(w)
  \/ HandleTeleportAfter(w)
  \/ HandleNetworkDisconnect(w)
  \/ HandleC2GEnterWorld(w)
  \/ HandleS2GSyncPlayer(w)
  \/ HandleBroadcastCreateWorldProxy(w)
  \/ HandleDefaultFunction(w)

SpaceStep(w) ==
  \/ HandleSyncPlayer(w)
  \/ HandleRequestSyncPlayer(w)
  \/ HandleG2SRemovePlayer(w)
  \/ WorldDisconnect(w)

\* A thread's frame goes on, whether or not there are packets.
FrameStep(p) == TimerUpdate(p) \/ EntityUpdate(p)

Next ==
  \/ ClientStep
  \/ NetStep
  \/ RedisStep
  \/ DbStep
  \/ LobbyHandler
  \/ \E w \in World : ProxyHandler(w) \/ SpaceStep(w) \/ ProxyAwake(w)
  \/ \E p \in Place : FrameStep(p) \/ Period(p)
  \/ \E a \in Account : Expire(a)

Spec == Init /\ [][Next]_vars

\* Every thread runs its frames and every process answers; nobody makes a
\* client act, a timer's period pass or a flag expire.
Fairness ==
  /\ WF_vars(NetStep)
  /\ WF_vars(RedisStep)
  /\ WF_vars(DbStep)
  /\ WF_vars(LobbyHandler)
  /\ \A w \in World :
       WF_vars(ProxyHandler(w)) /\ WF_vars(SpaceStep(w)) /\ WF_vars(ProxyAwake(w))
  /\ \A p \in Place : WF_vars(FrameStep(p))

LiveSpec == Spec /\ Fairness

(***************************************************************************)
(* Properties.                                                             *)
(***************************************************************************)
\* Every variable keeps its shape: sockets, SNs and versions of players, flags
\* and teleport objects are those the handlers can produce.
TypeOK ==
  /\ conn \in [Socket -> {"idle", "open", "closed"}]
  /\ tagged \subseteq Socket
  /\ locator \in [Socket -> Place \cup {None}]
  /\ token \in [Account -> Socket \cup {None}]
  /\ flag \in [Account -> Nat]
  /\ saved \in [Account -> World]
  /\ at \in [Socket -> World \cup {None}]
  /\ want \in [Socket -> World \cup {None}]
  /\ DOMAIN box = Queue
  /\ \A p \in Place :
       /\ \A x \in players[p] : x.sock \in Socket /\ x.sn \in Account \cup {0}
                               /\ x.ver \in Nat \ {0}
       /\ \A o \in due[p] \cup removed[p] : o.sock \in Socket /\ o.ver \in Nat \ {0}
       /\ frame[p] \in {"messages", "entities"}
  /\ accounts \in [Account -> Socket \cup {None}]
  /\ waiting \in [World -> SUBSET Account]
  /\ \A w \in World : \A o \in objects[w] :
       o.sn \in Account /\ o.target \in World /\ o.world \in BOOLEAN /\ o.sync \in BOOLEAN
  /\ proxies \subseteq World /\ requested \subseteq World
  /\ inWorld \in [World -> SUBSET Account]
  /\ hung \subseteq Place /\ crashed \in BOOLEAN
  /\ moves \in 0..MaxMove /\ refreshes \in 0..MaxRefresh

Has(q, m) == \E i \in 1..Len(box[q]) : box[q][i] = m

\* A connected client's player is at two places only while it moves from the
\* one with the older version of the flag to the other, and then MI_TeleportAfter
\* is under way to the older one (HandleTeleport, HandleTeleportAfter): no
\* sequence of teleports leaves a second copy of a player behind.
InOnePlace ==
  \A p, q \in Place : \A x \in players[p], y \in players[q] :
    p # q /\ x.sock = y.sock /\ conn[x.sock] = "open" =>
      /\ x.ver # y.ver
      /\ x.ver < y.ver => Has(p, TeleportAfter(x.sn))

\* Whoever is connected and in the game is flagged as online in Redis, or the
\* flag is about to be set, as long as the thread of its place runs: the deletion
\* of the flag by a place that the player has left
\* (PlayerComponentOnlineInGame::BackToPool) never takes away what the place it
\* has gone to has set, in whatever order Redis sees the two.
OnlineFlagSet ==
  \A p \in Place \ hung : \A x \in {y \in players[p] : conn[y.sock] = "open"} :
    \/ flag[Owner[x.sock]] # 0
    \/ \E q \in Place \ hung : \E o \in due[q] : Owner[o.sock] = Owner[x.sock]
    \/ \E i \in 1..Len(box[Redis]) :
         /\ box[Redis][i].type = "SyncOnline"
         /\ box[Redis][i].acct = Owner[x.sock]
    \/ Has(p, TeleportAfter(x.sn))

\* Once a World has handled what its WorldProxy sent, both have the same
\* players (G2S_SyncPlayer, G2S_RemovePlayer and MI_NetworkDisconnect keep the
\* player managers of two processes in step).
WorldsAgree ==
  \A w \in World \ hung :
    box[Space(w)] = <<>> => inWorld[w] = {x.sn : x \in players[w]}

\* Where every world has its proxy, a client that stays connected gets into a world
\* after its login, and into each world it asks for, over Teleport and TeleportAfter
\* on the threads of two places and the answers of dbmgr (for a world that has yet
\* to be created this is not so: AllWaitingTeleport).
Arrives ==
  \A s \in Socket :
    /\ conn[s] = "open" ~> at[s] \in World
    /\ \A w \in World : want[s] = w ~> at[s] = w

\* All the players that wait for a public world teleport to it when its proxy
\* has been created (world_component_teleport.cpp:124): none is left waiting.
AllWaitingTeleport ==
  \A w, t \in World :
    LET waits == \E o \in objects[w] : o.target = t
    IN  waits /\ t \in proxies ~> ~waits
=============================================================================
