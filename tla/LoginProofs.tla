----------------------------- MODULE LoginProofs -----------------------------
(***************************************************************************)
(* What holds of Login for any accounts, connections and login processes.  *)
(***************************************************************************)
EXTENDS Login, Queues

(***************************************************************************)
(* Type correctness.                                                       *)
(***************************************************************************)
\* The packets that the actions make are packets, and their types differ.
LEMMA PacketTypes ==
  /\ \A c \in Conn :
       /\ {AccountCheck(c), SelectPlayer(c), Disconnect(c)} \subseteq Packets
       /\ AccountCheck(c).type = "AccountCheck"
       /\ SelectPlayer(c).type = "SelectPlayer"
       /\ Disconnect(c).type = "Disconnect"
  /\ \A a \in Account : \A o \in BOOLEAN :
       QueryOnlineRs(a, o) \in Packets /\ QueryOnlineRs(a, o).type = "QueryOnlineRs"
  /\ \A a \in Account : TokenRs(a) \in Packets /\ TokenRs(a).type = "TokenRs"
  /\ \A q \in [of : {"Connected", "HttpRs", "PlayerListRs"}, at : Server, by : Conn, acct : Account] :
       OuterRs(q) \in Packets /\ OuterRs(q).type # "QueryOnlineRs"
  /\ \A a \in Account :
       {QueryOnline(a), SyncOnline(a), DeleteOnline(a), LoginToken(a)} \subseteq RedisPackets
<1>1. ASSUME NEW c \in Conn
      PROVE  /\ {AccountCheck(c), SelectPlayer(c), Disconnect(c)} \subseteq Packets
             /\ AccountCheck(c).type = "AccountCheck"
             /\ SelectPlayer(c).type = "SelectPlayer"
             /\ Disconnect(c).type = "Disconnect"
  <2>1. {AccountCheck(c), SelectPlayer(c), Disconnect(c)} \subseteq Packets
    BY DEF Packets
  <2> QED BY <2>1 DEF AccountCheck, SelectPlayer, Disconnect
<1>2. ASSUME NEW a \in Account, NEW o \in BOOLEAN
      PROVE  QueryOnlineRs(a, o) \in Packets /\ QueryOnlineRs(a, o).type = "QueryOnlineRs"
  BY DEF Packets, QueryOnlineRs
<1>3. ASSUME NEW a \in Account
      PROVE  TokenRs(a) \in Packets /\ TokenRs(a).type = "TokenRs"
  BY DEF Packets, TokenRs
<1>4. ASSUME NEW q \in [of : {"Connected", "HttpRs", "PlayerListRs"}, at : Server, by : Conn,
                        acct : Account]
      PROVE  OuterRs(q) \in Packets /\ OuterRs(q).type # "QueryOnlineRs"
  BY DEF Packets, OuterRs
<1>5. ASSUME NEW a \in Account
      PROVE  {QueryOnline(a), SyncOnline(a), DeleteOnline(a), LoginToken(a)} \subseteq RedisPackets
  BY DEF RedisPackets, QueryOnline, SyncOnline, DeleteOnline, LoginToken
<1> QED BY <1>1, <1>2, <1>3, <1>4, <1>5

\* What a packet of a type carries.
LEMMA PacketFields ==
  /\ \A m \in Packets :
       /\ m.type \in {"AccountCheck", "SelectPlayer", "Disconnect"} => m.conn \in Conn
       /\ m.type = "QueryOnlineRs" =>
            m.offline \in BOOLEAN /\ m.acct \in Account /\ m = QueryOnlineRs(m.acct, m.offline)
       /\ m.type \in {"Connected", "HttpRs", "PlayerListRs", "TokenRs"} => m.acct \in Account
  /\ \A m \in RedisPackets :
       /\ m.acct \in Account
       /\ m.type = "QueryOnline" => m = QueryOnline(m.acct)
       /\ m.type = "SyncOnline" => m = SyncOnline(m.acct)
       /\ m.type = "DeleteOnline" => m = DeleteOnline(m.acct)
       /\ m.type = "LoginToken" => m = LoginToken(m.acct)
BY DEF Packets, RedisPackets, AccountCheck, SelectPlayer, Disconnect, QueryOnlineRs,
       QueryOnline, SyncOnline, DeleteOnline, LoginToken

\* The queues stay queues of packets.
LEMMA QueueTypes ==
  ASSUME TypeOK, NEW l \in Server
  PROVE  /\ \A m \in Packets : Append(box[l], m) \in Seq(Packets)
         /\ box[l] # <<>> => Tail(box[l]) \in Seq(Packets) /\ Head(box[l]) \in Packets
         /\ \A m \in RedisPackets : Append(redis[l], m) \in Seq(RedisPackets)
         /\ redis[l] # <<>> => Tail(redis[l]) \in Seq(RedisPackets) /\ Head(redis[l]) \in RedisPackets
         /\ <<>> \in Seq(Packets) /\ <<>> \in Seq(RedisPackets)
BY AppendQueue, TailQueue DEF TypeOK

\* A packet for RedisLogin does not disturb the one it handles.
LEMMA ToRedis ==
  ASSUME TypeOK, NEW l \in Server, NEW m \in RedisPackets,
         redis' = [redis EXCEPT ![l] = Append(redis[l], m)], UNCHANGED step
  PROVE  redis' \in [Server -> Seq(RedisPackets)] /\ Underway'
<1>1. redis \in [Server -> Seq(RedisPackets)] /\ Underway
  BY DEF TypeOK
<1>2. /\ Append(redis[l], m) \in Seq(RedisPackets) /\ Append(redis[l], m) # <<>>
      /\ redis[l] # <<>> => Head(Append(redis[l], m)) = Head(redis[l])
  BY <1>1, AppendQueue
<1> QED BY <1>1, <1>2 DEF Underway

\* Nor does a step that leaves the thread of RedisLogin alone.
LEMMA SameUnderway ==
  ASSUME TypeOK, UNCHANGED <<redis, step>> PROVE Underway'
BY DEF TypeOK, Underway

\* The questions that are asked are questions.
LEMMA QuestionTypes ==
  ASSUME NEW l \in Server, NEW c \in Conn
  PROVE  {CreateConnect(l, c), HttpRequest(l, c), QueryPlayerList(l, c)}
           \subseteq [of : {"Connected", "HttpRs", "PlayerListRs"}, at : Server, by : Conn,
                      acct : Account]
BY LoginAssumption DEF CreateConnect, HttpRequest, QueryPlayerList, Question

LEMMA InitType == Init => TypeOK
BY LoginAssumption DEF Init, TypeOK, Underway

\* What clients do keeps the types.
LEMMA ClientType ==
  ASSUME TypeOK, NEW c \in Conn, ClientStep(c) PROVE TypeOK'
<1>1. ASSUME NEW l \in Server, Connect(c, l) PROVE TypeOK'
  BY <1>1, QueueTypes, PacketTypes, SameUnderway DEF Connect, TypeOK, logic, store, fate
<1>2. CASE Select(c) \/ Close(c)
  <2>1. at[c] \in Server => Append(box[at[c]], SelectPlayer(c)) \in Seq(Packets)
                         /\ Append(box[at[c]], Disconnect(c)) \in Seq(Packets)
    BY QueueTypes, PacketTypes
  <2>2. box' \in [Server -> Seq(Packets)]
    <3>1. /\ box \in [Server -> Seq(Packets)]
          /\ \/ box' = [box EXCEPT ![at[c]] = Append(box[at[c]], SelectPlayer(c))]
             \/ box' = [box EXCEPT ![at[c]] = Append(box[at[c]], Disconnect(c))]
      BY <1>2 DEF Select, Close, TypeOK
    <3> QED BY <2>1, <3>1
  <2>3. /\ conn' \in [Conn -> {"new", "open", "closing", "closed"}]
        /\ got' \in [Conn -> {"nothing", "refused", "list", "selected", "token"}]
    BY <1>2 DEF Select, Close, TypeOK
  <2> QED BY <1>2, <2>2, <2>3, SameUnderway DEF Select, Close, TypeOK, logic, store, fate
<1> QED BY <1>1, <1>2 DEF ClientStep

\* What is told to clients is something they are told.
LEMMA TellType ==
  ASSUME TypeOK, NEW told, NEW what \in {"refused", "list", "token"}, Tell(told, what)
  PROVE  got' \in [Conn -> {"nothing", "refused", "list", "selected", "token"}]
BY DEF Tell, TypeOK

\* What Account does keeps the types.
LEMMA AccountType ==
  ASSUME TypeOK, NEW l \in Server, AccountStep(l) PROVE TypeOK'
<1> USE DEF Handles, Handled, Message, client, logic, store, fate
<1>0. /\ box[l] # <<>> => Tail(box[l]) \in Seq(Packets) /\ Head(box[l]) \in Packets
      /\ \A a \in Account : ByAccount(l, a) \subseteq players[l] /\ ByAccount(l, a) \subseteq Conn
      /\ Owner \in [Conn -> Account]
  BY QueueTypes, LoginAssumption DEF TypeOK, ByAccount
<1>1. CASE HandleAccountCheck(l)
  <2>1. Message(l).conn \in Conn
    BY <1>0, <1>1, PacketFields DEF HandleAccountCheck
  <2>2. got' \in [Conn -> {"nothing", "refused", "list", "selected", "token"}]
    BY <1>1, TellType DEF HandleAccountCheck, TypeOK
  <2> DEFINE c == Message(l).conn
  <2>4. /\ box' = [box EXCEPT ![l] = Tail(box[l])] /\ box[l] # <<>>
        /\ players' = players \/ players' = [players EXCEPT ![l] = players[l] \cup {c}]
        /\ redis' = redis \/ redis' = [redis EXCEPT ![l] = Append(redis[l], QueryOnline(Owner[c]))]
        /\ conn' = conn \/ conn' = [conn EXCEPT ![c] = IF conn[c] = "open" THEN "closing" ELSE conn[c]]
    BY <1>1 DEF HandleAccountCheck
  <2> HIDE DEF c
  <2>5. /\ box \in [Server -> Seq(Packets)] /\ redis \in [Server -> Seq(RedisPackets)]
        /\ players \in [Server -> SUBSET Conn]
        /\ conn \in [Conn -> {"new", "open", "closing", "closed"}]
    BY DEF TypeOK
  <2>6. box' \in [Server -> Seq(Packets)]
    BY <1>0, <2>4, <2>5
  <2>7. redis' \in [Server -> Seq(RedisPackets)] /\ Underway'
    <3>1. QueryOnline(Owner[c]) \in RedisPackets /\ step' = step
      BY <1>0, <1>1, <2>1, PacketTypes DEF c, HandleAccountCheck
    <3> QED BY <2>4, <2>5, <3>1, ToRedis, SameUnderway
  <2>8. conn' \in [Conn -> {"new", "open", "closing", "closed"}]
    BY <2>4, <2>5
  <2>9. players' \in [Server -> SUBSET Conn] /\ \A k \in Server : players[k] \subseteq players'[k]
    <3>1. players[l] \cup {c} \in SUBSET Conn
      BY <2>1, <2>5 DEF c
    <3> QED BY <2>4, <2>5, <3>1
  <2> QED BY <1>1, <2>2, <2>6, <2>7, <2>8, <2>9 DEF HandleAccountCheck, TypeOK
<1>2. CASE HandleAccountQueryOnlineToRedisRs(l)
  <2>1. Message(l).acct \in Account
    BY <1>0, <1>2, PacketFields DEF HandleAccountQueryOnlineToRedisRs
  <2>2. LetThrough(l, Message(l)) \subseteq players[l] /\ LetThrough(l, Message(l)) \subseteq Conn
    BY <1>0, <2>1 DEF LetThrough
  <2>3. got' \in [Conn -> {"nothing", "refused", "list", "selected", "token"}]
    BY <1>2, TellType DEF HandleAccountQueryOnlineToRedisRs
  <2> QED BY <1>0, <1>2, <2>2, <2>3, QuestionTypes, SameUnderway DEF HandleAccountQueryOnlineToRedisRs, TypeOK
<1>3. CASE HandleNetworkConnected(l)
  <2>1. Message(l).acct \in Account
    BY <1>0, <1>3, PacketFields DEF HandleNetworkConnected
  <2> QED BY <1>0, <1>3, <2>1, QuestionTypes, SameUnderway DEF HandleNetworkConnected, TypeOK
<1>4. CASE HandleHttpOuterResponse(l)
  <2>1. Message(l).acct \in Account
    BY <1>0, <1>4, PacketFields DEF HandleHttpOuterResponse
  <2>2. got' \in [Conn -> {"nothing", "refused", "list", "selected", "token"}]
    BY <1>4, TellType DEF HandleHttpOuterResponse, TypeOK
  <2> QED BY <1>0, <1>4, <2>1, <2>2, QuestionTypes, SameUnderway DEF HandleHttpOuterResponse, TypeOK
<1>5. CASE HandleQueryPlayerListRs(l) \/ HandleTokenToRedisRs(l)
  <2>1. got' \in [Conn -> {"nothing", "refused", "list", "selected", "token"}]
    BY <1>5, TellType DEF HandleQueryPlayerListRs, HandleTokenToRedisRs
  <2> QED BY <1>0, <1>5, <2>1, SameUnderway DEF HandleQueryPlayerListRs, HandleTokenToRedisRs, TypeOK
<1>6. CASE HandleSelectPlayer(l)
  <2>1. Message(l).conn \in Conn
    BY <1>0, <1>6, PacketFields DEF HandleSelectPlayer
  <2>2. redis' \in [Server -> Seq(RedisPackets)] /\ Underway'
    <3>1. LoginToken(Owner[Message(l).conn]) \in RedisPackets
      BY <1>0, <2>1, PacketTypes
    <3>2. \/ redis' = redis
          \/ redis' = [redis EXCEPT ![l] = Append(redis[l], LoginToken(Owner[Message(l).conn]))]
      BY <1>6 DEF HandleSelectPlayer
    <3>3. step' = step /\ redis \in [Server -> Seq(RedisPackets)]
      BY <1>6 DEF HandleSelectPlayer, TypeOK
    <3> QED BY <3>1, <3>2, <3>3, ToRedis, SameUnderway
  <2>3. got' \in [Conn -> {"nothing", "refused", "list", "selected", "token"}]
    BY <1>6, TellType DEF HandleSelectPlayer, TypeOK
  <2> QED BY <1>0, <1>6, <2>2, <2>3 DEF HandleSelectPlayer, TypeOK
<1>7. CASE HandleNetworkDisconnect(l)
  BY <1>0, <1>7, SameUnderway DEF HandleNetworkDisconnect, TypeOK
<1> QED BY <1>1, <1>2, <1>3, <1>4, <1>5, <1>6, <1>7 DEF AccountStep

\* What timers and the Swap do keeps the types.
LEMMA ComponentType ==
  ASSUME TypeOK, NEW l \in Server, SetOnlineFlag(l) \/ Swap(l) PROVE TypeOK'
<1> USE DEF client, store, fate
<1>1. Owner \in [Conn -> Account]
  BY LoginAssumption
<1>2. ASSUME NEW c \in due[l],
             due' = [due EXCEPT ![l] = @ \ {c}],
             redis' = [redis EXCEPT ![l] = Append(@, SyncOnline(Owner[c]))],
             UNCHANGED <<client, box, step, players, online, removed, asked, store, fate>>
      PROVE  TypeOK'
  <2>1. SyncOnline(Owner[c]) \in RedisPackets
    BY <1>1, PacketTypes DEF TypeOK
  <2>2. redis' \in [Server -> Seq(RedisPackets)] /\ Underway'
    BY <1>2, <2>1, ToRedis
  <2> QED BY <1>2, <2>2 DEF TypeOK
<1>3. ASSUME NEW c \in removed[l],
             removed' = [removed EXCEPT ![l] = @ \ {c}],
             due' = [due EXCEPT ![l] = @ \ {c}],
             redis' = [redis EXCEPT ![l] = Append(@, DeleteOnline(Owner[c]))],
             UNCHANGED <<client, box, step, players, online, asked, store, fate>>
      PROVE  TypeOK'
  <2>1. DeleteOnline(Owner[c]) \in RedisPackets
    BY <1>1, PacketTypes DEF TypeOK
  <2>2. redis' \in [Server -> Seq(RedisPackets)] /\ Underway'
    BY <1>3, <2>1, ToRedis
  <2> QED BY <1>3, <2>2 DEF TypeOK
<1> QED BY <1>2, <1>3 DEF SetOnlineFlag, Swap, TimersWithout

\* What RedisLogin does keeps the types.
LEMMA RedisType ==
  ASSUME TypeOK, NEW l \in Server, RedisStep(l) PROVE TypeOK'
<1> USE DEF Serves, Served, client, logic, store, fate
<1>1. redis[l] # <<>>
  BY DEF RedisStep, SetnxOnline, ExpireOnline, AnswerQueryOnline, HandleAccountSyncOnlineToRedis,
         HandleAccountDeleteOnlineToRedis, HandleLoginTokenToRedis
<1>2. Acct(l) \in Account /\ Tail(redis[l]) \in Seq(RedisPackets)
  BY <1>1, QueueTypes, PacketFields DEF Acct
<1>3. Underway'
  <2>1. /\ step'[l] = "next" \/ (redis'[l] = redis[l] /\ Head(redis[l]).type = "QueryOnline")
        /\ \A k \in Server \ {l} : step'[k] = step[k] /\ redis'[k] = redis[k]
    BY DEF RedisStep, SetnxOnline, ExpireOnline, AnswerQueryOnline, HandleAccountSyncOnlineToRedis,
           HandleAccountDeleteOnlineToRedis, HandleLoginTokenToRedis, TypeOK
  <2> QED BY <1>1, <2>1 DEF Underway, TypeOK
<1>4. CASE SetnxOnline(l) \/ ExpireOnline(l)
  <2>1. flag' \in [Account -> Server \cup {None}] /\ bare' \subseteq Account
    BY <1>2, <1>4 DEF SetnxOnline, ExpireOnline, WithTimeout, TypeOK
  <2>2. step' \in [Server -> {"next", "expire", "offline", "online"}]
    BY <1>4 DEF SetnxOnline, ExpireOnline, TypeOK
  <2> QED BY <1>3, <1>4, <2>1, <2>2 DEF SetnxOnline, ExpireOnline, TypeOK
<1>5. CASE AnswerQueryOnline(l)
  <2>1. \A o \in BOOLEAN : Append(box[l], QueryOnlineRs(Acct(l), o)) \in Seq(Packets)
    BY <1>2, QueueTypes, PacketTypes
  <2> QED BY <1>2, <1>3, <1>5, <2>1 DEF AnswerQueryOnline, Answers, TypeOK
<1>6. CASE HandleAccountSyncOnlineToRedis(l) \/ HandleAccountDeleteOnlineToRedis(l)
  <2>1. /\ flag' = [flag EXCEPT ![Acct(l)] = l] \/ flag' = [flag EXCEPT ![Acct(l)] = None]
        /\ bare' = bare \ {Acct(l)}
        /\ redis' = [redis EXCEPT ![l] = Tail(redis[l])]
        /\ step' = [step EXCEPT ![l] = "next"]
        /\ UNCHANGED <<client, box, logic, asked, inGame, fate>>
    BY <1>6 DEF HandleAccountSyncOnlineToRedis, HandleAccountDeleteOnlineToRedis
  <2>2. flag' \in [Account -> Server \cup {None}] /\ bare' \subseteq Account
    BY <1>2, <2>1 DEF TypeOK
  <2>3. /\ redis' \in [Server -> Seq(RedisPackets)]
        /\ step' \in [Server -> {"next", "expire", "offline", "online"}]
    BY <1>2, <2>1 DEF TypeOK
  <2> QED BY <1>3, <2>1, <2>2, <2>3 DEF TypeOK
<1>7. CASE HandleLoginTokenToRedis(l)
  <2>1. Append(box[l], TokenRs(Acct(l))) \in Seq(Packets)
    BY <1>2, QueueTypes, PacketTypes
  <2> QED BY <1>2, <1>3, <1>7, <2>1 DEF HandleLoginTokenToRedis, Answers, TypeOK
<1> QED BY <1>4, <1>5, <1>6, <1>7 DEF RedisStep

\* What goes on around the processes keeps the types.
LEMMA OutsideType ==
  ASSUME TypeOK
  PROVE  /\ \A l \in Server : Crash(l) \/ Restart(l) => TypeOK'
         /\ \A q \in asked : Answer(q) \/ HttpFails(q) \/ QueryFails(q) => TypeOK'
         /\ \A a \in Account :
              Expire(a) \/ SyncOnlineInGame(a) \/ DeleteOnlineInGame(a) => TypeOK'
<1> USE DEF client, logic, store, fate
<1>1. ASSUME NEW l \in Server, Crash(l) PROVE TypeOK'
  <2>1. cut' \subseteq Account
    <3>1. step[l] = "expire" => Acct(l) \in Account
      BY <1>1, QueueTypes, PacketFields DEF TypeOK, Underway, Acct
    <3> QED BY <1>1, <3>1 DEF Crash, TypeOK
  <2>2. Underway'
    BY <1>1 DEF Crash, TypeOK, Underway
  <2> QED BY <1>1, <2>1, <2>2, QueueTypes, LoginAssumption DEF Crash, TypeOK
<1>2. ASSUME NEW l \in Server, Restart(l) PROVE TypeOK'
  BY <1>2, SameUnderway DEF Restart, TypeOK
<1>3. ASSUME NEW q \in asked, Answer(q) PROVE TypeOK'
  <2>1. Append(box[q.at], OuterRs(q)) \in Seq(Packets) /\ q.at \in Server
    BY <1>3, QueueTypes, PacketTypes DEF TypeOK
  <2> QED BY <1>3, <2>1, SameUnderway DEF Answer, TypeOK
<1>4. ASSUME NEW q \in asked, HttpFails(q) \/ QueryFails(q) PROVE TypeOK'
  BY <1>4, SameUnderway DEF HttpFails, QueryFails, TypeOK
<1>5. ASSUME NEW a \in Account, Expire(a) \/ SyncOnlineInGame(a) \/ DeleteOnlineInGame(a)
      PROVE  TypeOK'
  BY <1>5, SameUnderway DEF Expire, SyncOnlineInGame, DeleteOnlineInGame, TypeOK
<1> QED BY <1>1, <1>2, <1>3, <1>4, <1>5

\* Every step keeps the types.
LEMMA StepType == TypeOK /\ [Next]_vars => TypeOK'
<1> SUFFICES ASSUME TypeOK, [Next]_vars PROVE TypeOK'
  OBVIOUS
<1>1. CASE UNCHANGED vars
  BY <1>1 DEF vars, client, logic, store, fate, TypeOK, Underway
<1>2. ASSUME NEW l \in Server,
             \/ AccountStep(l) \/ SetOnlineFlag(l) \/ Swap(l) \/ RedisStep(l)
             \/ Crash(l) \/ Restart(l)
      PROVE  TypeOK'
  BY <1>2, AccountType, ComponentType, RedisType, OutsideType
<1>3. ASSUME NEW c \in Conn, ClientStep(c) PROVE TypeOK'
  BY <1>3, ClientType
<1>4. ASSUME NEW q \in asked, Answer(q) \/ HttpFails(q) \/ QueryFails(q) PROVE TypeOK'
  BY <1>4, OutsideType
<1>5. ASSUME NEW a \in Account, Expire(a) \/ SyncOnlineInGame(a) \/ DeleteOnlineInGame(a)
      PROVE  TypeOK'
  BY <1>5, OutsideType
<1> QED BY <1>1, <1>2, <1>3, <1>4, <1>5 DEF Next

\* Every variable keeps its shape, SetnxExpire is at its second command only for
\* the packet that RedisLogin handles, and the timer of SetOnlineFlag lives no
\* longer than its component, for any number of clients and processes.
THEOREM TypeCorrect == Spec => []TypeOK
<1>1. Init => TypeOK
  BY InitType
<1> QED BY <1>1, StepType, PTL DEF Spec

(***************************************************************************)
(* The flag.  Whoever has set it for an account leaves one trace, which    *)
(* wanders through the process: SetnxExpire under way, its answer, the     *)
(* player's component, the component on its way to the pool, the deletion. *)
(* While there is such a trace the flag stands and is this process's, so   *)
(* SETNX fails elsewhere, and the one deletion ends the last trace.        *)
(***************************************************************************)
\* RedisLogin's answer that the account is not online, so that it may log in.
OfflineRs(a) == QueryOnlineRs(a, TRUE)

Asking(l, a) == step[l] \in {"expire", "offline"} /\ Acct(l) = a
Offline(l, a) == In(box[l], OfflineRs(a))
Present(l, a) == \E c \in online[l] : Owner[c] = a
Leaving(l, a) == \E c \in removed[l] : Owner[c] = a
Deleting(l, a) == In(redis[l], DeleteOnline(a))
Syncing(l, a) == In(redis[l], SyncOnline(a))

Trace(l, a) ==
  Asking(l, a) \/ Offline(l, a) \/ Present(l, a) \/ Leaving(l, a) \/ Deleting(l, a)

\* There is one trace at most.
OneTrace(l, a) ==
  /\ Asking(l, a) => ~Offline(l, a) /\ ~Present(l, a) /\ ~Leaving(l, a) /\ ~Deleting(l, a)
  /\ Offline(l, a) => ~Present(l, a) /\ ~Leaving(l, a) /\ ~Deleting(l, a)
  /\ Present(l, a) => ~Leaving(l, a) /\ ~Deleting(l, a)
  /\ Leaving(l, a) => ~Deleting(l, a)
  /\ Once(box[l], OfflineRs(a))
  /\ Once(redis[l], DeleteOnline(a))
  /\ \A c, d \in removed[l] : Owner[c] = a /\ Owner[d] = a => c = d

\* The flag is written again only before it is deleted.
SyncsFirst(l, a) ==
  /\ Syncing(l, a) => Present(l, a) \/ Leaving(l, a) \/ Deleting(l, a)
  /\ Before(redis[l], SyncOnline(a), DeleteOnline(a))

Claim(l, a) ==
  /\ Trace(l, a) => flag[a] = l
  /\ OneTrace(l, a)
  /\ SyncsFirst(l, a)

\* AddPlayer is called only for an account without a player.
OnePlayer ==
  \A l \in Server : \A c, d \in players[l] : Owner[c] = Owner[d] => c = d

IInv == TypeOK /\ OnePlayer /\ \A l \in Server, a \in Account : Claim(l, a)

\* The packets that traces consist of differ from all others and by account.
LEMMA Different ==
  /\ \A a, b \in Account :
       /\ SyncOnline(a) # DeleteOnline(b)
       /\ DeleteOnline(a) = DeleteOnline(b) => a = b
       /\ SyncOnline(a) = SyncOnline(b) => a = b
       /\ QueryOnlineRs(a, FALSE) # OfflineRs(b)
       /\ OfflineRs(a) = OfflineRs(b) => a = b
       /\ QueryOnline(a) # SyncOnline(b) /\ QueryOnline(a) # DeleteOnline(b)
       /\ LoginToken(a) # SyncOnline(b) /\ LoginToken(a) # DeleteOnline(b)
  /\ \A m \in Packets : \A b \in Account :
       m.type # "QueryOnlineRs" => m # OfflineRs(b)
<1>1. \A a \in Account : /\ SyncOnline(a).type = "SyncOnline" /\ SyncOnline(a).acct = a
                         /\ DeleteOnline(a).type = "DeleteOnline" /\ DeleteOnline(a).acct = a
                         /\ QueryOnline(a).type = "QueryOnline"
                         /\ LoginToken(a).type = "LoginToken"
  BY DEF SyncOnline, DeleteOnline, QueryOnline, LoginToken
<1>2. \A a \in Account :
        /\ OfflineRs(a).type = "QueryOnlineRs" /\ OfflineRs(a).acct = a
        /\ \A b \in Account : QueryOnlineRs(a, FALSE) # OfflineRs(b)
  BY DEF QueryOnlineRs, OfflineRs
<1> HIDE DEF SyncOnline, DeleteOnline, QueryOnline, LoginToken, QueryOnlineRs
<1>3. \A a, b \in Account :
        /\ QueryOnlineRs(a, FALSE) # OfflineRs(b)
        /\ OfflineRs(a) = OfflineRs(b) => a = b
  BY <1>2
<1>4. \A a, b \in Account :
       /\ SyncOnline(a) # DeleteOnline(b)
       /\ DeleteOnline(a) = DeleteOnline(b) => a = b
       /\ SyncOnline(a) = SyncOnline(b) => a = b
       /\ QueryOnline(a) # SyncOnline(b) /\ QueryOnline(a) # DeleteOnline(b)
       /\ LoginToken(a) # SyncOnline(b) /\ LoginToken(a) # DeleteOnline(b)
  BY <1>1
<1>5. \A m \in Packets : \A b \in Account :
       m.type # "QueryOnlineRs" => m # OfflineRs(b)
  BY <1>2
<1> QED BY <1>3, <1>4, <1>5

\* A step that leaves the account's flag and components alone, adds no trace and
\* takes none from RedisLogin's queue.
LEMMA KeepClaim ==
  ASSUME NEW l \in Server, NEW a \in Account, Claim(l, a), flag'[a] = flag[a],
         Present(l, a)' <=> Present(l, a), Leaving(l, a)' <=> Leaving(l, a),
         removed'[l] \subseteq removed[l] \/ ~Leaving(l, a),
         Asking(l, a)' => Asking(l, a), Offline(l, a)' => Offline(l, a),
         Deleting(l, a)' <=> Deleting(l, a), Syncing(l, a)' => Syncing(l, a),
         Once(box'[l], OfflineRs(a)), Once(redis'[l], DeleteOnline(a)),
         Before(redis'[l], SyncOnline(a), DeleteOnline(a))
  PROVE  Claim(l, a)'
<1>1. Trace(l, a)' => Trace(l, a)
  BY DEF Trace
<1>2. \A c, d \in removed'[l] : Owner[c] = a /\ Owner[d] = a => c = d
  BY DEF Claim, OneTrace, Leaving
<1>3. OneTrace(l, a)'
  BY <1>2 DEF Claim, OneTrace
<1>4. SyncsFirst(l, a)'
  BY DEF Claim, SyncsFirst
<1> QED BY <1>1, <1>3, <1>4 DEF Claim

\* What a step of another process, or one that concerns other variables, keeps.
LEMMA SameClaim ==
  ASSUME NEW l \in Server, NEW a \in Account, Claim(l, a),
         flag'[a] = flag[a] \/ ~Trace(l, a),
         box'[l] = box[l], redis'[l] = redis[l], step'[l] = step[l],
         online'[l] = online[l], removed'[l] = removed[l]
  PROVE  Claim(l, a)'
<1>1. /\ Asking(l, a)' <=> Asking(l, a)
      /\ Offline(l, a)' <=> Offline(l, a)
      /\ Present(l, a)' <=> Present(l, a)
      /\ Leaving(l, a)' <=> Leaving(l, a)
      /\ Deleting(l, a)' <=> Deleting(l, a)
      /\ Syncing(l, a)' <=> Syncing(l, a)
  BY DEF Asking, Acct, Offline, Present, Leaving, Deleting, Syncing
<1>2. (Trace(l, a)' <=> Trace(l, a)) /\ (Trace(l, a)' => flag'[a] = l)
  BY <1>1 DEF Trace, Claim
<1>3. \A c, d \in removed'[l] : Owner[c] = a /\ Owner[d] = a => c = d
  BY DEF Claim, OneTrace
<1>4. OneTrace(l, a)'
  BY <1>1, <1>3 DEF Claim, OneTrace
<1>5. SyncsFirst(l, a)'
  BY <1>1 DEF Claim, SyncsFirst
<1> QED BY <1>2, <1>4, <1>5 DEF Claim

\* What a packet for Account that is no answer to this account's question changes.
LEMMA BoxPut ==
  ASSUME TypeOK, NEW l \in Server, NEW a \in Account, Claim(l, a), NEW m \in Packets,
         m # OfflineRs(a), box'[l] = Append(box[l], m)
  PROVE  (Offline(l, a)' <=> Offline(l, a)) /\ Once(box'[l], OfflineRs(a))
<1>1. box[l] \in Seq(Packets) /\ Once(box[l], OfflineRs(a))
  BY DEF TypeOK, Claim, OneTrace
<1> QED BY <1>1, AppendQueue DEF Offline

\* What a packet changes that Account takes.
LEMMA BoxTake ==
  ASSUME TypeOK, NEW l \in Server, NEW a \in Account, Claim(l, a),
         box[l] # <<>>, box'[l] = Tail(box[l])
  PROVE  /\ Offline(l, a)' => Offline(l, a)
         /\ Once(box'[l], OfflineRs(a))
         /\ Head(box[l]) = OfflineRs(a) => Offline(l, a) /\ ~Offline(l, a)'
<1>1. box[l] \in Seq(Packets) /\ Once(box[l], OfflineRs(a))
  BY DEF TypeOK, Claim, OneTrace
<1> QED BY <1>1, TailQueue DEF Offline

\* What a packet for RedisLogin changes that does not write or delete the flag.
LEMMA RedisPut ==
  ASSUME TypeOK, NEW l \in Server, NEW a \in Account, Claim(l, a), NEW m \in RedisPackets,
         m # SyncOnline(a), m # DeleteOnline(a), redis'[l] = Append(redis[l], m),
         step'[l] = step[l]
  PROVE  /\ Asking(l, a)' <=> Asking(l, a)
         /\ Deleting(l, a)' <=> Deleting(l, a)
         /\ Syncing(l, a)' <=> Syncing(l, a)
         /\ Once(redis'[l], DeleteOnline(a))
         /\ Before(redis'[l], SyncOnline(a), DeleteOnline(a))
<1>1. /\ redis[l] \in Seq(RedisPackets)
      /\ Once(redis[l], DeleteOnline(a))
      /\ Before(redis[l], SyncOnline(a), DeleteOnline(a))
  BY DEF TypeOK, Claim, OneTrace, SyncsFirst
<1>2. step[l] \in {"expire", "offline"} => redis[l] # <<>>
  BY DEF TypeOK, Underway
<1>3. Asking(l, a)' <=> Asking(l, a)
  BY <1>1, <1>2, AppendQueue DEF Asking, Acct
<1> QED BY <1>1, <1>3, AppendQueue DEF Deleting, Syncing

\* What a packet changes that RedisLogin is done with.
LEMMA RedisTake ==
  ASSUME TypeOK, NEW l \in Server, NEW a \in Account, Claim(l, a),
         redis[l] # <<>>, redis'[l] = Tail(redis[l]), step'[l] = "next"
  PROVE  /\ ~Asking(l, a)'
         /\ Deleting(l, a)' => Deleting(l, a)
         /\ Deleting(l, a) /\ Head(redis[l]) # DeleteOnline(a) => Deleting(l, a)'
         /\ Syncing(l, a)' => Syncing(l, a)
         /\ Once(redis'[l], DeleteOnline(a))
         /\ Before(redis'[l], SyncOnline(a), DeleteOnline(a))
         /\ Head(redis[l]) = DeleteOnline(a)
              => Deleting(l, a) /\ ~Deleting(l, a)' /\ ~Syncing(l, a)'
         /\ Head(redis[l]) = SyncOnline(a) => Syncing(l, a)
<1>1. /\ redis[l] \in Seq(RedisPackets)
      /\ Once(redis[l], DeleteOnline(a))
      /\ Before(redis[l], SyncOnline(a), DeleteOnline(a))
  BY DEF TypeOK, Claim, OneTrace, SyncsFirst
<1> QED BY <1>1, TailQueue DEF Asking, Deleting, Syncing

\* The first player of an account is the only one.
LEMMA NoSecondPlayer ==
  ASSUME TypeOK, OnePlayer, NEW l \in Server, NEW c \in Conn, ByAccount(l, Owner[c]) = {},
         players' = [players EXCEPT ![l] = @ \cup {c}]
  PROVE  OnePlayer'
BY DEF TypeOK, OnePlayer, ByAccount

\* A packet is taken from Account's box; the players and the flag stay, and
\* RedisLogin gets a question of no consequence for the flag at most.
LEMMA HandleKeepsClaims ==
  ASSUME TypeOK, \A k \in Server, b \in Account : Claim(k, b),
         NEW l \in Server, box[l] # <<>>, Handled(l), UNCHANGED <<step, online, removed, flag>>,
         \/ redis' = redis
         \/ \E a \in Account : redis' = [redis EXCEPT ![l] = Append(@, QueryOnline(a))]
         \/ \E a \in Account : redis' = [redis EXCEPT ![l] = Append(@, LoginToken(a))]
  PROVE  \A k \in Server, b \in Account : Claim(k, b)'
<1> SUFFICES ASSUME NEW k \in Server, NEW b \in Account PROVE Claim(k, b)'
  OBVIOUS
<1>1. CASE k # l
  BY <1>1, SameClaim DEF Handled, TypeOK
<1>2. CASE k = l
  <2>1. box'[l] = Tail(box[l]) /\ step'[l] = step[l]
    BY DEF Handled, TypeOK
  <2> DEFINE Kept == /\ Asking(l, b)' <=> Asking(l, b)
                     /\ Deleting(l, b)' <=> Deleting(l, b)
                     /\ Syncing(l, b)' <=> Syncing(l, b)
                     /\ Once(redis'[l], DeleteOnline(b))
                     /\ Before(redis'[l], SyncOnline(b), DeleteOnline(b))
  <2>2. Kept
    <3>1. CASE redis' = redis
      BY <1>2, <2>1, <3>1 DEF Asking, Acct, Deleting, Syncing, Claim, OneTrace, SyncsFirst
    <3>2. ASSUME NEW a \in Account, NEW m \in {QueryOnline(a), LoginToken(a)},
                 redis' = [redis EXCEPT ![l] = Append(@, m)]
          PROVE  Kept
      <4>1. m \in RedisPackets /\ m # SyncOnline(b) /\ m # DeleteOnline(b)
        BY <3>2, PacketTypes, Different
      <4>2. redis'[l] = Append(redis[l], m)
        BY <3>2 DEF TypeOK
      <4> QED BY <1>2, <2>1, <4>1, <4>2, RedisPut
    <3> QED BY <3>1, <3>2
  <2>3. (Offline(l, b)' => Offline(l, b)) /\ Once(box'[l], OfflineRs(b))
    BY <1>2, <2>1, BoxTake
  <2>4. /\ Present(l, b)' <=> Present(l, b)
        /\ Leaving(l, b)' <=> Leaving(l, b)
    BY DEF Present, Leaving
  <2> QED BY <1>2, <2>2, <2>3, <2>4, KeepClaim
<1> QED BY <1>1, <1>2

\* The answer that the account is not online turns into the player's component.
LEMMA AnswerKeepsClaims ==
  ASSUME IInv, NEW l \in Server, HandleAccountQueryOnlineToRedisRs(l)
  PROVE  \A k \in Server, b \in Account : Claim(k, b)'
<1> SUFFICES ASSUME NEW k \in Server, NEW b \in Account PROVE Claim(k, b)'
  OBVIOUS
<1> DEFINE m == Head(box[l])
<1>1. /\ TypeOK /\ Claim(k, b) /\ box[l] # <<>> /\ m \in Packets /\ m.type = "QueryOnlineRs"
      /\ box' = [box EXCEPT ![l] = Tail(box[l])]
      /\ online' = [online EXCEPT ![l] = online[l] \cup LetThrough(l, m)]
      /\ UNCHANGED <<redis, step, removed, flag>>
  BY QueueTypes DEF IInv, HandleAccountQueryOnlineToRedisRs, Handles, Handled, Message, logic, store
<1>2. /\ box'[l] = Tail(box[l]) /\ online'[l] = online[l] \cup LetThrough(l, m)
      /\ k # l => box'[k] = box[k] /\ online'[k] = online[k]
  BY <1>1 DEF TypeOK
<1>3. CASE k # l
  BY <1>1, <1>2, <1>3, SameClaim
<1>4. CASE k = l
  <2>1. /\ (Offline(l, b)' => Offline(l, b)) /\ Once(box'[l], OfflineRs(b))
        /\ m = OfflineRs(b) => Offline(l, b) /\ ~Offline(l, b)'
    BY <1>1, <1>2, <1>4, BoxTake
  <2>2. /\ Asking(l, b)' <=> Asking(l, b)
        /\ Leaving(l, b)' <=> Leaving(l, b)
        /\ Deleting(l, b)' <=> Deleting(l, b)
        /\ Syncing(l, b)' <=> Syncing(l, b)
        /\ redis'[l] = redis[l] /\ removed'[l] = removed[l] /\ flag' = flag
    BY <1>1 DEF Asking, Acct, Leaving, Deleting, Syncing
  <2>3. CASE m = OfflineRs(b)
    <3>1. /\ ~Asking(l, b)' /\ ~Offline(l, b)' /\ ~Leaving(l, b)' /\ ~Deleting(l, b)'
          /\ ~Syncing(l, b)' /\ flag'[b] = l
      BY <1>1, <1>4, <2>1, <2>2, <2>3 DEF Claim, OneTrace, SyncsFirst, Trace
    <3>2. OneTrace(l, b)'
      BY <1>1, <1>4, <2>1, <2>2, <3>1 DEF Claim, OneTrace
    <3>3. SyncsFirst(l, b)'
      BY <1>1, <1>4, <2>2, <3>1 DEF Claim, SyncsFirst
    <3> QED BY <1>4, <3>1, <3>2, <3>3 DEF Claim
  <2>4. CASE m # OfflineRs(b)
    <3>1. \A c \in LetThrough(l, m) : Owner[c] = m.acct /\ m.offline
      BY DEF LetThrough, ByAccount
    <3>2. m.offline => m.acct # b
      BY <1>1, <2>4, PacketFields DEF OfflineRs
    <3>3. Present(l, b)' <=> Present(l, b)
      BY <1>2, <3>1, <3>2 DEF Present
    <3> QED BY <1>1, <1>4, <2>1, <2>2, <3>3, KeepClaim DEF Claim, OneTrace, SyncsFirst
  <2> QED BY <2>3, <2>4
<1> QED BY <1>3, <1>4

\* A player who leaves takes the component along.
LEMMA DisconnectKeepsClaims ==
  ASSUME IInv, NEW l \in Server, HandleNetworkDisconnect(l)
  PROVE  \A k \in Server, b \in Account : Claim(k, b)'
<1> SUFFICES ASSUME NEW k \in Server, NEW b \in Account PROVE Claim(k, b)'
  OBVIOUS
<1> DEFINE c == Message(l).conn
<1>1. /\ TypeOK /\ Claim(k, b) /\ box[l] # <<>>
      /\ box' = [box EXCEPT ![l] = Tail(box[l])]
      /\ online' = [online EXCEPT ![l] = online[l] \ {c}]
      /\ removed' = [removed EXCEPT ![l] = removed[l] \cup (online[l] \cap {c})]
      /\ UNCHANGED <<redis, step, flag>>
  BY DEF IInv, HandleNetworkDisconnect, Handles, Handled, store
<1> HIDE DEF c
<1>2. /\ box'[l] = Tail(box[l]) /\ online'[l] = online[l] \ {c}
      /\ removed'[l] = removed[l] \cup (online[l] \cap {c})
      /\ k # l => box'[k] = box[k] /\ online'[k] = online[k] /\ removed'[k] = removed[k]
  BY <1>1 DEF TypeOK
<1>3. CASE k # l
  BY <1>1, <1>2, <1>3, SameClaim
<1>4. CASE k = l
  <2>1. (Offline(l, b)' => Offline(l, b)) /\ Once(box'[l], OfflineRs(b))
    BY <1>1, <1>2, <1>4, BoxTake
  <2>2. /\ Asking(l, b)' <=> Asking(l, b)
        /\ Deleting(l, b)' <=> Deleting(l, b)
        /\ Syncing(l, b)' <=> Syncing(l, b)
        /\ redis'[l] = redis[l] /\ flag' = flag
    BY <1>1 DEF Asking, Acct, Deleting, Syncing
  <2>3. CASE c \in online[l] /\ Owner[c] = b
    <3>1. Present(l, b) /\ ~Leaving(l, b)
      BY <1>1, <1>4, <2>3 DEF Present, Claim, OneTrace
    <3>2. \A d \in online[l] : Owner[d] = b => d = c
      BY <2>3 DEF IInv, OnePlayer, TypeOK
    <3>3. ~Present(l, b)' /\ Leaving(l, b)'
      BY <1>2, <2>3, <3>2 DEF Present, Leaving
    <3>4. /\ ~Asking(l, b)' /\ ~Offline(l, b)' /\ ~Deleting(l, b)' /\ flag'[b] = l
      BY <1>1, <1>4, <2>1, <2>2, <3>1 DEF Claim, OneTrace, Trace
    <3>5. \A d, e \in removed'[l] : Owner[d] = b /\ Owner[e] = b => d = e
      BY <1>2, <2>3, <3>1, <3>2 DEF Leaving
    <3>6. OneTrace(l, b)'
      BY <1>1, <1>4, <2>1, <2>2, <3>3, <3>4, <3>5 DEF Claim, OneTrace
    <3>7. SyncsFirst(l, b)'
      BY <1>1, <1>4, <2>2, <3>3 DEF Claim, SyncsFirst
    <3> QED BY <1>4, <3>4, <3>6, <3>7 DEF Claim
  <2>4. CASE ~(c \in online[l] /\ Owner[c] = b)
    <3>1. (Present(l, b)' <=> Present(l, b)) /\ (Leaving(l, b)' <=> Leaving(l, b))
      BY <1>2, <2>4 DEF Present, Leaving
    <3>2. \A d \in removed'[l] : Owner[d] = b => d \in removed[l]
      BY <1>2, <2>4
    <3>3. OneTrace(l, b)'
      BY <1>1, <1>4, <2>1, <2>2, <3>1, <3>2 DEF Claim, OneTrace
    <3>4. SyncsFirst(l, b)'
      BY <1>1, <1>4, <2>2, <3>1 DEF Claim, SyncsFirst
    <3>5. Trace(l, b)' => Trace(l, b)
      BY <2>1, <2>2, <3>1 DEF Trace
    <3> QED BY <1>1, <1>4, <2>2, <3>3, <3>4, <3>5 DEF Claim
  <2> QED BY <2>3, <2>4
<1> QED BY <1>3, <1>4

\* The flag is written again only for a player with a component.
LEMMA SetOnlineFlagKeepsClaims ==
  ASSUME IInv, NEW l \in Server, SetOnlineFlag(l)
  PROVE  \A k \in Server, b \in Account : Claim(k, b)'
<1> SUFFICES ASSUME NEW k \in Server, NEW b \in Account PROVE Claim(k, b)'
  OBVIOUS
<1>1. PICK c \in due[l] :
        /\ redis' = [redis EXCEPT ![l] = Append(redis[l], SyncOnline(Owner[c]))]
        /\ UNCHANGED <<box, step, online, removed, flag>>
  BY DEF SetOnlineFlag, store
<1>2. /\ TypeOK /\ Claim(k, b) /\ Claim(l, b)
      /\ c \in online[l] \cup removed[l] /\ c \in Conn /\ Owner[c] \in Account
      /\ SyncOnline(Owner[c]) \in RedisPackets
      /\ redis[l] \in Seq(RedisPackets)
  BY LoginAssumption, PacketTypes DEF IInv, TypeOK
<1>3. redis'[l] = Append(redis[l], SyncOnline(Owner[c])) /\ (k # l => redis'[k] = redis[k])
  BY <1>1, <1>2 DEF TypeOK
<1>4. CASE k # l
  BY <1>1, <1>2, <1>3, <1>4, SameClaim
<1>5. CASE k = l
  <2>1. /\ Offline(l, b)' <=> Offline(l, b)
        /\ Present(l, b)' <=> Present(l, b)
        /\ Leaving(l, b)' <=> Leaving(l, b)
        /\ box'[l] = box[l] /\ removed'[l] = removed[l] /\ flag' = flag /\ step' = step
    BY <1>1 DEF Offline, Present, Leaving
  <2>2. CASE Owner[c] = b
    <3>1. Present(l, b) \/ Leaving(l, b)
      BY <1>2, <2>2 DEF Present, Leaving
    <3>2. ~Asking(l, b) /\ ~Deleting(l, b)
      BY <1>2, <3>1 DEF Claim, OneTrace
    <3>3. /\ ~Deleting(l, b)'
          /\ Once(redis'[l], DeleteOnline(b))
          /\ Before(redis'[l], SyncOnline(b), DeleteOnline(b))
      <4> DEFINE s == redis[l]
                 t == Append(s, SyncOnline(b))
      <4>1. /\ s \in Seq(RedisPackets) /\ SyncOnline(b) \in RedisPackets
            /\ SyncOnline(b) # DeleteOnline(b) /\ redis'[l] = t
        BY <1>2, <1>3, <2>2, Different
      <4>2. /\ Once(s, DeleteOnline(b)) /\ ~In(s, DeleteOnline(b))
            /\ Before(s, SyncOnline(b), DeleteOnline(b))
        BY <1>2, <1>5, <3>2 DEF Deleting, Claim, OneTrace, SyncsFirst
      <4>3. /\ ~In(t, DeleteOnline(b))
            /\ Once(t, DeleteOnline(b))
            /\ Before(t, SyncOnline(b), DeleteOnline(b))
        BY <4>1, <4>2, AppendQueue
      <4> QED BY <4>1, <4>3 DEF Deleting
    <3>4. ~Asking(l, b)'
      <4>1. step[l] \in {"expire", "offline"} => redis[l] # <<>>
        BY <1>2 DEF TypeOK, Underway
      <4> QED BY <1>2, <1>3, <2>1, <3>2, <4>1, AppendQueue DEF Asking, Acct
    <3>5. OneTrace(l, b)'
      BY <1>2, <2>1, <3>3, <3>4 DEF Claim, OneTrace
    <3>6. SyncsFirst(l, b)'
      BY <2>1, <3>1, <3>3 DEF SyncsFirst
    <3> QED BY <1>2, <1>5, <2>1, <3>1, <3>5, <3>6 DEF Claim, Trace
  <2>3. CASE Owner[c] # b
    <3>1. SyncOnline(Owner[c]) # SyncOnline(b) /\ SyncOnline(Owner[c]) # DeleteOnline(b)
      BY <1>2, <2>3, Different
    <3> QED BY <1>2, <1>3, <1>5, <2>1, <3>1, RedisPut, KeepClaim DEF Claim, OneTrace
  <2> QED BY <2>2, <2>3
<1> QED BY <1>4, <1>5

\* A component that goes to its pool has the flag deleted.
LEMMA SwapKeepsClaims ==
  ASSUME IInv, NEW l \in Server, Swap(l)
  PROVE  \A k \in Server, b \in Account : Claim(k, b)'
<1> SUFFICES ASSUME NEW k \in Server, NEW b \in Account PROVE Claim(k, b)'
  OBVIOUS
<1>1. PICK c \in removed[l] :
        /\ removed' = [removed EXCEPT ![l] = removed[l] \ {c}]
        /\ redis' = [redis EXCEPT ![l] = Append(redis[l], DeleteOnline(Owner[c]))]
        /\ UNCHANGED <<box, step, online, flag>>
  BY DEF Swap, store
<1>2. /\ TypeOK /\ Claim(k, b) /\ Claim(l, b)
      /\ c \in Conn /\ Owner[c] \in Account
      /\ DeleteOnline(Owner[c]) \in RedisPackets
      /\ redis[l] \in Seq(RedisPackets)
  BY LoginAssumption, PacketTypes DEF IInv, TypeOK
<1>3. /\ redis'[l] = Append(redis[l], DeleteOnline(Owner[c]))
      /\ removed'[l] = removed[l] \ {c}
      /\ k # l => redis'[k] = redis[k] /\ removed'[k] = removed[k]
  BY <1>1, <1>2 DEF TypeOK
<1>4. CASE k # l
  BY <1>1, <1>2, <1>3, <1>4, SameClaim
<1>5. CASE k = l
  <2>1. /\ Offline(l, b)' <=> Offline(l, b)
        /\ Present(l, b)' <=> Present(l, b)
        /\ box'[l] = box[l] /\ flag' = flag /\ step' = step
    BY <1>1 DEF Offline, Present
  <2>2. CASE Owner[c] = b
    <3>1. Leaving(l, b)
      BY <2>2 DEF Leaving
    <3>2. ~Asking(l, b) /\ ~Offline(l, b) /\ ~Present(l, b) /\ ~Deleting(l, b)
      BY <1>2, <3>1 DEF Claim, OneTrace
    <3>3. ~Leaving(l, b)'
      BY <1>2, <1>3, <2>2 DEF Leaving, Claim, OneTrace
    <3>4. /\ Deleting(l, b)'
          /\ Once(redis'[l], DeleteOnline(b))
          /\ Before(redis'[l], SyncOnline(b), DeleteOnline(b))
      <4> DEFINE s == redis[l]
                 t == Append(s, DeleteOnline(b))
      <4>1. /\ s \in Seq(RedisPackets) /\ DeleteOnline(b) \in RedisPackets
            /\ SyncOnline(b) # DeleteOnline(b) /\ redis'[l] = t
        BY <1>2, <1>3, <2>2, Different
      <4>2. /\ Once(s, DeleteOnline(b)) /\ ~In(s, DeleteOnline(b))
            /\ Before(s, SyncOnline(b), DeleteOnline(b))
        BY <1>2, <1>5, <3>2 DEF Deleting, Claim, OneTrace, SyncsFirst
      <4>3. /\ In(t, DeleteOnline(b))
            /\ Once(t, DeleteOnline(b))
            /\ Before(t, SyncOnline(b), DeleteOnline(b))
        BY <4>1, <4>2, AppendQueue
      <4> QED BY <4>1, <4>3 DEF Deleting
    <3>5. ~Asking(l, b)'
      <4>1. step[l] \in {"expire", "offline"} => redis[l] # <<>>
        BY <1>2 DEF TypeOK, Underway
      <4> QED BY <1>2, <1>3, <2>1, <3>2, <4>1, AppendQueue DEF Asking, Acct
    <3>6. OneTrace(l, b)'
      BY <1>2, <1>3, <2>1, <3>2, <3>3, <3>4, <3>5 DEF Claim, OneTrace
    <3>7. SyncsFirst(l, b)'
      BY <3>4 DEF SyncsFirst
    <3> QED BY <1>2, <1>5, <2>1, <3>1, <3>6, <3>7 DEF Claim, Trace
  <2>3. CASE Owner[c] # b
    <3>1. DeleteOnline(Owner[c]) # SyncOnline(b) /\ DeleteOnline(Owner[c]) # DeleteOnline(b)
      BY <1>2, <2>3, Different
    <3>2. Leaving(l, b)' <=> Leaving(l, b)
      BY <1>3, <2>3 DEF Leaving
    <3> QED BY <1>2, <1>3, <1>5, <2>1, <3>1, <3>2, RedisPut, KeepClaim DEF Claim, OneTrace
  <2> QED BY <2>2, <2>3
<1> QED BY <1>4, <1>5

\* Nobody has a trace of an account whose flag is not set.
LEMMA NoTraceWithoutFlag ==
  ASSUME IInv, NEW k \in Server, NEW a \in Account, flag[a] # k PROVE ~Trace(k, a)
BY DEF IInv, Claim

\* SETNX sets the flag only where nobody has a trace.
LEMMA SetnxKeepsClaims ==
  ASSUME IInv, NEW l \in Server, SetnxOnline(l) \/ ExpireOnline(l)
  PROVE  \A k \in Server, b \in Account : Claim(k, b)'
<1> SUFFICES ASSUME NEW k \in Server, NEW b \in Account PROVE Claim(k, b)'
  OBVIOUS
<1> DEFINE a == Acct(l)
<1>1. /\ TypeOK /\ Claim(k, b) /\ Claim(l, b)
      /\ flag \in [Account -> Server \cup {None}]
      /\ redis[l] # <<>>
      /\ UNCHANGED <<box, redis, online, removed>>
      /\ step \in [Server -> {"next", "expire", "offline", "online"}]
  BY DEF IInv, TypeOK, SetnxOnline, ExpireOnline, Serves, logic
<1>2. a \in Account /\ a' = a
  BY <1>1, QueueTypes, PacketFields DEF Acct
<1>3. /\ \A j \in Server \ {l} : step'[j] = step[j]
      /\ \/ SetnxOnline(l) /\ flag[a] = None /\ flag' = [flag EXCEPT ![a] = l]
            /\ step'[l] = "expire" /\ step[l] = "next"
         \/ flag' = flag /\ step'[l] = "online"
         \/ flag' = flag /\ step'[l] = "offline" /\ step[l] = "expire"
  BY <1>1 DEF SetnxOnline, ExpireOnline, SetnxSucceeds, Serves
<1> HIDE DEF a
<1>4. \A j \in Server, e \in Account :
        /\ Offline(j, e)' <=> Offline(j, e)
        /\ Present(j, e)' <=> Present(j, e)
        /\ Leaving(j, e)' <=> Leaving(j, e)
        /\ Deleting(j, e)' <=> Deleting(j, e)
        /\ Syncing(j, e)' <=> Syncing(j, e)
  BY <1>1 DEF Offline, Present, Leaving, Deleting, Syncing
<1>5. CASE flag' = flag
  <2>1. CASE k # l
    BY <1>1, <1>3, <1>5, <2>1, SameClaim
  <2>2. CASE k = l
    <3>1. step'[l] = "online" \/ (step'[l] = "offline" /\ step[l] = "expire")
      BY <1>1, <1>2, <1>3, <1>5, LoginAssumption
    <3>2. Acct(l)' = Acct(l)
      BY <1>1 DEF Acct
    <3>3. Asking(l, b)' => Asking(l, b)
      BY <3>1, <3>2 DEF Asking
    <3> QED BY <1>1, <1>4, <1>5, <2>2, <3>3, KeepClaim DEF Claim, OneTrace, SyncsFirst
  <2> QED BY <2>1, <2>2
<1>6. CASE flag' # flag
  <2>1. flag[a] = None /\ flag' = [flag EXCEPT ![a] = l] /\ step[l] = "next"
    BY <1>3, <1>6
  <2>2. \A j \in Server : ~Trace(j, a)
    BY <1>2, <2>1, NoTraceWithoutFlag, LoginAssumption
  <2>3. CASE k # l
    BY <1>1, <1>2, <1>3, <2>1, <2>2, <2>3, SameClaim
  <2>4. CASE k = l /\ b # a
    <3>1. ~Asking(l, b)' /\ flag'[b] = flag[b]
      BY <1>1, <1>2, <2>1, <2>4 DEF Asking, a
    <3> QED BY <1>1, <1>4, <2>4, <3>1, KeepClaim DEF Claim, OneTrace, SyncsFirst
  <2>5. CASE k = l /\ b = a
    <3>1. /\ ~Offline(l, b) /\ ~Present(l, b) /\ ~Leaving(l, b) /\ ~Deleting(l, b)
          /\ ~Syncing(l, b)
      BY <1>1, <2>2, <2>5 DEF Trace, Claim, SyncsFirst
    <3>2. OneTrace(l, b)'
      BY <1>1, <1>4, <3>1 DEF Claim, OneTrace
    <3>3. SyncsFirst(l, b)' /\ flag'[b] = l
      BY <1>1, <1>2, <1>4, <2>1, <2>5, <3>1 DEF Claim, SyncsFirst
    <3> QED BY <2>5, <3>2, <3>3 DEF Claim
  <2> QED BY <2>3, <2>4, <2>5
<1> QED BY <1>5, <1>6

\* The answer takes over from the question.
LEMMA QueryKeepsClaims ==
  ASSUME IInv, NEW l \in Server, AnswerQueryOnline(l)
  PROVE  \A k \in Server, b \in Account : Claim(k, b)'
<1> SUFFICES ASSUME NEW k \in Server, NEW b \in Account PROVE Claim(k, b)'
  OBVIOUS
<1> DEFINE a == Acct(l)
           m == QueryOnlineRs(a, step[l] = "offline" /\ a \notin inGame)
<1>1. /\ TypeOK /\ Claim(k, b) /\ Claim(l, b)
      /\ redis[l] # <<>> /\ Head(redis[l]).type = "QueryOnline"
      /\ box' = [box EXCEPT ![l] = Append(box[l], m)]
      /\ redis' = [redis EXCEPT ![l] = Tail(redis[l])]
      /\ step' = [step EXCEPT ![l] = "next"]
      /\ UNCHANGED <<online, removed, flag>>
  BY DEF IInv, AnswerQueryOnline, Serves, Served, Answers, logic, store
<1>2. /\ box'[l] = Append(box[l], m) /\ redis'[l] = Tail(redis[l]) /\ step'[l] = "next"
      /\ k # l => box'[k] = box[k] /\ redis'[k] = redis[k] /\ step'[k] = step[k]
      /\ box[l] \in Seq(Packets)
  BY <1>1 DEF TypeOK
<1>3. a \in Account /\ m \in Packets /\ Head(redis[l]) = QueryOnline(a)
  BY <1>1, QueueTypes, PacketFields, PacketTypes DEF Acct
<1>4. \/ m = OfflineRs(a) /\ Asking(l, a)
      \/ m = QueryOnlineRs(a, FALSE)
  BY DEF OfflineRs, Asking
<1> HIDE DEF a, m
<1>5. CASE k # l
  BY <1>1, <1>2, <1>5, SameClaim
<1>6. CASE k = l
  <2>1. /\ ~Asking(l, b)'
        /\ Deleting(l, b)' <=> Deleting(l, b)
        /\ Syncing(l, b)' => Syncing(l, b)
        /\ Once(redis'[l], DeleteOnline(b))
        /\ Before(redis'[l], SyncOnline(b), DeleteOnline(b))
    BY <1>1, <1>2, <1>3, RedisTake, Different
  <2>2. /\ Present(l, b)' <=> Present(l, b)
        /\ Leaving(l, b)' <=> Leaving(l, b)
        /\ removed'[l] = removed[l] /\ flag' = flag
    BY <1>1 DEF Present, Leaving
  <2>3. CASE m = OfflineRs(b)
    <3>1. Asking(l, b)
      BY <1>3, <1>4, <2>3, Different
    <3>2. /\ ~Offline(l, b) /\ ~Present(l, b) /\ ~Leaving(l, b) /\ ~Deleting(l, b)
          /\ ~Syncing(l, b) /\ flag[b] = l
      BY <1>1, <3>1 DEF Claim, OneTrace, SyncsFirst, Trace
    <3>3. Once(box'[l], OfflineRs(b))
      BY <1>1, <1>2, <1>3, <3>2, AppendQueue DEF Offline, Claim, OneTrace
    <3>4. OneTrace(l, b)'
      BY <1>1, <2>1, <2>2, <3>2, <3>3 DEF Claim, OneTrace
    <3>5. SyncsFirst(l, b)'
      BY <2>1, <3>2 DEF SyncsFirst
    <3> QED BY <1>6, <2>2, <3>2, <3>4, <3>5 DEF Claim
  <2>4. CASE m # OfflineRs(b)
    <3>1. (Offline(l, b)' <=> Offline(l, b)) /\ Once(box'[l], OfflineRs(b))
      BY <1>1, <1>2, <1>3, <2>4, BoxPut
    <3> QED BY <1>1, <1>6, <2>1, <2>2, <3>1, KeepClaim
  <2> QED BY <2>3, <2>4
<1> QED BY <1>5, <1>6

\* The flag is deleted with the last trace, and written again only before that.
LEMMA WriteKeepsClaims ==
  ASSUME IInv, NEW l \in Server,
         \/ HandleAccountSyncOnlineToRedis(l) \/ HandleAccountDeleteOnlineToRedis(l)
  PROVE  \A k \in Server, b \in Account : Claim(k, b)'
<1> SUFFICES ASSUME NEW k \in Server, NEW b \in Account PROVE Claim(k, b)'
  OBVIOUS
<1> DEFINE a == Acct(l)
           h == Head(redis[l])
<1>1. /\ TypeOK /\ Claim(k, b) /\ Claim(l, b)
      /\ redis[l] # <<>> /\ step[l] = "next"
      /\ \/ h.type = "SyncOnline" /\ flag' = [flag EXCEPT ![a] = l]
         \/ h.type = "DeleteOnline" /\ flag' = [flag EXCEPT ![a] = None]
      /\ redis' = [redis EXCEPT ![l] = Tail(redis[l])]
      /\ step' = [step EXCEPT ![l] = "next"]
      /\ UNCHANGED <<box, online, removed>>
  BY DEF IInv, HandleAccountSyncOnlineToRedis, HandleAccountDeleteOnlineToRedis, Serves, Served, logic
<1>2. /\ redis'[l] = Tail(redis[l]) /\ step'[l] = "next"
      /\ k # l => redis'[k] = redis[k] /\ step'[k] = step[k]
      /\ flag \in [Account -> Server \cup {None}]
  BY <1>1 DEF TypeOK
<1>3. /\ a \in Account
      /\ h.type = "SyncOnline" => h = SyncOnline(a)
      /\ h.type = "DeleteOnline" => h = DeleteOnline(a)
  BY <1>1, QueueTypes, PacketFields DEF Acct
<1>4. Claim(l, a)
  BY <1>3 DEF IInv
<1> HIDE DEF a, h
<1>5. /\ Offline(l, b)' <=> Offline(l, b)
      /\ Present(l, b)' <=> Present(l, b)
      /\ Leaving(l, b)' <=> Leaving(l, b)
      /\ box'[l] = box[l] /\ removed'[l] = removed[l]
  BY <1>1 DEF Offline, Present, Leaving
<1>6. ~Asking(l, b) /\ ~Asking(l, a)
  BY <1>1 DEF Asking
<1>7. CASE h = SyncOnline(a)
  <2>1. flag[a] = l
    BY <1>1, <1>2, <1>3, <1>4, <1>7, RedisTake DEF h, Claim, SyncsFirst, Trace
  <2>2. flag' = flag
    BY <1>1, <1>2, <1>3, <1>7, <2>1, Different DEF SyncOnline
  <2>3. CASE k # l
    BY <1>1, <1>2, <2>2, <2>3, SameClaim
  <2>4. CASE k = l
    <3>1. /\ ~Asking(l, b)'
          /\ Deleting(l, b)' <=> Deleting(l, b)
          /\ Syncing(l, b)' => Syncing(l, b)
          /\ Once(redis'[l], DeleteOnline(b))
          /\ Before(redis'[l], SyncOnline(b), DeleteOnline(b))
      BY <1>1, <1>2, <1>3, <1>7, RedisTake, Different DEF h
    <3> QED BY <1>1, <1>5, <2>2, <2>4, <3>1, KeepClaim DEF Claim, OneTrace
  <2> QED BY <2>3, <2>4
<1>8. CASE h = DeleteOnline(a)
  <2>1. Deleting(l, a) /\ flag[a] = l
    BY <1>1, <1>2, <1>3, <1>4, <1>8, RedisTake DEF h, Claim, Trace
  <2>2. flag' = [flag EXCEPT ![a] = None]
    BY <1>1, <1>3, <1>8 DEF SyncOnline, DeleteOnline
  <2>3. CASE k # l
    <3>1. b = a => ~Trace(k, b)
      BY <2>1, <2>3, NoTraceWithoutFlag
    <3> QED BY <1>1, <1>2, <1>3, <2>2, <2>3, <3>1, SameClaim
  <2>4. CASE k = l /\ b # a
    <3>1. /\ ~Asking(l, b)'
          /\ Deleting(l, b)' <=> Deleting(l, b)
          /\ Syncing(l, b)' => Syncing(l, b)
          /\ Once(redis'[l], DeleteOnline(b))
          /\ Before(redis'[l], SyncOnline(b), DeleteOnline(b))
      BY <1>1, <1>2, <1>3, <1>8, <2>4, RedisTake, Different DEF h
    <3>2. flag'[b] = flag[b]
      BY <1>2, <1>3, <2>2, <2>4
    <3> QED BY <1>1, <1>5, <2>4, <3>1, <3>2, KeepClaim DEF Claim, OneTrace
  <2>5. CASE k = l /\ b = a
    <3>1. ~Offline(l, b) /\ ~Present(l, b) /\ ~Leaving(l, b)
      BY <1>4, <2>1, <2>5 DEF Claim, OneTrace
    <3>2. /\ ~Asking(l, b)' /\ ~Deleting(l, b)' /\ ~Syncing(l, b)'
          /\ Once(redis'[l], DeleteOnline(b))
          /\ Before(redis'[l], SyncOnline(b), DeleteOnline(b))
      BY <1>1, <1>2, <1>3, <1>8, <2>5, RedisTake DEF h
    <3>3. ~Trace(l, b)'
      BY <1>5, <3>1, <3>2 DEF Trace
    <3>4. OneTrace(l, b)'
      BY <1>1, <1>5, <3>1, <3>2 DEF Claim, OneTrace
    <3>5. SyncsFirst(l, b)'
      BY <3>2 DEF SyncsFirst
    <3> QED BY <2>5, <3>3, <3>4, <3>5 DEF Claim
  <2> QED BY <2>3, <2>4, <2>5
<1> QED BY <1>1, <1>3, <1>7, <1>8

\* The token is of no consequence for the flag.
LEMMA TokenKeepsClaims ==
  ASSUME IInv, NEW l \in Server, HandleLoginTokenToRedis(l)
  PROVE  \A k \in Server, b \in Account : Claim(k, b)'
<1> SUFFICES ASSUME NEW k \in Server, NEW b \in Account PROVE Claim(k, b)'
  OBVIOUS
<1> DEFINE a == Acct(l)
<1>1. /\ TypeOK /\ Claim(k, b) /\ Claim(l, b)
      /\ redis[l] # <<>> /\ Head(redis[l]).type = "LoginToken" /\ step[l] = "next"
      /\ box' = [box EXCEPT ![l] = Append(box[l], TokenRs(a))]
      /\ redis' = [redis EXCEPT ![l] = Tail(redis[l])]
      /\ step' = [step EXCEPT ![l] = "next"]
      /\ UNCHANGED <<online, removed, flag>>
  BY DEF IInv, HandleLoginTokenToRedis, Serves, Served, Answers, logic, store
<1>2. /\ box'[l] = Append(box[l], TokenRs(a)) /\ redis'[l] = Tail(redis[l]) /\ step'[l] = "next"
      /\ k # l => box'[k] = box[k] /\ redis'[k] = redis[k] /\ step'[k] = step[k]
  BY <1>1 DEF TypeOK
<1>3. /\ a \in Account /\ TokenRs(a) \in Packets /\ TokenRs(a) # OfflineRs(b)
      /\ Head(redis[l]) = LoginToken(a)
  BY <1>1, QueueTypes, PacketFields, PacketTypes, Different DEF Acct
<1> HIDE DEF a
<1>4. CASE k # l
  BY <1>1, <1>2, <1>4, SameClaim
<1>5. CASE k = l
  <2>1. /\ ~Asking(l, b)'
        /\ Deleting(l, b)' <=> Deleting(l, b)
        /\ Syncing(l, b)' => Syncing(l, b)
        /\ Once(redis'[l], DeleteOnline(b))
        /\ Before(redis'[l], SyncOnline(b), DeleteOnline(b))
    BY <1>1, <1>2, <1>3, RedisTake, Different
  <2>2. (Offline(l, b)' <=> Offline(l, b)) /\ Once(box'[l], OfflineRs(b))
    BY <1>1, <1>2, <1>3, BoxPut
  <2>3. /\ Present(l, b)' <=> Present(l, b)
        /\ Leaving(l, b)' <=> Leaving(l, b)
        /\ removed'[l] = removed[l] /\ flag' = flag
    BY <1>1 DEF Present, Leaving
  <2> QED BY <1>1, <1>5, <2>1, <2>2, <2>3, KeepClaim
<1> QED BY <1>4, <1>5

\* A packet that comes for Account from elsewhere.
LEMMA ArrivalKeepsClaims ==
  ASSUME IInv, NEW l, NEW m \in Packets, m.type # "QueryOnlineRs",
         box' = [box EXCEPT ![l] = Append(@, m)],
         UNCHANGED <<redis, step, online, removed, flag>>
  PROVE  \A k \in Server, b \in Account : Claim(k, b)'
<1> SUFFICES ASSUME NEW k \in Server, NEW b \in Account PROVE Claim(k, b)'
  OBVIOUS
<1>1. TypeOK /\ Claim(k, b) /\ m # OfflineRs(b)
  BY Different DEF IInv
<1>2. CASE k # l
  BY <1>1, <1>2, SameClaim DEF TypeOK
<1>3. CASE k = l
  <2>1. box'[k] = Append(box[k], m)
    BY <1>1, <1>3 DEF TypeOK
  <2>2. (Offline(k, b)' <=> Offline(k, b)) /\ Once(box'[k], OfflineRs(b))
    BY <1>1, <2>1, BoxPut
  <2>3. /\ Asking(k, b)' <=> Asking(k, b)
        /\ Present(k, b)' <=> Present(k, b)
        /\ Leaving(k, b)' <=> Leaving(k, b)
        /\ Deleting(k, b)' <=> Deleting(k, b)
        /\ Syncing(k, b)' <=> Syncing(k, b)
    BY DEF Asking, Acct, Present, Leaving, Deleting, Syncing
  <2> QED BY <1>1, <2>2, <2>3, KeepClaim DEF Claim, OneTrace, SyncsFirst
<1> QED BY <1>2, <1>3

\* A process that has failed has no trace.
LEMMA CrashKeepsClaims ==
  ASSUME IInv, NEW l \in Server, Crash(l)
  PROVE  \A k \in Server, b \in Account : Claim(k, b)'
<1> SUFFICES ASSUME NEW k \in Server, NEW b \in Account PROVE Claim(k, b)'
  OBVIOUS
<1>1. TypeOK /\ Claim(k, b) /\ flag' = flag
  BY DEF IInv, Crash, store
<1>2. CASE k # l
  BY <1>1, <1>2, SameClaim DEF Crash, TypeOK
<1>3. CASE k = l
  <2>1. /\ box'[k] = <<>> /\ redis'[k] = <<>> /\ step'[k] = "next"
        /\ online'[k] = {} /\ removed'[k] = {}
    BY <1>1, <1>3 DEF Crash, TypeOK
  <2>2. /\ ~Asking(k, b)' /\ ~Offline(k, b)' /\ ~Present(k, b)' /\ ~Leaving(k, b)'
        /\ ~Deleting(k, b)' /\ ~Syncing(k, b)'
    BY <2>1, EmptyQueue DEF Asking, Offline, Present, Leaving, Deleting, Syncing
  <2> QED BY <2>1, <2>2, EmptyQueue DEF Claim, Trace, OneTrace, SyncsFirst
<1> QED BY <1>2, <1>3

\* A key ends only when nobody has a trace of its account.
LEMMA ExpireKeepsClaims ==
  ASSUME IInv, NEW a \in Account, Expire(a)
  PROVE  \A k \in Server, b \in Account : Claim(k, b)'
<1> SUFFICES ASSUME NEW k \in Server, NEW b \in Account PROVE Claim(k, b)'
  OBVIOUS
<1>1. /\ TypeOK /\ Claim(k, b)
      /\ flag[a] \in Server /\ ~Concerned(flag[a], a)
      /\ flag' = [flag EXCEPT ![a] = None] /\ flag \in [Account -> Server \cup {None}]
      /\ UNCHANGED <<box, redis, step, online, removed>>
  BY DEF IInv, Expire, TypeOK, logic
<1>2. ASSUME NEW j \in Server, flag[a] = j PROVE ~Trace(j, a)
  <2>1. ~Concerned(j, a)
    BY <1>1, <1>2
  <2>2. ~Asking(j, a)
    <3>1. ASSUME redis[j] # <<>> PROVE 1 \in 1..Len(redis[j]) /\ Head(redis[j]) = redis[j][1]
      BY <1>1, <3>1 DEF TypeOK
    <3> QED BY <1>1, <2>1, <3>1 DEF Asking, Acct, Concerned, TypeOK, Underway
  <2>3. ~Offline(j, a)
    <3>1. OfflineRs(a).type = "QueryOnlineRs" /\ OfflineRs(a).acct = a
      BY DEF OfflineRs, QueryOnlineRs
    <3> QED BY <2>1, <3>1 DEF Offline, In, Concerned
  <2>4. ~Present(j, a)
    BY <1>1, <2>1 DEF Present, Concerned, ByAccount, TypeOK
  <2>5. ~Leaving(j, a)
    BY <2>1 DEF Leaving, Concerned
  <2>6. ~Deleting(j, a)
    <3>1. DeleteOnline(a).acct = a
      BY DEF DeleteOnline
    <3> QED BY <2>1, <3>1 DEF Deleting, In, Concerned
  <2> QED BY <2>2, <2>3, <2>4, <2>5, <2>6 DEF Trace
<1>3. b = a => ~Trace(k, b)
  BY <1>2, NoTraceWithoutFlag
<1> QED BY <1>1, <1>3, SameClaim

\* There is one player of an account at most in a process.
LEMMA PlayersStep == IInv /\ [Next]_vars => OnePlayer'
<1> SUFFICES ASSUME TypeOK, OnePlayer, [Next]_vars PROVE OnePlayer'
  BY DEF IInv
<1>1. CASE UNCHANGED players
  BY <1>1 DEF OnePlayer
<1>2. ASSUME NEW l \in Server, HandleAccountCheck(l) PROVE OnePlayer'
  <2>1. Message(l).conn \in Conn
    BY <1>2, QueueTypes, PacketFields DEF HandleAccountCheck, Handles, Message
  <2> QED BY <1>1, <1>2, <2>1, NoSecondPlayer DEF HandleAccountCheck
<1>3. ASSUME NEW l \in Server, HandleNetworkDisconnect(l) \/ Crash(l) PROVE OnePlayer'
  <2>1. \A k \in Server : players'[k] \subseteq players[k]
    <3>1. CASE HandleNetworkDisconnect(l)
      BY <3>1 DEF HandleNetworkDisconnect, TypeOK
    <3>2. CASE Crash(l)
      BY <3>2 DEF Crash, TypeOK
    <3> QED BY <1>3, <3>1, <3>2
  <2> QED BY <2>1 DEF OnePlayer
<1>4. ASSUME NEW l \in Server,
             \/ HandleAccountQueryOnlineToRedisRs(l) \/ HandleNetworkConnected(l)
             \/ HandleHttpOuterResponse(l) \/ HandleQueryPlayerListRs(l)
             \/ HandleSelectPlayer(l) \/ HandleTokenToRedisRs(l)
             \/ SetOnlineFlag(l) \/ Swap(l) \/ RedisStep(l) \/ Restart(l)
      PROVE  UNCHANGED players
  BY <1>4 DEF HandleAccountQueryOnlineToRedisRs, HandleNetworkConnected, HandleHttpOuterResponse,
     HandleQueryPlayerListRs, HandleSelectPlayer, HandleTokenToRedisRs, SetOnlineFlag, Swap,
     RedisStep, SetnxOnline, ExpireOnline, AnswerQueryOnline, HandleAccountSyncOnlineToRedis,
     HandleAccountDeleteOnlineToRedis, HandleLoginTokenToRedis, Restart, logic
<1>5. ASSUME \/ \E c \in Conn : ClientStep(c)
             \/ \E q \in asked : Answer(q) \/ HttpFails(q) \/ QueryFails(q)
             \/ \E a \in Account : Expire(a) \/ SyncOnlineInGame(a) \/ DeleteOnlineInGame(a)
             \/ UNCHANGED vars
      PROVE  UNCHANGED players
  BY <1>5 DEF ClientStep, Connect, Select, Close, Answer, HttpFails, QueryFails, Expire,
     SyncOnlineInGame, DeleteOnlineInGame, vars, logic
<1> QED BY <1>1, <1>2, <1>3, <1>4, <1>5 DEF Next, AccountStep

LEMMA InitInv == Init => IInv
<1> SUFFICES ASSUME Init PROVE IInv
  OBVIOUS
<1>1. TypeOK /\ OnePlayer
  BY InitType DEF Init, OnePlayer
<1>2. ASSUME NEW l \in Server, NEW a \in Account PROVE Claim(l, a)
  <2>1. /\ box[l] = <<>> /\ redis[l] = <<>> /\ step[l] = "next"
        /\ online[l] = {} /\ removed[l] = {}
    BY DEF Init
  <2>2. /\ ~Asking(l, a) /\ ~Offline(l, a) /\ ~Present(l, a) /\ ~Leaving(l, a)
        /\ ~Deleting(l, a) /\ ~Syncing(l, a)
    BY <2>1, EmptyQueue DEF Asking, Offline, Present, Leaving, Deleting, Syncing
  <2> QED BY <2>1, <2>2, EmptyQueue DEF Claim, Trace, OneTrace, SyncsFirst
<1> QED BY <1>1, <1>2 DEF IInv

\* What Account does keeps the claims.
LEMMA AccountKeepsClaims ==
  ASSUME IInv, NEW l \in Server, AccountStep(l)
  PROVE  \A k \in Server, b \in Account : Claim(k, b)'
<1> USE DEF logic, store
<1>1. TypeOK /\ (\A k \in Server, b \in Account : Claim(k, b)) /\ Owner \in [Conn -> Account]
  BY LoginAssumption DEF IInv
<1>2. CASE HandleAccountCheck(l)
  <2>1. Message(l).conn \in Conn
    BY <1>1, <1>2, QueueTypes, PacketFields DEF HandleAccountCheck, Handles, Message
  <2>2. \/ redis' = redis
        \/ redis' = [redis EXCEPT ![l] = Append(@, QueryOnline(Owner[Message(l).conn]))]
    BY <1>2 DEF HandleAccountCheck
  <2>3. box[l] # <<>> /\ Handled(l) /\ UNCHANGED <<step, online, removed, flag>>
    BY <1>2 DEF HandleAccountCheck, Handles
  <2> QED BY <1>1, <2>1, <2>2, <2>3, HandleKeepsClaims
<1>3. CASE HandleSelectPlayer(l)
  <2>1. Message(l).conn \in Conn
    BY <1>1, <1>3, QueueTypes, PacketFields DEF HandleSelectPlayer, Handles, Message
  <2>2. \/ redis' = redis
        \/ redis' = [redis EXCEPT ![l] = Append(@, LoginToken(Owner[Message(l).conn]))]
    BY <1>3 DEF HandleSelectPlayer
  <2>3. box[l] # <<>> /\ Handled(l) /\ UNCHANGED <<step, online, removed, flag>>
    BY <1>3 DEF HandleSelectPlayer, Handles
  <2> QED BY <1>1, <2>1, <2>2, <2>3, HandleKeepsClaims
<1>4. CASE \/ HandleNetworkConnected(l) \/ HandleHttpOuterResponse(l)
           \/ HandleQueryPlayerListRs(l) \/ HandleTokenToRedisRs(l)
  <2>1. box[l] # <<>> /\ Handled(l) /\ UNCHANGED <<redis, step, online, removed, flag>>
    BY <1>4 DEF HandleNetworkConnected, HandleHttpOuterResponse, HandleQueryPlayerListRs,
                HandleTokenToRedisRs, Handles
  <2> QED BY <1>1, <2>1, HandleKeepsClaims
<1>5. CASE HandleAccountQueryOnlineToRedisRs(l)
  BY <1>5, AnswerKeepsClaims
<1>6. CASE HandleNetworkDisconnect(l)
  BY <1>6, DisconnectKeepsClaims
<1> QED BY <1>2, <1>3, <1>4, <1>5, <1>6 DEF AccountStep

\* What clients, the HTTP server and dbmgr do keeps the claims.
LEMMA OutsideKeepsClaims ==
  ASSUME IInv,
         (\E c \in Conn : ClientStep(c)) \/ (\E q \in asked : Answer(q) \/ HttpFails(q) \/ QueryFails(q))
  PROVE  \A k \in Server, b \in Account : Claim(k, b)'
<1> USE DEF logic, store
<1>1. ASSUME NEW c \in Conn, NEW l \in Server, Connect(c, l)
      PROVE  \A k \in Server, b \in Account : Claim(k, b)'
  BY <1>1, PacketTypes, ArrivalKeepsClaims DEF Connect
<1>2. ASSUME NEW c \in Conn, Select(c)
      PROVE  \A k \in Server, b \in Account : Claim(k, b)'
  BY <1>2, PacketTypes, ArrivalKeepsClaims DEF Select
<1>3. ASSUME NEW c \in Conn, Close(c)
      PROVE  \A k \in Server, b \in Account : Claim(k, b)'
  BY <1>3, PacketTypes, ArrivalKeepsClaims DEF Close
<1>4. ASSUME NEW q \in asked, Answer(q)
      PROVE  \A k \in Server, b \in Account : Claim(k, b)'
  <2>1. OuterRs(q) \in Packets /\ OuterRs(q).type # "QueryOnlineRs"
    BY PacketTypes DEF IInv, TypeOK
  <2> QED BY <1>4, <2>1, ArrivalKeepsClaims DEF Answer
<1>5. ASSUME NEW q \in asked, HttpFails(q) \/ QueryFails(q)
      PROVE  \A k \in Server, b \in Account : Claim(k, b)'
  BY <1>5, SameClaim DEF HttpFails, QueryFails, IInv
<1> QED BY <1>1, <1>2, <1>3, <1>4, <1>5 DEF ClientStep

\* Every step keeps the invariant.
LEMMA StepInv == IInv /\ [Next]_vars => IInv'
<1> SUFFICES ASSUME IInv, [Next]_vars PROVE IInv'
  OBVIOUS
<1> DEFINE Claims == \A k \in Server, b \in Account : Claim(k, b)
<1>1. TypeOK' /\ OnePlayer'
  BY StepType, PlayersStep DEF IInv
<1>2. ASSUME UNCHANGED <<box, redis, step, online, removed, flag>> PROVE Claims'
  BY <1>2, SameClaim DEF IInv
<1>3. ASSUME NEW l \in Server,
             \/ AccountStep(l) \/ SetOnlineFlag(l) \/ Swap(l) \/ RedisStep(l)
             \/ Crash(l) \/ Restart(l)
      PROVE  Claims'
  <2>1. CASE RedisStep(l)
    BY <2>1, SetnxKeepsClaims, QueryKeepsClaims, WriteKeepsClaims, TokenKeepsClaims DEF RedisStep
  <2>2. CASE Restart(l)
    BY <1>2, <2>2 DEF Restart, logic, store
  <2>3. CASE Crash(l)
    BY <2>3, CrashKeepsClaims
  <2>4. CASE SetOnlineFlag(l)
    BY <2>4, SetOnlineFlagKeepsClaims
  <2>5. CASE Swap(l)
    BY <2>5, SwapKeepsClaims
  <2>6. CASE AccountStep(l)
    BY <2>6, AccountKeepsClaims
  <2> QED BY <1>3, <2>1, <2>2, <2>3, <2>4, <2>5, <2>6
<1>4. ASSUME \/ \E c \in Conn : ClientStep(c)
             \/ \E q \in asked : Answer(q) \/ HttpFails(q) \/ QueryFails(q)
      PROVE  Claims'
  BY <1>4, OutsideKeepsClaims
<1>5. ASSUME NEW a \in Account, Expire(a) \/ SyncOnlineInGame(a) \/ DeleteOnlineInGame(a)
      PROVE  Claims'
  <2>1. CASE Expire(a)
    BY <2>1, ExpireKeepsClaims
  <2>2. CASE SyncOnlineInGame(a) \/ DeleteOnlineInGame(a)
    BY <1>2, <2>2 DEF SyncOnlineInGame, DeleteOnlineInGame, logic
  <2> QED BY <1>5, <2>1, <2>2
<1>6. ASSUME UNCHANGED vars PROVE Claims'
  BY <1>2, <1>6 DEF vars, logic, store
<1> HIDE DEF Claims
<1>7. Claims'
  BY <1>3, <1>4, <1>5, <1>6 DEF Next
<1> QED BY <1>1, <1>7 DEF IInv, Claims

LEMMA Invariance == Spec => []IInv
BY InitInv, StepInv, PTL DEF Spec

\* The flag stands, with this process in it, as long as the account logs in
\* here: no late deletion or end of a key takes it from under a player.
THEOREM FlagIsHeld == Spec => []FlagHeld
<1>1. IInv => FlagHeld
  BY LoginAssumption DEF IInv, TypeOK, Claim, Trace, Present, FlagHeld
<1> QED BY <1>1, Invariance, PTL

\* An account logs in at one login process at a time, by one connection,
\* whatever packets cross, whoever leaves and whichever process fails.
THEOREM LogsInOnce == Spec => []OneInLogin
<1>1. ASSUME IInv, NEW l \in Server, NEW k \in Server, NEW c \in online[l], NEW d \in online[k],
             Owner[c] = Owner[d]
      PROVE  l = k /\ c = d
  <2>1. c \in players[l] /\ d \in players[k]
    BY <1>1 DEF IInv, TypeOK
  <2>2. c \in Conn /\ Owner[c] \in Account
    BY <1>1, <2>1, LoginAssumption DEF IInv, TypeOK
  <2>3. flag[Owner[c]] = l /\ flag[Owner[c]] = k
    BY <1>1, <2>2 DEF IInv, Claim, Trace, Present
  <2> QED BY <1>1, <2>1, <2>3 DEF IInv, OnePlayer
<1>2. IInv => OneInLogin
  BY <1>1 DEF OneInLogin
<1> QED BY <1>2, Invariance, PTL
=============================================================================
