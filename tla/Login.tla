-------------------------------- MODULE Login --------------------------------
(***************************************************************************)
(* How an account logs in (apps/login).  A client connects to one of the   *)
(* login processes and sends C2L_AccountCheck.  RedisLogin sets the online *)
(* flag of the account with SETNX, and EXPIRE as a command of its own;     *)
(* then the password is checked over HTTP, the players are read from the   *)
(* database, the client selects one and gets a token for a game process.   *)
(*                                                                         *)
(* Each login process has a logic thread (Account and the players) and a   *)
(* thread of RedisLogin, which exchange packets; an answer names only the  *)
(* account, and Account applies it to whoever logs in with it by then: an  *)
(* HTTP answer also to a player that Redis has refused or not yet let in.  *)
(* Login processes fail and are started again; Redis does not fail.        *)
(***************************************************************************)
EXTENDS Naturals, Sequences, FiniteSets

CONSTANTS
  Account,      \* accounts
  Conn,         \* connections of clients, each used once
  Owner,        \* the account of each connection
  Server,       \* login processes
  None,         \* nothing
  MaxCrash      \* bound on the number of failures of login processes

ASSUME LoginAssumption ==
  /\ Owner \in [Conn -> Account]
  /\ None \notin Server \cup Conn
  /\ MaxCrash \in Nat

VARIABLES
  conn,         \* state of each connection
  at,           \* the login process it was made to
  got,          \* what the client has been told
  box,          \* packets for each process's logic thread
  redis,        \* packets for each process's thread of RedisLogin
  step,         \* what that thread is doing with the first of them
  players,      \* PlayerCollectorComponent::_players, by connection
  online,       \* the players with a PlayerComponentOnlineInLogin
  due,          \* such components whose timer is to call SetOnlineFlag
  removed,      \* such components that go to their pool in the next Swap
  asked,        \* questions under way to the HTTP server and to dbmgr
  flag,         \* the login flag of each account in Redis: a process
  bare,         \* accounts whose flag has no time to live
  inGame,       \* accounts whose flag of the game processes is set
  cut,          \* history: accounts for which a failure came before EXPIRE
  unanswered,   \* history: connections whose HTTP connection or query failed
  up, crashes   \* the processes that run; a counter that bounds the model

client == <<conn, at, got>>
logic == <<players, online, due, removed>>
store == <<flag, bare, inGame>>
fate == <<cut, unanswered, up, crashes>>
vars == <<client, box, redis, step, logic, asked, store, fate>>

(***************************************************************************)
(* Packets.                                                                *)
(***************************************************************************)
AccountCheck(c) == [type |-> "AccountCheck", conn |-> c]
SelectPlayer(c) == [type |-> "SelectPlayer", conn |-> c]
Disconnect(c) == [type |-> "Disconnect", conn |-> c]
QueryOnlineRs(a, offline) == [type |-> "QueryOnlineRs", acct |-> a, offline |-> offline]
OuterRs(q) == [type |-> q.of, acct |-> q.acct]
TokenRs(a) == [type |-> "TokenRs", acct |-> a]

QueryOnline(a) == [type |-> "QueryOnline", acct |-> a]
SyncOnline(a) == [type |-> "SyncOnline", acct |-> a]
DeleteOnline(a) == [type |-> "DeleteOnline", acct |-> a]
LoginToken(a) == [type |-> "LoginToken", acct |-> a]

\* Questions of the process l for the connection c, answered by account: to the
\* HTTP server (to connect, then the request) and to dbmgr.
Question(of, l, c) == [of |-> of, at |-> l, by |-> c, acct |-> Owner[c]]
CreateConnect(l, c) == Question("Connected", l, c)
HttpRequest(l, c) == Question("HttpRs", l, c)
QueryPlayerList(l, c) == Question("PlayerListRs", l, c)

Init ==
  /\ conn = [c \in Conn |-> "new"]
  /\ at = [c \in Conn |-> None]
  /\ got = [c \in Conn |-> "nothing"]
  /\ box = [l \in Server |-> <<>>]
  /\ redis = [l \in Server |-> <<>>]
  /\ step = [l \in Server |-> "next"]
  /\ players = [l \in Server |-> {}]
  /\ online = [l \in Server |-> {}]
  /\ due = [l \in Server |-> {}]
  /\ removed = [l \in Server |-> {}]
  /\ asked = {}
  /\ flag = [a \in Account |-> None]
  /\ bare = {}
  /\ inGame \in SUBSET Account
  /\ cut = {}
  /\ unanswered = {}
  /\ up = Server
  /\ crashes = 0

(***************************************************************************)
(* Clients.                                                                *)
(***************************************************************************)
\* The client connects and sends C2L_AccountCheck.
Connect(c, l) ==
  /\ conn[c] = "new"
  /\ l \in up
  /\ conn' = [conn EXCEPT ![c] = "open"]
  /\ at' = [at EXCEPT ![c] = l]
  /\ box' = [box EXCEPT ![l] = Append(@, AccountCheck(c))]
  /\ UNCHANGED <<got, redis, step, logic, asked, store, fate>>

\* A client selects a player of the list, once.
Select(c) ==
  /\ conn[c] = "open"
  /\ got[c] = "list"
  /\ got' = [got EXCEPT ![c] = "selected"]
  /\ box' = [box EXCEPT ![at[c]] = Append(@, SelectPlayer(c))]
  /\ UNCHANGED <<conn, at, redis, step, logic, asked, store, fate>>

\* The client closes, or the net thread does what MI_NetworkRequestDisconnect asks.
Close(c) ==
  /\ conn[c] \in {"open", "closing"}
  /\ conn' = [conn EXCEPT ![c] = "closed"]
  /\ box' = [box EXCEPT ![at[c]] = Append(@, Disconnect(c))]
  /\ UNCHANGED <<at, got, redis, step, logic, asked, store, fate>>

(***************************************************************************)
(* Account and PlayerCollectorComponent, on the logic thread.              *)
(***************************************************************************)
Handles(l, type) == box[l] # <<>> /\ Head(box[l]).type = type
Message(l) == Head(box[l])
Handled(l) == box' = [box EXCEPT ![l] = Tail(@)]

\* GetPlayerByAccount: AddPlayer is called only for an account that has none.
ByAccount(l, a) == {c \in players[l] : Owner[c] = a}

\* What is sent on a connection that is closed is lost.
Tell(told, what) ==
  got' = [c \in Conn |-> IF c \in told /\ conn[c] = "open" THEN what ELSE got[c]]

HandleAccountCheck(l) ==
  /\ Handles(l, "AccountCheck")
  /\ Handled(l)
  /\ LET c == Message(l).conn IN
       \/ /\ ByAccount(l, Owner[c]) # {}
          /\ Tell({c}, "refused")
          /\ conn' = [conn EXCEPT ![c] = IF @ = "open" THEN "closing" ELSE @]
          /\ UNCHANGED <<redis, players>>
       \/ /\ ByAccount(l, Owner[c]) = {}
          /\ players' = [players EXCEPT ![l] = @ \cup {c}]
          /\ redis' = [redis EXCEPT ![l] = Append(@, QueryOnline(Owner[c]))]
          /\ UNCHANGED <<conn, got>>
  /\ UNCHANGED <<at, step, online, due, removed, asked, store, fate>>

\* Mutated form: the online component is added before the answer is looked at.
LetThroughAlways(l, m) == ByAccount(l, m.acct)

\* The players that an answer lets through.
LetThrough(l, m) == IF m.offline THEN ByAccount(l, m.acct) ELSE {}

\* Mutated form: who is found to be online is not told.
RefusedUntold(l, m) == {}

Refused(l, m) == IF m.offline THEN {} ELSE ByAccount(l, m.acct)

HandleAccountQueryOnlineToRedisRs(l) ==
  /\ Handles(l, "QueryOnlineRs")
  /\ Handled(l)
  /\ LET m == Message(l)
         through == LetThrough(l, m)
     IN  /\ Tell(Refused(l, m), "refused")
         /\ online' = [online EXCEPT ![l] = @ \cup through]
         /\ due' = [due EXCEPT ![l] = @ \cup through]
         /\ asked' = asked \cup {CreateConnect(l, c) : c \in through}
  /\ UNCHANGED <<conn, at, redis, step, players, removed, store, fate>>

\* The request is made for whoever logs in with the account by now.
HandleNetworkConnected(l) ==
  /\ Handles(l, "Connected")
  /\ Handled(l)
  /\ asked' = asked \cup {HttpRequest(l, c) : c \in ByAccount(l, Message(l).acct)}
  /\ UNCHANGED <<client, redis, step, logic, store, fate>>

\* The HTTP server accepts the password, or the client is told what is wrong.
HandleHttpOuterResponse(l) ==
  /\ Handles(l, "HttpRs")
  /\ Handled(l)
  /\ LET found == ByAccount(l, Message(l).acct) IN
       \/ /\ asked' = asked \cup {QueryPlayerList(l, c) : c \in found}
          /\ UNCHANGED got
       \/ /\ Tell(found, "refused")
          /\ UNCHANGED asked
  /\ UNCHANGED <<conn, at, redis, step, logic, store, fate>>

HandleQueryPlayerListRs(l) ==
  /\ Handles(l, "PlayerListRs")
  /\ Handled(l)
  /\ Tell(ByAccount(l, Message(l).acct), "list")
  /\ UNCHANGED <<conn, at, redis, step, logic, asked, store, fate>>

\* A player is asked a token for if its client selects one of its list; the client
\* is told SPRC_NotFound if not, and nothing if the player has been removed.
HandleSelectPlayer(l) ==
  /\ Handles(l, "SelectPlayer")
  /\ Handled(l)
  /\ LET c == Message(l).conn IN
       \/ /\ c \in players[l]
          /\ redis' = [redis EXCEPT ![l] = Append(@, LoginToken(Owner[c]))]
          /\ UNCHANGED got
       \/ /\ c \in players[l]
          /\ Tell({c}, "refused")
          /\ UNCHANGED redis
       \/ /\ c \notin players[l]
          /\ UNCHANGED <<redis, got>>
  /\ UNCHANGED <<conn, at, step, logic, asked, store, fate>>

HandleTokenToRedisRs(l) ==
  /\ Handles(l, "TokenRs")
  /\ Handled(l)
  /\ Tell(ByAccount(l, Message(l).acct), "token")
  /\ UNCHANGED <<conn, at, redis, step, logic, asked, store, fate>>

\* RemovePlayerBySocket; the components of the player go to their pools later.
HandleNetworkDisconnect(l) ==
  /\ Handles(l, "Disconnect")
  /\ Handled(l)
  /\ LET c == Message(l).conn IN
       /\ players' = [players EXCEPT ![l] = @ \ {c}]
       /\ online' = [online EXCEPT ![l] = @ \ {c}]
       /\ removed' = [removed EXCEPT ![l] = @ \cup (online[l] \cap {c})]
  /\ UNCHANGED <<client, redis, step, due, asked, store, fate>>

\* PlayerComponentOnlineInLogin::SetOnlineFlag, its first call by the timer; the
\* later ones write what is there already (FlagHeld).
SetOnlineFlag(l) ==
  \E c \in due[l] :
    /\ due' = [due EXCEPT ![l] = @ \ {c}]
    /\ redis' = [redis EXCEPT ![l] = Append(@, SyncOnline(Owner[c]))]
    /\ UNCHANGED <<client, box, step, players, online, removed, asked, store, fate>>

\* Mutated form: the timer of the component stays.
TimersKept(l, c) == due[l]

TimersWithout(l, c) == due[l] \ {c}

\* ComponentCollections::Swap: BackToPool has the flag deleted, and the timer
\* is removed.
Swap(l) ==
  \E c \in removed[l] :
    /\ removed' = [removed EXCEPT ![l] = @ \ {c}]
    /\ due' = [due EXCEPT ![l] = TimersWithout(l, c)]
    /\ redis' = [redis EXCEPT ![l] = Append(@, DeleteOnline(Owner[c]))]
    /\ UNCHANGED <<client, box, step, players, online, asked, store, fate>>

(***************************************************************************)
(* RedisLogin, on its thread.                                              *)
(***************************************************************************)
Serves(l, at_, type) ==
  step[l] = at_ /\ redis[l] # <<>> /\ Head(redis[l]).type = type
Acct(l) == Head(redis[l]).acct
Served(l) == redis' = [redis EXCEPT ![l] = Tail(@)] /\ step' = [step EXCEPT ![l] = "next"]
Answers(l, m) == box' = [box EXCEPT ![l] = Append(@, m)]

\* Mutated form: SET for SETNX.
Setnx(l, a) == TRUE

\* SETNX sets the key only if there is none.
SetnxSucceeds(l, a) == flag[a] = None

\* SetnxExpire, its first command.
SetnxOnline(l) ==
  /\ Serves(l, "next", "QueryOnline")
  /\ IF SetnxSucceeds(l, Acct(l))
       THEN /\ flag' = [flag EXCEPT ![Acct(l)] = l]
            /\ bare' = bare \cup {Acct(l)}
            /\ step' = [step EXCEPT ![l] = "expire"]
       ELSE /\ step' = [step EXCEPT ![l] = "online"]
            /\ UNCHANGED <<flag, bare>>
  /\ UNCHANGED <<client, box, redis, logic, asked, inGame, fate>>

\* Mutated form: the second command is not sent.
Expiring(a) == bare

\* EXPIRE gives the key a time to live.
WithTimeout(a) == bare \ {a}

\* SetnxExpire, its second command.
ExpireOnline(l) ==
  /\ Serves(l, "expire", "QueryOnline")
  /\ bare' = WithTimeout(Acct(l))
  /\ step' = [step EXCEPT ![l] = "offline"]
  /\ UNCHANGED <<client, box, redis, logic, asked, flag, inGame, fate>>

\* GET of the game processes' flag, and the answer.
AnswerQueryOnline(l) ==
  /\ Serves(l, "offline", "QueryOnline") \/ Serves(l, "online", "QueryOnline")
  /\ Answers(l, QueryOnlineRs(Acct(l), step[l] = "offline" /\ Acct(l) \notin inGame))
  /\ Served(l)
  /\ UNCHANGED <<client, logic, asked, store, fate>>

\* SETEX, whatever is there.
HandleAccountSyncOnlineToRedis(l) ==
  /\ Serves(l, "next", "SyncOnline")
  /\ flag' = [flag EXCEPT ![Acct(l)] = l]
  /\ bare' = bare \ {Acct(l)}
  /\ Served(l)
  /\ UNCHANGED <<client, box, logic, asked, inGame, fate>>

HandleAccountDeleteOnlineToRedis(l) ==
  /\ Serves(l, "next", "DeleteOnline")
  /\ flag' = [flag EXCEPT ![Acct(l)] = None]
  /\ bare' = bare \ {Acct(l)}
  /\ Served(l)
  /\ UNCHANGED <<client, box, logic, asked, inGame, fate>>

\* SETEX of the token; the token itself is not kept.
HandleLoginTokenToRedis(l) ==
  /\ Serves(l, "next", "LoginToken")
  /\ Answers(l, TokenRs(Acct(l)))
  /\ Served(l)
  /\ UNCHANGED <<client, logic, asked, store, fate>>

(***************************************************************************)
(* What goes on around the login processes.                                *)
(***************************************************************************)
\* The HTTP server answers, or dbmgr does (QueryPlayerList).
Answer(q) ==
  /\ asked' = asked \ {q}
  /\ box' = [box EXCEPT ![q.at] = Append(@, OuterRs(q))]
  /\ UNCHANGED <<client, redis, step, logic, store, fate>>

\* The HTTP connection fails: HandleNetworkDisconnect looks only at connections
\* of clients, and nobody tells the client.
HttpFails(q) ==
  /\ q.of # "PlayerListRs"
  /\ asked' = asked \ {q}
  /\ unanswered' = unanswered \cup {q.by}
  /\ UNCHANGED <<client, box, redis, step, logic, store, cut, up, crashes>>

\* The query fails in dbmgr: QueryPlayerList logs that and returns, and nobody
\* tells the login process or the client.
QueryFails(q) ==
  /\ q.of = "PlayerListRs"
  /\ asked' = asked \ {q}
  /\ unanswered' = unanswered \cup {q.by}
  /\ UNCHANGED <<client, box, redis, step, logic, store, cut, up, crashes>>

\* The process l has to do with the account.
Concerned(l, a) ==
  \/ ByAccount(l, a) \cap online[l] # {}
  \/ \E c \in removed[l] : Owner[c] = a
  \/ \E i \in 1..Len(redis[l]) : redis[l][i].acct = a
  \/ \E i \in 1..Len(box[l]) : box[l][i].type = "QueryOnlineRs" /\ box[l][i].acct = a

\* A key with a time to live ends, but not while its process is about to write
\* it again or to delete it: that takes it less than the 180 s that are left
\* of the key's 360 s when SetOnlineFlag is called the next time.
Expire(a) ==
  /\ flag[a] # None
  /\ a \notin bare
  /\ ~Concerned(flag[a], a)
  /\ flag' = [flag EXCEPT ![a] = None]
  /\ UNCHANGED <<client, box, redis, step, logic, asked, bare, inGame, fate>>

\* The game processes set their flag for a client with a token, and delete it
\* when the player leaves (RedisGame).
SyncOnlineInGame(a) ==
  /\ a \notin inGame
  /\ \E c \in Conn : Owner[c] = a /\ got[c] = "token"
  /\ inGame' = inGame \cup {a}
  /\ UNCHANGED <<client, box, redis, step, logic, asked, flag, bare, fate>>

DeleteOnlineInGame(a) ==
  /\ a \in inGame
  /\ inGame' = inGame \ {a}
  /\ UNCHANGED <<client, box, redis, step, logic, asked, flag, bare, fate>>

\* A process fails, between any two of its steps: its connections are closed,
\* and Redis keeps what it was sent.
Crash(l) ==
  /\ l \in up
  /\ crashes < MaxCrash
  /\ crashes' = crashes + 1
  /\ up' = up \ {l}
  /\ conn' = [c \in Conn |-> IF at[c] = l THEN "closed" ELSE conn[c]]
  /\ box' = [box EXCEPT ![l] = <<>>]
  /\ redis' = [redis EXCEPT ![l] = <<>>]
  /\ step' = [step EXCEPT ![l] = "next"]
  /\ players' = [players EXCEPT ![l] = {}]
  /\ online' = [online EXCEPT ![l] = {}]
  /\ due' = [due EXCEPT ![l] = {}]
  /\ removed' = [removed EXCEPT ![l] = {}]
  /\ asked' = {q \in asked : q.at # l}
  /\ cut' = IF step[l] = "expire" THEN cut \cup {Acct(l)} ELSE cut
  /\ UNCHANGED <<at, got, store, unanswered>>

Restart(l) ==
  /\ l \in Server \ up
  /\ up' = up \cup {l}
  /\ UNCHANGED <<client, box, redis, step, logic, asked, store, cut, unanswered, crashes>>

(***************************************************************************)
(* The specification.                                                      *)
(***************************************************************************)
AccountStep(l) ==
  \/ HandleAccountCheck(l)
  \/ HandleAccountQueryOnlineToRedisRs(l)
  \/ HandleNetworkConnected(l)
  \/ HandleHttpOuterResponse(l)
  \/ HandleQueryPlayerListRs(l)
  \/ HandleSelectPlayer(l)
  \/ HandleTokenToRedisRs(l)
  \/ HandleNetworkDisconnect(l)

RedisStep(l) ==
  \/ SetnxOnline(l)
  \/ ExpireOnline(l)
  \/ AnswerQueryOnline(l)
  \/ HandleAccountSyncOnlineToRedis(l)
  \/ HandleAccountDeleteOnlineToRedis(l)
  \/ HandleLoginTokenToRedis(l)

ClientStep(c) == (\E l \in Server : Connect(c, l)) \/ Select(c) \/ Close(c)

Next ==
  \/ \E l \in Server :
       AccountStep(l) \/ SetOnlineFlag(l) \/ Swap(l) \/ RedisStep(l) \/ Crash(l) \/ Restart(l)
  \/ \E c \in Conn : ClientStep(c)
  \/ \E q \in asked : Answer(q) \/ HttpFails(q) \/ QueryFails(q)
  \/ \E a \in Account : Expire(a) \/ SyncOnlineInGame(a) \/ DeleteOnlineInGame(a)

Spec == Init /\ [][Next]_vars

\* The threads run, the net thread closes what it is asked to, the HTTP server
\* and dbmgr answer unless they fail, keys expire and clients select a player when
\* they get the list (as the robots do); nobody has to connect, to leave or to fail.
Fairness ==
  /\ \A l \in Server :
       /\ WF_vars(AccountStep(l))
       /\ WF_vars(SetOnlineFlag(l))
       /\ WF_vars(Swap(l))
       /\ WF_vars(RedisStep(l))
  /\ \A c \in Conn : WF_vars(Select(c)) /\ WF_vars(conn[c] = "closing" /\ Close(c))
  /\ WF_vars(\E q \in asked : Answer(q))
  /\ \A a \in Account : WF_vars(Expire(a))

LiveSpec == Spec /\ Fairness

(***************************************************************************)
(* Properties.                                                             *)
(***************************************************************************)
Packets ==
  {AccountCheck(c) : c \in Conn} \cup {SelectPlayer(c) : c \in Conn}
    \cup {Disconnect(c) : c \in Conn}
    \cup [type : {"QueryOnlineRs"}, acct : Account, offline : BOOLEAN]
    \cup [type : {"Connected", "HttpRs", "PlayerListRs", "TokenRs"}, acct : Account]

RedisPackets ==
  [type : {"QueryOnline", "SyncOnline", "DeleteOnline", "LoginToken"}, acct : Account]

\* RedisLogin is in the middle of a packet only if it is a question whether an
\* account is online.
Underway ==
  \A l \in Server : step[l] # "next" => redis[l] # <<>> /\ Head(redis[l]).type = "QueryOnline"

\* Every variable keeps its shape, and the timer of SetOnlineFlag lives no longer
\* than its component.
TypeOK ==
  /\ conn \in [Conn -> {"new", "open", "closing", "closed"}]
  /\ at \in [Conn -> Server \cup {None}]
  /\ got \in [Conn -> {"nothing", "refused", "list", "selected", "token"}]
  /\ box \in [Server -> Seq(Packets)]
  /\ redis \in [Server -> Seq(RedisPackets)]
  /\ step \in [Server -> {"next", "expire", "offline", "online"}]
  /\ Underway
  /\ players \in [Server -> SUBSET Conn]
  /\ online \in [Server -> SUBSET Conn]
  /\ removed \in [Server -> SUBSET Conn]
  /\ due \in [Server -> SUBSET Conn]
  /\ \A l \in Server : online[l] \subseteq players[l] /\ due[l] \subseteq online[l] \cup removed[l]
  /\ asked \subseteq [of : {"Connected", "HttpRs", "PlayerListRs"},
                      at : Server, by : Conn, acct : Account]
  /\ flag \in [Account -> Server \cup {None}]
  /\ bare \subseteq Account /\ inGame \subseteq Account /\ cut \subseteq Account
  /\ unanswered \subseteq Conn
  /\ up \subseteq Server /\ crashes \in 0..MaxCrash

\* An account logs in at one login process at a time, by one connection: what
\* the flag in Redis is for (account.cpp: the same account is logging in).
OneInLogin ==
  \A l, k \in Server : \A c \in online[l], d \in online[k] :
    Owner[c] = Owner[d] => l = k /\ c = d

\* The flag stands, with this process in it, as long as the account logs in
\* here: no late deletion or end of a key takes it from under a player.
FlagHeld == \A l \in Server : \A c \in online[l] : flag[Owner[c]] = l

\* A client that connects is refused, gets a token or is gone, unless its HTTP
\* connection or the query of its players fails.  Not that the answer is its own:
\* one to a former connection of the account is applied to it (account.cpp:366),
\* and lets in a client that Redis refused and whose password nobody checked.
Answered ==
  \A c \in Conn :
    conn[c] = "open" ~>
      (got[c] \in {"refused", "token"} \/ conn[c] # "open" \/ c \in unanswered)

\* A flag nobody holds ends, so that the account can log in again ("within this
\* time", redis_connector.cpp:189), unless the process failed before EXPIRE.
FlagEnds ==
  \A a \in Account :
    flag[a] # None ~>
      (flag[a] = None \/ a \in cut \/ \E l \in Server : \E c \in online[l] : Owner[c] = a)
=============================================================================
