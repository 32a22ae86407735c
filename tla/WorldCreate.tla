----------------------------- MODULE WorldCreate -----------------------------
(***************************************************************************)
(* How a public world comes to be, and what is left of it when its space   *)
(* process fails: the Lobby of a game process asks the appmgr for a world  *)
(* (G2M_RequestWorld), the appmgr has a space process create it            *)
(* (G2S_CreateWorld), the space process tells the appmgr and every game    *)
(* process that is connected (MI_BroadcastCreateWorld), and each of these  *)
(* makes a WorldProxy, which tells its Lobby.                              *)
(*                                                                         *)
(* Every socket and every thread's packet list is a FIFO queue.  A game    *)
(* process has a main thread (WorldProxyLocator) and a logic thread (Lobby *)
(* and the proxies); a packet that concerns both is on both lists.  The    *)
(* logic thread's frame handles the packets that its list has when the     *)
(* frame begins, and before that frees the entities removed in the frame   *)
(* before.  Space processes fail and are started again; the appmgr and the *)
(* games do not.                                                           *)
(***************************************************************************)
EXTENDS Naturals, Sequences, FiniteSets, SequencesExt

CONSTANTS
  World,        \* ids of public worlds
  Space,        \* space processes
  Game,         \* game processes
  Player,       \* players, who may log in at any game
  Known,        \* the space processes that the appmgr knows of initially
  Mgr,          \* the appmgr
  None,         \* nothing
  MaxLogin,     \* bound on the number of logins
  MaxCrash      \* bound on the number of failures of space processes

ASSUME WorldCreateAssumption ==
  /\ Known \subseteq Space
  /\ Mgr \notin Space \cup Game
  /\ Space \cap Game = {}
  /\ None \notin Space /\ None \notin [id : World, app : Space, sn : Nat]
  /\ IsFiniteSet(World) /\ IsFiniteSet(Player)
  /\ MaxLogin \in Nat /\ MaxCrash \in Nat

VARIABLES
  up,           \* the space processes that run
  worlds,       \* the Worlds in them
  serial,       \* what GenerateSN has given out
  apps,         \* CreateWorldComponent::_apps: the space processes among them
  creating,     \* CreateWorldComponent::_creating
  created,      \* CreateWorldComponent::_created
  again,        \* history: worlds that were asked for again after a failure
  toMgr,        \* packets under way to the appmgr, from each process
  toSpace,      \* worlds to be created, under way to each space process
  linked,       \* the space processes each game is connected to
  main,         \* MI_BroadcastCreateWorld for each game's main thread, by sender
  logic,        \* packets for each game's logic thread
  publics,      \* WorldProxyLocator::_publics
  proxies,      \* the WorldProxy entities that EntitySystem holds
  doomed,       \* those of them that the next frame frees
  rest,         \* if there are any: the packets left of this frame
  strays,       \* the worlds of WorldProxy objects refused for their SN
  waiting,      \* Lobby::_waitingForWorld
  place,        \* where each player is
  logins, crashes       \* counters that bound the model

spaces == <<up, worlds, serial>>
mgr == <<apps, creating, created, again>>
entities == <<proxies, doomed, strays>>
game == <<publics, entities, rest, waiting, place, logins>>
vars == <<spaces, mgr, toMgr, toSpace, linked, main, logic, game, crashes>>

(***************************************************************************)
(* Packets, and a world: its id, its app and its number make its SN.       *)
(***************************************************************************)
NewWorld(w, s, n) == [id |-> w, app |-> s, sn |-> n]

RequestWorld(w) == [type |-> "RequestWorld", id |-> w]
BroadcastCreateWorld(x) == [type |-> "BroadcastCreateWorld", world |-> x]
AppInfoSync == [type |-> "AppInfoSync"]
Disconnect == [type |-> "Disconnect"]

CreateComponent(x) == [type |-> "CreateComponent", world |-> x]
BroadcastCreateWorldProxy(x) == [type |-> "BroadcastCreateWorldProxy", world |-> x]
TeleportTo(p, x) == [type |-> "Teleport", player |-> p, world |-> x]
SpaceDisconnect(s) == [type |-> "Disconnect", app |-> s]

\* Where a player can be.
Out == <<"out">>
Adrift == <<"adrift">>         \* connected, but without a Player
InLobby(g) == <<"lobby", g>>
InWorld(g, x) == <<"world", g, x>>

Holds(seq, m) == \E i \in 1..Len(seq) : seq[i] = m

Init ==
  /\ up = Space
  /\ worlds = {}
  /\ serial = 0
  /\ apps = Known
  /\ creating = [w \in World |-> None]
  /\ created = [w \in World |-> None]
  /\ again = {}
  /\ toMgr = [q \in Space \cup Game |-> <<>>]
  /\ toSpace = [s \in Space |-> <<>>]
  /\ linked = [g \in Game |-> Space]
  /\ main = [g \in Game |-> [q \in Space \cup {Mgr} |-> <<>>]]
  /\ logic = [g \in Game |-> <<>>]
  /\ publics = [g \in Game |-> [w \in World |-> None]]
  /\ proxies = [g \in Game |-> {}]
  /\ doomed = [g \in Game |-> {}]
  /\ rest = [g \in Game |-> 0]
  /\ strays = [g \in Game |-> {}]
  /\ waiting = [g \in Game |-> [w \in World |-> {}]]
  /\ place = [p \in Player |-> Out]
  /\ logins = 0
  /\ crashes = 0

(***************************************************************************)
(* CreateWorldComponent, in the appmgr.                                    *)
(***************************************************************************)
\* The appmgr's thread handles a packet of this type from this process.
Handles(q, type) == toMgr[q] # <<>> /\ Head(toMgr[q]).type = type

\* The appmgr's connection to s is the one to the process that runs now.
Connected(s) == s \in up /\ ~Holds(toMgr[s], Disconnect)

\* Packets to a process that is gone are dropped.
SendCreateWorld(s, ids) ==
  toSpace' = [toSpace EXCEPT ![s] = IF Connected(s) THEN @ \o ids ELSE @]

HandleAppInfoSync(s) ==
  /\ Handles(s, "AppInfoSync")
  /\ apps' = apps \cup {s}
  /\ toMgr' = [toMgr EXCEPT ![s] = Tail(@)]
  /\ UNCHANGED <<spaces, creating, created, again, toSpace, linked, main, logic,
                 game, crashes>>

Underway(w) == creating[w] # None

\* GetOneApp takes the space process with the fewest players, which may be any.
HandleRequestWorld(g) ==
  /\ Handles(g, "RequestWorld")
  /\ toMgr' = [toMgr EXCEPT ![g] = Tail(@)]
  /\ LET w == Head(toMgr[g]).id IN
       \/ /\ Underway(w)
          /\ UNCHANGED <<creating, toSpace, main>>
       \/ /\ ~Underway(w) /\ created[w] # None
          /\ main' = [main EXCEPT ![g][Mgr] = Append(@, created[w])]
          /\ UNCHANGED <<creating, toSpace>>
       \/ /\ ~Underway(w) /\ created[w] = None
          /\ apps = {}
          /\ UNCHANGED <<creating, toSpace, main>>
       \/ /\ ~Underway(w) /\ created[w] = None
          /\ \E s \in apps :
               /\ SendCreateWorld(s, <<w>>)
               /\ creating' = [creating EXCEPT ![w] = s]
          /\ UNCHANGED main
  /\ UNCHANGED <<spaces, apps, created, again, linked, logic, game, crashes>>

\* Mutated form: the world stays in _creating.
CreatedStillCreating(s) ==
  /\ Handles(s, "BroadcastCreateWorld")
  /\ LET x == Head(toMgr[s]).world
     IN  created' = [created EXCEPT ![x.id] = x]
  /\ toMgr' = [toMgr EXCEPT ![s] = Tail(@)]
  /\ UNCHANGED <<spaces, apps, creating, again, toSpace, linked, main, logic,
                 game, crashes>>

HandleBroadcastCreateWorld(s) ==
  /\ Handles(s, "BroadcastCreateWorld")
  /\ LET x == Head(toMgr[s]).world IN
       /\ created' = [created EXCEPT ![x.id] = x]
       /\ creating' = [creating EXCEPT ![x.id] = None]
  /\ toMgr' = [toMgr EXCEPT ![s] = Tail(@)]
  /\ UNCHANGED <<spaces, apps, again, toSpace, linked, main, logic, game, crashes>>

\* Mutated form: the worlds of the process are not forgotten.
CreatedKept(s) == created

\* _created without the worlds of the process that is gone.
CreatedWithout(s) ==
  [w \in World |-> IF created[w] # None /\ created[w].app = s THEN None
                                                              ELSE created[w]]

\* Mutated form: what the process was creating stays in _creating.
CreatingKept(s) == creating

\* _creating without the worlds that the process was creating.
CreatingWithout(s) == [w \in World |-> IF creating[w] = s THEN None ELSE creating[w]]

\* Mutated form: everything in _creating is taken for lost.
LostAll(s) == {w \in World : creating[w] # None}

\* What the process was creating.
Lost(s) == {w \in World : creating[w] = s}

\* What a space process was creating is asked for again, but not put into
\* _creating again; what it had created is forgotten.
HandleNetworkDisconnect(s) ==
  /\ Handles(s, "Disconnect")
  /\ toMgr' = [toMgr EXCEPT ![s] = Tail(@)]
  /\ apps' = apps \ {s}
  /\ creating' = CreatingWithout(s)
  /\ created' = CreatedWithout(s)
  /\ LET lost == Lost(s) IN
       IF apps' = {}
         THEN UNCHANGED <<again, toSpace>>
         ELSE /\ \E chosen \in [lost -> apps'] :
                   toSpace' = [t \in Space |->
                     IF Connected(t)
                       THEN toSpace[t] \o SetToSeq({w \in lost : chosen[w] = t})
                       ELSE toSpace[t]]
              /\ again' = again \cup {w \in World : creating[w] = s}
  /\ UNCHANGED <<spaces, linked, main, logic, game, crashes>>

(***************************************************************************)
(* Space processes.                                                        *)
(***************************************************************************)
\* WorldOperatorComponent: the world gets a new SN, and is announced to the
\* appmgr and to the games that are connected.
HandleCreateWorld(s) ==
  /\ s \in up
  /\ toSpace[s] # <<>>
  /\ toSpace' = [toSpace EXCEPT ![s] = Tail(@)]
  /\ serial' = serial + 1
  /\ LET x == NewWorld(Head(toSpace[s]), s, serial + 1) IN
       /\ worlds' = worlds \cup {x}
       /\ toMgr' = [toMgr EXCEPT ![s] = Append(@, BroadcastCreateWorld(x))]
       /\ main' = [g \in Game |->
                     IF s \in linked[g] THEN [main[g] EXCEPT ![s] = Append(@, x)]
                                        ELSE main[g]]
  /\ UNCHANGED <<up, mgr, linked, logic, game, crashes>>

\* WorldGather's timer, as far as it tells the appmgr anything new.
SyncSpaceInfo(s) ==
  /\ s \in up
  /\ s \notin apps \/ Holds(toMgr[s], Disconnect)
  /\ ~Holds(toMgr[s], AppInfoSync)
  /\ toMgr' = [toMgr EXCEPT ![s] = Append(@, AppInfoSync)]
  /\ UNCHANGED <<spaces, mgr, toSpace, linked, main, logic, game, crashes>>

\* The process ends.  Of what it has sent, each receiver gets a first part.
Crash(s) ==
  /\ s \in up
  /\ crashes < MaxCrash
  /\ crashes' = crashes + 1
  /\ up' = up \ {s}
  /\ worlds' = {x \in worlds : x.app # s}
  /\ toSpace' = [toSpace EXCEPT ![s] = <<>>]
  /\ \E n \in 0..Len(toMgr[s]) :
       /\ \A i \in n + 1..Len(toMgr[s]) : toMgr[s][i] # Disconnect
       /\ toMgr' = [toMgr EXCEPT ![s] = Append(SubSeq(@, 1, n), Disconnect)]
  /\ \E n \in [Game -> 0..serial] :
       /\ \A g \in Game :
            /\ n[g] <= Len(main[g][s])
            /\ \A i \in n[g] + 1..Len(main[g][s]) : main[g][s][i] \in worlds
       /\ main' = [g \in Game |-> [main[g] EXCEPT ![s] = SubSeq(@, 1, n[g])]]
  /\ UNCHANGED <<serial, mgr, linked, logic, game>>

\* A start takes longer than the games' net threads need to see the old
\* connection closed.
Restart(s) ==
  /\ s \notin up
  /\ \A g \in Game : s \notin linked[g]
  /\ up' = up \cup {s}
  /\ UNCHANGED <<worlds, serial, mgr, toMgr, toSpace, linked, main, logic, game,
                 crashes>>

(***************************************************************************)
(* Game processes: connections, WorldProxyLocator, WorldProxy and Lobby.   *)
(***************************************************************************)
\* The net thread sees the connection closed and dispatches MI_NetworkDisconnect.
SeeDisconnect(g, s) ==
  /\ s \in linked[g] \ up
  /\ linked' = [linked EXCEPT ![g] = @ \ {s}]
  /\ logic' = [logic EXCEPT ![g] = Append(@, SpaceDisconnect(s))]
  /\ UNCHANGED <<spaces, mgr, toMgr, toSpace, main, game, crashes>>

\* NetworkLocator has the connection made again, until it succeeds.
Reconnect(g, s) ==
  /\ s \in up \ linked[g]
  /\ linked' = [linked EXCEPT ![g] = @ \cup {s}]
  /\ UNCHANGED <<spaces, mgr, toMgr, toSpace, main, logic, game, crashes>>

\* WorldProxyLocator::HandleBroadcastCreateWorld, on the main thread: the proxy
\* is made on the logic thread, where it registers itself.
LocatorBroadcastCreateWorld(g, q) ==
  /\ main[g][q] # <<>>
  /\ main' = [main EXCEPT ![g][q] = Tail(@)]
  /\ LET x == Head(main[g][q]) IN
       logic' = IF publics[g][x.id] = None
                  THEN [logic EXCEPT ![g] = Append(@, CreateComponent(x))]
                  ELSE logic
  /\ UNCHANGED <<spaces, mgr, toMgr, toSpace, linked, game, crashes>>

\* The logic thread of g handles a packet of this type in its frame, and posts
\* these for a later one.
Takes(g, type) ==
  /\ logic[g] # <<>> /\ Head(logic[g]).type = type
  /\ doomed[g] # {} => rest[g] > 0

Posts(g, packets) == logic' = [logic EXCEPT ![g] = Tail(@) \o packets]

OneLess(g) == rest' = [rest EXCEPT ![g] = IF @ > 0 THEN @ - 1 ELSE 0]

\* WorldProxy::Awake: it registers itself and tells the others.  If there is one
\* with this SN already, ComponentCollections::Add and RegisterFunction do not
\* take it: it gets no packets and is never removed.
AwakeWorldProxy(g) ==
  /\ Takes(g, "CreateComponent")
  /\ LET x == Head(logic[g]).world IN
       /\ proxies' = [proxies EXCEPT ![g] = @ \cup {x}]
       /\ strays' = IF x \in proxies[g] THEN [strays EXCEPT ![g] = @ \cup {x}]
                                       ELSE strays
       /\ publics' = [publics EXCEPT ![g][x.id] = x]
       /\ Posts(g, <<BroadcastCreateWorldProxy(x)>>)
  /\ OneLess(g)
  /\ UNCHANGED <<spaces, mgr, toMgr, toSpace, linked, main, doomed, waiting,
                 place, logins, crashes>>

\* Mutated form: GetWorldSnById's result is not compared with INVALID_ID.
RegisteredAlways(g, w) == TRUE

Registered(g, w) == publics[g][w] # None

\* Lobby::EnterPublicWorld of a player who has logged in: only the first who
\* waits for a world has it requested.
EnterPublicWorld(g, p, w) ==
  /\ logins < MaxLogin
  /\ logins' = logins + 1
  /\ place[p] = Out
  /\ place' = [place EXCEPT ![p] = InLobby(g)]
  /\ \/ /\ Registered(g, w)
        /\ logic' = [logic EXCEPT ![g] = Append(@, TeleportTo(p, publics[g][w]))]
        /\ UNCHANGED <<waiting, toMgr>>
     \/ /\ ~Registered(g, w)
        /\ waiting' = [waiting EXCEPT ![g][w] = @ \cup {p}]
        /\ toMgr' = IF waiting[g][w] = {}
                      THEN [toMgr EXCEPT ![g] = Append(@, RequestWorld(w))]
                      ELSE toMgr
        /\ UNCHANGED logic
  /\ UNCHANGED <<spaces, mgr, toSpace, linked, main, publics, entities, rest,
                 crashes>>

\* Mutated form: the lobby forgets those who wait without teleporting them.
TeleportNone(g, x) == <<>>

\* Those who wait for the world and are still in the lobby are teleported.
TeleportWaiting(g, x) ==
  LET all == SetToSeq({p \in waiting[g][x.id] : place[p] = InLobby(g)})
  IN  [i \in 1..Len(all) |-> TeleportTo(all[i], x)]

LobbyBroadcastCreateWorldProxy(g) ==
  /\ Takes(g, "BroadcastCreateWorldProxy")
  /\ LET x == Head(logic[g]).world IN
       /\ Posts(g, TeleportWaiting(g, x))
       /\ waiting' = [waiting EXCEPT ![g][x.id] = {}]
  /\ OneLess(g)
  /\ UNCHANGED <<spaces, mgr, toMgr, toSpace, linked, main, publics, entities,
                 place, logins, crashes>>

\* WorldProxy::HandleTeleport; a packet to an entity that is gone is dropped, but
\* one that is removed handles packets to the end of the frame.
HandleTeleport(g) ==
  /\ Takes(g, "Teleport")
  /\ LET p == Head(logic[g]).player
         x == Head(logic[g]).world
     IN  place' = IF x \in proxies[g] /\ place[p] = InLobby(g)
                    THEN [place EXCEPT ![p] = InWorld(g, x)]
                    ELSE place
  /\ Posts(g, <<>>)
  /\ OneLess(g)
  /\ UNCHANGED <<spaces, mgr, toMgr, toSpace, linked, main, publics, entities,
                 waiting, logins, crashes>>

\* Mutated form: WorldProxyLocator::Remove is not called.
RegisteredStill(g, gone) == publics[g]

\* WorldProxyLocator::Remove of these worlds, which goes by their ids.
RegisteredWithout(g, gone) ==
  [w \in World |-> IF \E x \in gone : x.id = w THEN None ELSE publics[g][w]]

\* WorldProxy::HandleNetworkDisconnect of each proxy of the space process: its
\* players are disconnected, and the proxy is removed, which takes effect when
\* the next frame begins.
ProxyDisconnect(g) ==
  /\ Takes(g, "Disconnect")
  /\ LET s == Head(logic[g]).app
         gone == {x \in proxies[g] : x.app = s}
     IN  /\ doomed' = [doomed EXCEPT ![g] = @ \cup gone]
         /\ publics' = [publics EXCEPT ![g] = RegisteredWithout(g, gone)]
         /\ place' = [p \in Player |->
                        IF \E x \in gone : place[p] = InWorld(g, x) THEN Out
                                                                    ELSE place[p]]
  /\ Posts(g, <<>>)
  /\ \/ doomed[g] # {} /\ OneLess(g)
     \/ doomed[g] = {} /\ doomed' = doomed /\ UNCHANGED rest
     \/ /\ doomed[g] = {} /\ doomed' # doomed
        /\ \E n \in 0..Len(logic[g]) - 1 : rest' = [rest EXCEPT ![g] = n]
  /\ UNCHANGED <<spaces, mgr, toMgr, toSpace, linked, main, proxies, strays,
                 waiting, logins, crashes>>

\* EntitySystem::Update of the next frame: the proxies go back to their pool, and
\* with them the players that have come since, whose clients stay connected.
SwapEntities(g) ==
  /\ doomed[g] # {} /\ rest[g] = 0
  /\ proxies' = [proxies EXCEPT ![g] = @ \ doomed[g]]
  /\ doomed' = [doomed EXCEPT ![g] = {}]
  /\ place' = [p \in Player |->
                 IF \E x \in doomed[g] : place[p] = InWorld(g, x) THEN Adrift
                                                                  ELSE place[p]]
  /\ UNCHANGED <<spaces, mgr, toMgr, toSpace, linked, main, logic, publics, rest,
                 strays, waiting, logins, crashes>>

\* The client closes; the lobby keeps no note that the player waits no more.
Leave(p) ==
  /\ place[p] # Out
  /\ place' = [place EXCEPT ![p] = Out]
  /\ UNCHANGED <<spaces, mgr, toMgr, toSpace, linked, main, logic, publics,
                 entities, rest, waiting, logins, crashes>>

(***************************************************************************)
(* The system.                                                             *)
(***************************************************************************)
MgrStep(q) ==
  \/ HandleRequestWorld(q)
  \/ HandleAppInfoSync(q)
  \/ HandleBroadcastCreateWorld(q)
  \/ HandleNetworkDisconnect(q)

LogicStep(g) ==
  \/ AwakeWorldProxy(g)
  \/ LobbyBroadcastCreateWorldProxy(g)
  \/ HandleTeleport(g)
  \/ ProxyDisconnect(g)
  \/ SwapEntities(g)

NetStep(g, s) == SeeDisconnect(g, s) \/ Reconnect(g, s)

PlayerStep(p) ==
  Leave(p) \/ \E g \in Game, w \in World : EnterPublicWorld(g, p, w)

Next ==
  \/ \E q \in Space \cup Game : MgrStep(q)
  \/ \E s \in Space :
       HandleCreateWorld(s) \/ SyncSpaceInfo(s) \/ Crash(s) \/ Restart(s)
  \/ \E g \in Game :
       \/ LogicStep(g)
       \/ \E q \in Space \cup {Mgr} : LocatorBroadcastCreateWorld(g, q)
       \/ \E s \in Space : NetStep(g, s)
  \/ \E p \in Player : PlayerStep(p)

Spec == Init /\ [][Next]_vars

\* Threads run, packets arrive and connections are made; nobody makes a process
\* fail or start, or a player come or go.
Fairness ==
  /\ \A q \in Space \cup Game : WF_vars(MgrStep(q))
  /\ \A s \in Space : WF_vars(HandleCreateWorld(s)) /\ WF_vars(SyncSpaceInfo(s))
  /\ \A g \in Game :
       /\ WF_vars(LogicStep(g))
       /\ \A q \in Space \cup {Mgr} : WF_vars(LocatorBroadcastCreateWorld(g, q))
       /\ \A s \in Space : WF_vars(NetStep(g, s))

LiveSpec == Spec /\ Fairness

(***************************************************************************)
(* Properties.                                                             *)
(***************************************************************************)
Worlds == [id : World, app : Space, sn : Nat]

\* What games and space processes send to the appmgr.
ToMgrPackets(q) ==
  IF q \in Game THEN [type : {"RequestWorld"}, id : World]
                ELSE {AppInfoSync, Disconnect}
                       \cup [type : {"BroadcastCreateWorld"}, world : Worlds]

LogicPackets ==
  [type : {"CreateComponent", "BroadcastCreateWorldProxy"}, world : Worlds]
    \cup [type : {"Teleport"}, player : Player, world : Worlds]
    \cup [type : {"Disconnect"}, app : Space]

Places ==
  {Out, Adrift} \cup {InLobby(g) : g \in Game} \cup ({"world"} \X Game \X Worlds)

\* Every variable keeps its shape: packets are those that the handlers send.
TypeOK ==
  /\ up \subseteq Space /\ worlds \subseteq Worlds /\ serial \in Nat
  /\ apps \subseteq Space
  /\ creating \in [World -> Space \cup {None}]
  /\ created \in [World -> Worlds \cup {None}]
  /\ again \subseteq World
  /\ DOMAIN toMgr = Space \cup Game /\ toMgr = [q \in DOMAIN toMgr |-> toMgr[q]]
  /\ \A q \in Space \cup Game : toMgr[q] \in Seq(ToMgrPackets(q))
  /\ toSpace \in [Space -> Seq(World)]
  /\ linked \in [Game -> SUBSET Space]
  /\ main \in [Game -> [Space \cup {Mgr} -> Seq(Worlds)]]
  /\ logic \in [Game -> Seq(LogicPackets)]
  /\ publics \in [Game -> [World -> Worlds \cup {None}]]
  /\ proxies \in [Game -> SUBSET Worlds]
  /\ strays \in [Game -> SUBSET Worlds]
  /\ doomed \in [Game -> SUBSET Worlds] /\ rest \in [Game -> Nat]
  /\ waiting \in [Game -> [World -> SUBSET Player]]
  /\ place \in [Player -> Places]
  /\ logins \in 0..MaxLogin /\ crashes \in 0..MaxCrash

\* The process s announces this world to the appmgr, which has yet to hear it.
Announced(s, w) ==
  \E i \in 1..Len(toMgr[s]) :
    toMgr[s][i].type = "BroadcastCreateWorld" /\ toMgr[s][i].world.id = w

\* HandleRequestWorld gives up whatever is in _creating, so an entry there must
\* never be left over: the space process is about to create the world, has said
\* that it did, or its failure is about to be handled.
CreatingIsUnderWay ==
  \A w \in World : creating[w] # None =>
    LET s == creating[w]
    IN  Holds(toSpace[s], w) \/ Announced(s, w) \/ Holds(toMgr[s], Disconnect)

\* HandleRequestWorld sends games to the world in _created: it exists, or the
\* failure of its process is about to be handled (HandleNetworkDisconnect).
CreatedExists ==
  \A w \in World : created[w] # None =>
    created[w] \in worlds \/ Holds(toMgr[created[w].app], Disconnect)

Ordered(w) == UNION {{<<s, i>> : i \in {j \in 1..Len(toSpace[s]) : toSpace[s][j] = w}} :
                     s \in Space}

\* A public world exists once, however many games ask for it at once and
\* whatever fails, unless a space process has failed while it was creating it.
OnceUnlessAgain ==
  \A w \in World \ again :
    Cardinality(Ordered(w)) + Cardinality({x \in worlds : x.id = w}) <= 1

\* WorldProxyLocator never gives out a world whose proxy has been removed: the
\* lobby would teleport its players to an entity that is gone.  Where a world
\* has been announced twice this need not be so (OneProxy).
RegisteredHasProxy ==
  \A g \in Game, w \in World :
    publics[g][w] # None =>
      publics[g][w] \in (proxies[g] \ doomed[g]) \cup strays[g]

\* A world has one proxy in a game process: the locator and ComponentCollections
\* call another one an error.
OneProxy == \A g \in Game : strays[g] = {}

\* A request is not held up for ever by one that came before it (_creating).
CreatingEnds == \A w \in World : creating[w] # None ~> creating[w] = None

\* As long as no space process fails, and the appmgr knows of one, every player
\* in the lobby gets into a world or leaves (Lobby::_waitingForWorld).
ServedUnlessFailure ==
  \A g \in Game, p \in Player :
    place[p] = InLobby(g) ~> (place[p] # InLobby(g) \/ crashes > 0)
=============================================================================
