-------------------------- MODULE WorldCreateProofs --------------------------
(***************************************************************************)
(* What holds of WorldCreate for any worlds, processes, players and        *)
(* failures: the appmgr never names a world that is gone without its       *)
(* process' disconnect being on its way, a game's locator never names one  *)
(* whose proxy has been removed, and a public world exists at most once.   *)
(***************************************************************************)
EXTENDS WorldCreate, Queues, FiniteSetTheorems

(***************************************************************************)
(* Type correctness.                                                       *)
(***************************************************************************)
Process == Space \cup Game

\* The packets that the actions make are packets, ...
LEMMA PacketTypes ==
  /\ \A s \in Space :
       /\ {AppInfoSync, Disconnect} \subseteq ToMgrPackets(s)
       /\ \A x \in Worlds : BroadcastCreateWorld(x) \in ToMgrPackets(s)
       /\ SpaceDisconnect(s) \in LogicPackets
  /\ \A g \in Game, w \in World : RequestWorld(w) \in ToMgrPackets(g)
  /\ \A x \in Worlds :
       /\ CreateComponent(x) \in LogicPackets
       /\ BroadcastCreateWorldProxy(x) \in LogicPackets
       /\ \A p \in Player : TeleportTo(p, x) \in LogicPackets
BY WorldCreateAssumption
   DEF ToMgrPackets, LogicPackets, RequestWorld, BroadcastCreateWorld,
       CreateComponent, BroadcastCreateWorldProxy, TeleportTo, SpaceDisconnect

\* ... and what a packet of a type carries.
LEMMA PacketFields ==
  /\ \A q \in Process : \A m \in ToMgrPackets(q) :
       /\ m.type = "RequestWorld" => q \in Game /\ m.id \in World
       /\ m.type # "RequestWorld" => q \in Space
       /\ m.type = "BroadcastCreateWorld" =>
            m.world \in Worlds /\ m = BroadcastCreateWorld(m.world)
       /\ m.type = "Disconnect" => m = Disconnect
  /\ \A m \in LogicPackets :
       /\ m.type \in {"CreateComponent", "BroadcastCreateWorldProxy"} => m.world \in Worlds
       /\ m.type = "Teleport" => m.player \in Player /\ m.world \in Worlds
       /\ m.type = "Disconnect" => m.app \in Space
BY DEF Process, ToMgrPackets, LogicPackets, RequestWorld, BroadcastCreateWorld,
       AppInfoSync, Disconnect

\* The queues stay queues of packets.
LEMMA QueueTypes ==
  ASSUME TypeOK
  PROVE  /\ \A q \in Process :
              /\ toMgr[q] \in Seq(ToMgrPackets(q))
              /\ \A m \in ToMgrPackets(q) : Append(toMgr[q], m) \in Seq(ToMgrPackets(q))
              /\ toMgr[q] # <<>> => /\ Head(toMgr[q]) \in ToMgrPackets(q)
                                    /\ Tail(toMgr[q]) \in Seq(ToMgrPackets(q))
         /\ \A g \in Game :
              /\ logic[g] \in Seq(LogicPackets)
              /\ \A m \in LogicPackets : Append(logic[g], m) \in Seq(LogicPackets)
              /\ logic[g] # <<>> => /\ Head(logic[g]) \in LogicPackets
                                    /\ Tail(logic[g]) \in Seq(LogicPackets)
         /\ \A g \in Game, q \in Space \cup {Mgr} :
              /\ main[g][q] \in Seq(Worlds)
              /\ \A x \in Worlds : Append(main[g][q], x) \in Seq(Worlds)
              /\ main[g][q] # <<>> => /\ Head(main[g][q]) \in Worlds
                                      /\ Tail(main[g][q]) \in Seq(Worlds)
         /\ \A s \in Space :
              /\ toSpace[s] \in Seq(World)
              /\ toSpace[s] # <<>> => /\ Head(toSpace[s]) \in World
                                      /\ Tail(toSpace[s]) \in Seq(World)
<1>1. /\ \A q \in Process : toMgr[q] \in Seq(ToMgrPackets(q))
      /\ \A g \in Game : logic[g] \in Seq(LogicPackets)
      /\ \A g \in Game, q \in Space \cup {Mgr} : main[g][q] \in Seq(Worlds)
      /\ \A s \in Space : toSpace[s] \in Seq(World)
  BY DEF TypeOK, Process
<1> QED BY <1>1, AppendQueue, TailQueue

\* A finite set has a sequence of its elements.
LEMMA SetToSeqType ==
  ASSUME NEW S, IsFiniteSet(S)
  PROVE  SetToSeq(S) \in Seq(S)
<1>1. Cardinality(S) \in Nat /\ ExistsBijection(1..Cardinality(S), S)
  BY FS_CardinalityType
<1>2. \E f \in [1..Cardinality(S) -> S] : IsInjective(f)
  BY <1>1 DEF ExistsBijection, Bijection, Injection, IsInjective
<1>3. SetToSeq(S) \in [1..Cardinality(S) -> S]
  BY <1>2 DEF SetToSeq
<1> QED BY <1>1, <1>3

LEMMA EmptySeq == <<>> \in Seq(LogicPackets)
  OBVIOUS

LEMMA InitType == Init => TypeOK
BY WorldCreateAssumption DEF Init, TypeOK, Places

\* One process' packets to the appmgr change.
LEMMA OneToMgr ==
  ASSUME TypeOK, NEW q \in Process, NEW new \in Seq(ToMgrPackets(q)),
         toMgr' = [toMgr EXCEPT ![q] = new]
  PROVE  /\ DOMAIN toMgr' = Space \cup Game
         /\ toMgr' = [r \in DOMAIN toMgr' |-> toMgr'[r]]
         /\ \A r \in Space \cup Game : toMgr'[r] \in Seq(ToMgrPackets(r))
BY DEF TypeOK, Process

\* So does the list of a game's logic thread.
LEMMA OneLogic ==
  ASSUME TypeOK, NEW g \in Game, NEW new \in Seq(LogicPackets),
         logic' = [logic EXCEPT ![g] = new]
  PROVE  logic' \in [Game -> Seq(LogicPackets)]
BY DEF TypeOK

\* What the appmgr's handlers do keeps the types.
LEMMA HandleAppInfoSyncType ==
  ASSUME TypeOK, NEW q \in Process, HandleAppInfoSync(q)
  PROVE  TypeOK'
<1> USE DEF spaces, mgr, entities, game, Handles, HandleAppInfoSync
<1>1. Head(toMgr[q]) \in ToMgrPackets(q) /\ Tail(toMgr[q]) \in Seq(ToMgrPackets(q))
  BY QueueTypes
<1>2. q \in Space
  BY <1>1, PacketFields
<1> DEFINE new == Tail(toMgr[q])
<1>3. toMgr' = [toMgr EXCEPT ![q] = new]
  OBVIOUS
<1> HIDE DEF new
<1>4. /\ DOMAIN toMgr' = Space \cup Game
      /\ toMgr' = [r \in DOMAIN toMgr' |-> toMgr'[r]]
      /\ \A r \in Space \cup Game : toMgr'[r] \in Seq(ToMgrPackets(r))
  BY <1>1, <1>3, OneToMgr DEF new
<1> QED BY <1>2, <1>4 DEF TypeOK

LEMMA HandleRequestWorldType ==
  ASSUME TypeOK, NEW q \in Process, HandleRequestWorld(q)
  PROVE  TypeOK'
<1> USE DEF spaces, mgr, entities, game, Handles
<1> DEFINE w == Head(toMgr[q]).id
           new == Tail(toMgr[q])
<1>1. /\ Head(toMgr[q]) \in ToMgrPackets(q) /\ new \in Seq(ToMgrPackets(q))
      /\ Head(toMgr[q]).type = "RequestWorld"
  BY QueueTypes DEF HandleRequestWorld
<1>2. q \in Game /\ w \in World
  BY <1>1, PacketFields
<1>3. toMgr' = [toMgr EXCEPT ![q] = new]
  BY DEF HandleRequestWorld
<1> HIDE DEF new, w
<1>4. /\ DOMAIN toMgr' = Space \cup Game
      /\ toMgr' = [r \in DOMAIN toMgr' |-> toMgr'[r]]
      /\ \A r \in Space \cup Game : toMgr'[r] \in Seq(ToMgrPackets(r))
  BY <1>1, <1>3, OneToMgr
<1>5. /\ creating' \in [World -> Space \cup {None}]
      /\ toSpace' \in [Space -> Seq(World)]
      /\ main' \in [Game -> [Space \cup {Mgr} -> Seq(Worlds)]]
  <2>1. CASE UNCHANGED <<creating, toSpace, main>>
    BY <2>1 DEF TypeOK
  <2>2. CASE /\ created[w] # None
             /\ main' = [main EXCEPT ![q][Mgr] = Append(@, created[w])]
             /\ UNCHANGED <<creating, toSpace>>
    <3>1. created[w] \in Worlds
      BY <1>2, <2>2 DEF TypeOK
    <3>2. Append(main[q][Mgr], created[w]) \in Seq(Worlds)
      BY <1>2, <3>1, QueueTypes
    <3>3. main \in [Game -> [Space \cup {Mgr} -> Seq(Worlds)]]
      BY DEF TypeOK
    <3>4. main' = [main EXCEPT ![q] = [main[q] EXCEPT ![Mgr] = Append(main[q][Mgr], created[w])]]
      BY <1>2, <2>2, <3>3
    <3>5. [main[q] EXCEPT ![Mgr] = Append(main[q][Mgr], created[w])]
            \in [Space \cup {Mgr} -> Seq(Worlds)]
      BY <1>2, <3>2, <3>3
    <3>6. main' \in [Game -> [Space \cup {Mgr} -> Seq(Worlds)]]
      BY <1>2, <3>3, <3>4, <3>5
    <3> QED BY <2>2, <3>6 DEF TypeOK
  <2>3. ASSUME NEW s \in apps, SendCreateWorld(s, <<w>>),
               creating' = [creating EXCEPT ![w] = s], UNCHANGED main
        PROVE  /\ creating' \in [World -> Space \cup {None}]
               /\ toSpace' \in [Space -> Seq(World)]
               /\ main' \in [Game -> [Space \cup {Mgr} -> Seq(Worlds)]]
    <3>1. s \in Space /\ toSpace[s] \in Seq(World) /\ <<w>> \in Seq(World)
      BY <1>2, QueueTypes DEF TypeOK
    <3>2. toSpace[s] \o <<w>> \in Seq(World)
      BY <3>1
    <3>3. toSpace' \in [Space -> Seq(World)]
      BY <2>3, <3>1, <3>2 DEF SendCreateWorld, TypeOK
    <3> QED BY <1>2, <2>3, <3>1, <3>3 DEF TypeOK
  <2> QED BY <2>1, <2>2, <2>3 DEF HandleRequestWorld, w
<1>6. UNCHANGED <<up, worlds, serial, apps, created, again, linked, logic, publics,
                  proxies, doomed, strays, rest, waiting, place, logins, crashes>>
  BY DEF HandleRequestWorld
<1> QED BY <1>4, <1>5, <1>6 DEF TypeOK

LEMMA HandleBroadcastCreateWorldType ==
  ASSUME TypeOK, NEW q \in Process, HandleBroadcastCreateWorld(q)
  PROVE  TypeOK'
<1> USE DEF spaces, mgr, entities, game, Handles
<1> DEFINE new == Tail(toMgr[q])
           x == Head(toMgr[q]).world
<1>1. Head(toMgr[q]) \in ToMgrPackets(q) /\ new \in Seq(ToMgrPackets(q))
  BY QueueTypes DEF HandleBroadcastCreateWorld
<1>2. x \in Worlds
  BY <1>1, PacketFields DEF HandleBroadcastCreateWorld
<1>3. /\ toMgr' = [toMgr EXCEPT ![q] = new]
      /\ created' = [created EXCEPT ![x.id] = x]
      /\ creating' = [creating EXCEPT ![x.id] = None]
  BY DEF HandleBroadcastCreateWorld
<1> HIDE DEF new, x
<1>4. /\ DOMAIN toMgr' = Space \cup Game
      /\ toMgr' = [r \in DOMAIN toMgr' |-> toMgr'[r]]
      /\ \A r \in Space \cup Game : toMgr'[r] \in Seq(ToMgrPackets(r))
  BY <1>1, <1>3, OneToMgr
<1>5. /\ created' \in [World -> Worlds \cup {None}]
      /\ creating' \in [World -> Space \cup {None}]
  <2>1. created \in [World -> Worlds \cup {None}] /\ creating \in [World -> Space \cup {None}]
    BY DEF TypeOK
  <2> QED BY <1>2, <1>3, <2>1
<1>6. UNCHANGED <<up, worlds, serial, apps, again, toSpace, linked, main, logic, publics,
                  proxies, doomed, strays, rest, waiting, place, logins, crashes>>
  BY DEF HandleBroadcastCreateWorld
<1> QED BY <1>4, <1>5, <1>6 DEF TypeOK

LEMMA HandleNetworkDisconnectType ==
  ASSUME TypeOK, NEW q \in Process, HandleNetworkDisconnect(q)
  PROVE  TypeOK'
<1> USE DEF spaces, mgr, entities, game, Handles
<1> DEFINE new == Tail(toMgr[q])
<1>1. /\ new \in Seq(ToMgrPackets(q))
      /\ toMgr' = [toMgr EXCEPT ![q] = new]
      /\ apps' = apps \ {q}
      /\ creating' = CreatingWithout(q)
      /\ created' = CreatedWithout(q)
  BY QueueTypes DEF HandleNetworkDisconnect
<1> HIDE DEF new
<1>2. /\ DOMAIN toMgr' = Space \cup Game
      /\ toMgr' = [r \in DOMAIN toMgr' |-> toMgr'[r]]
      /\ \A r \in Space \cup Game : toMgr'[r] \in Seq(ToMgrPackets(r))
  BY <1>1, OneToMgr
<1>3. /\ created' \in [World -> Worlds \cup {None}]
      /\ creating' \in [World -> Space \cup {None}]
      /\ apps' \subseteq Space
  <2>1. /\ created \in [World -> Worlds \cup {None}]
        /\ creating \in [World -> Space \cup {None}]
        /\ apps \subseteq Space
    BY DEF TypeOK
  <2> QED BY <1>1, <2>1 DEF CreatedWithout, CreatingWithout
<1>4. again' \subseteq World /\ toSpace' \in [Space -> Seq(World)]
  <2>1. CASE UNCHANGED <<again, toSpace>>
    BY <2>1 DEF TypeOK
  <2>2. ASSUME NEW chosen \in [Lost(q) -> apps'],
               toSpace' = [t \in Space |->
                 IF Connected(t)
                   THEN toSpace[t] \o SetToSeq({w \in Lost(q) : chosen[w] = t})
                   ELSE toSpace[t]],
               again' = again \cup {w \in World : creating[w] = q}
        PROVE  again' \subseteq World /\ toSpace' \in [Space -> Seq(World)]
    <3>1. ASSUME NEW t \in Space
          PROVE  toSpace[t] \o SetToSeq({w \in Lost(q) : chosen[w] = t}) \in Seq(World)
      <4> DEFINE S == {w \in Lost(q) : chosen[w] = t}
      <4>1. S \subseteq World
        BY DEF Lost
      <4>2. IsFiniteSet(S)
        BY <4>1, FS_Subset, WorldCreateAssumption
      <4>3. SetToSeq(S) \in Seq(S)
        BY <4>2, SetToSeqType
      <4>4. Seq(S) \subseteq Seq(World)
        BY <4>1
      <4>5. toSpace[t] \in Seq(World)
        BY QueueTypes
      <4> HIDE DEF S
      <4>6. toSpace[t] \o SetToSeq(S) \in Seq(World)
        BY <4>3, <4>4, <4>5
      <4> QED BY <4>6 DEF S
    <3>2. \A t \in Space : toSpace[t] \in Seq(World)
      BY QueueTypes
    <3>3. again \subseteq World
      BY DEF TypeOK
    <3> QED BY <2>2, <3>1, <3>2, <3>3
  <2> QED BY <2>1, <2>2 DEF HandleNetworkDisconnect
<1>5. UNCHANGED <<up, worlds, serial, main, linked, logic, publics, proxies, doomed,
                  strays, rest, waiting, place, logins, crashes>>
  BY DEF HandleNetworkDisconnect
<1> QED BY <1>2, <1>3, <1>4, <1>5 DEF TypeOK

LEMMA MgrType ==
  ASSUME TypeOK, NEW q \in Process, MgrStep(q)
  PROVE  TypeOK'
BY HandleAppInfoSyncType, HandleRequestWorldType, HandleBroadcastCreateWorldType,
   HandleNetworkDisconnectType DEF MgrStep

\* What space processes do keeps the types.
LEMMA HandleCreateWorldType ==
  ASSUME TypeOK, NEW s \in Space, HandleCreateWorld(s)
  PROVE  TypeOK'
<1> USE DEF spaces, mgr, entities, game
<1> DEFINE x == NewWorld(Head(toSpace[s]), s, serial + 1)
           new == Append(toMgr[s], BroadcastCreateWorld(x))
<1>1. x \in Worlds /\ serial' \in Nat /\ serial' = serial + 1
  <2>1. serial \in Nat /\ Head(toSpace[s]) \in World
    BY QueueTypes DEF HandleCreateWorld, TypeOK
  <2> QED BY <2>1 DEF HandleCreateWorld, NewWorld, Worlds
<1>2. s \in Process /\ new \in Seq(ToMgrPackets(s))
  BY <1>1, QueueTypes, PacketTypes DEF Process
<1>3. /\ worlds' = worlds \cup {x}
      /\ toMgr' = [toMgr EXCEPT ![s] = new]
      /\ main' = [g \in Game |->
                    IF s \in linked[g] THEN [main[g] EXCEPT ![s] = Append(main[g][s], x)]
                                       ELSE main[g]]
      /\ toSpace' = [toSpace EXCEPT ![s] = Tail(toSpace[s])]
      /\ toSpace[s] # <<>>
      /\ UNCHANGED <<up, apps, creating, created, again, linked, logic, publics, proxies,
                     doomed, strays, rest, waiting, place, logins, crashes>>
  BY DEF HandleCreateWorld
<1> HIDE DEF x, new
<1>4. /\ DOMAIN toMgr' = Space \cup Game
      /\ toMgr' = [r \in DOMAIN toMgr' |-> toMgr'[r]]
      /\ \A r \in Space \cup Game : toMgr'[r] \in Seq(ToMgrPackets(r))
  BY <1>2, <1>3, OneToMgr
<1>5. toSpace' \in [Space -> Seq(World)]
  <2>1. Tail(toSpace[s]) \in Seq(World) /\ toSpace \in [Space -> Seq(World)]
    BY <1>3, QueueTypes DEF TypeOK
  <2> QED BY <1>3, <2>1
<1>6. main' \in [Game -> [Space \cup {Mgr} -> Seq(Worlds)]]
  <2>1. main \in [Game -> [Space \cup {Mgr} -> Seq(Worlds)]]
    BY DEF TypeOK
  <2>2. ASSUME NEW g \in Game
        PROVE  [main[g] EXCEPT ![s] = Append(main[g][s], x)] \in [Space \cup {Mgr} -> Seq(Worlds)]
    <3>1. Append(main[g][s], x) \in Seq(Worlds)
      BY <1>1, QueueTypes
    <3> QED BY <2>1, <3>1
  <2> QED BY <1>3, <2>1, <2>2
<1>7. worlds' \subseteq Worlds
  BY <1>1, <1>3 DEF TypeOK
<1> QED BY <1>1, <1>3, <1>4, <1>5, <1>6, <1>7 DEF TypeOK

LEMMA SyncSpaceInfoType ==
  ASSUME TypeOK, NEW s \in Space, SyncSpaceInfo(s)
  PROVE  TypeOK'
<1> USE DEF spaces, mgr, entities, game
<1> DEFINE new == Append(toMgr[s], AppInfoSync)
<1>1. s \in Process /\ new \in Seq(ToMgrPackets(s))
  BY QueueTypes, PacketTypes DEF Process
<1>2. /\ toMgr' = [toMgr EXCEPT ![s] = new]
      /\ UNCHANGED <<up, worlds, serial, apps, creating, created, again, toSpace, linked,
                     main, logic, publics, proxies, doomed, strays, rest, waiting, place,
                     logins, crashes>>
  BY DEF SyncSpaceInfo
<1> HIDE DEF new
<1>3. /\ DOMAIN toMgr' = Space \cup Game
      /\ toMgr' = [r \in DOMAIN toMgr' |-> toMgr'[r]]
      /\ \A r \in Space \cup Game : toMgr'[r] \in Seq(ToMgrPackets(r))
  BY <1>1, <1>2, OneToMgr
<1> QED BY <1>2, <1>3 DEF TypeOK

\* A first part of a queue.
LEMMA FirstPart ==
  ASSUME NEW S, NEW q \in Seq(S), NEW n \in 0..Len(q)
  PROVE  /\ SubSeq(q, 1, n) \in Seq(S) /\ Len(SubSeq(q, 1, n)) = n
         /\ \A i \in 1..n : SubSeq(q, 1, n)[i] = q[i]
  OBVIOUS

LEMMA CrashType ==
  ASSUME TypeOK, NEW s \in Space, Crash(s)
  PROVE  TypeOK'
<1> USE DEF spaces, mgr, entities, game
<1>1. PICK n \in 0..Len(toMgr[s]) :
        toMgr' = [toMgr EXCEPT ![s] = Append(SubSeq(@, 1, n), Disconnect)]
  BY DEF Crash
<1> DEFINE new == Append(SubSeq(toMgr[s], 1, n), Disconnect)
<1>2. s \in Process /\ new \in Seq(ToMgrPackets(s))
  <2>1. s \in Process /\ SubSeq(toMgr[s], 1, n) \in Seq(ToMgrPackets(s))
    BY QueueTypes, FirstPart DEF Process
  <2> QED BY <2>1, PacketTypes, AppendQueue
<1>3. toMgr' = [toMgr EXCEPT ![s] = new]
  BY <1>1
<1> HIDE DEF new
<1>4. /\ DOMAIN toMgr' = Space \cup Game
      /\ toMgr' = [r \in DOMAIN toMgr' |-> toMgr'[r]]
      /\ \A r \in Space \cup Game : toMgr'[r] \in Seq(ToMgrPackets(r))
  BY <1>2, <1>3, OneToMgr
<1>5. main' \in [Game -> [Space \cup {Mgr} -> Seq(Worlds)]]
  <2>1. PICK k \in [Game -> 0..serial] :
          /\ \A g \in Game : k[g] <= Len(main[g][s])
          /\ main' = [g \in Game |-> [main[g] EXCEPT ![s] = SubSeq(main[g][s], 1, k[g])]]
    BY DEF Crash
  <2>2. main \in [Game -> [Space \cup {Mgr} -> Seq(Worlds)]] /\ serial \in Nat
    BY DEF TypeOK
  <2>3. ASSUME NEW g \in Game
        PROVE  [main[g] EXCEPT ![s] = SubSeq(main[g][s], 1, k[g])]
                 \in [Space \cup {Mgr} -> Seq(Worlds)]
    <3>1. main[g][s] \in Seq(Worlds)
      BY QueueTypes
    <3>2. k[g] \in 0..Len(main[g][s])
      BY <2>1, <2>2, <3>1
    <3>3. SubSeq(main[g][s], 1, k[g]) \in Seq(Worlds)
      BY <3>1, <3>2, FirstPart
    <3> QED BY <2>2, <3>3
  <2> QED BY <2>1, <2>3
<1>6. toSpace' \in [Space -> Seq(World)]
  <2>1. toSpace \in [Space -> Seq(World)] /\ <<>> \in Seq(World)
    BY DEF TypeOK
  <2> QED BY <2>1 DEF Crash
<1>7. /\ up' \subseteq Space /\ worlds' \subseteq Worlds /\ crashes' \in 0..MaxCrash
  BY WorldCreateAssumption DEF Crash, TypeOK
<1>8. UNCHANGED <<serial, apps, creating, created, again, linked, logic, publics, proxies,
                  doomed, strays, rest, waiting, place, logins>>
  BY DEF Crash
<1> QED BY <1>4, <1>5, <1>6, <1>7, <1>8 DEF TypeOK

LEMMA RestartType ==
  ASSUME TypeOK, NEW s \in Space, Restart(s)
  PROVE  TypeOK'
BY DEF Restart, TypeOK, mgr, entities, game

\* What a game's threads and its players do keeps the types.
LEMMA SeeDisconnectType ==
  ASSUME TypeOK, NEW g \in Game, NEW s \in Space, SeeDisconnect(g, s)
  PROVE  TypeOK'
<1> USE DEF spaces, mgr, entities, game
<1> DEFINE new == Append(logic[g], SpaceDisconnect(s))
<1>1. new \in Seq(LogicPackets)
  BY QueueTypes, PacketTypes
<1>2. /\ logic' = [logic EXCEPT ![g] = new]
      /\ linked' = [linked EXCEPT ![g] = linked[g] \ {s}]
      /\ UNCHANGED <<up, worlds, serial, apps, creating, created, again, toMgr, toSpace,
                     main, publics, proxies, doomed, strays, rest, waiting, place, logins,
                     crashes>>
  BY DEF SeeDisconnect
<1> HIDE DEF new
<1>3. logic' \in [Game -> Seq(LogicPackets)]
  BY <1>1, <1>2, OneLogic
<1>4. linked' \in [Game -> SUBSET Space]
  <2>1. linked \in [Game -> SUBSET Space]
    BY DEF TypeOK
  <2> QED BY <1>2, <2>1
<1> QED BY <1>2, <1>3, <1>4 DEF TypeOK

LEMMA ReconnectType ==
  ASSUME TypeOK, NEW g \in Game, NEW s \in Space, Reconnect(g, s)
  PROVE  TypeOK'
<1>1. linked' \in [Game -> SUBSET Space]
  <2>1. linked \in [Game -> SUBSET Space]
    BY DEF TypeOK
  <2> QED BY <2>1 DEF Reconnect
<1> QED BY <1>1 DEF Reconnect, TypeOK, spaces, mgr, entities, game

LEMMA LocatorType ==
  ASSUME TypeOK, NEW g \in Game, NEW q \in Space \cup {Mgr},
         LocatorBroadcastCreateWorld(g, q)
  PROVE  TypeOK'
<1> USE DEF spaces, mgr, entities, game
<1> DEFINE x == Head(main[g][q])
           new == Append(logic[g], CreateComponent(x))
<1>1. x \in Worlds /\ Tail(main[g][q]) \in Seq(Worlds)
  BY QueueTypes DEF LocatorBroadcastCreateWorld
<1>2. new \in Seq(LogicPackets)
  BY <1>1, QueueTypes, PacketTypes
<1>3. /\ main' = [main EXCEPT ![g][q] = Tail(main[g][q])]
      /\ logic' = logic \/ logic' = [logic EXCEPT ![g] = new]
      /\ UNCHANGED <<up, worlds, serial, apps, creating, created, again, toMgr, toSpace,
                     linked, publics, proxies, doomed, strays, rest, waiting, place, logins,
                     crashes>>
  BY DEF LocatorBroadcastCreateWorld
<1>4. main' \in [Game -> [Space \cup {Mgr} -> Seq(Worlds)]]
  <2>1. main \in [Game -> [Space \cup {Mgr} -> Seq(Worlds)]]
    BY DEF TypeOK
  <2>2. [main[g] EXCEPT ![q] = Tail(main[g][q])] \in [Space \cup {Mgr} -> Seq(Worlds)]
    BY <1>1, <2>1
  <2>3. main' = [main EXCEPT ![g] = [main[g] EXCEPT ![q] = Tail(main[g][q])]]
    BY <1>3, <2>1
  <2> QED BY <2>1, <2>2, <2>3
<1> HIDE DEF new
<1>5. logic' \in [Game -> Seq(LogicPackets)]
  BY <1>2, <1>3, OneLogic DEF TypeOK
<1> QED BY <1>3, <1>4, <1>5 DEF TypeOK

\* The packet that a logic thread handles, and what is posted in its place.
LEMMA TakesType ==
  ASSUME TypeOK, NEW g \in Game, NEW type, Takes(g, type), NEW packets \in Seq(LogicPackets)
  PROVE  /\ Head(logic[g]) \in LogicPackets /\ Head(logic[g]).type = type
         /\ Posts(g, packets) => logic' \in [Game -> Seq(LogicPackets)]
         /\ OneLess(g) => rest' \in [Game -> Nat]
<1>1. Head(logic[g]) \in LogicPackets /\ Tail(logic[g]) \in Seq(LogicPackets)
  BY QueueTypes DEF Takes
<1>2. Tail(logic[g]) \o packets \in Seq(LogicPackets)
  BY <1>1
<1>3. Posts(g, packets) => logic' \in [Game -> Seq(LogicPackets)]
  BY <1>2, OneLogic DEF Posts
<1>4. rest \in [Game -> Nat]
  BY DEF TypeOK
<1> QED BY <1>1, <1>3, <1>4 DEF Takes, OneLess

LEMMA AwakeWorldProxyType ==
  ASSUME TypeOK, NEW g \in Game, AwakeWorldProxy(g)
  PROVE  TypeOK'
<1> USE DEF spaces, mgr, entities, game
<1> DEFINE x == Head(logic[g]).world
           told == <<BroadcastCreateWorldProxy(x)>>
<1>1. Head(logic[g]) \in LogicPackets /\ Head(logic[g]).type = "CreateComponent"
  BY QueueTypes DEF AwakeWorldProxy, Takes
<1>2. x \in Worlds
  BY <1>1, PacketFields
<1>3. told \in Seq(LogicPackets)
  BY <1>2, PacketTypes
<1>4. /\ Takes(g, "CreateComponent") /\ Posts(g, told) /\ OneLess(g)
      /\ proxies' = [proxies EXCEPT ![g] = proxies[g] \cup {x}]
      /\ strays' = [strays EXCEPT ![g] = strays[g] \cup {x}] \/ strays' = strays
      /\ publics' = [publics EXCEPT ![g][x.id] = x]
      /\ UNCHANGED <<up, worlds, serial, apps, creating, created, again, toMgr, toSpace,
                     linked, main, doomed, waiting, place, logins, crashes>>
  BY DEF AwakeWorldProxy
<1> HIDE DEF told, x
<1>5. logic' \in [Game -> Seq(LogicPackets)] /\ rest' \in [Game -> Nat]
  BY <1>3, <1>4, TakesType
<1>6. /\ proxies' \in [Game -> SUBSET Worlds]
      /\ strays' \in [Game -> SUBSET Worlds]
      /\ publics' \in [Game -> [World -> Worlds \cup {None}]]
  <2>1. /\ proxies \in [Game -> SUBSET Worlds]
        /\ strays \in [Game -> SUBSET Worlds]
        /\ publics \in [Game -> [World -> Worlds \cup {None}]]
    BY DEF TypeOK
  <2>2. [publics[g] EXCEPT ![x.id] = x] \in [World -> Worlds \cup {None}]
    BY <1>2, <2>1
  <2>3. publics' = [publics EXCEPT ![g] = [publics[g] EXCEPT ![x.id] = x]]
    BY <1>4, <2>1
  <2> QED BY <1>2, <1>4, <2>1, <2>2, <2>3
<1> QED BY <1>4, <1>5, <1>6 DEF TypeOK

LEMMA EnterPublicWorldType ==
  ASSUME TypeOK, NEW g \in Game, NEW p \in Player, NEW w \in World, EnterPublicWorld(g, p, w)
  PROVE  TypeOK'
<1> USE DEF spaces, mgr, entities, game
<1>1. logins' \in 0..MaxLogin
  BY WorldCreateAssumption DEF EnterPublicWorld, TypeOK
<1>2. place' \in [Player -> Places]
  <2>1. InLobby(g) \in Places /\ place \in [Player -> Places]
    BY DEF Places, TypeOK
  <2> QED BY <2>1 DEF EnterPublicWorld
<1>3. UNCHANGED <<up, worlds, serial, apps, creating, created, again, toSpace, linked, main,
                  publics, proxies, doomed, strays, rest, crashes>>
  BY DEF EnterPublicWorld
<1>4. CASE /\ Registered(g, w)
           /\ logic' = [logic EXCEPT ![g] = Append(@, TeleportTo(p, publics[g][w]))]
           /\ UNCHANGED <<waiting, toMgr>>
  <2>1. publics[g][w] \in Worlds
    BY <1>4 DEF Registered, TypeOK
  <2> DEFINE new == Append(logic[g], TeleportTo(p, publics[g][w]))
  <2>2. new \in Seq(LogicPackets) /\ logic' = [logic EXCEPT ![g] = new]
    BY <1>4, <2>1, QueueTypes, PacketTypes
  <2> HIDE DEF new
  <2>3. logic' \in [Game -> Seq(LogicPackets)]
    BY <2>2, OneLogic
  <2> QED BY <1>1, <1>2, <1>3, <1>4, <2>3 DEF TypeOK
<1>5. CASE /\ waiting' = [waiting EXCEPT ![g][w] = @ \cup {p}]
           /\ toMgr' = IF waiting[g][w] = {}
                         THEN [toMgr EXCEPT ![g] = Append(@, RequestWorld(w))]
                         ELSE toMgr
           /\ UNCHANGED logic
  <2> DEFINE new == IF waiting[g][w] = {} THEN Append(toMgr[g], RequestWorld(w)) ELSE toMgr[g]
  <2>1. g \in Process /\ new \in Seq(ToMgrPackets(g))
    BY QueueTypes, PacketTypes DEF Process
  <2>2. toMgr' = [toMgr EXCEPT ![g] = new]
    BY <1>5 DEF TypeOK
  <2> HIDE DEF new
  <2>3. /\ DOMAIN toMgr' = Space \cup Game
        /\ toMgr' = [r \in DOMAIN toMgr' |-> toMgr'[r]]
        /\ \A r \in Space \cup Game : toMgr'[r] \in Seq(ToMgrPackets(r))
    BY <2>1, <2>2, OneToMgr
  <2>4. waiting' \in [Game -> [World -> SUBSET Player]]
    <3>1. waiting \in [Game -> [World -> SUBSET Player]]
      BY DEF TypeOK
    <3>2. waiting' = [waiting EXCEPT ![g] = [waiting[g] EXCEPT ![w] = waiting[g][w] \cup {p}]]
      BY <1>5, <3>1
    <3> QED BY <3>1, <3>2
  <2> QED BY <1>1, <1>2, <1>3, <1>5, <2>3, <2>4 DEF TypeOK
<1> QED BY <1>4, <1>5 DEF EnterPublicWorld

LEMMA LobbyType ==
  ASSUME TypeOK, NEW g \in Game, LobbyBroadcastCreateWorldProxy(g)
  PROVE  TypeOK'
<1> USE DEF spaces, mgr, entities, game
<1> DEFINE x == Head(logic[g]).world
           told == TeleportWaiting(g, x)
<1>1. Head(logic[g]) \in LogicPackets /\ Head(logic[g]).type = "BroadcastCreateWorldProxy"
  BY QueueTypes DEF LobbyBroadcastCreateWorldProxy, Takes
<1>2. x \in Worlds
  BY <1>1, PacketFields
<1>3. told \in Seq(LogicPackets)
  <2> DEFINE S == {p \in waiting[g][x.id] : place[p] = InLobby(g)}
             all == SetToSeq(S)
  <2>1. S \subseteq Player
    BY <1>2 DEF TypeOK, Worlds
  <2>2. IsFiniteSet(S)
    BY <2>1, FS_Subset, WorldCreateAssumption
  <2>3. all \in Seq(S)
    BY <2>2, SetToSeqType
  <2>4. told = [i \in 1..Len(all) |-> TeleportTo(all[i], x)]
    BY DEF TeleportWaiting
  <2> HIDE DEF S, all, told
  <2>5. Len(all) \in Nat /\ \A i \in 1..Len(all) : all[i] \in Player
    BY <2>1, <2>3
  <2>6. \A i \in 1..Len(all) : TeleportTo(all[i], x) \in LogicPackets
    BY <1>2, <2>5, PacketTypes
  <2> QED BY <2>4, <2>5, <2>6
<1>4. /\ Takes(g, "BroadcastCreateWorldProxy") /\ Posts(g, told) /\ OneLess(g)
      /\ waiting' = [waiting EXCEPT ![g][x.id] = {}]
      /\ UNCHANGED <<up, worlds, serial, apps, creating, created, again, toMgr, toSpace,
                     linked, main, publics, proxies, doomed, strays, place, logins, crashes>>
  BY DEF LobbyBroadcastCreateWorldProxy
<1> HIDE DEF told, x
<1>5. logic' \in [Game -> Seq(LogicPackets)] /\ rest' \in [Game -> Nat]
  BY <1>3, <1>4, TakesType
<1>6. waiting' \in [Game -> [World -> SUBSET Player]]
  <2>1. waiting \in [Game -> [World -> SUBSET Player]]
    BY DEF TypeOK
  <2>2. waiting' = [waiting EXCEPT ![g] = [waiting[g] EXCEPT ![x.id] = {}]]
    BY <1>4, <2>1
  <2> QED BY <2>1, <2>2
<1> QED BY <1>4, <1>5, <1>6 DEF TypeOK

LEMMA HandleTeleportType ==
  ASSUME TypeOK, NEW g \in Game, HandleTeleport(g)
  PROVE  TypeOK'
<1> USE DEF spaces, mgr, entities, game
<1> DEFINE p == Head(logic[g]).player
           x == Head(logic[g]).world
<1>1. Head(logic[g]) \in LogicPackets /\ Head(logic[g]).type = "Teleport"
  BY QueueTypes DEF HandleTeleport, Takes
<1>2. p \in Player /\ x \in Worlds
  BY <1>1, PacketFields
<1>3. /\ Takes(g, "Teleport") /\ Posts(g, <<>>) /\ OneLess(g)
      /\ place' = [place EXCEPT ![p] = InWorld(g, x)] \/ place' = place
      /\ UNCHANGED <<up, worlds, serial, apps, creating, created, again, toMgr, toSpace,
                     linked, main, publics, proxies, doomed, strays, waiting, logins, crashes>>
  BY DEF HandleTeleport
<1> HIDE DEF p, x
<1>4. logic' \in [Game -> Seq(LogicPackets)] /\ rest' \in [Game -> Nat]
  BY <1>3, TakesType, EmptySeq
<1>5. place' \in [Player -> Places]
  <2>1. InWorld(g, x) \in Places /\ place \in [Player -> Places]
    BY <1>2 DEF Places, InWorld, TypeOK
  <2> QED BY <1>3, <2>1
<1> QED BY <1>3, <1>4, <1>5 DEF TypeOK

LEMMA ProxyDisconnectType ==
  ASSUME TypeOK, NEW g \in Game, ProxyDisconnect(g)
  PROVE  TypeOK'
<1> USE DEF spaces, mgr, entities, game
<1> DEFINE gone == {x \in proxies[g] : x.app = Head(logic[g]).app}
<1>1. /\ Takes(g, "Disconnect") /\ Posts(g, <<>>)
      /\ doomed' = [doomed EXCEPT ![g] = doomed[g] \cup gone]
      /\ publics' = [publics EXCEPT ![g] = RegisteredWithout(g, gone)]
      /\ place' = [p \in Player |->
                     IF \E x \in gone : place[p] = InWorld(g, x) THEN Out ELSE place[p]]
      /\ \/ OneLess(g)
         \/ rest' = rest
         \/ \E n \in 0..Len(logic[g]) - 1 : rest' = [rest EXCEPT ![g] = n]
      /\ UNCHANGED <<up, worlds, serial, apps, creating, created, again, toMgr, toSpace,
                     linked, main, proxies, strays, waiting, logins, crashes>>
  BY DEF ProxyDisconnect
<1>2. gone \subseteq Worlds
  BY DEF TypeOK
<1> HIDE DEF gone
<1>3. logic' \in [Game -> Seq(LogicPackets)] /\ (OneLess(g) => rest' \in [Game -> Nat])
  BY <1>1, TakesType, EmptySeq
<1>4. rest' \in [Game -> Nat]
  <2>1. rest \in [Game -> Nat] /\ Len(logic[g]) \in Nat
    BY QueueTypes DEF TypeOK
  <2>2. \A n \in 0..Len(logic[g]) - 1 : n \in Nat
    BY <2>1
  <2>3. ASSUME NEW n \in Nat, rest' = [rest EXCEPT ![g] = n] PROVE rest' \in [Game -> Nat]
    BY <2>1, <2>3
  <2> QED BY <1>1, <1>3, <2>1, <2>2, <2>3
<1>5. doomed' \in [Game -> SUBSET Worlds] /\ publics' \in [Game -> [World -> Worlds \cup {None}]]
  <2>1. doomed \in [Game -> SUBSET Worlds] /\ publics \in [Game -> [World -> Worlds \cup {None}]]
    BY DEF TypeOK
  <2>2. RegisteredWithout(g, gone) \in [World -> Worlds \cup {None}]
    BY <2>1 DEF RegisteredWithout
  <2> QED BY <1>1, <1>2, <2>1, <2>2
<1>6. place' \in [Player -> Places]
  BY <1>1 DEF TypeOK, Places
<1> QED BY <1>1, <1>3, <1>4, <1>5, <1>6 DEF TypeOK

LEMMA SwapEntitiesType ==
  ASSUME TypeOK, NEW g \in Game, SwapEntities(g)
  PROVE  TypeOK'
<1> USE DEF spaces, mgr, entities, game
<1>1. proxies' \in [Game -> SUBSET Worlds] /\ doomed' \in [Game -> SUBSET Worlds]
  <2>1. proxies \in [Game -> SUBSET Worlds] /\ doomed \in [Game -> SUBSET Worlds]
    BY DEF TypeOK
  <2> QED BY <2>1 DEF SwapEntities
<1>2. place' \in [Player -> Places]
  <2>1. place \in [Player -> Places] /\ Adrift \in Places
    BY DEF TypeOK, Places
  <2> QED BY <2>1 DEF SwapEntities
<1> QED BY <1>1, <1>2 DEF SwapEntities, TypeOK

LEMMA LeaveType ==
  ASSUME TypeOK, NEW p \in Player, Leave(p)
  PROVE  TypeOK'
<1>1. place' \in [Player -> Places]
  <2>1. place \in [Player -> Places] /\ Out \in Places
    BY DEF TypeOK, Places
  <2> QED BY <2>1 DEF Leave
<1> QED BY <1>1 DEF Leave, TypeOK, spaces, mgr, entities

LEMMA NextType == TypeOK /\ [Next]_vars => TypeOK'
<1> SUFFICES ASSUME TypeOK, [Next]_vars PROVE TypeOK'
  OBVIOUS
<1>1. CASE \E q \in Process : MgrStep(q)
  BY <1>1, MgrType
<1>2. CASE \E s \in Space :
             HandleCreateWorld(s) \/ SyncSpaceInfo(s) \/ Crash(s) \/ Restart(s)
  BY <1>2, HandleCreateWorldType, SyncSpaceInfoType, CrashType, RestartType
<1>3. CASE \E g \in Game : LogicStep(g)
  BY <1>3, AwakeWorldProxyType, LobbyType, HandleTeleportType, ProxyDisconnectType,
     SwapEntitiesType DEF LogicStep
<1>4. CASE \E g \in Game, q \in Space \cup {Mgr} : LocatorBroadcastCreateWorld(g, q)
  BY <1>4, LocatorType
<1>5. CASE \E g \in Game, s \in Space : NetStep(g, s)
  BY <1>5, SeeDisconnectType, ReconnectType DEF NetStep
<1>6. CASE \E p \in Player : PlayerStep(p)
  BY <1>6, LeaveType, EnterPublicWorldType DEF PlayerStep
<1>7. CASE UNCHANGED vars
  BY <1>7 DEF vars, spaces, mgr, entities, game, TypeOK
<1> QED BY <1>1, <1>2, <1>3, <1>4, <1>5, <1>6, <1>7 DEF Next, Process

\* Every variable keeps its shape: packets carry what their handlers read.
THEOREM TypeCorrect == Spec => []TypeOK
BY InitType, NextType, PTL DEF Spec

(***************************************************************************)
(* WorldProxyLocator and the proxies of a game.                            *)
(***************************************************************************)
\* The locator's entry for a world is a proxy of that world which is not on its
\* way to the pool, or one that was refused; and only proxies go there.
LocatorInv ==
  \A g \in Game :
    /\ doomed[g] \subseteq proxies[g]
    /\ \A w \in World : publics[g][w] # None =>
         /\ publics[g][w].id = w
         /\ publics[g][w] \in (proxies[g] \ doomed[g]) \cup strays[g]

\* A step of other parts.
LEMMA LocatorStutter ==
  ASSUME LocatorInv, UNCHANGED <<publics, proxies, doomed, strays>>
  PROVE  LocatorInv'
BY DEF LocatorInv

\* WorldProxyLocator::RegisterToLocator.
LEMMA LocatorAwake ==
  ASSUME TypeOK, LocatorInv, NEW g \in Game, AwakeWorldProxy(g)
  PROVE  LocatorInv'
<1> DEFINE x == Head(logic[g]).world
<1>1. /\ proxies' = [proxies EXCEPT ![g] = proxies[g] \cup {x}]
      /\ strays' = IF x \in proxies[g] THEN [strays EXCEPT ![g] = strays[g] \cup {x}]
                                        ELSE strays
      /\ publics' = [publics EXCEPT ![g][x.id] = x]
      /\ doomed' = doomed
  BY DEF AwakeWorldProxy
<1> HIDE DEF x
<1>2. /\ proxies \in [Game -> SUBSET Worlds] /\ strays \in [Game -> SUBSET Worlds]
      /\ publics \in [Game -> [World -> Worlds \cup {None}]]
  BY DEF TypeOK
<1>3. ASSUME NEW h \in Game, NEW w \in World, publics'[h][w] # None
      PROVE  /\ publics'[h][w].id = w
             /\ publics'[h][w] \in (proxies'[h] \ doomed'[h]) \cup strays'[h]
  <2>1. CASE h = g /\ x.id = w
    <3>1. publics'[h][w] = x
      BY <1>1, <1>2, <2>1
    <3>2. x \in proxies'[h] /\ (x \in proxies[h] => x \in strays'[h])
      BY <1>1, <1>2, <2>1
    <3>3. x \notin proxies[h] => x \notin doomed'[h]
      BY <1>1 DEF LocatorInv
    <3> QED BY <2>1, <3>1, <3>2, <3>3
  <2>2. CASE ~(h = g /\ x.id = w)
    <3>1. publics'[h][w] = publics[h][w]
      BY <1>1, <1>2, <2>2
    <3>2. proxies[h] \subseteq proxies'[h] /\ strays[h] \subseteq strays'[h]
      BY <1>1, <1>2
    <3> QED BY <1>1, <1>3, <3>1, <3>2 DEF LocatorInv
  <2> QED BY <2>1, <2>2
<1>4. \A h \in Game : doomed'[h] \subseteq proxies'[h]
  BY <1>1, <1>2 DEF LocatorInv
<1> QED BY <1>3, <1>4 DEF LocatorInv

\* WorldProxyLocator::Remove of all proxies of a space process.
LEMMA LocatorDisconnect ==
  ASSUME TypeOK, LocatorInv, NEW g \in Game, ProxyDisconnect(g)
  PROVE  LocatorInv'
<1> DEFINE gone == {x \in proxies[g] : x.app = Head(logic[g]).app}
<1>1. /\ doomed' = [doomed EXCEPT ![g] = doomed[g] \cup gone]
      /\ publics' = [publics EXCEPT ![g] = RegisteredWithout(g, gone)]
      /\ UNCHANGED <<proxies, strays>>
  BY DEF ProxyDisconnect
<1>2. /\ doomed \in [Game -> SUBSET Worlds]
      /\ publics \in [Game -> [World -> Worlds \cup {None}]]
      /\ gone \subseteq proxies[g]
  BY DEF TypeOK
<1> HIDE DEF gone
<1>3. ASSUME NEW h \in Game, NEW w \in World, publics'[h][w] # None
      PROVE  /\ publics'[h][w].id = w
             /\ publics'[h][w] \in (proxies'[h] \ doomed'[h]) \cup strays'[h]
  <2>1. CASE h = g
    <3>1. publics'[h][w] = publics[h][w] /\ \A x \in gone : x.id # w
      BY <1>1, <1>2, <1>3, <2>1 DEF RegisteredWithout
    <3>2. publics[h][w].id = w /\ publics[h][w] \in (proxies[h] \ doomed[h]) \cup strays[h]
      BY <1>3, <3>1 DEF LocatorInv
    <3>3. publics[h][w] \notin gone
      BY <3>1, <3>2
    <3> QED BY <1>1, <1>2, <2>1, <3>1, <3>2, <3>3
  <2>2. CASE h # g
    BY <1>1, <1>2, <1>3, <2>2 DEF LocatorInv
  <2> QED BY <2>1, <2>2
<1>4. \A h \in Game : doomed'[h] \subseteq proxies'[h]
  BY <1>1, <1>2 DEF LocatorInv
<1> QED BY <1>3, <1>4 DEF LocatorInv

\* The next frame frees what nobody finds any more.
LEMMA LocatorSwap ==
  ASSUME TypeOK, LocatorInv, NEW g \in Game, SwapEntities(g)
  PROVE  LocatorInv'
<1>1. /\ proxies' = [proxies EXCEPT ![g] = proxies[g] \ doomed[g]]
      /\ doomed' = [doomed EXCEPT ![g] = {}]
      /\ UNCHANGED <<publics, strays>>
  BY DEF SwapEntities
<1>2. proxies \in [Game -> SUBSET Worlds] /\ doomed \in [Game -> SUBSET Worlds]
  BY DEF TypeOK
<1>3. \A h \in Game : proxies'[h] \ doomed'[h] = proxies[h] \ doomed[h]
  BY <1>1, <1>2
<1>4. \A h \in Game : doomed'[h] \subseteq proxies'[h]
  BY <1>1, <1>2 DEF LocatorInv
<1> QED BY <1>1, <1>3, <1>4 DEF LocatorInv

LEMMA LocatorNext == TypeOK /\ LocatorInv /\ [Next]_vars => LocatorInv'
<1> SUFFICES ASSUME TypeOK, LocatorInv, [Next]_vars PROVE LocatorInv'
  OBVIOUS
<1> USE DEF vars, spaces, mgr, entities, game
<1>1. CASE \E q \in Process : MgrStep(q)
  BY <1>1, LocatorStutter
     DEF MgrStep, HandleRequestWorld, HandleAppInfoSync, HandleBroadcastCreateWorld,
         HandleNetworkDisconnect
<1>2. CASE \E s \in Space :
             HandleCreateWorld(s) \/ SyncSpaceInfo(s) \/ Crash(s) \/ Restart(s)
  BY <1>2, LocatorStutter DEF HandleCreateWorld, SyncSpaceInfo, Crash, Restart
<1>3. ASSUME NEW g \in Game, LogicStep(g) PROVE LocatorInv'
  <2>1. CASE AwakeWorldProxy(g)
    BY <2>1, LocatorAwake
  <2>2. CASE LobbyBroadcastCreateWorldProxy(g)
    BY <2>2, LocatorStutter DEF LobbyBroadcastCreateWorldProxy
  <2>3. CASE HandleTeleport(g)
    BY <2>3, LocatorStutter DEF HandleTeleport
  <2>4. CASE ProxyDisconnect(g)
    BY <2>4, LocatorDisconnect
  <2>5. CASE SwapEntities(g)
    BY <2>5, LocatorSwap
  <2> QED BY <1>3, <2>1, <2>2, <2>3, <2>4, <2>5 DEF LogicStep
<1>4. CASE \E g \in Game, q \in Space \cup {Mgr} : LocatorBroadcastCreateWorld(g, q)
  BY <1>4, LocatorStutter DEF LocatorBroadcastCreateWorld
<1>5. CASE \E g \in Game, s \in Space : NetStep(g, s)
  BY <1>5, LocatorStutter DEF NetStep, SeeDisconnect, Reconnect
<1>6. CASE \E p \in Player : PlayerStep(p)
  BY <1>6, LocatorStutter DEF PlayerStep, Leave, EnterPublicWorld
<1>7. CASE UNCHANGED vars
  BY <1>7, LocatorStutter
<1> QED BY <1>1, <1>2, <1>3, <1>4, <1>5, <1>6, <1>7 DEF Next, Process

\* WorldProxyLocator never names a proxy that ProxyDisconnect has removed.
THEOREM LocatorNamesProxies == Spec => []RegisteredHasProxy
<1>1. Init => LocatorInv
  BY DEF Init, LocatorInv
<1>2. LocatorInv => RegisteredHasProxy
  BY DEF LocatorInv, RegisteredHasProxy
<1> QED BY <1>1, <1>2, LocatorNext, TypeCorrect, PTL DEF Spec

(***************************************************************************)
(* CreateWorldComponent and the space processes.                           *)
(***************************************************************************)
\* What a space process has sent to the appmgr is so (its worlds exist, it runs)
\* unless its disconnect comes later in the same queue.
Sound(s, q, ws, ups) ==
  \A i \in 1..Len(q) :
    \/ \E j \in 1..Len(q) : i < j /\ q[j] = Disconnect
    \/ /\ q[i].type = "BroadcastCreateWorld" => q[i].world \in ws
       /\ q[i].type = "AppInfoSync" => s \in ups

\* A space process announces its own worlds only.
Own(s, q) ==
  \A i \in 1..Len(q) : q[i].type = "BroadcastCreateWorld" => q[i].world.app = s

\* It announces the world w.
Says(q, w) ==
  \E i \in 1..Len(q) : q[i].type = "BroadcastCreateWorld" /\ q[i].world.id = w

MgrInv ==
  /\ \A s \in Space : Sound(s, toMgr[s], worlds, up) /\ Own(s, toMgr[s])
  /\ \A s \in apps : s \in up \/ Holds(toMgr[s], Disconnect)
  /\ CreatedExists
  /\ CreatingIsUnderWay

\* The first packet of a queue is taken.
LEMMA SoundTail ==
  ASSUME NEW S, NEW s, NEW q \in Seq(S), q # <<>>, NEW ws, NEW ups,
         Sound(s, q, ws, ups), Own(s, q)
  PROVE  /\ Sound(s, Tail(q), ws, ups) /\ Own(s, Tail(q))
         /\ Head(q) # Disconnect /\ Holds(q, Disconnect) => Holds(Tail(q), Disconnect)
         /\ Head(q).type = "BroadcastCreateWorld" =>
              /\ Head(q).world.app = s
              /\ Head(q).world \in ws \/ Holds(Tail(q), Disconnect)
         /\ Head(q).type = "AppInfoSync" => s \in ups \/ Holds(Tail(q), Disconnect)
         /\ \A w : Says(q, w) =>
              \/ Says(Tail(q), w)
              \/ Head(q).type = "BroadcastCreateWorld" /\ Head(q).world.id = w
<1> DEFINE t == Tail(q)
<1>1. /\ t \in Seq(S) /\ Len(t) = Len(q) - 1 /\ Len(q) \in Nat \ {0}
      /\ \A i \in 1..Len(t) : t[i] = q[i + 1]
      /\ Head(q) = q[1]
  OBVIOUS
<1> DEFINE h == Head(q)
<1> HIDE DEF t, h
<1>2. /\ \A i \in 1..Len(t) : i + 1 \in 1..Len(q) /\ i \in Int
      /\ \A i \in 1..Len(q) : i = 1 \/ i - 1 \in 1..Len(t)
      /\ \A i \in 1..Len(q) : i # 1 => t[i - 1] = q[i]
      /\ 1 \in 1..Len(q) /\ q[1] = h
  BY <1>1 DEF h
<1>3. \A i \in 1..Len(q), j \in 1..Len(q) : i < j => j # 1 /\ i - 1 < j - 1
  BY <1>1
<1>4. Sound(s, t, ws, ups)
  <2> SUFFICES ASSUME NEW i \in 1..Len(t)
               PROVE  \/ \E j \in 1..Len(t) : i < j /\ t[j] = Disconnect
                      \/ /\ t[i].type = "BroadcastCreateWorld" => t[i].world \in ws
                         /\ t[i].type = "AppInfoSync" => s \in ups
    BY DEF Sound
  <2>1. CASE \E j \in 1..Len(q) : i + 1 < j /\ q[j] = Disconnect
    <3>1. PICK j \in 1..Len(q) : i + 1 < j /\ q[j] = Disconnect
      BY <2>1
    <3>2. j # 1 /\ j - 1 \in 1..Len(t) /\ i < j - 1 /\ t[j - 1] = Disconnect
      BY <1>1, <1>2, <3>1
    <3> QED BY <3>2
  <2>2. CASE ~\E j \in 1..Len(q) : i + 1 < j /\ q[j] = Disconnect
    BY <1>1, <1>2, <2>2 DEF Sound
  <2> QED BY <2>1, <2>2
<1>5. Own(s, t)
  BY <1>1, <1>2 DEF Own
<1>6. h # Disconnect /\ Holds(q, Disconnect) => Holds(t, Disconnect)
  BY <1>1, <1>2 DEF Holds
<1>7. \/ Holds(t, Disconnect)
      \/ /\ h.type = "BroadcastCreateWorld" => h.world \in ws
         /\ h.type = "AppInfoSync" => s \in ups
  BY <1>1, <1>2, <1>3 DEF Holds, Sound
<1>8. h.type = "BroadcastCreateWorld" => h.world.app = s
  BY <1>2 DEF Own
<1>9. \A w : Says(q, w) =>
        \/ Says(t, w)
        \/ h.type = "BroadcastCreateWorld" /\ h.world.id = w
  BY <1>1, <1>2 DEF Says
<1> QED BY <1>4, <1>5, <1>6, <1>7, <1>8, <1>9 DEF t, h

\* A packet is put at the end of a queue.
LEMMA SoundAppend ==
  ASSUME NEW S, NEW s, NEW q \in Seq(S), NEW m \in S, NEW ws, NEW ups, NEW more,
         Sound(s, q, ws, ups), Own(s, q), ws \subseteq more,
         m.type = "BroadcastCreateWorld" => m.world \in more /\ m.world.app = s,
         m.type = "AppInfoSync" => s \in ups
  PROVE  /\ Sound(s, Append(q, m), more, ups) /\ Own(s, Append(q, m))
         /\ Holds(q, Disconnect) => Holds(Append(q, m), Disconnect)
         /\ \A w : Says(q, w) => Says(Append(q, m), w)
         /\ m.type = "BroadcastCreateWorld" => Says(Append(q, m), m.world.id)
<1> DEFINE t == Append(q, m)
<1>1. /\ t \in Seq(S) /\ Len(t) = Len(q) + 1 /\ Len(q) \in Nat
      /\ \A i \in 1..Len(q) : t[i] = q[i]
      /\ t[Len(q) + 1] = m
  OBVIOUS
<1>2. 1..Len(t) = 1..Len(q) \cup {Len(q) + 1}
  BY <1>1
<1> HIDE DEF t
<1>3. Sound(s, t, more, ups)
  BY <1>1, <1>2 DEF Sound
<1>4. Own(s, t)
  BY <1>1, <1>2 DEF Own
<1>5. Holds(q, Disconnect) => Holds(t, Disconnect)
  BY <1>1, <1>2 DEF Holds
<1>6. \A w : Says(q, w) => Says(t, w)
  BY <1>1, <1>2 DEF Says
<1>7. m.type = "BroadcastCreateWorld" => Says(t, m.world.id)
  BY <1>1, <1>2 DEF Says
<1> QED BY <1>3, <1>4, <1>5, <1>6, <1>7 DEF t

\* A process ends: whatever is left of its packets, its disconnect comes last.
LEMMA SoundCrash ==
  ASSUME NEW S, NEW s, NEW q \in Seq(S), NEW n \in 0..Len(q), Own(s, q),
         Disconnect \in S, NEW ws, NEW ups
  PROVE  LET t == Append(SubSeq(q, 1, n), Disconnect)
         IN  Sound(s, t, ws, ups) /\ Own(s, t) /\ Holds(t, Disconnect)
<1> DEFINE r == SubSeq(q, 1, n)
           t == Append(r, Disconnect)
<1>1. /\ r \in Seq(S) /\ Len(r) = n /\ n \in Nat
      /\ \A i \in 1..n : r[i] = q[i] /\ i \in 1..Len(q)
  BY FirstPart
<1> HIDE DEF r
<1>2. /\ Len(t) = n + 1 /\ t[n + 1] = Disconnect
      /\ \A i \in 1..n : t[i] = q[i]
  BY <1>1
<1>3. 1..Len(t) = 1..n \cup {n + 1} /\ \A i \in 1..n : i < n + 1
  BY <1>1, <1>2
<1> HIDE DEF t
<1>4. Disconnect.type = "Disconnect"
  BY DEF Disconnect
<1>5. Sound(s, t, ws, ups)
  BY <1>2, <1>3, <1>4 DEF Sound
<1>6. Own(s, t)
  BY <1>1, <1>2, <1>3, <1>4 DEF Own
<1>7. Holds(t, Disconnect)
  BY <1>2, <1>3 DEF Holds
<1> QED BY <1>5, <1>6, <1>7 DEF t, r

\* A world that is to be created stays in its queue until it is taken from it.
LEMMA HoldsQueue ==
  ASSUME NEW S, NEW q \in Seq(S)
  PROVE  /\ \A w : \A r \in Seq(S) : Holds(q, w) => Holds(q \o r, w)
         /\ \A w \in S : Holds(q \o <<w>>, w)
         /\ q # <<>> => \A w : Holds(q, w) => w = Head(q) \/ Holds(Tail(q), w)
<1>1. ASSUME NEW r \in Seq(S), NEW w, Holds(q, w) PROVE Holds(q \o r, w)
  <2>1. /\ Len(q \o r) = Len(q) + Len(r) /\ Len(q) \in Nat /\ Len(r) \in Nat
        /\ \A i \in 1..Len(q) : (q \o r)[i] = q[i]
    OBVIOUS
  <2> QED BY <1>1, <2>1 DEF Holds
<1>2. ASSUME NEW w \in S PROVE Holds(q \o <<w>>, w)
  <2>1. Len(q \o <<w>>) = Len(q) + 1 /\ Len(q) \in Nat /\ (q \o <<w>>)[Len(q) + 1] = w
    OBVIOUS
  <2> QED BY <2>1 DEF Holds
<1>3. ASSUME q # <<>>, NEW w, Holds(q, w) PROVE w = Head(q) \/ Holds(Tail(q), w)
  <2>1. /\ Len(Tail(q)) = Len(q) - 1 /\ Len(q) \in Nat \ {0} /\ Head(q) = q[1]
        /\ \A i \in 1..Len(Tail(q)) : Tail(q)[i] = q[i + 1]
    BY <1>3
  <2>2. PICK i \in 1..Len(q) : q[i] = w
    BY <1>3 DEF Holds
  <2>3. CASE i = 1
    BY <2>1, <2>2, <2>3
  <2>4. CASE i # 1
    <3>1. i - 1 \in 1..Len(Tail(q)) /\ (i - 1) + 1 = i
      BY <2>1, <2>4
    <3> QED BY <2>1, <2>2, <3>1 DEF Holds
  <2> QED BY <2>3, <2>4
<1> QED BY <1>1, <1>2, <1>3

\* The names that CreatingIsUnderWay and CreatedExists use, for one world.
LEMMA MgrFacts ==
  ASSUME TypeOK, MgrInv
  PROVE  /\ \A w \in World : creating[w] # None =>
              /\ creating[w] \in Space
              /\ \/ Holds(toSpace[creating[w]], w)
                 \/ Says(toMgr[creating[w]], w)
                 \/ Holds(toMgr[creating[w]], Disconnect)
         /\ \A w \in World : created[w] # None =>
              /\ created[w].app \in Space
              /\ created[w] \in worlds \/ Holds(toMgr[created[w].app], Disconnect)
<1>1. /\ creating \in [World -> Space \cup {None}]
      /\ created \in [World -> Worlds \cup {None}]
  BY DEF TypeOK
<1>2. \A w \in World : created[w] # None =>
        created[w].app \in Space
        /\ (created[w] \in worlds \/ Holds(toMgr[created[w].app], Disconnect))
  BY <1>1 DEF MgrInv, CreatedExists, Worlds
<1>3. \A w \in World : creating[w] # None =>
        /\ creating[w] \in Space
        /\ \/ Holds(toSpace[creating[w]], w)
           \/ Says(toMgr[creating[w]], w)
           \/ Holds(toMgr[creating[w]], Disconnect)
  BY <1>1 DEF MgrInv, CreatingIsUnderWay, Announced, Says
<1> QED BY <1>2, <1>3

LEMMA MgrGoal ==
  ASSUME \A s \in Space : Sound(s, toMgr'[s], worlds', up') /\ Own(s, toMgr'[s]),
         \A s \in apps' : s \in up' \/ Holds(toMgr'[s], Disconnect),
         \A w \in World : created'[w] # None =>
           created'[w] \in worlds' \/ Holds(toMgr'[created'[w].app], Disconnect),
         \A w \in World : creating'[w] # None =>
           \/ Holds(toSpace'[creating'[w]], w)
           \/ Says(toMgr'[creating'[w]], w)
           \/ Holds(toMgr'[creating'[w]], Disconnect)
  PROVE  MgrInv'
BY DEF MgrInv, CreatedExists, CreatingIsUnderWay, Announced, Says

\* A step that concerns neither the space processes nor what they send.
LEMMA MgrStutter ==
  ASSUME TypeOK, MgrInv, UNCHANGED <<up, worlds, apps, creating, created, toSpace>>,
         \A s \in Space : toMgr'[s] = toMgr[s]
  PROVE  MgrInv'
<1>1. apps \subseteq Space
  BY DEF TypeOK
<1>2. \A s \in Space : Sound(s, toMgr'[s], worlds', up') /\ Own(s, toMgr'[s])
  BY DEF MgrInv
<1>3. \A s \in apps' : s \in up' \/ Holds(toMgr'[s], Disconnect)
  BY <1>1 DEF MgrInv
<1>4. \A w \in World : created'[w] # None =>
        created'[w] \in worlds' \/ Holds(toMgr'[created'[w].app], Disconnect)
  BY MgrFacts
<1>5. \A w \in World : creating'[w] # None =>
        \/ Holds(toSpace'[creating'[w]], w)
        \/ Says(toMgr'[creating'[w]], w)
        \/ Holds(toMgr'[creating'[w]], Disconnect)
  BY MgrFacts
<1> QED BY <1>2, <1>3, <1>4, <1>5, MgrGoal

\* The appmgr takes a packet of a space process.
LEMMA MgrTakes ==
  ASSUME TypeOK, MgrInv, NEW q \in Space, toMgr[q] # <<>>,
         toMgr' = [toMgr EXCEPT ![q] = Tail(toMgr[q])]
  PROVE  /\ \A s \in Space : Sound(s, toMgr'[s], worlds, up) /\ Own(s, toMgr'[s])
         /\ \A s \in Space : s # q => toMgr'[s] = toMgr[s]
         /\ Head(toMgr[q]) # Disconnect =>
              \A s \in Space : Holds(toMgr[s], Disconnect) => Holds(toMgr'[s], Disconnect)
         /\ Head(toMgr[q]).type = "BroadcastCreateWorld" =>
              /\ Head(toMgr[q]).world.app = q
              /\ Head(toMgr[q]).world \in worlds \/ Holds(toMgr'[q], Disconnect)
         /\ Head(toMgr[q]).type = "AppInfoSync" => q \in up \/ Holds(toMgr'[q], Disconnect)
         /\ \A s \in Space, w \in World : Says(toMgr[s], w) =>
              \/ Says(toMgr'[s], w)
              \/ Head(toMgr[q]).type = "BroadcastCreateWorld" /\ Head(toMgr[q]).world.id = w
<1>1. /\ toMgr'[q] = Tail(toMgr[q])
      /\ \A s \in Space : s # q => toMgr'[s] = toMgr[s]
  BY DEF TypeOK
<1>2. toMgr[q] \in Seq(ToMgrPackets(q)) /\ Sound(q, toMgr[q], worlds, up) /\ Own(q, toMgr[q])
  BY QueueTypes DEF MgrInv, Process
<1>3. \A s \in Space : Sound(s, toMgr[s], worlds, up) /\ Own(s, toMgr[s])
  BY DEF MgrInv
<1> DEFINE h == Head(toMgr[q])
           t == Tail(toMgr[q])
<1>4. /\ Sound(q, t, worlds, up) /\ Own(q, t)
      /\ h # Disconnect /\ Holds(toMgr[q], Disconnect) => Holds(t, Disconnect)
      /\ h.type = "BroadcastCreateWorld" =>
           h.world.app = q /\ (h.world \in worlds \/ Holds(t, Disconnect))
      /\ h.type = "AppInfoSync" => q \in up \/ Holds(t, Disconnect)
      /\ \A w : Says(toMgr[q], w) =>
           \/ Says(t, w)
           \/ h.type = "BroadcastCreateWorld" /\ h.world.id = w
  <2> DEFINE Q == toMgr[q]
             P == ToMgrPackets(q)
  <2>1. Q \in Seq(P) /\ Q # <<>> /\ Sound(q, Q, worlds, up) /\ Own(q, Q)
    BY <1>2
  <2> HIDE DEF Q, P
  <2>2. /\ Sound(q, Tail(Q), worlds, up) /\ Own(q, Tail(Q))
        /\ Head(Q) # Disconnect /\ Holds(Q, Disconnect) => Holds(Tail(Q), Disconnect)
        /\ Head(Q).type = "BroadcastCreateWorld" =>
             /\ Head(Q).world.app = q
             /\ Head(Q).world \in worlds \/ Holds(Tail(Q), Disconnect)
        /\ Head(Q).type = "AppInfoSync" => q \in up \/ Holds(Tail(Q), Disconnect)
        /\ \A w : Says(Q, w) =>
             \/ Says(Tail(Q), w)
             \/ Head(Q).type = "BroadcastCreateWorld" /\ Head(Q).world.id = w
    BY <2>1, SoundTail
  <2> QED BY <2>2 DEF Q
<1> HIDE DEF h, t
<1>5. toMgr'[q] = t
  BY <1>1 DEF t
<1>6. /\ \A s \in Space : Sound(s, toMgr'[s], worlds, up) /\ Own(s, toMgr'[s])
      /\ h # Disconnect =>
           \A s \in Space : Holds(toMgr[s], Disconnect) => Holds(toMgr'[s], Disconnect)
      /\ h.type = "BroadcastCreateWorld" =>
           h.world.app = q /\ (h.world \in worlds \/ Holds(toMgr'[q], Disconnect))
      /\ h.type = "AppInfoSync" => q \in up \/ Holds(toMgr'[q], Disconnect)
      /\ \A s \in Space, w \in World : Says(toMgr[s], w) =>
           \/ Says(toMgr'[s], w)
           \/ h.type = "BroadcastCreateWorld" /\ h.world.id = w
  BY <1>1, <1>3, <1>4, <1>5
<1> QED BY <1>1, <1>6 DEF h

LEMMA MgrAppInfoSync ==
  ASSUME TypeOK, MgrInv, NEW q \in Process, HandleAppInfoSync(q)
  PROVE  MgrInv'
<1>1. /\ toMgr[q] # <<>> /\ Head(toMgr[q]).type = "AppInfoSync"
      /\ toMgr' = [toMgr EXCEPT ![q] = Tail(toMgr[q])]
      /\ apps' = apps \cup {q}
      /\ UNCHANGED <<up, worlds, creating, created, toSpace>>
  BY DEF HandleAppInfoSync, Handles, spaces
<1>2. q \in Space /\ Head(toMgr[q]) # Disconnect
  BY <1>1, QueueTypes, PacketFields DEF Disconnect
<1>3. /\ \A s \in Space : Sound(s, toMgr'[s], worlds, up) /\ Own(s, toMgr'[s])
      /\ \A s \in Space : Holds(toMgr[s], Disconnect) => Holds(toMgr'[s], Disconnect)
      /\ q \in up \/ Holds(toMgr'[q], Disconnect)
      /\ \A s \in Space, w \in World : Says(toMgr[s], w) => Says(toMgr'[s], w)
  BY <1>1, <1>2, MgrTakes
<1>4. \A s \in apps' : s \in up' \/ Holds(toMgr'[s], Disconnect)
  <2>1. apps \subseteq Space
    BY DEF TypeOK
  <2> QED BY <1>1, <1>3, <2>1 DEF MgrInv
<1>5. \A w \in World : created'[w] # None =>
        created'[w] \in worlds' \/ Holds(toMgr'[created'[w].app], Disconnect)
  BY <1>1, <1>3, MgrFacts
<1>6. \A w \in World : creating'[w] # None =>
        \/ Holds(toSpace'[creating'[w]], w)
        \/ Says(toMgr'[creating'[w]], w)
        \/ Holds(toMgr'[creating'[w]], Disconnect)
  BY <1>1, <1>3, MgrFacts
<1> QED BY <1>1, <1>3, <1>4, <1>5, <1>6, MgrGoal

LEMMA MgrBroadcastCreateWorld ==
  ASSUME TypeOK, MgrInv, NEW q \in Process, HandleBroadcastCreateWorld(q)
  PROVE  MgrInv'
<1> DEFINE x == Head(toMgr[q]).world
<1>1. /\ toMgr[q] # <<>> /\ Head(toMgr[q]).type = "BroadcastCreateWorld"
      /\ toMgr' = [toMgr EXCEPT ![q] = Tail(toMgr[q])]
      /\ created' = [created EXCEPT ![x.id] = x]
      /\ creating' = [creating EXCEPT ![x.id] = None]
      /\ UNCHANGED <<up, worlds, apps, toSpace>>
  BY DEF HandleBroadcastCreateWorld, Handles, spaces
<1>2. q \in Space /\ Head(toMgr[q]) # Disconnect
  BY <1>1, QueueTypes, PacketFields DEF Disconnect
<1>3. /\ \A s \in Space : Sound(s, toMgr'[s], worlds, up) /\ Own(s, toMgr'[s])
      /\ \A s \in Space : Holds(toMgr[s], Disconnect) => Holds(toMgr'[s], Disconnect)
      /\ x.app = q
      /\ x \in worlds \/ Holds(toMgr'[q], Disconnect)
      /\ \A s \in Space, w \in World : Says(toMgr[s], w) => Says(toMgr'[s], w) \/ w = x.id
  BY <1>1, <1>2, MgrTakes
<1> HIDE DEF x
<1>4. \A s \in apps' : s \in up' \/ Holds(toMgr'[s], Disconnect)
  <2>1. apps \subseteq Space
    BY DEF TypeOK
  <2> QED BY <1>1, <1>3, <2>1 DEF MgrInv
<1>5. ASSUME NEW w \in World, created'[w] # None
      PROVE  created'[w] \in worlds' \/ Holds(toMgr'[created'[w].app], Disconnect)
  <2>1. created \in [World -> Worlds \cup {None}]
    BY DEF TypeOK
  <2>2. CASE w = x.id
    BY <1>1, <1>3, <2>1, <2>2
  <2>3. CASE w # x.id
    <3>1. created'[w] = created[w]
      BY <1>1, <2>1, <2>3
    <3> QED BY <1>1, <1>3, <1>5, <3>1, MgrFacts
  <2> QED BY <2>2, <2>3
<1>6. ASSUME NEW w \in World, creating'[w] # None
      PROVE  \/ Holds(toSpace'[creating'[w]], w)
             \/ Says(toMgr'[creating'[w]], w)
             \/ Holds(toMgr'[creating'[w]], Disconnect)
  <2>1. creating \in [World -> Space \cup {None}]
    BY DEF TypeOK
  <2>2. w # x.id /\ creating'[w] = creating[w]
    BY <1>1, <1>6, <2>1
  <2> QED BY <1>1, <1>3, <1>6, <2>2, MgrFacts
<1> QED BY <1>1, <1>3, <1>4, <1>5, <1>6, MgrGoal

\* G2S_CreateWorld goes to a process that will take it, or whose disconnect has
\* yet to be handled.
LEMMA MgrRequestWorld ==
  ASSUME TypeOK, MgrInv, NEW q \in Process, HandleRequestWorld(q)
  PROVE  MgrInv'
<1> DEFINE v == Head(toMgr[q]).id
<1>1. /\ toMgr[q] # <<>> /\ Head(toMgr[q]).type = "RequestWorld"
      /\ toMgr' = [toMgr EXCEPT ![q] = Tail(toMgr[q])]
      /\ UNCHANGED <<up, worlds, apps, created>>
      /\ \/ UNCHANGED <<creating, toSpace>>
         \/ \E s \in apps : SendCreateWorld(s, <<v>>) /\ creating' = [creating EXCEPT ![v] = s]
  BY DEF HandleRequestWorld, Handles, spaces
<1>2. q \in Game /\ v \in World
  BY <1>1, QueueTypes, PacketFields
<1>3. \A s \in Space : toMgr'[s] = toMgr[s]
  BY <1>1, <1>2, WorldCreateAssumption
<1> HIDE DEF v
<1>4. CASE UNCHANGED <<creating, toSpace>>
  BY <1>1, <1>3, <1>4, MgrStutter
<1>5. ASSUME NEW s \in apps, SendCreateWorld(s, <<v>>), creating' = [creating EXCEPT ![v] = s]
      PROVE  MgrInv'
  <2>0. apps \subseteq Space
    BY DEF TypeOK
  <2>1. \A t \in Space : Sound(t, toMgr'[t], worlds, up) /\ Own(t, toMgr'[t])
    BY <1>3 DEF MgrInv
  <2>2. \A t \in apps' : t \in up' \/ Holds(toMgr'[t], Disconnect)
    BY <1>1, <1>3, <2>0 DEF MgrInv
  <2>3. \A w \in World : created'[w] # None =>
          created'[w] \in worlds' \/ Holds(toMgr'[created'[w].app], Disconnect)
    BY <1>1, <1>3, MgrFacts
  <2>4. /\ toSpace \in [Space -> Seq(World)] /\ <<v>> \in Seq(World) /\ s \in Space
        /\ toSpace[s] \in Seq(World)
        /\ toSpace' = [toSpace EXCEPT ![s] = IF Connected(s) THEN @ \o <<v>> ELSE @]
    BY <1>2, <1>5, <2>0 DEF TypeOK, SendCreateWorld
  <2>5. /\ \A t \in Space, w \in World : Holds(toSpace[t], w) => Holds(toSpace'[t], w)
        /\ Connected(s) => Holds(toSpace'[s], v)
    <3>1. /\ \A w \in World : Holds(toSpace[s], w) => Holds(toSpace[s] \o <<v>>, w)
          /\ Holds(toSpace[s] \o <<v>>, v)
      BY <1>2, <2>4, HoldsQueue
    <3> QED BY <2>4, <3>1
  <2>6. Connected(s) \/ Holds(toMgr'[s], Disconnect)
    BY <1>3, <1>5, <2>4 DEF MgrInv, Connected
  <2>7. creating \in [World -> Space \cup {None}]
    BY DEF TypeOK
  <2>8. \A w \in World : creating'[w] # None =>
          \/ Holds(toSpace'[creating'[w]], w)
          \/ Says(toMgr'[creating'[w]], w)
          \/ Holds(toMgr'[creating'[w]], Disconnect)
    <3> SUFFICES ASSUME NEW w \in World, creating'[w] # None
                 PROVE  \/ Holds(toSpace'[creating'[w]], w)
                        \/ Says(toMgr'[creating'[w]], w)
                        \/ Holds(toMgr'[creating'[w]], Disconnect)
      OBVIOUS
    <3>1. CASE w = v
      BY <1>5, <2>5, <2>6, <2>7, <3>1
    <3>2. CASE w # v
      <4>1. creating'[w] = creating[w]
        BY <1>5, <2>7, <3>2
      <4> QED BY <1>3, <2>5, <4>1, MgrFacts
    <3> QED BY <3>1, <3>2
  <2> QED BY <1>1, <2>1, <2>2, <2>3, <2>8, MgrGoal
<1> QED BY <1>1, <1>4, <1>5

\* What the process was creating is in no entry any more, and what it had created
\* is forgotten with it.
LEMMA MgrNetworkDisconnect ==
  ASSUME TypeOK, MgrInv, NEW q \in Process, HandleNetworkDisconnect(q)
  PROVE  MgrInv'
<1>1. /\ toMgr[q] # <<>> /\ Head(toMgr[q]).type = "Disconnect"
      /\ toMgr' = [toMgr EXCEPT ![q] = Tail(toMgr[q])]
      /\ apps' = apps \ {q}
      /\ creating' = CreatingWithout(q)
      /\ created' = CreatedWithout(q)
      /\ UNCHANGED <<up, worlds>>
  BY DEF HandleNetworkDisconnect, Handles, spaces
<1>2. q \in Space
  BY <1>1, QueueTypes, PacketFields
<1>3. /\ \A s \in Space : Sound(s, toMgr'[s], worlds, up) /\ Own(s, toMgr'[s])
      /\ \A s \in Space : s # q => toMgr'[s] = toMgr[s]
  BY <1>1, <1>2, MgrTakes
<1>4. \A s \in apps' : s \in up' \/ Holds(toMgr'[s], Disconnect)
  <2>1. apps \subseteq Space
    BY DEF TypeOK
  <2> QED BY <1>1, <1>3, <2>1 DEF MgrInv
<1>5. ASSUME NEW w \in World, created'[w] # None
      PROVE  created'[w] \in worlds' \/ Holds(toMgr'[created'[w].app], Disconnect)
  <2>1. created'[w] = created[w] /\ created[w].app # q
    BY <1>1, <1>5 DEF CreatedWithout
  <2> QED BY <1>1, <1>3, <1>5, <2>1, MgrFacts
<1>6. ASSUME NEW w \in World, creating'[w] # None
      PROVE  \/ Holds(toSpace'[creating'[w]], w)
             \/ Says(toMgr'[creating'[w]], w)
             \/ Holds(toMgr'[creating'[w]], Disconnect)
  <2>1. creating'[w] = creating[w] /\ creating[w] # q
    BY <1>1, <1>6 DEF CreatingWithout
  <2>2. \A s \in Space : Holds(toSpace[s], w) => Holds(toSpace'[s], w)
    <3>1. CASE UNCHANGED toSpace
      BY <3>1
    <3>2. ASSUME NEW chosen \in [Lost(q) -> apps'],
                 toSpace' = [t \in Space |->
                   IF Connected(t)
                     THEN toSpace[t] \o SetToSeq({u \in Lost(q) : chosen[u] = t})
                     ELSE toSpace[t]],
                 NEW s \in Space, Holds(toSpace[s], w)
          PROVE  Holds(toSpace'[s], w)
      <4> DEFINE S == {u \in Lost(q) : chosen[u] = s}
      <4>1. S \subseteq World
        BY DEF Lost
      <4>2. IsFiniteSet(S)
        BY <4>1, FS_Subset, WorldCreateAssumption
      <4>3. SetToSeq(S) \in Seq(S)
        BY <4>2, SetToSeqType
      <4>4. toSpace[s] \in Seq(World)
        BY QueueTypes
      <4>5. toSpace'[s] = IF Connected(s) THEN toSpace[s] \o SetToSeq(S) ELSE toSpace[s]
        BY <3>2
      <4> HIDE DEF S
      <4>6. SetToSeq(S) \in Seq(World)
        BY <4>1, <4>3
      <4>7. Holds(toSpace[s] \o SetToSeq(S), w)
        BY <3>2, <4>4, <4>6, HoldsQueue
      <4> QED BY <3>2, <4>5, <4>7
    <3> QED BY <3>1, <3>2 DEF HandleNetworkDisconnect
  <2> QED BY <1>3, <1>6, <2>1, <2>2, MgrFacts
<1> QED BY <1>1, <1>3, <1>4, <1>5, <1>6, MgrGoal

\* A space process sends something to the appmgr.
LEMMA MgrSent ==
  ASSUME TypeOK, MgrInv, NEW s \in Space, NEW m \in ToMgrPackets(s),
         toMgr' = [toMgr EXCEPT ![s] = Append(toMgr[s], m)], worlds \subseteq worlds', up' = up,
         m.type = "BroadcastCreateWorld" => m.world \in worlds' /\ m.world.app = s,
         m.type = "AppInfoSync" => s \in up
  PROVE  /\ \A t \in Space : Sound(t, toMgr'[t], worlds', up') /\ Own(t, toMgr'[t])
         /\ \A t \in Space : Holds(toMgr[t], Disconnect) => Holds(toMgr'[t], Disconnect)
         /\ \A t \in Space, w \in World : Says(toMgr[t], w) => Says(toMgr'[t], w)
         /\ m.type = "BroadcastCreateWorld" => Says(toMgr'[s], m.world.id)
<1> DEFINE Q == toMgr[s]
           P == ToMgrPackets(s)
           more == worlds'
<1>1. /\ Q \in Seq(P) /\ m \in P /\ Sound(s, Q, worlds, up) /\ Own(s, Q)
      /\ toMgr'[s] = Append(Q, m)
      /\ \A t \in Space : t # s => toMgr'[t] = toMgr[t]
  BY QueueTypes DEF TypeOK, MgrInv, Process
<1>2. \A t \in Space : Sound(t, toMgr[t], worlds, up) /\ Own(t, toMgr[t])
  BY DEF MgrInv
<1>3. \A t \in Space : Sound(t, toMgr[t], more, up)
  <2>1. worlds \subseteq more
    OBVIOUS
  <2> HIDE DEF more
  <2> QED BY <1>2, <2>1 DEF Sound
<1>4. /\ Sound(s, Append(Q, m), more, up) /\ Own(s, Append(Q, m))
      /\ Holds(Q, Disconnect) => Holds(Append(Q, m), Disconnect)
      /\ \A w : Says(Q, w) => Says(Append(Q, m), w)
      /\ m.type = "BroadcastCreateWorld" => Says(Append(Q, m), m.world.id)
  <2>1. /\ m.type = "BroadcastCreateWorld" => m.world \in more /\ m.world.app = s
        /\ m.type = "AppInfoSync" => s \in up
        /\ worlds \subseteq more
    OBVIOUS
  <2> HIDE DEF Q, P, more
  <2> QED BY <1>1, <2>1, SoundAppend
<1>5. ASSUME NEW t \in Space
      PROVE  /\ Sound(t, toMgr'[t], worlds', up') /\ Own(t, toMgr'[t])
             /\ Holds(toMgr[t], Disconnect) => Holds(toMgr'[t], Disconnect)
             /\ \A w \in World : Says(toMgr[t], w) => Says(toMgr'[t], w)
  <2>1. CASE t = s
    BY <1>1, <1>4, <2>1
  <2>2. CASE t # s
    BY <1>1, <1>2, <1>3, <2>2
  <2> QED BY <2>1, <2>2
<1> QED BY <1>1, <1>4, <1>5

LEMMA MgrCreateWorld ==
  ASSUME TypeOK, MgrInv, NEW s \in Space, HandleCreateWorld(s)
  PROVE  MgrInv'
<1> DEFINE v == Head(toSpace[s])
           x == NewWorld(v, s, serial + 1)
           m == BroadcastCreateWorld(x)
<1>1. /\ worlds' = worlds \cup {x}
      /\ toMgr' = [toMgr EXCEPT ![s] = Append(toMgr[s], m)]
      /\ toSpace' = [toSpace EXCEPT ![s] = Tail(toSpace[s])]
      /\ toSpace[s] # <<>>
      /\ UNCHANGED <<up, apps, creating, created>>
  BY DEF HandleCreateWorld, mgr
<1>2. x \in Worlds /\ x.app = s /\ x.id = v
  <2>1. serial \in Nat /\ v \in World
    BY <1>1, QueueTypes DEF TypeOK
  <2> QED BY <2>1 DEF NewWorld, Worlds
<1>3. m \in ToMgrPackets(s) /\ m.type = "BroadcastCreateWorld" /\ m.world = x
  <2>1. m \in ToMgrPackets(s)
    BY <1>2, PacketTypes
  <2> QED BY <2>1 DEF BroadcastCreateWorld
<1> HIDE DEF x, m
<1>4. /\ \A t \in Space : Sound(t, toMgr'[t], worlds', up') /\ Own(t, toMgr'[t])
      /\ \A t \in Space : Holds(toMgr[t], Disconnect) => Holds(toMgr'[t], Disconnect)
      /\ \A t \in Space, w \in World : Says(toMgr[t], w) => Says(toMgr'[t], w)
      /\ Says(toMgr'[s], v)
  BY <1>1, <1>2, <1>3, MgrSent
<1>5. \A t \in apps' : t \in up' \/ Holds(toMgr'[t], Disconnect)
  <2>1. apps \subseteq Space
    BY DEF TypeOK
  <2> QED BY <1>1, <1>4, <2>1 DEF MgrInv
<1>6. \A w \in World : created'[w] # None =>
        created'[w] \in worlds' \/ Holds(toMgr'[created'[w].app], Disconnect)
  BY <1>1, <1>4, MgrFacts
<1>7. ASSUME NEW w \in World, creating'[w] # None
      PROVE  \/ Holds(toSpace'[creating'[w]], w)
             \/ Says(toMgr'[creating'[w]], w)
             \/ Holds(toMgr'[creating'[w]], Disconnect)
  <2>1. /\ creating'[w] \in Space
        /\ \/ Holds(toSpace[creating'[w]], w)
           \/ Says(toMgr[creating'[w]], w)
           \/ Holds(toMgr[creating'[w]], Disconnect)
    BY <1>1, <1>7, MgrFacts
  <2>2. CASE Holds(toSpace[creating'[w]], w)
    <3>1. toSpace[s] \in Seq(World) /\ toSpace \in [Space -> Seq(World)]
      BY QueueTypes DEF TypeOK
    <3>2. creating'[w] = s => w = v \/ Holds(Tail(toSpace[s]), w)
      BY <1>1, <2>2, <3>1, HoldsQueue
    <3>3. creating'[w] # s => Holds(toSpace'[creating'[w]], w)
      BY <1>1, <2>1, <2>2, <3>1
    <3> QED BY <1>1, <1>4, <3>1, <3>2, <3>3
  <2>3. CASE ~Holds(toSpace[creating'[w]], w)
    BY <1>4, <2>1, <2>3
  <2> QED BY <2>2, <2>3
<1> QED BY <1>4, <1>5, <1>6, <1>7, MgrGoal

LEMMA MgrSyncSpaceInfo ==
  ASSUME TypeOK, MgrInv, NEW s \in Space, SyncSpaceInfo(s)
  PROVE  MgrInv'
<1>1. /\ s \in up
      /\ toMgr' = [toMgr EXCEPT ![s] = Append(toMgr[s], AppInfoSync)]
      /\ UNCHANGED <<up, worlds, apps, creating, created, toSpace>>
  BY DEF SyncSpaceInfo, mgr, spaces
<1>2. AppInfoSync \in ToMgrPackets(s) /\ AppInfoSync.type = "AppInfoSync"
  BY PacketTypes DEF AppInfoSync
<1>3. /\ \A t \in Space : Sound(t, toMgr'[t], worlds', up') /\ Own(t, toMgr'[t])
      /\ \A t \in Space : Holds(toMgr[t], Disconnect) => Holds(toMgr'[t], Disconnect)
      /\ \A t \in Space, w \in World : Says(toMgr[t], w) => Says(toMgr'[t], w)
  BY <1>1, <1>2, MgrSent
<1>4. \A t \in apps' : t \in up' \/ Holds(toMgr'[t], Disconnect)
  <2>1. apps \subseteq Space
    BY DEF TypeOK
  <2> QED BY <1>1, <1>3, <2>1 DEF MgrInv
<1>5. \A w \in World : created'[w] # None =>
        created'[w] \in worlds' \/ Holds(toMgr'[created'[w].app], Disconnect)
  BY <1>1, <1>3, MgrFacts
<1>6. \A w \in World : creating'[w] # None =>
        \/ Holds(toSpace'[creating'[w]], w)
        \/ Says(toMgr'[creating'[w]], w)
        \/ Holds(toMgr'[creating'[w]], Disconnect)
  BY <1>1, <1>3, MgrFacts
<1> QED BY <1>3, <1>4, <1>5, <1>6, MgrGoal

\* Whatever the process has left behind, its disconnect comes after it.
LEMMA MgrCrash ==
  ASSUME TypeOK, MgrInv, NEW s \in Space, Crash(s)
  PROVE  MgrInv'
<1>1. PICK n \in 0..Len(toMgr[s]) :
        toMgr' = [toMgr EXCEPT ![s] = Append(SubSeq(@, 1, n), Disconnect)]
  BY DEF Crash
<1>2. /\ up' = up \ {s}
      /\ worlds' = {x \in worlds : x.app # s}
      /\ toSpace' = [toSpace EXCEPT ![s] = <<>>]
      /\ UNCHANGED <<apps, creating, created>>
  BY DEF Crash, mgr
<1>3. /\ toMgr'[s] = Append(SubSeq(toMgr[s], 1, n), Disconnect)
      /\ \A t \in Space : t # s => toMgr'[t] = toMgr[t]
      /\ toSpace \in [Space -> Seq(World)]
  BY <1>1 DEF TypeOK
<1>4. Sound(s, toMgr'[s], worlds', up') /\ Own(s, toMgr'[s]) /\ Holds(toMgr'[s], Disconnect)
  <2> DEFINE Q == toMgr[s]
             P == ToMgrPackets(s)
             ws == worlds'
             ups == up'
  <2>1. Q \in Seq(P) /\ n \in 0..Len(Q) /\ Own(s, Q) /\ Disconnect \in P
    BY QueueTypes, PacketTypes DEF Process, MgrInv
  <2>2. toMgr'[s] = Append(SubSeq(Q, 1, n), Disconnect)
    BY <1>3
  <2> HIDE DEF Q, P, ws, ups
  <2> DEFINE t == Append(SubSeq(Q, 1, n), Disconnect)
  <2>3. Sound(s, t, ws, ups) /\ Own(s, t) /\ Holds(t, Disconnect)
    BY <2>1, SoundCrash
  <2> QED BY <2>2, <2>3 DEF ws, ups
<1>5. ASSUME NEW t \in Space PROVE Sound(t, toMgr'[t], worlds', up') /\ Own(t, toMgr'[t])
  <2>1. CASE t = s
    BY <1>4, <2>1
  <2>2. CASE t # s
    <3> DEFINE Q == toMgr[t]
    <3>1. Sound(t, Q, worlds, up) /\ Own(t, Q)
      BY DEF MgrInv
    <3>2. toMgr'[t] = Q
      BY <1>3, <2>2
    <3> HIDE DEF Q
    <3>3. Sound(t, Q, worlds', up')
      BY <1>2, <2>2, <3>1 DEF Sound, Own
    <3> QED BY <3>1, <3>2, <3>3
  <2> QED BY <2>1, <2>2
<1>6. \A t \in apps' : t \in up' \/ Holds(toMgr'[t], Disconnect)
  <2>1. apps \subseteq Space
    BY DEF TypeOK
  <2> QED BY <1>2, <1>3, <1>4, <2>1 DEF MgrInv
<1>7. \A w \in World : created'[w] # None =>
        created'[w] \in worlds' \/ Holds(toMgr'[created'[w].app], Disconnect)
  BY <1>2, <1>3, <1>4, MgrFacts
<1>8. \A w \in World : creating'[w] # None =>
        \/ Holds(toSpace'[creating'[w]], w)
        \/ Says(toMgr'[creating'[w]], w)
        \/ Holds(toMgr'[creating'[w]], Disconnect)
  BY <1>2, <1>3, <1>4, MgrFacts
<1> QED BY <1>5, <1>6, <1>7, <1>8, MgrGoal

\* A process starts again: its old packets are still followed by its disconnect.
LEMMA MgrRestart ==
  ASSUME TypeOK, MgrInv, NEW s \in Space, Restart(s)
  PROVE  MgrInv'
<1>1. up' = up \cup {s} /\ UNCHANGED <<worlds, toMgr, apps, creating, created, toSpace>>
  BY DEF Restart, mgr
<1>2. \A t \in Space : Sound(t, toMgr'[t], worlds', up') /\ Own(t, toMgr'[t])
  BY <1>1 DEF MgrInv, Sound
<1>3. \A t \in apps' : t \in up' \/ Holds(toMgr'[t], Disconnect)
  BY <1>1 DEF MgrInv
<1>4. \A w \in World : created'[w] # None =>
        created'[w] \in worlds' \/ Holds(toMgr'[created'[w].app], Disconnect)
  BY <1>1, MgrFacts
<1>5. \A w \in World : creating'[w] # None =>
        \/ Holds(toSpace'[creating'[w]], w)
        \/ Says(toMgr'[creating'[w]], w)
        \/ Holds(toMgr'[creating'[w]], Disconnect)
  BY <1>1, MgrFacts
<1> QED BY <1>2, <1>3, <1>4, <1>5, MgrGoal

\* G2M_RequestWorld is not in the queue of a space process.
LEMMA MgrEnterPublicWorld ==
  ASSUME TypeOK, MgrInv, NEW g \in Game, NEW p \in Player, NEW w \in World,
         EnterPublicWorld(g, p, w)
  PROVE  MgrInv'
<1>1. /\ UNCHANGED <<up, worlds, apps, creating, created, toSpace>>
      /\ \/ toMgr' = toMgr
         \/ toMgr' = [toMgr EXCEPT ![g] = Append(@, RequestWorld(w))]
  BY DEF EnterPublicWorld, spaces, mgr
<1>2. \A s \in Space : toMgr'[s] = toMgr[s]
  BY <1>1, WorldCreateAssumption DEF TypeOK
<1> QED BY <1>1, <1>2, MgrStutter

LEMMA MgrInit == Init => MgrInv
<1> SUFFICES ASSUME Init PROVE MgrInv
  OBVIOUS
<1>1. \A s \in Space : toMgr[s] = <<>> /\ Sound(s, toMgr[s], worlds, up) /\ Own(s, toMgr[s])
  BY DEF Init, Sound, Own
<1>2. /\ \A s \in apps : s \in up
      /\ \A w \in World : created[w] = None /\ creating[w] = None
  BY WorldCreateAssumption DEF Init
<1> QED BY <1>1, <1>2 DEF MgrInv, CreatedExists, CreatingIsUnderWay

LEMMA MgrNext == TypeOK /\ MgrInv /\ [Next]_vars => MgrInv'
<1> SUFFICES ASSUME TypeOK, MgrInv, [Next]_vars PROVE MgrInv'
  OBVIOUS
<1> USE DEF vars, spaces, mgr, entities, game
<1>1. CASE \E q \in Process : MgrStep(q)
  BY <1>1, MgrAppInfoSync, MgrRequestWorld, MgrBroadcastCreateWorld, MgrNetworkDisconnect
     DEF MgrStep
<1>2. CASE \E s \in Space :
             HandleCreateWorld(s) \/ SyncSpaceInfo(s) \/ Crash(s) \/ Restart(s)
  BY <1>2, MgrCreateWorld, MgrSyncSpaceInfo, MgrCrash, MgrRestart
<1>3. CASE \E g \in Game : LogicStep(g)
  BY <1>3, MgrStutter
     DEF LogicStep, AwakeWorldProxy, LobbyBroadcastCreateWorldProxy, HandleTeleport,
         ProxyDisconnect, SwapEntities
<1>4. CASE \E g \in Game, q \in Space \cup {Mgr} : LocatorBroadcastCreateWorld(g, q)
  BY <1>4, MgrStutter DEF LocatorBroadcastCreateWorld
<1>5. CASE \E g \in Game, s \in Space : NetStep(g, s)
  BY <1>5, MgrStutter DEF NetStep, SeeDisconnect, Reconnect
<1>6. CASE \E p \in Player : PlayerStep(p)
  BY <1>6, MgrStutter, MgrEnterPublicWorld DEF PlayerStep, Leave
<1>7. CASE UNCHANGED vars
  BY <1>7, MgrStutter
<1> QED BY <1>1, <1>2, <1>3, <1>4, <1>5, <1>6, <1>7 DEF Next, Process

THEOREM MgrInvariant == Spec => []MgrInv
BY MgrInit, MgrNext, TypeCorrect, PTL DEF Spec

\* The world in CreateWorldComponent::_created exists, or the disconnect of its
\* process is on its way, whatever fails and restarts in whatever order.
THEOREM CreatedIsThere == Spec => []CreatedExists
<1>1. MgrInv => CreatedExists
  BY DEF MgrInv
<1> QED BY <1>1, MgrInvariant, PTL

\* An entry of CreateWorldComponent::_creating is never left over.
THEOREM CreatingIsLive == Spec => []CreatingIsUnderWay
<1>1. MgrInv => CreatingIsUnderWay
  BY DEF MgrInv
<1> QED BY <1>1, MgrInvariant, PTL

(***************************************************************************)
(* A public world exists once.                                             *)
(***************************************************************************)
\* The process announces this very world.
Tells(q, x) ==
  \E i \in 1..Len(q) : q[i].type = "BroadcastCreateWorld" /\ q[i].world = x

\* A world is at one place of a queue of orders, or announced there once.
HoldsOnce(q, w) == \A i, j \in 1..Len(q) : q[i] = w /\ q[j] = w => i = j

SaysOnce(q, w) ==
  \A i, j \in 1..Len(q) :
    /\ q[i].type = "BroadcastCreateWorld" /\ q[i].world.id = w
    /\ q[j].type = "BroadcastCreateWorld" /\ q[j].world.id = w
    => i = j

\* Nothing is announced after a disconnect that has not been handled.
Silent(q) ==
  \A i, j \in 1..Len(q) :
    i < j /\ q[i] = Disconnect => q[j].type # "BroadcastCreateWorld"

\* As long as the appmgr has not handled a process's disconnect, the process
\* gets no orders, and it has no worlds.
GoneInv ==
  \A s \in Space :
    /\ Silent(toMgr[s])
    /\ Holds(toMgr[s], Disconnect) =>
         toSpace[s] = <<>> /\ \A x \in worlds : x.app # s

\* A world is ordered once, at the process that _creating names,
OrderInv(w) ==
  \A s \in Space :
    /\ HoldsOnce(toSpace[s], w)
    /\ Holds(toSpace[s], w) =>
         /\ creating[w] = s /\ created[w] = None
         /\ \A t \in Space : ~Says(toMgr[t], w)

\* then announced once, and then in _created.
NewsInv(w) ==
  \A s \in Space :
    /\ SaysOnce(toMgr[s], w)
    /\ Says(toMgr[s], w) => creating[w] = s /\ created[w] = None

FoundInv(w) ==
  \A x \in worlds : x.id = w => created[w] = x \/ Tells(toMgr[x.app], x)

OnceInv ==
  /\ GoneInv
  /\ \A w \in World \ again : OrderInv(w) /\ NewsInv(w) /\ FoundInv(w)

\* The first packet of a queue to the appmgr is taken.
LEMMA OnceTail ==
  ASSUME NEW S, NEW q \in Seq(S), q # <<>>, Silent(q)
  PROVE  /\ Silent(Tail(q))
         /\ Holds(Tail(q), Disconnect) => Holds(q, Disconnect)
         /\ \A w : Says(Tail(q), w) => Says(q, w) /\ Head(q) # Disconnect
         /\ \A w : SaysOnce(q, w) =>
              /\ SaysOnce(Tail(q), w)
              /\ Head(q).type = "BroadcastCreateWorld" /\ Head(q).world.id = w =>
                   Says(q, w) /\ ~Says(Tail(q), w)
         /\ \A x : Tells(q, x) =>
              \/ Tells(Tail(q), x)
              \/ Head(q).type = "BroadcastCreateWorld" /\ Head(q).world = x
         /\ Head(q) = Disconnect => Holds(q, Disconnect)
<1> DEFINE t == Tail(q)
           h == Head(q)
<1>1. /\ Len(t) = Len(q) - 1 /\ Len(q) \in Nat \ {0}
      /\ \A i \in 1..Len(t) : t[i] = q[i + 1]
      /\ h = q[1]
  OBVIOUS
<1> HIDE DEF t, h
<1>2. /\ \A i \in 1..Len(t) : i + 1 \in 1..Len(q) /\ i \in Int /\ 1 < i + 1 /\ i + 1 # 1
      /\ \A i, j \in 1..Len(t) : (i + 1 = j + 1 => i = j) /\ (i < j => i + 1 < j + 1)
      /\ \A i \in 1..Len(q) : i = 1 \/ (i - 1 \in 1..Len(t) /\ t[i - 1] = q[i])
      /\ 1 \in 1..Len(q) /\ q[1] = h
  BY <1>1
<1>3. Silent(t)
  BY <1>1, <1>2 DEF Silent
<1>4. Holds(t, Disconnect) => Holds(q, Disconnect)
  BY <1>1, <1>2 DEF Holds
<1>5. \A w : Says(t, w) => Says(q, w) /\ h # Disconnect
  BY <1>1, <1>2 DEF Says, Silent
<1>6. ASSUME NEW w, SaysOnce(q, w)
      PROVE  /\ SaysOnce(t, w)
             /\ h.type = "BroadcastCreateWorld" /\ h.world.id = w => Says(q, w) /\ ~Says(t, w)
  <2>1. SaysOnce(t, w)
    BY <1>1, <1>2, <1>6 DEF SaysOnce
  <2>2. h.type = "BroadcastCreateWorld" /\ h.world.id = w => Says(q, w)
    BY <1>2 DEF Says
  <2>3. h.type = "BroadcastCreateWorld" /\ h.world.id = w => ~Says(t, w)
    BY <1>1, <1>2, <1>6 DEF SaysOnce, Says
  <2> QED BY <2>1, <2>2, <2>3
<1>7. \A x : Tells(q, x) => Tells(t, x) \/ (h.type = "BroadcastCreateWorld" /\ h.world = x)
  BY <1>2 DEF Tells
<1>8. h = Disconnect => Holds(q, Disconnect)
  BY <1>2 DEF Holds
<1> QED BY <1>3, <1>4, <1>5, <1>6, <1>7, <1>8 DEF t, h

\* A packet is put at the end of a queue to the appmgr.
LEMMA OnceAppend ==
  ASSUME NEW S, NEW q \in Seq(S), NEW m \in S, Silent(q),
         m.type = "BroadcastCreateWorld" => ~Holds(q, Disconnect)
  PROVE  /\ Silent(Append(q, m))
         /\ Holds(Append(q, m), Disconnect) => Holds(q, Disconnect) \/ m = Disconnect
         /\ \A w : Says(Append(q, m), w) =>
              Says(q, w) \/ (m.type = "BroadcastCreateWorld" /\ m.world.id = w)
         /\ \A w : SaysOnce(q, w)
                   /\ (m.type = "BroadcastCreateWorld" /\ m.world.id = w => ~Says(q, w))
                   => SaysOnce(Append(q, m), w)
         /\ \A x : Tells(q, x) => Tells(Append(q, m), x)
         /\ m.type = "BroadcastCreateWorld" => Tells(Append(q, m), m.world)
<1> DEFINE t == Append(q, m)
<1>1. /\ Len(t) = Len(q) + 1 /\ Len(q) \in Nat
      /\ \A i \in 1..Len(q) : t[i] = q[i]
      /\ t[Len(q) + 1] = m
  OBVIOUS
<1> DEFINE n == Len(q) + 1
<1>2. /\ 1..Len(t) = 1..Len(q) \cup {n} /\ n \notin 1..Len(q) /\ t[n] = m
      /\ \A i \in 1..Len(q) : i < n /\ ~(n < i)
      /\ ~(n < n)
  BY <1>1
<1> HIDE DEF t, n
<1>3. Silent(t)
  BY <1>1, <1>2 DEF Silent, Holds
<1>4. Holds(t, Disconnect) => Holds(q, Disconnect) \/ m = Disconnect
  BY <1>1, <1>2 DEF Holds
<1>5. \A w : Says(t, w) => Says(q, w) \/ (m.type = "BroadcastCreateWorld" /\ m.world.id = w)
  BY <1>1, <1>2 DEF Says
<1>6. \A w : SaysOnce(q, w)
             /\ (m.type = "BroadcastCreateWorld" /\ m.world.id = w => ~Says(q, w))
             => SaysOnce(t, w)
  BY <1>1, <1>2 DEF SaysOnce, Says
<1>7. /\ \A x : Tells(q, x) => Tells(t, x)
      /\ m.type = "BroadcastCreateWorld" => Tells(t, m.world)
  BY <1>1, <1>2 DEF Tells
<1> QED BY <1>3, <1>4, <1>5, <1>6, <1>7 DEF t

\* A process ends: a first part of its packets, and its disconnect.
LEMMA OnceCrash ==
  ASSUME NEW S, NEW q \in Seq(S), NEW n \in 0..Len(q), Silent(q)
  PROVE  LET t == Append(SubSeq(q, 1, n), Disconnect)
         IN  /\ Silent(t)
             /\ \A w : (Says(t, w) => Says(q, w)) /\ (SaysOnce(q, w) => SaysOnce(t, w))
<1> DEFINE r == SubSeq(q, 1, n)
           t == Append(r, Disconnect)
<1>1. /\ r \in Seq(S) /\ Len(r) = n /\ n \in Nat
      /\ \A i \in 1..n : r[i] = q[i] /\ i \in 1..Len(q)
  BY FirstPart
<1> HIDE DEF r
<1>2. /\ Len(t) = n + 1 /\ t[n + 1] = Disconnect
      /\ \A i \in 1..n : t[i] = q[i]
  BY <1>1
<1>3. 1..Len(t) = 1..n \cup {n + 1} /\ \A i \in 1..n : i < n + 1
  BY <1>1, <1>2
<1> HIDE DEF t
<1>4. Disconnect.type # "BroadcastCreateWorld"
  BY DEF Disconnect
<1>5. /\ \A i \in 1..Len(t) : t[i].type = "BroadcastCreateWorld" =>
           i \in 1..n /\ i \in 1..Len(q) /\ t[i] = q[i]
      /\ \A i \in 1..Len(t), j \in 1..n : i < j => i \in 1..n
  BY <1>1, <1>2, <1>3, <1>4
<1>6. Silent(t)
  BY <1>1, <1>2, <1>5 DEF Silent
<1>7. \A w : Says(t, w) => Says(q, w)
  BY <1>5 DEF Says
<1>8. \A w : SaysOnce(q, w) => SaysOnce(t, w)
  BY <1>5 DEF SaysOnce
<1> QED BY <1>6, <1>7, <1>8 DEF t, r

\* The orders under way to a space process.
LEMMA OrdersTail ==
  ASSUME NEW S, NEW q \in Seq(S), q # <<>>, NEW w, HoldsOnce(q, w)
  PROVE  /\ HoldsOnce(Tail(q), w)
         /\ Holds(Tail(q), w) => Holds(q, w) /\ Head(q) # w
         /\ Head(q) = w => Holds(q, w)
<1> DEFINE t == Tail(q)
           h == Head(q)
<1>1. /\ Len(t) = Len(q) - 1 /\ Len(q) \in Nat \ {0}
      /\ \A i \in 1..Len(t) : t[i] = q[i + 1]
      /\ h = q[1]
  OBVIOUS
<1> HIDE DEF t, h
<1>2. /\ \A i \in 1..Len(t) : i + 1 \in 1..Len(q) /\ i + 1 # 1
      /\ \A i, j \in 1..Len(t) : i + 1 = j + 1 => i = j
      /\ 1 \in 1..Len(q) /\ q[1] = h
  BY <1>1
<1>3. HoldsOnce(t, w)
  BY <1>1, <1>2 DEF HoldsOnce
<1>4. Holds(t, w) => Holds(q, w) /\ h # w
  BY <1>1, <1>2 DEF Holds, HoldsOnce
<1>5. h = w => Holds(q, w)
  BY <1>2 DEF Holds
<1> QED BY <1>3, <1>4, <1>5 DEF t, h

LEMMA OrdersMore ==
  ASSUME NEW S, NEW q \in Seq(S), NEW r \in Seq(S), NEW w, HoldsOnce(q, w),
         \A i \in 1..Len(r) : r[i] # w
  PROVE  HoldsOnce(q \o r, w) /\ (Holds(q \o r, w) => Holds(q, w))
<1> DEFINE t == q \o r
<1>1. /\ Len(t) = Len(q) + Len(r) /\ Len(q) \in Nat /\ Len(r) \in Nat
      /\ \A i \in 1..Len(q) : t[i] = q[i]
      /\ \A i \in Len(q) + 1..Len(q) + Len(r) : t[i] = r[i - Len(q)]
  OBVIOUS
<1> HIDE DEF t
<1>2. \A i \in 1..Len(t) : i \in 1..Len(q) \/ (i - Len(q) \in 1..Len(r) /\ t[i] = r[i - Len(q)])
  BY <1>1
<1>3. \A i \in 1..Len(t) : t[i] = w => i \in 1..Len(q) /\ q[i] = w
  BY <1>1, <1>2
<1> QED BY <1>3 DEF HoldsOnce, Holds, t

LEMMA OrdersOne ==
  ASSUME NEW S, NEW q \in Seq(S), NEW v \in S
  PROVE  /\ \A w : w # v /\ HoldsOnce(q, w) =>
              HoldsOnce(q \o <<v>>, w) /\ (Holds(q \o <<v>>, w) => Holds(q, w))
         /\ ~Holds(q, v) => HoldsOnce(q \o <<v>>, v)
<1> DEFINE t == q \o <<v>>
<1>1. /\ Len(t) = Len(q) + 1 /\ Len(q) \in Nat
      /\ \A i \in 1..Len(q) : t[i] = q[i]
      /\ t[Len(q) + 1] = v
  OBVIOUS
<1> HIDE DEF t
<1>2. 1..Len(t) = 1..Len(q) \cup {Len(q) + 1}
  BY <1>1
<1>3. \A w : w # v /\ HoldsOnce(q, w) => HoldsOnce(t, w) /\ (Holds(t, w) => Holds(q, w))
  BY <1>1, <1>2 DEF HoldsOnce, Holds
<1>4. ~Holds(q, v) => HoldsOnce(t, v)
  BY <1>1, <1>2 DEF HoldsOnce, Holds
<1> QED BY <1>3, <1>4 DEF t

\* Nothing is not a world.
LEMMA NoneNotWorld == None \notin Worlds
BY WorldCreateAssumption DEF Worlds

\* The invariant of the next state, one part at a time.
LEMMA OnceGoal ==
  ASSUME \A s \in Space : Silent(toMgr'[s]),
         \A s \in Space : Holds(toMgr'[s], Disconnect) =>
           toSpace'[s] = <<>> /\ \A x \in worlds' : x.app # s,
         \A w \in World \ again' : \A s \in Space :
           /\ HoldsOnce(toSpace'[s], w)
           /\ Holds(toSpace'[s], w) =>
                /\ creating'[w] = s /\ created'[w] = None
                /\ \A t \in Space : ~Says(toMgr'[t], w),
         \A w \in World \ again' : \A s \in Space :
           /\ SaysOnce(toMgr'[s], w)
           /\ Says(toMgr'[s], w) => creating'[w] = s /\ created'[w] = None,
         \A w \in World \ again' : \A x \in worlds' :
           x.id = w => created'[w] = x \/ Tells(toMgr'[x.app], x)
  PROVE  OnceInv'
<1>1. GoneInv'
  BY DEF GoneInv
<1>2. \A w \in World \ again' : OrderInv(w)' /\ NewsInv(w)' /\ FoundInv(w)'
  BY DEF OrderInv, NewsInv, FoundInv
<1> QED BY <1>1, <1>2 DEF OnceInv

\* ... and of this one.
LEMMA OnceFacts ==
  ASSUME OnceInv
  PROVE  /\ \A s \in Space : Silent(toMgr[s])
         /\ \A s \in Space : Holds(toMgr[s], Disconnect) =>
              toSpace[s] = <<>> /\ \A x \in worlds : x.app # s
         /\ \A w \in World \ again : \A s \in Space :
              /\ HoldsOnce(toSpace[s], w)
              /\ Holds(toSpace[s], w) =>
                   /\ creating[w] = s /\ created[w] = None
                   /\ \A t \in Space : ~Says(toMgr[t], w)
         /\ \A w \in World \ again : \A s \in Space :
              /\ SaysOnce(toMgr[s], w)
              /\ Says(toMgr[s], w) => creating[w] = s /\ created[w] = None
         /\ \A w \in World \ again : \A x \in worlds :
              x.id = w => created[w] = x \/ Tells(toMgr[x.app], x)
BY DEF OnceInv, GoneInv, OrderInv, NewsInv, FoundInv

\* A step that neither creates nor orders, forgets or announces a world.
LEMMA OnceStutter ==
  ASSUME TypeOK, OnceInv, UNCHANGED <<worlds, creating, created, again, toSpace>>,
         \A s \in Space :
           /\ Silent(toMgr'[s])
           /\ Holds(toMgr'[s], Disconnect) => Holds(toMgr[s], Disconnect)
           /\ \A w : Says(toMgr'[s], w) => Says(toMgr[s], w)
           /\ \A w : SaysOnce(toMgr[s], w) => SaysOnce(toMgr'[s], w)
           /\ \A x : Tells(toMgr[s], x) => Tells(toMgr'[s], x)
  PROVE  OnceInv'
<1>1. \A s \in Space : Holds(toMgr'[s], Disconnect) =>
        toSpace'[s] = <<>> /\ \A x \in worlds' : x.app # s
  BY OnceFacts
<1>2. \A w \in World \ again' : \A s \in Space :
        /\ HoldsOnce(toSpace'[s], w)
        /\ Holds(toSpace'[s], w) =>
             /\ creating'[w] = s /\ created'[w] = None
             /\ \A t \in Space : ~Says(toMgr'[t], w)
  BY OnceFacts
<1>3. \A w \in World \ again' : \A s \in Space :
        /\ SaysOnce(toMgr'[s], w)
        /\ Says(toMgr'[s], w) => creating'[w] = s /\ created'[w] = None
  BY OnceFacts
<1>4. \A w \in World \ again' : \A x \in worlds' :
        x.id = w => created'[w] = x \/ Tells(toMgr'[x.app], x)
  <2>1. \A x \in worlds : x.app \in Space
    BY DEF TypeOK, Worlds
  <2> QED BY <2>1, OnceFacts
<1> QED BY <1>1, <1>2, <1>3, <1>4, OnceGoal

LEMMA OnceSame ==
  ASSUME TypeOK, OnceInv, UNCHANGED <<worlds, creating, created, again, toSpace>>,
         \A s \in Space : toMgr'[s] = toMgr[s]
  PROVE  OnceInv'
BY OnceStutter, OnceFacts

\* The appmgr takes a packet of a space process.
LEMMA OnceTakes ==
  ASSUME TypeOK, OnceInv, NEW q \in Space, toMgr[q] # <<>>,
         toMgr' = [toMgr EXCEPT ![q] = Tail(toMgr[q])], NEW h, h = Head(toMgr[q])
  PROVE  /\ \A s \in Space :
              /\ Silent(toMgr'[s])
              /\ Holds(toMgr'[s], Disconnect) => Holds(toMgr[s], Disconnect)
              /\ \A w : Says(toMgr'[s], w) => Says(toMgr[s], w)
              /\ \A w : SaysOnce(toMgr[s], w) => SaysOnce(toMgr'[s], w)
              /\ \A x : Tells(toMgr[s], x) =>
                   \/ Tells(toMgr'[s], x)
                   \/ h.type = "BroadcastCreateWorld" /\ h.world = x
         /\ \A s \in Space : s # q => toMgr'[s] = toMgr[s]
         /\ h = Disconnect =>
              Holds(toMgr[q], Disconnect) /\ \A w : ~Says(toMgr'[q], w)
         /\ \A w : h.type = "BroadcastCreateWorld" /\ h.world.id = w /\ SaysOnce(toMgr[q], w) =>
              Says(toMgr[q], w) /\ ~Says(toMgr'[q], w)
<1>1. /\ toMgr'[q] = Tail(toMgr[q])
      /\ \A s \in Space : s # q => toMgr'[s] = toMgr[s]
  BY DEF TypeOK
<1> DEFINE Q == toMgr[q]
           P == ToMgrPackets(q)
<1>2. Q \in Seq(P) /\ Q # <<>> /\ Silent(Q) /\ h = Head(Q)
  BY QueueTypes, OnceFacts DEF Process
<1>3. toMgr'[q] = Tail(Q)
  BY <1>1
<1> HIDE DEF Q, P
<1>4. /\ Silent(Tail(Q))
      /\ Holds(Tail(Q), Disconnect) => Holds(Q, Disconnect)
      /\ \A w : Says(Tail(Q), w) => Says(Q, w) /\ h # Disconnect
      /\ \A w : SaysOnce(Q, w) =>
           /\ SaysOnce(Tail(Q), w)
           /\ h.type = "BroadcastCreateWorld" /\ h.world.id = w => Says(Q, w) /\ ~Says(Tail(Q), w)
      /\ \A x : Tells(Q, x) =>
           Tells(Tail(Q), x) \/ (h.type = "BroadcastCreateWorld" /\ h.world = x)
      /\ h = Disconnect => Holds(Q, Disconnect)
  BY ONLY <1>2, OnceTail
<1>5. \A s \in Space : Silent(toMgr[s])
  BY OnceFacts
<1>6. \A s \in Space :
        /\ Silent(toMgr'[s])
        /\ Holds(toMgr'[s], Disconnect) => Holds(toMgr[s], Disconnect)
        /\ \A w : Says(toMgr'[s], w) => Says(toMgr[s], w)
        /\ \A w : SaysOnce(toMgr[s], w) => SaysOnce(toMgr'[s], w)
        /\ \A x : Tells(toMgr[s], x) =>
             \/ Tells(toMgr'[s], x)
             \/ h.type = "BroadcastCreateWorld" /\ h.world = x
  <2> SUFFICES ASSUME NEW s \in Space
               PROVE  /\ Silent(toMgr'[s])
                      /\ Holds(toMgr'[s], Disconnect) => Holds(toMgr[s], Disconnect)
                      /\ \A w : Says(toMgr'[s], w) => Says(toMgr[s], w)
                      /\ \A w : SaysOnce(toMgr[s], w) => SaysOnce(toMgr'[s], w)
                      /\ \A x : Tells(toMgr[s], x) =>
                           \/ Tells(toMgr'[s], x)
                           \/ h.type = "BroadcastCreateWorld" /\ h.world = x
    OBVIOUS
  <2>1. CASE s = q
    BY <2>1, <1>3, <1>4 DEF Q
  <2>2. CASE s # q
    BY <2>2, <1>1, <1>5
  <2> QED BY <2>1, <2>2
<1>7. h = Disconnect => Holds(toMgr[q], Disconnect) /\ \A w : ~Says(toMgr'[q], w)
  BY <1>3, <1>4 DEF Q
<1>8. \A w : h.type = "BroadcastCreateWorld" /\ h.world.id = w /\ SaysOnce(toMgr[q], w) =>
        Says(toMgr[q], w) /\ ~Says(toMgr'[q], w)
  BY <1>3, <1>4 DEF Q
<1> QED BY <1>1, <1>6, <1>7, <1>8

LEMMA OnceAppInfoSync ==
  ASSUME TypeOK, OnceInv, NEW q \in Process, HandleAppInfoSync(q)
  PROVE  OnceInv'
<1>1. /\ toMgr[q] # <<>> /\ Head(toMgr[q]).type = "AppInfoSync"
      /\ toMgr' = [toMgr EXCEPT ![q] = Tail(toMgr[q])]
      /\ UNCHANGED <<worlds, creating, created, again, toSpace>>
  BY DEF HandleAppInfoSync, Handles, spaces
<1>2. q \in Space
  BY <1>1, QueueTypes, PacketFields
<1> QED BY <1>1, <1>2, OnceTakes, OnceStutter

\* What was announced is in _created instead.
LEMMA OnceBroadcastCreateWorld ==
  ASSUME TypeOK, OnceInv, NEW q \in Process, HandleBroadcastCreateWorld(q)
  PROVE  OnceInv'
<1>1. PICK h : h = Head(toMgr[q])
  OBVIOUS
<1>2. PICK x : x = h.world
  OBVIOUS
<1>3. /\ toMgr[q] # <<>> /\ h.type = "BroadcastCreateWorld"
      /\ toMgr' = [toMgr EXCEPT ![q] = Tail(toMgr[q])]
      /\ created' = [created EXCEPT ![x.id] = x]
      /\ creating' = [creating EXCEPT ![x.id] = None]
      /\ UNCHANGED <<worlds, again, toSpace>>
  BY <1>1, <1>2 DEF HandleBroadcastCreateWorld, Handles, spaces
<1>4. q \in Space /\ x \in Worlds /\ x.id \in World
  <2>1. h \in ToMgrPackets(q)
    BY <1>1, <1>3, QueueTypes
  <2> QED BY <1>2, <1>3, <2>1, PacketFields DEF Worlds
<1>5. /\ \A s \in Space :
           /\ Silent(toMgr'[s])
           /\ Holds(toMgr'[s], Disconnect) => Holds(toMgr[s], Disconnect)
           /\ \A w : Says(toMgr'[s], w) => Says(toMgr[s], w)
           /\ \A w : SaysOnce(toMgr[s], w) => SaysOnce(toMgr'[s], w)
           /\ \A y : Tells(toMgr[s], y) => Tells(toMgr'[s], y) \/ x = y
      /\ \A s \in Space : s # q => toMgr'[s] = toMgr[s]
      /\ SaysOnce(toMgr[q], x.id) => Says(toMgr[q], x.id) /\ ~Says(toMgr'[q], x.id)
  BY <1>1, <1>2, <1>3, <1>4, OnceTakes
<1>6. \A w \in World : /\ created'[w] = IF w = x.id THEN x ELSE created[w]
                       /\ creating'[w] = IF w = x.id THEN None ELSE creating[w]
  BY <1>3 DEF TypeOK
<1>7. x.id \notin again =>
        /\ Says(toMgr[q], x.id) /\ creating[x.id] = q /\ created[x.id] = None
        /\ \A s \in Space : ~Says(toMgr'[s], x.id) /\ ~Holds(toSpace[s], x.id)
  <2> SUFFICES ASSUME x.id \in World \ again
               PROVE  /\ Says(toMgr[q], x.id) /\ creating[x.id] = q /\ created[x.id] = None
                      /\ \A s \in Space : ~Says(toMgr'[s], x.id) /\ ~Holds(toSpace[s], x.id)
    BY <1>4
  <2>1. Says(toMgr[q], x.id) /\ ~Says(toMgr'[q], x.id)
    BY <1>4, <1>5, OnceFacts
  <2>2. creating[x.id] = q /\ created[x.id] = None
    BY <1>4, <2>1, OnceFacts
  <2>3. \A s \in Space : Says(toMgr[s], x.id) => s = q
    BY <2>2, OnceFacts
  <2> QED BY <1>4, <1>5, <2>1, <2>2, <2>3, OnceFacts
<1>8. \A s \in Space : Holds(toMgr'[s], Disconnect) =>
        toSpace'[s] = <<>> /\ \A y \in worlds' : y.app # s
  BY <1>3, <1>5, OnceFacts
<1>9. ASSUME NEW w \in World \ again', NEW s \in Space
      PROVE  /\ HoldsOnce(toSpace'[s], w)
             /\ Holds(toSpace'[s], w) =>
                  /\ creating'[w] = s /\ created'[w] = None
                  /\ \A t \in Space : ~Says(toMgr'[t], w)
             /\ SaysOnce(toMgr'[s], w)
             /\ Says(toMgr'[s], w) => creating'[w] = s /\ created'[w] = None
  <2>1. /\ w \in World \ again /\ toSpace'[s] = toSpace[s]
        /\ HoldsOnce(toSpace[s], w) /\ SaysOnce(toMgr[s], w)
    BY <1>3, OnceFacts
  <2>2. CASE w = x.id
    BY <1>5, <1>7, <2>1, <2>2
  <2>3. CASE w # x.id
    <3>1. created'[w] = created[w] /\ creating'[w] = creating[w]
      BY <1>6, <2>1, <2>3
    <3> QED BY <1>5, <2>1, <3>1, OnceFacts
  <2> QED BY <2>2, <2>3
<1>10. ASSUME NEW w \in World \ again', NEW y \in worlds', y.id = w
       PROVE  created'[w] = y \/ Tells(toMgr'[y.app], y)
  <2>1. y.app \in Space /\ w \in World \ again /\ y \in worlds
    BY <1>3 DEF TypeOK, Worlds
  <2>2. CASE w = x.id
    <3>1. Tells(toMgr[y.app], y) \/ created[w] = y
      BY <1>10, <2>1, OnceFacts
    <3>2. created[w] = None /\ ~Says(toMgr'[y.app], w)
      BY <1>7, <2>1, <2>2
    <3>3. ~Tells(toMgr'[y.app], y)
      BY <1>10, <3>2 DEF Tells, Says
    <3>4. None # y
      BY <2>1, NoneNotWorld DEF TypeOK
    <3> QED BY <1>5, <1>6, <2>1, <2>2, <3>1, <3>2, <3>3, <3>4
  <2>3. CASE w # x.id
    BY <1>5, <1>6, <1>10, <2>1, <2>3, OnceFacts
  <2> QED BY <2>2, <2>3
<1> QED BY <1>5, <1>8, <1>9, <1>10, OnceGoal

\* A world is only ordered when it is neither ordered nor announced nor created.
LEMMA OnceRequestWorld ==
  ASSUME TypeOK, OnceInv, NEW q \in Process, HandleRequestWorld(q)
  PROVE  OnceInv'
<1>1. PICK v : v = Head(toMgr[q]).id
  OBVIOUS
<1>2. /\ toMgr[q] # <<>> /\ Head(toMgr[q]).type = "RequestWorld"
      /\ toMgr' = [toMgr EXCEPT ![q] = Tail(toMgr[q])]
      /\ UNCHANGED <<worlds, created, again>>
      /\ \/ UNCHANGED <<creating, toSpace>>
         \/ /\ creating[v] = None /\ created[v] = None
            /\ \E s \in apps : SendCreateWorld(s, <<v>>) /\ creating' = [creating EXCEPT ![v] = s]
  BY <1>1 DEF HandleRequestWorld, Handles, spaces, Underway
<1>3. q \in Game /\ v \in World
  BY <1>1, <1>2, QueueTypes, PacketFields
<1>4. \A s \in Space : toMgr'[s] = toMgr[s]
  BY <1>2, <1>3, WorldCreateAssumption
<1>5. CASE UNCHANGED <<creating, toSpace>>
  BY <1>2, <1>4, <1>5, OnceSame
<1>6. ASSUME creating[v] = None, created[v] = None, NEW s \in apps,
             SendCreateWorld(s, <<v>>), creating' = [creating EXCEPT ![v] = s]
      PROVE  OnceInv'
  <2>1. s \in Space /\ s # None
    BY WorldCreateAssumption DEF TypeOK
  <2>2. \A w \in World : creating'[w] = IF w = v THEN s ELSE creating[w]
    BY <1>6 DEF TypeOK
  <2>3. /\ toSpace'[s] = IF Connected(s) THEN toSpace[s] \o <<v>> ELSE toSpace[s]
        /\ \A t \in Space : t # s => toSpace'[t] = toSpace[t]
        /\ toSpace[s] \in Seq(World)
    BY <1>6, <2>1 DEF TypeOK, SendCreateWorld
  <2>4. \A t \in Space : Holds(toMgr[t], Disconnect) => toSpace'[t] = toSpace[t]
    BY <2>3 DEF Connected
  <2>5. v \notin again => \A t \in Space : ~Holds(toSpace[t], v) /\ ~Says(toMgr[t], v)
    <3> SUFFICES ASSUME v \in World \ again, NEW t \in Space
                 PROVE  ~Holds(toSpace[t], v) /\ ~Says(toMgr[t], v)
      BY <1>3
    <3>1. t # None
      BY WorldCreateAssumption
    <3> QED BY <1>6, <3>1, OnceFacts
  <2>6. \A t \in Space : Holds(toMgr'[t], Disconnect) =>
          toSpace'[t] = <<>> /\ \A x \in worlds' : x.app # t
    BY <1>2, <1>4, <2>4, OnceFacts
  <2>7. ASSUME NEW w \in World \ again, NEW t \in Space
        PROVE  /\ HoldsOnce(toSpace'[t], w)
               /\ Holds(toSpace'[t], w) => (Holds(toSpace[t], w) \/ (w = v /\ t = s))
    <3>1. HoldsOnce(toSpace[t], w) /\ HoldsOnce(toSpace[s], w)
      BY <2>1, OnceFacts
    <3>2. w # v => /\ HoldsOnce(toSpace[s] \o <<v>>, w)
                   /\ Holds(toSpace[s] \o <<v>>, w) => Holds(toSpace[s], w)
      BY <1>3, <2>3, <3>1, OrdersOne
    <3>3. w = v => HoldsOnce(toSpace[s] \o <<v>>, w)
      BY <1>3, <2>1, <2>3, <2>5, OrdersOne
    <3>4. CASE t = s
      BY <2>3, <3>1, <3>2, <3>3, <3>4
    <3>5. CASE t # s
      BY <2>3, <3>1, <3>5
    <3> QED BY <3>4, <3>5
  <2>8. ASSUME NEW w \in World \ again', NEW t \in Space
        PROVE  /\ HoldsOnce(toSpace'[t], w)
               /\ Holds(toSpace'[t], w) =>
                    /\ creating'[w] = t /\ created'[w] = None
                    /\ \A u \in Space : ~Says(toMgr'[u], w)
               /\ SaysOnce(toMgr'[t], w)
               /\ Says(toMgr'[t], w) => creating'[w] = t /\ created'[w] = None
    <3>1. w \in World \ again /\ created'[w] = created[w]
      BY <1>2
    <3>2. HoldsOnce(toSpace'[t], w) /\ SaysOnce(toMgr'[t], w)
      BY <1>4, <2>7, <3>1, OnceFacts
    <3>3. CASE w = v
      BY <1>4, <1>6, <2>2, <2>5, <2>7, <3>1, <3>2, <3>3
    <3>4. CASE w # v
      <4>1. creating'[w] = creating[w]
        BY <2>2, <3>4
      <4>2. Holds(toSpace'[t], w) => Holds(toSpace[t], w)
        BY <2>7, <3>1, <3>4
      <4> QED BY <1>4, <3>1, <3>2, <4>1, <4>2, OnceFacts
    <3> QED BY <3>3, <3>4
  <2>9. \A w \in World \ again' : \A x \in worlds' :
          x.id = w => created'[w] = x \/ Tells(toMgr'[x.app], x)
    <3>1. \A x \in worlds : x.app \in Space
      BY DEF TypeOK, Worlds
    <3> QED BY <1>2, <1>4, <3>1, OnceFacts
  <2>10. \A t \in Space : Silent(toMgr'[t])
    BY <1>4, OnceFacts
  <2> QED BY <2>6, <2>8, <2>9, <2>10, OnceGoal
<1> QED BY <1>2, <1>5, <1>6

\* What the process was creating is ordered a second time only if it is in again.
LEMMA OnceNetworkDisconnect ==
  ASSUME TypeOK, OnceInv, NEW q \in Process, HandleNetworkDisconnect(q)
  PROVE  OnceInv'
<1>1. PICK h : h = Head(toMgr[q])
  OBVIOUS
<1>2. /\ toMgr[q] # <<>> /\ h.type = "Disconnect"
      /\ toMgr' = [toMgr EXCEPT ![q] = Tail(toMgr[q])]
      /\ creating' = CreatingWithout(q)
      /\ created' = CreatedWithout(q)
      /\ UNCHANGED worlds
  BY <1>1 DEF HandleNetworkDisconnect, Handles, spaces
<1>3. q \in Space /\ h = Disconnect
  BY <1>1, <1>2, QueueTypes, PacketFields
<1>4. Disconnect.type # "BroadcastCreateWorld"
  BY DEF Disconnect
<1>5. /\ \A s \in Space :
           /\ Silent(toMgr'[s])
           /\ Holds(toMgr'[s], Disconnect) => Holds(toMgr[s], Disconnect)
           /\ \A w : Says(toMgr'[s], w) => Says(toMgr[s], w)
           /\ \A w : SaysOnce(toMgr[s], w) => SaysOnce(toMgr'[s], w)
           /\ \A y : Tells(toMgr[s], y) => Tells(toMgr'[s], y)
      /\ \A s \in Space : s # q => toMgr'[s] = toMgr[s]
      /\ Holds(toMgr[q], Disconnect) /\ \A w : ~Says(toMgr'[q], w)
  BY <1>1, <1>2, <1>3, <1>4, OnceTakes
<1>6. /\ toSpace[q] = <<>> /\ \A x \in worlds : x.app # q
  BY <1>3, <1>5, OnceFacts
<1>7. \A w \in World :
        /\ creating'[w] = IF creating[w] = q THEN None ELSE creating[w]
        /\ created'[w] = IF created[w] # None /\ created[w].app = q THEN None ELSE created[w]
  BY <1>2 DEF CreatingWithout, CreatedWithout
<1>8. \A w \in World \ again' : w \notin again
  BY DEF HandleNetworkDisconnect
<1>9. ASSUME NEW w \in World \ again', NEW s \in Space
      PROVE  HoldsOnce(toSpace'[s], w) /\ (Holds(toSpace'[s], w) => Holds(toSpace[s], w))
  <2>1. HoldsOnce(toSpace[s], w)
    BY <1>8, OnceFacts
  <2>2. CASE UNCHANGED toSpace
    BY <2>1, <2>2
  <2>3. ASSUME NEW chosen \in [Lost(q) -> apps'],
               again' = again \cup {u \in World : creating[u] = q},
               toSpace' = [t \in Space |->
                 IF Connected(t)
                   THEN toSpace[t] \o SetToSeq({u \in Lost(q) : chosen[u] = t})
                   ELSE toSpace[t]]
        PROVE  HoldsOnce(toSpace'[s], w) /\ (Holds(toSpace'[s], w) => Holds(toSpace[s], w))
    <3> DEFINE S == {u \in Lost(q) : chosen[u] = s}
    <3>1. S \subseteq World /\ w \notin S
      BY <2>3 DEF Lost
    <3>2. IsFiniteSet(S)
      BY <3>1, FS_Subset, WorldCreateAssumption
    <3>3. SetToSeq(S) \in Seq(S)
      BY <3>2, SetToSeqType
    <3>4. toSpace[s] \in Seq(World)
      BY QueueTypes
    <3>5. toSpace'[s] = IF Connected(s) THEN toSpace[s] \o SetToSeq(S) ELSE toSpace[s]
      BY <2>3
    <3> HIDE DEF S
    <3>6. SetToSeq(S) \in Seq(World) /\ \A i \in 1..Len(SetToSeq(S)) : SetToSeq(S)[i] # w
      BY <3>1, <3>3
    <3>7. /\ HoldsOnce(toSpace[s] \o SetToSeq(S), w)
          /\ Holds(toSpace[s] \o SetToSeq(S), w) => Holds(toSpace[s], w)
      BY <2>1, <3>4, <3>6, OrdersMore
    <3> QED BY <2>1, <3>5, <3>7
  <2> QED BY <2>2, <2>3 DEF HandleNetworkDisconnect
<1>10. \A s \in Space : Holds(toMgr'[s], Disconnect) =>
         toSpace'[s] = <<>> /\ \A x \in worlds' : x.app # s
  <2> SUFFICES ASSUME NEW s \in Space, Holds(toMgr'[s], Disconnect)
               PROVE  toSpace'[s] = <<>> /\ \A x \in worlds' : x.app # s
    OBVIOUS
  <2>1. Holds(toMgr[s], Disconnect) /\ ~Connected(s)
    BY <1>5 DEF Connected
  <2>2. toSpace'[s] = toSpace[s]
    BY <2>1 DEF HandleNetworkDisconnect
  <2> QED BY <1>2, <2>1, <2>2, OnceFacts
<1>11. ASSUME NEW w \in World \ again', NEW s \in Space
       PROVE  /\ HoldsOnce(toSpace'[s], w)
              /\ Holds(toSpace'[s], w) =>
                   /\ creating'[w] = s /\ created'[w] = None
                   /\ \A t \in Space : ~Says(toMgr'[t], w)
              /\ SaysOnce(toMgr'[s], w)
              /\ Says(toMgr'[s], w) => creating'[w] = s /\ created'[w] = None
  <2>1. w \in World \ again
    BY <1>8
  <2>2. HoldsOnce(toSpace'[s], w) /\ SaysOnce(toMgr'[s], w)
    BY <1>5, <1>9, <2>1, OnceFacts
  <2>3. ASSUME Holds(toSpace'[s], w)
        PROVE  /\ creating'[w] = s /\ created'[w] = None
               /\ \A t \in Space : ~Says(toMgr'[t], w)
    <3>1. /\ Holds(toSpace[s], w)
          /\ creating[w] = s /\ created[w] = None
          /\ \A t \in Space : ~Says(toMgr[t], w)
      BY <1>9, <2>1, <2>3, OnceFacts
    <3>2. s # q
      BY <1>6, <3>1 DEF Holds
    <3> QED BY <1>5, <1>7, <3>1, <3>2
  <2>4. ASSUME Says(toMgr'[s], w)
        PROVE  creating'[w] = s /\ created'[w] = None
    <3>1. s # q /\ Says(toMgr[s], w)
      BY <1>5, <2>4
    <3>2. creating[w] = s /\ created[w] = None
      BY <2>1, <3>1, OnceFacts
    <3> QED BY <1>7, <3>1, <3>2
  <2> QED BY <2>2, <2>3, <2>4
<1>12. ASSUME NEW w \in World \ again', NEW x \in worlds', x.id = w
       PROVE  created'[w] = x \/ Tells(toMgr'[x.app], x)
  <2>1. x.app \in Space /\ x.app # q /\ x \in worlds
    BY <1>2, <1>6 DEF TypeOK, Worlds
  <2>2. created[w] = x \/ Tells(toMgr[x.app], x)
    BY <1>8, <1>12, <2>1, OnceFacts
  <2> QED BY <1>5, <1>7, <2>1, <2>2
<1> QED BY <1>5, <1>10, <1>11, <1>12, OnceGoal

\* A space process sends something to the appmgr.
LEMMA OnceSent ==
  ASSUME TypeOK, OnceInv, NEW s \in Space, NEW m \in ToMgrPackets(s),
         toMgr' = [toMgr EXCEPT ![s] = Append(toMgr[s], m)],
         m # Disconnect,
         m.type = "BroadcastCreateWorld" => ~Holds(toMgr[s], Disconnect)
  PROVE  /\ \A t \in Space :
              /\ Silent(toMgr'[t])
              /\ Holds(toMgr'[t], Disconnect) => Holds(toMgr[t], Disconnect)
              /\ \A w : Says(toMgr'[t], w) =>
                   \/ Says(toMgr[t], w)
                   \/ m.type = "BroadcastCreateWorld" /\ m.world.id = w /\ t = s
              /\ \A w : SaysOnce(toMgr[t], w)
                        /\ (m.type = "BroadcastCreateWorld" /\ m.world.id = w =>
                              ~Says(toMgr[s], w))
                        => SaysOnce(toMgr'[t], w)
              /\ \A x : Tells(toMgr[t], x) => Tells(toMgr'[t], x)
         /\ m.type = "BroadcastCreateWorld" => Tells(toMgr'[s], m.world)
<1> DEFINE Q == toMgr[s]
           P == ToMgrPackets(s)
<1>1. /\ Q \in Seq(P) /\ m \in P /\ Silent(Q)
      /\ toMgr'[s] = Append(Q, m)
      /\ \A t \in Space : t # s => toMgr'[t] = toMgr[t]
      /\ m.type = "BroadcastCreateWorld" => ~Holds(Q, Disconnect)
  BY QueueTypes, OnceFacts DEF TypeOK, Process
<1> HIDE DEF Q, P
<1>2. /\ Silent(Append(Q, m))
      /\ Holds(Append(Q, m), Disconnect) => Holds(Q, Disconnect) \/ m = Disconnect
      /\ \A w : Says(Append(Q, m), w) =>
           Says(Q, w) \/ (m.type = "BroadcastCreateWorld" /\ m.world.id = w)
      /\ \A w : SaysOnce(Q, w)
                /\ (m.type = "BroadcastCreateWorld" /\ m.world.id = w => ~Says(Q, w))
                => SaysOnce(Append(Q, m), w)
      /\ \A x : Tells(Q, x) => Tells(Append(Q, m), x)
      /\ m.type = "BroadcastCreateWorld" => Tells(Append(Q, m), m.world)
  BY ONLY <1>1, OnceAppend
<1>3. ASSUME NEW t \in Space
      PROVE  /\ Silent(toMgr'[t])
             /\ Holds(toMgr'[t], Disconnect) => Holds(toMgr[t], Disconnect)
             /\ \A w : Says(toMgr'[t], w) =>
                  \/ Says(toMgr[t], w)
                  \/ m.type = "BroadcastCreateWorld" /\ m.world.id = w /\ t = s
             /\ \A w : SaysOnce(toMgr[t], w)
                       /\ (m.type = "BroadcastCreateWorld" /\ m.world.id = w =>
                             ~Says(toMgr[s], w))
                       => SaysOnce(toMgr'[t], w)
             /\ \A x : Tells(toMgr[t], x) => Tells(toMgr'[t], x)
  <2>1. CASE t = s
    BY <2>1, <1>1, <1>2 DEF Q
  <2>2. CASE t # s
    BY <2>2, <1>1, OnceFacts
  <2> QED BY <2>1, <2>2
<1> QED BY <1>1, <1>2, <1>3

\* What was ordered is announced instead, and exists.
LEMMA OnceCreateWorld ==
  ASSUME TypeOK, OnceInv, NEW s \in Space, HandleCreateWorld(s)
  PROVE  OnceInv'
<1>1. PICK v : v = Head(toSpace[s])
  OBVIOUS
<1>2. PICK x : x = NewWorld(v, s, serial + 1)
  OBVIOUS
<1>3. PICK m : m = BroadcastCreateWorld(x)
  OBVIOUS
<1>4. /\ worlds' = worlds \cup {x}
      /\ toMgr' = [toMgr EXCEPT ![s] = Append(toMgr[s], m)]
      /\ toSpace' = [toSpace EXCEPT ![s] = Tail(toSpace[s])]
      /\ toSpace[s] # <<>>
      /\ UNCHANGED <<creating, created, again>>
  BY <1>1, <1>2, <1>3 DEF HandleCreateWorld, mgr
<1>5. /\ x \in Worlds /\ x.app = s /\ x.id = v /\ v \in World
      /\ toSpace[s] \in Seq(World)
  <2>1. serial \in Nat /\ v \in World
    BY <1>1, <1>4, QueueTypes DEF TypeOK
  <2> QED BY <1>2, <2>1, QueueTypes DEF NewWorld, Worlds
<1>6. /\ m \in ToMgrPackets(s) /\ m.type = "BroadcastCreateWorld" /\ m.world = x
      /\ m # Disconnect
  <2>1. m \in ToMgrPackets(s)
    BY <1>3, <1>5, PacketTypes
  <2> QED BY <1>3, <2>1 DEF BroadcastCreateWorld, Disconnect
<1>7. ~Holds(toMgr[s], Disconnect)
  BY <1>4, OnceFacts
<1>8. /\ \A t \in Space :
           /\ Silent(toMgr'[t])
           /\ Holds(toMgr'[t], Disconnect) => Holds(toMgr[t], Disconnect)
           /\ \A w : Says(toMgr'[t], w) => Says(toMgr[t], w) \/ (w = v /\ t = s)
           /\ \A w : SaysOnce(toMgr[t], w) /\ (w = v => ~Says(toMgr[s], w))
                       => SaysOnce(toMgr'[t], w)
           /\ \A y : Tells(toMgr[t], y) => Tells(toMgr'[t], y)
      /\ Tells(toMgr'[s], x)
  <2>1. m.type = "BroadcastCreateWorld" => ~Holds(toMgr[s], Disconnect)
    BY <1>7
  <2>2. toMgr' = [toMgr EXCEPT ![s] = Append(toMgr[s], m)]
    BY <1>4
  <2>3. /\ m \in ToMgrPackets(s) /\ m # Disconnect
        /\ m.type = "BroadcastCreateWorld" /\ m.world = x /\ x.id = v
    BY <1>5, <1>6
  <2>4. /\ \A t \in Space :
             /\ Silent(toMgr'[t])
             /\ Holds(toMgr'[t], Disconnect) => Holds(toMgr[t], Disconnect)
             /\ \A w : Says(toMgr'[t], w) =>
                  \/ Says(toMgr[t], w)
                  \/ m.type = "BroadcastCreateWorld" /\ m.world.id = w /\ t = s
             /\ \A w : SaysOnce(toMgr[t], w)
                       /\ (m.type = "BroadcastCreateWorld" /\ m.world.id = w =>
                             ~Says(toMgr[s], w))
                       => SaysOnce(toMgr'[t], w)
             /\ \A y : Tells(toMgr[t], y) => Tells(toMgr'[t], y)
        /\ m.type = "BroadcastCreateWorld" => Tells(toMgr'[s], m.world)
    BY ONLY TypeOK, OnceInv, s \in Space, <2>1, <2>2, <2>3, OnceSent
  <2> QED BY ONLY <2>3, <2>4
<1>9. ASSUME NEW w \in World \ again, NEW t \in Space
      PROVE  /\ HoldsOnce(toSpace'[t], w)
             /\ Holds(toSpace'[t], w) => Holds(toSpace[t], w) /\ ~(t = s /\ w = v)
  <2>1. HoldsOnce(toSpace[t], w)
    BY OnceFacts
  <2>2. CASE t = s
    <3>1. toSpace'[s] = Tail(toSpace[s])
      BY <1>4 DEF TypeOK
    <3> QED BY <1>1, <1>4, <1>5, <2>1, <2>2, <3>1, OrdersTail
  <2>3. CASE t # s
    <3>1. toSpace'[t] = toSpace[t]
      BY <1>4, <2>3 DEF TypeOK
    <3> QED BY <2>1, <2>3, <3>1
  <2> QED BY <2>2, <2>3
<1>10. v \notin again => /\ creating[v] = s /\ created[v] = None
                         /\ \A t \in Space : ~Says(toMgr[t], v) /\ ~Holds(toSpace'[t], v)
  <2> SUFFICES ASSUME v \in World \ again
               PROVE  /\ creating[v] = s /\ created[v] = None
                      /\ \A t \in Space : ~Says(toMgr[t], v) /\ ~Holds(toSpace'[t], v)
    BY <1>5
  <2>1. Holds(toSpace[s], v)
    BY <1>1, <1>4, <1>5, OnceFacts, OrdersTail
  <2>2. /\ creating[v] = s /\ created[v] = None
        /\ \A t \in Space : ~Says(toMgr[t], v)
    BY <2>1, OnceFacts
  <2>3. \A t \in Space : Holds(toSpace[t], v) => t = s
    BY <2>2, OnceFacts
  <2> QED BY <1>9, <2>2, <2>3
<1>11. \A t \in Space : Holds(toMgr'[t], Disconnect) =>
         toSpace'[t] = <<>> /\ \A y \in worlds' : y.app # t
  <2> SUFFICES ASSUME NEW t \in Space, Holds(toMgr'[t], Disconnect)
               PROVE  toSpace'[t] = <<>> /\ \A y \in worlds' : y.app # t
    OBVIOUS
  <2>1. Holds(toMgr[t], Disconnect) /\ t # s
    BY <1>7, <1>8
  <2>2. toSpace'[t] = toSpace[t]
    BY <1>4, <2>1 DEF TypeOK
  <2> QED BY <1>4, <1>5, <2>1, <2>2, OnceFacts
<1>12. ASSUME NEW w \in World \ again', NEW t \in Space
       PROVE  /\ HoldsOnce(toSpace'[t], w)
              /\ Holds(toSpace'[t], w) =>
                   /\ creating'[w] = t /\ created'[w] = None
                   /\ \A u \in Space : ~Says(toMgr'[u], w)
              /\ SaysOnce(toMgr'[t], w)
              /\ Says(toMgr'[t], w) => creating'[w] = t /\ created'[w] = None
  <2>1. /\ w \in World \ again /\ creating' = creating /\ created' = created
        /\ SaysOnce(toMgr[t], w)
    BY <1>4, OnceFacts
  <2>2. CASE w = v
    BY <1>8, <1>9, <1>10, <2>1, <2>2
  <2>3. CASE w # v
    <3>1. \A u \in Space : Says(toMgr'[u], w) => Says(toMgr[u], w)
      BY <1>8, <2>3
    <3>2. HoldsOnce(toSpace'[t], w) /\ (Holds(toSpace'[t], w) => Holds(toSpace[t], w))
      BY <1>9, <2>1
    <3>3. SaysOnce(toMgr'[t], w)
      BY <1>8, <2>1, <2>3
    <3> QED BY <2>1, <3>1, <3>2, <3>3, OnceFacts
  <2> QED BY <2>2, <2>3
<1>13. ASSUME NEW w \in World \ again', NEW y \in worlds', y.id = w
       PROVE  created'[w] = y \/ Tells(toMgr'[y.app], y)
  <2>1. CASE y = x
    BY <1>5, <1>8, <2>1
  <2>2. CASE y # x
    <3>1. y \in worlds /\ y.app \in Space
      BY <1>4, <2>2 DEF TypeOK, Worlds
    <3> QED BY <1>4, <1>8, <1>13, <3>1, OnceFacts
  <2> QED BY <2>1, <2>2
<1> QED BY <1>8, <1>11, <1>12, <1>13, OnceGoal

LEMMA OnceSyncSpaceInfo ==
  ASSUME TypeOK, OnceInv, NEW s \in Space, SyncSpaceInfo(s)
  PROVE  OnceInv'
<1>1. /\ toMgr' = [toMgr EXCEPT ![s] = Append(toMgr[s], AppInfoSync)]
      /\ UNCHANGED <<worlds, creating, created, again, toSpace>>
  BY DEF SyncSpaceInfo, mgr, spaces
<1>2. /\ AppInfoSync \in ToMgrPackets(s) /\ AppInfoSync.type # "BroadcastCreateWorld"
      /\ AppInfoSync # Disconnect
  BY PacketTypes DEF AppInfoSync, Disconnect
<1>3. \A t \in Space :
        /\ Silent(toMgr'[t])
        /\ Holds(toMgr'[t], Disconnect) => Holds(toMgr[t], Disconnect)
        /\ \A w : Says(toMgr'[t], w) => Says(toMgr[t], w)
        /\ \A w : SaysOnce(toMgr[t], w) => SaysOnce(toMgr'[t], w)
        /\ \A x : Tells(toMgr[t], x) => Tells(toMgr'[t], x)
  BY <1>1, <1>2, OnceSent
<1> QED BY <1>1, <1>3, OnceStutter

\* The orders and the worlds of the process are gone.
LEMMA OnceCrashes ==
  ASSUME TypeOK, OnceInv, NEW s \in Space, Crash(s)
  PROVE  OnceInv'
<1>1. PICK n \in 0..Len(toMgr[s]) :
        toMgr' = [toMgr EXCEPT ![s] = Append(SubSeq(@, 1, n), Disconnect)]
  BY DEF Crash
<1>2. /\ worlds' = {x \in worlds : x.app # s}
      /\ toSpace' = [toSpace EXCEPT ![s] = <<>>]
      /\ UNCHANGED <<creating, created, again>>
  BY DEF Crash, mgr
<1>3. /\ toMgr'[s] = Append(SubSeq(toMgr[s], 1, n), Disconnect)
      /\ \A t \in Space : t # s => toMgr'[t] = toMgr[t] /\ toSpace'[t] = toSpace[t]
      /\ toSpace'[s] = <<>>
  BY <1>1, <1>2 DEF TypeOK
<1>4. /\ Silent(toMgr'[s])
      /\ \A w : (Says(toMgr'[s], w) => Says(toMgr[s], w))
                /\ (SaysOnce(toMgr[s], w) => SaysOnce(toMgr'[s], w))
  <2> DEFINE Q == toMgr[s]
             P == ToMgrPackets(s)
  <2>1. Q \in Seq(P) /\ n \in 0..Len(Q) /\ Silent(Q)
    BY QueueTypes, OnceFacts DEF Process
  <2>2. toMgr'[s] = Append(SubSeq(Q, 1, n), Disconnect)
    BY <1>3
  <2> HIDE DEF Q, P
  <2> DEFINE t == Append(SubSeq(Q, 1, n), Disconnect)
  <2>3. /\ Silent(t)
        /\ \A w : (Says(t, w) => Says(Q, w)) /\ (SaysOnce(Q, w) => SaysOnce(t, w))
    BY ONLY <2>1, OnceCrash
  <2> QED BY <2>2, <2>3 DEF Q
<1>5. \A t \in Space :
        /\ Silent(toMgr'[t])
        /\ \A w : (Says(toMgr'[t], w) => Says(toMgr[t], w))
                  /\ (SaysOnce(toMgr[t], w) => SaysOnce(toMgr'[t], w))
  <2> SUFFICES ASSUME NEW t \in Space
               PROVE  /\ Silent(toMgr'[t])
                      /\ \A w : (Says(toMgr'[t], w) => Says(toMgr[t], w))
                                /\ (SaysOnce(toMgr[t], w) => SaysOnce(toMgr'[t], w))
    OBVIOUS
  <2>1. CASE t = s
    BY <1>4, <2>1
  <2>2. CASE t # s
    BY <1>3, <2>2, OnceFacts
  <2> QED BY <2>1, <2>2
<1>6. \A t \in Space, w \in World :
        /\ HoldsOnce(toSpace[t], w) => HoldsOnce(toSpace'[t], w)
        /\ Holds(toSpace'[t], w) => Holds(toSpace[t], w)
  BY <1>3 DEF HoldsOnce, Holds
<1>7. \A t \in Space : Holds(toMgr'[t], Disconnect) =>
        toSpace'[t] = <<>> /\ \A x \in worlds' : x.app # t
  <2> SUFFICES ASSUME NEW t \in Space, Holds(toMgr'[t], Disconnect)
               PROVE  toSpace'[t] = <<>> /\ \A x \in worlds' : x.app # t
    OBVIOUS
  <2>1. CASE t = s
    BY <1>2, <1>3, <2>1
  <2>2. CASE t # s
    BY <1>2, <1>3, <2>2, OnceFacts
  <2> QED BY <2>1, <2>2
<1>8. \A w \in World \ again' : \A t \in Space :
        /\ HoldsOnce(toSpace'[t], w)
        /\ Holds(toSpace'[t], w) =>
             /\ creating'[w] = t /\ created'[w] = None
             /\ \A u \in Space : ~Says(toMgr'[u], w)
  BY <1>2, <1>5, <1>6, OnceFacts
<1>9. \A w \in World \ again' : \A t \in Space :
        /\ SaysOnce(toMgr'[t], w)
        /\ Says(toMgr'[t], w) => creating'[w] = t /\ created'[w] = None
  BY <1>2, <1>5, OnceFacts
<1>10. \A w \in World \ again' : \A x \in worlds' :
         x.id = w => created'[w] = x \/ Tells(toMgr'[x.app], x)
  <2>1. \A x \in worlds' : x \in worlds /\ x.app \in Space /\ x.app # s
    BY <1>2 DEF TypeOK, Worlds
  <2> QED BY <1>2, <1>3, <2>1, OnceFacts
<1> QED BY <1>5, <1>7, <1>8, <1>9, <1>10, OnceGoal

LEMMA OnceEnterPublicWorld ==
  ASSUME TypeOK, OnceInv, NEW g \in Game, NEW p \in Player, NEW w \in World,
         EnterPublicWorld(g, p, w)
  PROVE  OnceInv'
<1>1. /\ UNCHANGED <<worlds, creating, created, again, toSpace>>
      /\ \/ toMgr' = toMgr
         \/ toMgr' = [toMgr EXCEPT ![g] = Append(@, RequestWorld(w))]
  BY DEF EnterPublicWorld, spaces, mgr
<1>2. \A s \in Space : toMgr'[s] = toMgr[s]
  BY <1>1, WorldCreateAssumption DEF TypeOK
<1> QED BY <1>1, <1>2, OnceSame

LEMMA OnceInit == Init => OnceInv
<1> SUFFICES ASSUME Init PROVE OnceInv
  OBVIOUS
<1>1. /\ \A s \in Space : toMgr[s] = <<>> /\ toSpace[s] = <<>>
      /\ worlds = {}
  BY DEF Init
<1>2. Len(<<>>) = 0 /\ 1..0 = {}
  OBVIOUS
<1>3. GoneInv
  BY <1>1, <1>2 DEF GoneInv, Silent, Holds
<1>4. \A w : OrderInv(w) /\ NewsInv(w) /\ FoundInv(w)
  BY <1>1, <1>2 DEF OrderInv, NewsInv, FoundInv, HoldsOnce, Holds, SaysOnce, Says
<1> QED BY <1>3, <1>4 DEF OnceInv

LEMMA OnceNext == TypeOK /\ OnceInv /\ [Next]_vars => OnceInv'
<1> SUFFICES ASSUME TypeOK, OnceInv, [Next]_vars PROVE OnceInv'
  OBVIOUS
<1> USE DEF vars, spaces, mgr, entities, game
<1>1. CASE \E q \in Process : MgrStep(q)
  BY <1>1, OnceAppInfoSync, OnceRequestWorld, OnceBroadcastCreateWorld, OnceNetworkDisconnect
     DEF MgrStep
<1>2. CASE \E s \in Space :
             HandleCreateWorld(s) \/ SyncSpaceInfo(s) \/ Crash(s) \/ Restart(s)
  BY <1>2, OnceCreateWorld, OnceSyncSpaceInfo, OnceCrashes, OnceSame DEF Restart
<1>3. CASE \E g \in Game : LogicStep(g)
  BY <1>3, OnceSame
     DEF LogicStep, AwakeWorldProxy, LobbyBroadcastCreateWorldProxy, HandleTeleport,
         ProxyDisconnect, SwapEntities
<1>4. CASE \E g \in Game, q \in Space \cup {Mgr} : LocatorBroadcastCreateWorld(g, q)
  BY <1>4, OnceSame DEF LocatorBroadcastCreateWorld
<1>5. CASE \E g \in Game, s \in Space : NetStep(g, s)
  BY <1>5, OnceSame DEF NetStep, SeeDisconnect, Reconnect
<1>6. CASE \E p \in Player : PlayerStep(p)
  BY <1>6, OnceSame, OnceEnterPublicWorld DEF PlayerStep, Leave
<1>7. CASE UNCHANGED vars
  BY <1>7, OnceSame
<1> QED BY <1>1, <1>2, <1>3, <1>4, <1>5, <1>6, <1>7 DEF Next, Process

\* A set of which any two elements are equal has at most one.
LEMMA AtMostOne ==
  ASSUME NEW S, \A x, y \in S : x = y
  PROVE  Cardinality(S) \in {0, 1} /\ (S = {} => Cardinality(S) = 0)
<1>1. CASE S = {}
  BY <1>1, FS_EmptySet
<1>2. CASE S # {}
  <2>1. PICK x \in S : S = {x}
    BY <1>2
  <2> QED BY <2>1, FS_Singleton
<1> QED BY <1>1, <1>2

LEMMA ExistsOnce == TypeOK /\ OnceInv => OnceUnlessAgain
<1> SUFFICES ASSUME TypeOK, OnceInv, NEW w \in World \ again
             PROVE  Cardinality(Ordered(w)) + Cardinality({x \in worlds : x.id = w}) <= 1
  BY DEF OnceUnlessAgain
<1> DEFINE W == {x \in worlds : x.id = w}
           O == Ordered(w)
<1>1. \A o \in O : \E s \in Space : \E i \in 1..Len(toSpace[s]) : o = <<s, i>> /\ toSpace[s][i] = w
  BY DEF Ordered
<1>2. O # {} => created[w] = None /\ \A t \in Space : ~Says(toMgr[t], w)
  <2> SUFFICES ASSUME NEW o \in O
               PROVE  created[w] = None /\ \A t \in Space : ~Says(toMgr[t], w)
    OBVIOUS
  <2>1. PICK s \in Space : \E i \in 1..Len(toSpace[s]) : o = <<s, i>> /\ toSpace[s][i] = w
    BY <1>1
  <2>2. Holds(toSpace[s], w)
    BY <2>1 DEF Holds
  <2> QED BY <2>2, OnceFacts
<1>3. ASSUME NEW o \in O, NEW r \in O PROVE o = r
  <2>1. PICK s \in Space : \E i \in 1..Len(toSpace[s]) : o = <<s, i>> /\ toSpace[s][i] = w
    BY <1>1
  <2>2. PICK t \in Space : \E j \in 1..Len(toSpace[t]) : r = <<t, j>> /\ toSpace[t][j] = w
    BY <1>1
  <2>3. creating[w] = s /\ creating[w] = t
    BY <2>1, <2>2, OnceFacts DEF Holds
  <2>4. HoldsOnce(toSpace[s], w)
    BY OnceFacts
  <2> QED BY <2>1, <2>2, <2>3, <2>4 DEF HoldsOnce
<1>4. \A x \in W : x \in Worlds /\ x # None /\ x.app \in Space /\ x.id = w
  BY NoneNotWorld DEF TypeOK, Worlds
<1>5. \A x : Tells(toMgr[x.app], x) => Says(toMgr[x.app], x.id)
  BY DEF Tells, Says
<1>6. \A x \in W : created[w] = x \/ Tells(toMgr[x.app], x)
  BY OnceFacts
<1>7. \A x \in W : created[w] = x \/ (Says(toMgr[x.app], w) /\ created[w] = None /\ creating[w] = x.app)
  BY <1>4, <1>5, <1>6, OnceFacts
<1>8. ASSUME NEW x \in W, NEW y \in W PROVE x = y
  <2>1. CASE created[w] = None
    <3>1. Tells(toMgr[x.app], x) /\ Tells(toMgr[y.app], y) /\ x.app = y.app
      BY <1>4, <1>6, <1>7, <2>1
    <3>2. SaysOnce(toMgr[x.app], w)
      BY <1>4, OnceFacts
    <3> QED BY <1>4, <3>1, <3>2 DEF Tells, SaysOnce
  <2>2. CASE created[w] # None
    BY <1>7, <2>2
  <2> QED BY <2>1, <2>2
<1>9. O = {} \/ W = {}
  BY <1>2, <1>4, <1>7
<1> HIDE DEF O, W
<1>10. /\ Cardinality(O) \in {0, 1} /\ (O = {} => Cardinality(O) = 0)
       /\ Cardinality(W) \in {0, 1} /\ (W = {} => Cardinality(W) = 0)
  BY <1>3, <1>8, AtMostOne
<1>11. Cardinality(O) + Cardinality(W) <= 1
  BY <1>9, <1>10
<1> QED BY <1>11 DEF O, W

\* However many games ask for a public world at once, and whatever space processes
\* fail, start again and lose in whatever order, at most one space process has it or
\* has been told to create it, unless one has failed while it was creating it
\* (CreateWorldComponent::_creating and ::_created against the packets under way).
THEOREM WorldsExistOnce == Spec => []OnceUnlessAgain
BY OnceInit, OnceNext, ExistsOnce, TypeCorrect, PTL DEF Spec
=============================================================================
