--------------------------- MODULE TeleportProofs ---------------------------
(***************************************************************************)
(* Players in a game process, for any clients, worlds and failures: what   *)
(* the variables hold, who a player is, that a World and its WorldProxy,   *)
(* two processes, have the same players, and that a client on the one      *)
(* connection of its account has one player, whose online flag is kept.    *)
(***************************************************************************)
EXTENDS Teleport, Queues, FiniteSetTheorems

(***************************************************************************)
(* Names, packets and boxes.                                               *)
(***************************************************************************)
LEMMA QueueNames ==
  /\ {Lobby, Net, Redis, Db} \subseteq Queue /\ World \subseteq Queue
  /\ Place \subseteq Queue /\ World \subseteq Place /\ Lobby \in Place
  /\ Lobby \notin World /\ Net \notin Place /\ Redis \notin Place /\ Db \notin Place
  /\ Net # Redis /\ Net # Db /\ Redis # Db
  /\ None \notin Place
  /\ \A w \in World :
       /\ Space(w) \in Queue \ Place
       /\ Space(w) # Net /\ Space(w) # Redis /\ Space(w) # Db
       /\ \A v \in World : Space(w) = Space(v) => w = v
<1>1. World \cap ({Lobby, Net, Redis, Db} \cup {Space(w) : w \in World}) = {}
  BY NamesAssumption
<1>2. /\ Lobby # Net /\ Lobby # Redis /\ Lobby # Db
      /\ Net # Redis /\ Net # Db /\ Redis # Db
  BY DEF Lobby, Net, Redis, Db
<1>3. \A w : /\ Space(w) # Lobby /\ Space(w) # Net /\ Space(w) # Redis /\ Space(w) # Db
             /\ \A v : Space(w) = Space(v) => w = v
  BY DEF Lobby, Net, Redis, Db, Space
<1>4. None \notin Place
  BY NamesAssumption, TeleportAssumption DEF Place
<1> QED BY <1>1, <1>2, <1>3, <1>4 DEF Queue, Place

Version == Nat \ {0}
Player == [sock : Socket, sn : Account \cup {0}, ver : Version]
Known == [sock : Socket, sn : Account, ver : Version]
OnlineSet == [sock : Socket, ver : Version]
ObjectSet == [sn : Account, target : World, world : BOOLEAN, sync : BOOLEAN]

\* The types of packets that carry only a socket, and only an account.
BySock == {"LoginByToken", "ListenKey"}
ByAcct == {"GameToken", "QueryPlayer", "TeleportAfter", "SyncPlayer", "S2GSyncPlayer",
           "RequestSync", "RemovePlayer", "PlayerGone"}
ByAcctWorld == {"SavePlayer", "QueryPlayerRs", "ToClient"}

Packets ==
  [type : BySock, sock : Socket]
  \cup [type : {"Disconnect"}, sock : Socket, tag : BOOLEAN]
  \cup [type : ByAcct, acct : Account]
  \cup [type : {"GameTokenRs"}, acct : Account, token : Socket \cup {None}]
  \cup [type : ByAcctWorld, acct : Account, world : World]
  \cup [type : {"BroadcastProxy"}, world : World]
  \cup [type : {"Teleport"}, player : Known, from : Place]
  \cup [type : {"EnterWorld", "Send"}, sock : Socket, world : World]
  \cup [type : {"SyncOnline", "DeleteOnline"}, acct : Account, ver : Version]

\* What a packet of a type carries, ...
LEMMA PacketFields ==
  ASSUME NEW m \in Packets
  PROVE  /\ m.type \in {"LoginByToken", "ListenKey", "Disconnect", "EnterWorld", "Send"} =>
              m.sock \in Socket
         /\ m.type = "Disconnect" => m.tag \in BOOLEAN
         /\ m.type \in ByAcct \cup ByAcctWorld \cup {"GameTokenRs", "SyncOnline", "DeleteOnline"} =>
              m.acct \in Account
         /\ m.type \in ByAcctWorld \cup {"BroadcastProxy", "EnterWorld", "Send"} =>
              m.world \in World
         /\ m.type = "Teleport" => m.player \in Known /\ m.from \in Place
         /\ m.type \in {"SyncOnline", "DeleteOnline"} => m.ver \in Version
         /\ m.type = "GameTokenRs" => m.token \in Socket \cup {None}
BY DEF Packets, ByAcct, ByAcctWorld, BySock

\* ... and the packets that the actions make are packets.
LEMMA PacketTypes ==
  /\ \A s \in Socket :
       /\ {LoginByToken(s), NetworkListenKey(s)} \subseteq Packets
       /\ \A tag \in BOOLEAN : Disconnect(s, tag) \in Packets
       /\ \A w \in World : EnterWorld(s, w) \in Packets /\ Send(s, w) \in Packets
  /\ \A a \in Account :
       /\ {GameToken(a), QueryPlayer(a), TeleportAfter(a), SyncPlayer(a), S2GSyncPlayer(a),
           RequestSync(a), RemovePlayer(a), PlayerGone(a)} \subseteq Packets
       /\ \A t \in Socket \cup {None} : GameTokenRs(a, t) \in Packets
       /\ \A w \in World : {SavePlayer(a, w), QueryPlayerRs(a, w), ToClient(a, w)} \subseteq Packets
  /\ \A w \in World : BroadcastProxy(w) \in Packets
  /\ \A x \in Known, p \in Place : TeleportTo(x, p) \in Packets
  /\ \A o \in OnlineSet : SyncOnline(o) \in Packets /\ DeleteOnline(o) \in Packets
<1>1. \A s \in Socket :
       /\ {LoginByToken(s), NetworkListenKey(s)} \subseteq Packets
       /\ \A tag \in BOOLEAN : Disconnect(s, tag) \in Packets
       /\ \A w \in World : EnterWorld(s, w) \in Packets /\ Send(s, w) \in Packets
  BY DEF Packets, BySock, LoginByToken, NetworkListenKey, Disconnect, EnterWorld, Send
<1>2. \A a \in Account :
       {GameToken(a), QueryPlayer(a), TeleportAfter(a), SyncPlayer(a), S2GSyncPlayer(a),
        RequestSync(a), RemovePlayer(a), PlayerGone(a)} \subseteq Packets
  BY DEF Packets, ByAcct, GameToken, QueryPlayer, TeleportAfter, SyncPlayer, S2GSyncPlayer,
         RequestSync, RemovePlayer, PlayerGone
<1>3. \A a \in Account :
       /\ \A t \in Socket \cup {None} : GameTokenRs(a, t) \in Packets
       /\ \A w \in World : {SavePlayer(a, w), QueryPlayerRs(a, w), ToClient(a, w)} \subseteq Packets
  BY DEF Packets, ByAcctWorld, GameTokenRs, SavePlayer, QueryPlayerRs, ToClient
<1>4. /\ \A w \in World : BroadcastProxy(w) \in Packets
      /\ \A x \in Known, p \in Place : TeleportTo(x, p) \in Packets
  BY DEF Packets, BroadcastProxy, TeleportTo
<1>5. \A o \in OnlineSet : SyncOnline(o) \in Packets /\ DeleteOnline(o) \in Packets
  BY TeleportAssumption DEF Packets, SyncOnline, DeleteOnline, OnlineSet
<1> QED BY <1>1, <1>2, <1>3, <1>4, <1>5

Boxes == [Queue -> Seq(Packets)]

\* A queue followed by what is posted.
LEMMA MoreQueue ==
  ASSUME NEW S, NEW s \in Seq(S), NEW t \in Seq(S)
  PROVE  /\ s \o t \in Seq(S)
         /\ \A e : In(s \o t, e) <=> In(s, e) \/ In(t, e)
         /\ \A e : Once(s, e) /\ Once(t, e) /\ ~(In(s, e) /\ In(t, e)) => Once(s \o t, e)
<1> DEFINE u == s \o t
           n == Len(s)
           k == Len(t)
<1>1. /\ u \in Seq(S) /\ Len(u) = n + k /\ n \in Nat /\ k \in Nat
      /\ \A i \in 1..n : u[i] = s[i]
      /\ \A i \in 1..k : u[n + i] = t[i]
  OBVIOUS
<1>2. u \in Seq(S)
  OBVIOUS
<1> HIDE DEF u, n, k
<1>3. /\ \A i \in 1..Len(u) : i \in 1..n \/ \E j \in 1..k : i = n + j
      /\ \A i \in 1..n : i \in 1..Len(u)
      /\ \A j \in 1..k : n + j \in 1..Len(u) /\ n + j \notin 1..n
      /\ \A i, j \in 1..k : n + i = n + j => i = j
  <2>1. \A i \in 1..Len(u) : i \in 1..n \/ (i - n \in 1..k /\ i = n + (i - n))
    BY <1>1
  <2>2. \A i \in 1..n : i \in 1..Len(u)
    BY <1>1
  <2>3. \A j \in 1..k : n + j \in 1..Len(u) /\ n + j \notin 1..n
    BY <1>1
  <2>4. \A i, j \in 1..k : n + i = n + j => i = j
    BY <1>1
  <2> QED BY <2>1, <2>2, <2>3, <2>4
<1>4. /\ \A e : In(s, e) <=> \E i \in 1..n : s[i] = e
      /\ \A e : In(t, e) <=> \E i \in 1..k : t[i] = e
      /\ \A e : Once(s, e) <=> \A i, j \in 1..n : s[i] = e /\ s[j] = e => i = j
      /\ \A e : Once(t, e) <=> \A i, j \in 1..k : t[i] = e /\ t[j] = e => i = j
  BY DEF In, Once, n, k
<1>5. \A e : In(u, e) <=> In(s, e) \/ In(t, e)
  <2> SUFFICES ASSUME NEW e PROVE In(u, e) <=> In(s, e) \/ In(t, e)
    OBVIOUS
  <2>1. ASSUME NEW i \in 1..Len(u), u[i] = e PROVE In(s, e) \/ In(t, e)
    <3>1. CASE i \in 1..n
      BY <1>1, <1>4, <2>1, <3>1
    <3>2. CASE i \notin 1..n
      <4>1. PICK j \in 1..k : i = n + j
        BY <1>3, <3>2
      <4>2. t[j] = e
        BY <1>1, <2>1, <4>1
      <4> QED BY <1>4, <4>2
    <3> QED BY <3>1, <3>2
  <2>2. ASSUME NEW i \in 1..n, s[i] = e PROVE In(u, e)
    BY <1>1, <1>3, <2>2 DEF In
  <2>3. ASSUME NEW j \in 1..k, t[j] = e PROVE In(u, e)
    <3>1. n + j \in 1..Len(u) /\ u[n + j] = e
      BY <1>1, <1>3, <2>3
    <3> QED BY <3>1 DEF In
  <2>4. In(u, e) => In(s, e) \/ In(t, e)
    BY <2>1 DEF In
  <2>5. In(s, e) \/ In(t, e) => In(u, e)
    BY <1>4, <2>2, <2>3
  <2> QED BY <2>4, <2>5
<1>6. ASSUME NEW e, Once(s, e), Once(t, e), ~(In(s, e) /\ In(t, e))
      PROVE  Once(u, e)
  <2> SUFFICES ASSUME NEW i \in 1..Len(u), NEW j \in 1..Len(u), u[i] = e, u[j] = e
               PROVE  i = j
    BY DEF Once
  <2>1. CASE i \in 1..n /\ j \in 1..n
    BY <1>1, <1>4, <1>6, <2>1
  <2>2. CASE i \notin 1..n /\ j \notin 1..n
    <3>1. PICK g \in 1..k, h \in 1..k : i = n + g /\ j = n + h
      BY <1>3, <2>2
    <3>2. t[g] = e /\ t[h] = e
      BY <1>1, <3>1
    <3> QED BY <1>4, <1>6, <3>1, <3>2
  <2>3. ASSUME NEW g \in 1..n, NEW l \in 1..Len(u), l \notin 1..n, u[g] = e, u[l] = e
        PROVE  FALSE
    <3>1. PICK h \in 1..k : l = n + h
      BY <1>3, <2>3
    <3>2. s[g] = e /\ t[h] = e
      BY <1>1, <2>3, <3>1
    <3> QED BY <1>4, <1>6, <3>2
  <2> QED BY <2>1, <2>2, <2>3
<1> QED BY <1>2, <1>5, <1>6 DEF u

\* What is posted, ...
LEMMA PostTypes ==
  /\ Nothing \in Boxes
  /\ \A q \in Queue : Nothing[q] = <<>>
  /\ \A r \in Queue : \A m \in Packets :
       /\ To(r, m) \in Boxes
       /\ To(r, m)[r] = <<m>>
       /\ \A q \in Queue : q # r => To(r, m)[q] = <<>>
  /\ \A m \in Packets :
       /\ ToAll(m) \in Boxes
       /\ \A q \in Queue : ToAll(m)[q] = IF q \in Place THEN <<m>> ELSE <<>>
<1>1. <<>> \in Seq(Packets) /\ \A m \in Packets : <<m>> \in Seq(Packets)
  OBVIOUS
<1> QED BY <1>1 DEF Nothing, To, ToAll, Boxes

\* ... to several readers too, ...
LEMMA PostMore ==
  ASSUME NEW posts \in Boxes, NEW r \in Queue, NEW packets \in Seq(Packets)
  PROVE  /\ [posts EXCEPT ![r] = packets] \in Boxes
         /\ [posts EXCEPT ![r] = packets][r] = packets
         /\ \A q \in Queue : q # r => [posts EXCEPT ![r] = packets][q] = posts[q]
BY DEF Boxes

\* ... and what the boxes hold then.
LEMMA AfterPost ==
  ASSUME box \in Boxes, NEW posts \in Boxes, Post(posts)
  PROVE  /\ box' \in Boxes
         /\ \A q \in Queue : \A m : In(box'[q], m) <=> In(box[q], m) \/ In(posts[q], m)
         /\ \A q \in Queue : box'[q] = box[q] \o posts[q]
<1>3. box' = [q \in Queue |-> box[q] \o posts[q]]
  BY DEF Post
<1>1. \A q \in Queue : box'[q] = box[q] \o posts[q]
  BY <1>3
<1>2. ASSUME NEW q \in Queue
      PROVE  /\ box'[q] \in Seq(Packets)
             /\ \A m : In(box'[q], m) <=> In(box[q], m) \/ In(posts[q], m)
  <2>1. box[q] \in Seq(Packets) /\ posts[q] \in Seq(Packets)
    BY DEF Boxes
  <2>2. /\ box[q] \o posts[q] \in Seq(Packets)
        /\ \A m : In(box[q] \o posts[q], m) <=> In(box[q], m) \/ In(posts[q], m)
    BY ONLY <2>1, MoreQueue
  <2>3. box'[q] = box[q] \o posts[q]
    BY <1>1
  <2> QED BY ONLY <2>2, <2>3
<1> QED BY <1>1, <1>2, <1>3 DEF Boxes

Taken(r) == [q \in Queue |-> IF q = r THEN Tail(box[q]) ELSE box[q]]

LEMMA AfterTake ==
  ASSUME box \in Boxes, NEW r \in Queue, box[r] # <<>>
  PROVE  /\ Taken(r) \in Boxes
         /\ Head(box[r]) \in Packets /\ In(box[r], Head(box[r]))
         /\ \A q \in Queue : \A m : In(box[q], m) <=>
              In(Taken(r)[q], m) \/ (q = r /\ m = Head(box[r]))
         /\ Taken(r)[r] = Tail(box[r])
         /\ \A q \in Queue : q # r => Taken(r)[q] = box[q]
<1>1. \A q \in Queue : box[q] \in Seq(Packets)
  BY DEF Boxes
<1>2. /\ Tail(box[r]) \in Seq(Packets) /\ Head(box[r]) \in Packets
      /\ In(box[r], Head(box[r]))
      /\ \A m : In(box[r], m) <=> In(Tail(box[r]), m) \/ m = Head(box[r])
  BY <1>1, TailQueue
<1>3. Taken(r)[r] = Tail(box[r]) /\ \A q \in Queue : q # r => Taken(r)[q] = box[q]
  BY DEF Taken
<1>4. Taken(r) \in Boxes
  BY <1>1, <1>2 DEF Taken, Boxes
<1> QED BY <1>2, <1>3, <1>4

LEMMA AfterReply ==
  ASSUME box \in Boxes, NEW r \in Queue, box[r] # <<>>, NEW posts \in Boxes, Reply(r, posts)
  PROVE  /\ box' \in Boxes
         /\ Head(box[r]) \in Packets /\ In(box[r], Head(box[r]))
         /\ \A q \in Queue : \A m : In(box'[q], m) => In(box[q], m) \/ In(posts[q], m)
         /\ \A q \in Queue : \A m : In(box[q], m) => In(box'[q], m) \/ (q = r /\ m = Head(box[r]))
         /\ \A q \in Queue : \A m : In(posts[q], m) => In(box'[q], m)
         /\ \A q \in Queue : box'[q] = Taken(r)[q] \o posts[q]
<1>1. /\ Taken(r) \in Boxes /\ Head(box[r]) \in Packets /\ In(box[r], Head(box[r]))
      /\ \A q \in Queue : \A m : In(box[q], m) <=>
           In(Taken(r)[q], m) \/ (q = r /\ m = Head(box[r]))
  BY AfterTake
<1>2. box' = [q \in Queue |-> Taken(r)[q] \o posts[q]]
  BY DEF Reply, Taken
<1>3. ASSUME NEW q \in Queue
      PROVE  /\ box'[q] \in Seq(Packets)
             /\ \A m : In(box'[q], m) <=> In(Taken(r)[q], m) \/ In(posts[q], m)
             /\ box'[q] = Taken(r)[q] \o posts[q]
  <2>1. Taken(r)[q] \in Seq(Packets) /\ posts[q] \in Seq(Packets)
    BY <1>1 DEF Boxes
  <2> QED BY <1>2, <2>1, MoreQueue
<1>4. box' \in Boxes
  BY <1>2, <1>3 DEF Boxes
<1> QED BY <1>1, <1>3, <1>4

(***************************************************************************)
(* Type correctness.                                                       *)
(***************************************************************************)
ClientTypes ==
  /\ conn \in [Socket -> {"idle", "open", "closed"}]
  /\ at \in [Socket -> World \cup {None}]
  /\ want \in [Socket -> World \cup {None}]
  /\ moves \in 0..MaxMove

StoreTypes ==
  /\ tagged \subseteq Socket
  /\ locator \in [Socket -> Place \cup {None}]
  /\ token \in [Account -> Socket \cup {None}]
  /\ flag \in [Account -> Nat]
  /\ saved \in [Account -> World]

\* A player has its SN once it leaves the Lobby.
PlayerTypes ==
  /\ players \in [Place -> SUBSET Player]
  /\ \A w \in World : players[w] \subseteq Known
  /\ \A p \in Place : IsFiniteSet(players[p])
  /\ accounts \in [Account -> Socket \cup {None}]
  /\ waiting \in [World -> SUBSET Account]

ThreadTypes ==
  /\ due \in [Place -> SUBSET OnlineSet]
  /\ removed \in [Place -> SUBSET OnlineSet]
  /\ \A p \in Place : IsFiniteSet(due[p]) /\ IsFiniteSet(removed[p])
  /\ frame \in [Place -> {"messages", "entities"}]
  /\ refreshes \in 0..MaxRefresh

WorldTypes ==
  /\ objects \in [World -> SUBSET ObjectSet]
  /\ proxies \subseteq World /\ requested \subseteq World
  /\ inWorld \in [World -> SUBSET Account]
  /\ hung \subseteq Place /\ crashed \in BOOLEAN

TypeInv ==
  /\ box \in Boxes
  /\ ClientTypes /\ StoreTypes /\ PlayerTypes /\ ThreadTypes /\ WorldTypes

LEMMA TypeInit == Init => TypeInv
<1> SUFFICES ASSUME Init PROVE TypeInv
  OBVIOUS
<1> USE TeleportAssumption
<1>1. box \in Boxes
  BY DEF Init, Boxes
<1>2. ClientTypes
  BY DEF Init, ClientTypes
<1>3. StoreTypes
  BY DEF Init, StoreTypes
<1>4. PlayerTypes
  BY FS_EmptySet, QueueNames DEF Init, PlayerTypes
<1>5. ThreadTypes
  BY FS_EmptySet DEF Init, ThreadTypes
<1>6. WorldTypes
  BY DEF Init, WorldTypes
<1> QED BY <1>1, <1>2, <1>3, <1>4, <1>5, <1>6 DEF TypeInv

LEMMA TypesImply == TypeInv => TypeOK
<1> SUFFICES ASSUME TypeInv PROVE TypeOK
  OBVIOUS
<1> USE DEF TypeInv
<1>1. /\ conn \in [Socket -> {"idle", "open", "closed"}]
      /\ at \in [Socket -> World \cup {None}]
      /\ want \in [Socket -> World \cup {None}]
      /\ moves \in 0..MaxMove
  BY DEF ClientTypes
<1>2. /\ tagged \subseteq Socket
      /\ locator \in [Socket -> Place \cup {None}]
      /\ token \in [Account -> Socket \cup {None}]
      /\ flag \in [Account -> Nat]
      /\ saved \in [Account -> World]
  BY DEF StoreTypes
<1>3. /\ accounts \in [Account -> Socket \cup {None}]
      /\ waiting \in [World -> SUBSET Account]
      /\ \A p \in Place : \A x \in players[p] :
           x.sock \in Socket /\ x.sn \in Account \cup {0} /\ x.ver \in Nat \ {0}
  BY DEF PlayerTypes, Player, Version
<1>4. /\ \A p \in Place :
           /\ \A o \in due[p] \cup removed[p] : o.sock \in Socket /\ o.ver \in Nat \ {0}
           /\ frame[p] \in {"messages", "entities"}
      /\ refreshes \in 0..MaxRefresh
  BY DEF ThreadTypes, OnlineSet, Version
<1>5. /\ \A w \in World : \A o \in objects[w] :
           o.sn \in Account /\ o.target \in World /\ o.world \in BOOLEAN /\ o.sync \in BOOLEAN
      /\ proxies \subseteq World /\ requested \subseteq World
      /\ inWorld \in [World -> SUBSET Account]
      /\ hung \subseteq Place /\ crashed \in BOOLEAN
  BY DEF WorldTypes, ObjectSet
<1>6. DOMAIN box = Queue
  BY DEF Boxes
<1> QED BY <1>1, <1>2, <1>3, <1>4, <1>5, <1>6 DEF TypeOK

\* A thread that handles a packet takes it from its box.
LEMMA Received ==
  ASSUME TypeInv, NEW q \in Queue, NEW type, Handles(q, type)
  PROVE  /\ box[q] # <<>> /\ Message(q) = Head(box[q])
         /\ Message(q) \in Packets /\ Message(q).type = type
         /\ In(box[q], Message(q))
         /\ q \in Place => q \notin hung
BY AfterTake DEF TypeInv, Handles, Message

\* Each and Teleports: what is posted at once for several players.
LEMMA SeveralTypes ==
  ASSUME NEW S, IsFiniteSet(S), NEW o \in SetToSeqs(S)
  PROVE  /\ o \in Seq(S) /\ Len(o) = Cardinality(S) /\ Len(o) \in Nat
         /\ \A i \in 1..Len(o) : o[i] \in S
         /\ \A i, j \in 1..Len(o) : i # j => o[i] # o[j]
<1>1. Cardinality(S) \in Nat
  BY FS_CardinalityType
<1>2. /\ o \in [1..Cardinality(S) -> S]
      /\ \A i, j \in 1..Cardinality(S) : i # j => o[i] # o[j]
  BY DEF SetToSeqs
<1>3. o \in Seq(S) /\ Len(o) = Cardinality(S)
  BY <1>1, <1>2
<1> QED BY <1>1, <1>2, <1>3

LEMMA SyncOnlines ==
  ASSUME NEW S \in SUBSET OnlineSet, IsFiniteSet(S), NEW packets \in Each(S, SyncOnline)
  PROVE  /\ packets \in Seq(Packets)
         /\ \A m : In(packets, m) => \E x \in S : m = SyncOnline(x)
<1>1. PICK o \in SetToSeqs(S) : packets = [i \in 1..Len(o) |-> SyncOnline(o[i])]
  BY DEF Each
<1>2. Len(o) \in Nat /\ \A i \in 1..Len(o) : o[i] \in S
  BY SeveralTypes
<1>3. packets \in Seq(Packets) /\ Len(packets) = Len(o)
  BY <1>1, <1>2, PacketTypes
<1> QED BY <1>1, <1>2, <1>3 DEF In

LEMMA DeleteOnlines ==
  ASSUME NEW S \in SUBSET OnlineSet, IsFiniteSet(S), NEW packets \in Each(S, DeleteOnline)
  PROVE  /\ packets \in Seq(Packets)
         /\ \A m : In(packets, m) => \E x \in S : m = DeleteOnline(x)
<1>1. PICK o \in SetToSeqs(S) : packets = [i \in 1..Len(o) |-> DeleteOnline(o[i])]
  BY DEF Each
<1>2. Len(o) \in Nat /\ \A i \in 1..Len(o) : o[i] \in S
  BY SeveralTypes
<1>3. packets \in Seq(Packets) /\ Len(packets) = Len(o)
  BY <1>1, <1>2, PacketTypes
<1> QED BY <1>1, <1>2, <1>3 DEF In

LEMMA TeleportsOf ==
  ASSUME NEW S \in SUBSET Known, IsFiniteSet(S), NEW p \in Place,
         NEW packets \in Teleports(S, p)
  PROVE  /\ packets \in Seq(Packets)
         /\ \A m : In(packets, m) => \E x \in S : m = TeleportTo(x, p)
         /\ \A m : Once(packets, m)
<1>1. PICK o \in SetToSeqs(S) : packets = [i \in 1..Len(o) |-> TeleportTo(o[i], p)]
  BY DEF Teleports
<1>2. /\ Len(o) \in Nat /\ \A i \in 1..Len(o) : o[i] \in S
      /\ \A i, j \in 1..Len(o) : i # j => o[i] # o[j]
  BY SeveralTypes
<1>3. packets \in Seq(Packets) /\ Len(packets) = Len(o)
  BY <1>1, <1>2, PacketTypes
<1>4. \A x, y : TeleportTo(x, p) = TeleportTo(y, p) => x = y
  BY DEF TeleportTo
<1> QED BY <1>1, <1>2, <1>3, <1>4 DEF In, Once

\* Steps that only take a packet.
LEMMA TypesIgnored ==
  ASSUME TypeInv, NEW q \in Queue, box[q] # <<>>, Ignored(q)
  PROVE  TypeInv'
<1>1. box' \in Boxes
  BY AfterReply, PostTypes DEF TypeInv, Ignored
<1> QED BY <1>1 DEF TypeInv, ClientTypes, StoreTypes, PlayerTypes, ThreadTypes, WorldTypes,
                    Ignored, client, redis, thread, lobby, world, space, fate

LEMMA TypesClient ==
  ASSUME TypeInv, NEW s \in Socket,
         Connect(s) \/ Close(s) \/ \E w \in World : ClientEnterWorld(s, w)
  PROVE  TypeInv'
<1> USE DEF client, redis, thread, lobby, world, space, fate
<1>1. CASE Connect(s)
  <2>1. LoginByToken(s) \in Packets
    BY PacketTypes
  <2>2. box' \in Boxes
    BY <1>1, <2>1, AfterPost, PostTypes, QueueNames DEF TypeInv, Connect
  <2>3. ClientTypes' /\ StoreTypes'
    BY <1>1, TeleportAssumption DEF TypeInv, ClientTypes, StoreTypes, Connect
  <2> QED BY <1>1, <2>2, <2>3 DEF TypeInv, PlayerTypes, ThreadTypes, WorldTypes, Connect
<1>2. CASE Close(s)
  <2>1. Disconnect(s, s \in tagged) \in Packets
    <3>1. (s \in tagged) = TRUE \/ (s \in tagged) = FALSE
      OBVIOUS
    <3>2. Disconnect(s, TRUE) \in Packets /\ Disconnect(s, FALSE) \in Packets
      BY PacketTypes
    <3> QED BY <3>1, <3>2
  <2>2. box' \in Boxes
    BY <1>2, <2>1, AfterPost, PostTypes DEF TypeInv, Close
  <2>3. ClientTypes' /\ StoreTypes'
    BY <1>2 DEF TypeInv, ClientTypes, StoreTypes, Close
  <2> QED BY <1>2, <2>2, <2>3 DEF TypeInv, PlayerTypes, ThreadTypes, WorldTypes, Close
<1>3. ASSUME NEW w \in World, ClientEnterWorld(s, w) PROVE TypeInv'
  <2>1. EnterWorld(s, w) \in Packets
    BY PacketTypes
  <2>2. box' \in Boxes
    <3>1. CASE s \in tagged /\ locator[s] # None
      <4>1. locator[s] \in Queue
        BY <3>1, QueueNames DEF TypeInv, StoreTypes
      <4> QED BY <1>3, <2>1, <3>1, <4>1, AfterPost, PostTypes DEF TypeInv, ClientEnterWorld
    <3>2. CASE ~(s \in tagged /\ locator[s] # None)
      BY <1>3, <3>2 DEF TypeInv, ClientEnterWorld
    <3> QED BY <3>1, <3>2
  <2>3. ClientTypes'
    BY <1>3, TeleportAssumption DEF TypeInv, ClientTypes, ClientEnterWorld
  <2> QED BY <1>3, <2>2, <2>3
          DEF TypeInv, StoreTypes, PlayerTypes, ThreadTypes, WorldTypes, ClientEnterWorld
<1> QED BY <1>1, <1>2, <1>3

LEMMA TypesNet ==
  ASSUME TypeInv, NetStep
  PROVE  TypeInv'
<1> USE DEF client, redis, thread, lobby, world, space, fate
<1>1. CASE HandleNetworkListenKey
  <2>1. Message(Net).sock \in Socket /\ box[Net] # <<>>
    BY <1>1, Received, PacketFields, QueueNames DEF HandleNetworkListenKey
  <2>2. box' \in Boxes
    BY <1>1, <2>1, AfterReply, PostTypes, QueueNames DEF TypeInv, HandleNetworkListenKey
  <2>3. StoreTypes'
    BY <1>1, <2>1 DEF TypeInv, StoreTypes, HandleNetworkListenKey
  <2> QED BY <1>1, <2>2, <2>3
          DEF TypeInv, ClientTypes, PlayerTypes, ThreadTypes, WorldTypes, HandleNetworkListenKey
<1>2. CASE SendToClient
  <2>1. Message(Net).sock \in Socket /\ Message(Net).world \in World /\ box[Net] # <<>>
    BY <1>2, Received, PacketFields, QueueNames DEF SendToClient
  <2>2. box' \in Boxes
    BY <1>2, <2>1, AfterReply, PostTypes, QueueNames DEF TypeInv, SendToClient
  <2>3. ClientTypes'
    BY <1>2, <2>1 DEF TypeInv, ClientTypes, SendToClient
  <2> QED BY <1>2, <2>2, <2>3
          DEF TypeInv, StoreTypes, PlayerTypes, ThreadTypes, WorldTypes, SendToClient
<1> QED BY <1>1, <1>2 DEF NetStep

LEMMA TypesRedis ==
  ASSUME TypeInv, RedisStep
  PROVE  TypeInv'
<1> USE DEF client, redis, thread, lobby, world, space, fate
<1>1. CASE HandleGameTokenToRedis
  <2> DEFINE a == Message(Redis).acct
  <2>1. a \in Account /\ box[Redis] # <<>>
    BY <1>1, Received, PacketFields, QueueNames DEF HandleGameTokenToRedis, ByAcct
  <2>2. GameTokenRs(a, token[a]) \in Packets
    BY <2>1, PacketTypes DEF TypeInv, StoreTypes
  <2>3. box' \in Boxes
    BY <1>1, <2>1, <2>2, AfterReply, PostTypes, QueueNames DEF TypeInv, HandleGameTokenToRedis
  <2>4. StoreTypes'
    BY <1>1, <2>1 DEF TypeInv, StoreTypes, HandleGameTokenToRedis
  <2> QED BY <1>1, <2>3, <2>4
          DEF TypeInv, ClientTypes, PlayerTypes, ThreadTypes, WorldTypes, HandleGameTokenToRedis
<1>2. ASSUME NEW m \in Packets, m.acct \in Account, NEW value \in Nat, SetFlag(m, value),
             box[Redis] # <<>>
      PROVE  TypeInv'
  <2>1. box' \in Boxes
    BY <1>2, AfterReply, PostTypes, QueueNames DEF TypeInv, SetFlag
  <2>2. StoreTypes'
    BY <1>2 DEF TypeInv, StoreTypes, SetFlag
  <2> QED BY <1>2, <2>1, <2>2
          DEF TypeInv, ClientTypes, PlayerTypes, ThreadTypes, WorldTypes, SetFlag
<1>3. CASE HandlePlayerSyncOnlineToRedis
  <2>1. /\ Message(Redis) \in Packets /\ Message(Redis).acct \in Account
        /\ Message(Redis).ver \in Nat /\ box[Redis] # <<>>
    BY <1>3, Received, PacketFields, QueueNames DEF HandlePlayerSyncOnlineToRedis, Version
  <2> QED BY <1>2, <1>3, <2>1 DEF HandlePlayerSyncOnlineToRedis
<1>4. CASE HandlePlayerDeleteOnlineToRedis
  <2>1. Message(Redis) \in Packets /\ Message(Redis).acct \in Account /\ box[Redis] # <<>>
    BY <1>4, Received, PacketFields, QueueNames DEF HandlePlayerDeleteOnlineToRedis
  <2> QED BY <1>2, <1>4, <2>1 DEF HandlePlayerDeleteOnlineToRedis
<1> QED BY <1>1, <1>3, <1>4 DEF RedisStep

LEMMA TypesDb ==
  ASSUME TypeInv, DbStep
  PROVE  TypeInv'
<1> USE DEF client, redis, thread, lobby, world, space, fate
<1>1. CASE HandleQueryPlayer
  <2> DEFINE a == Message(Db).acct
  <2>1. a \in Account /\ box[Db] # <<>>
    BY <1>1, Received, PacketFields, QueueNames DEF HandleQueryPlayer, ByAcct
  <2>2. QueryPlayerRs(a, saved[a]) \in Packets
    BY <2>1, PacketTypes DEF TypeInv, StoreTypes
  <2>3. box' \in Boxes
    BY <1>1, <2>1, <2>2, AfterReply, PostTypes, QueueNames DEF TypeInv, HandleQueryPlayer
  <2> QED BY <1>1, <2>3
          DEF TypeInv, ClientTypes, StoreTypes, PlayerTypes, ThreadTypes, WorldTypes, HandleQueryPlayer
<1>2. CASE HandleSavePlayer
  <2>1. Message(Db).acct \in Account /\ Message(Db).world \in World /\ box[Db] # <<>>
    BY <1>2, Received, PacketFields, QueueNames DEF HandleSavePlayer, ByAcctWorld
  <2>2. box' \in Boxes
    BY <1>2, <2>1, AfterReply, PostTypes, QueueNames DEF TypeInv, HandleSavePlayer
  <2>3. StoreTypes'
    BY <1>2, <2>1 DEF TypeInv, StoreTypes, HandleSavePlayer
  <2> QED BY <1>2, <2>2, <2>3
          DEF TypeInv, ClientTypes, PlayerTypes, ThreadTypes, WorldTypes, HandleSavePlayer
<1> QED BY <1>1, <1>2 DEF DbStep

LEMMA TypesFrame ==
  ASSUME TypeInv, NEW p \in Place, FrameStep(p) \/ Period(p)
  PROVE  TypeInv'
<1> USE DEF client, redis, thread, lobby, world, space, fate
<1>1. /\ due[p] \in SUBSET OnlineSet /\ IsFiniteSet(due[p])
      /\ removed[p] \in SUBSET OnlineSet /\ IsFiniteSet(removed[p])
  BY DEF TypeInv, ThreadTypes
<1>2. CASE TimerUpdate(p)
  <2>1. PICK packets \in Each(due[p], SyncOnline) : Post([Nothing EXCEPT ![Redis] = packets])
    BY <1>2 DEF TimerUpdate
  <2>2. packets \in Seq(Packets)
    BY <1>1, SyncOnlines
  <2>3. [Nothing EXCEPT ![Redis] = packets] \in Boxes
    BY <2>2, PostTypes DEF Boxes
  <2>4. box' \in Boxes
    BY <2>1, <2>3, AfterPost DEF TypeInv
  <2>5. ThreadTypes'
    BY <1>2, FS_EmptySet DEF TypeInv, ThreadTypes, TimerUpdate
  <2> QED BY <1>2, <2>4, <2>5
          DEF TypeInv, ClientTypes, StoreTypes, PlayerTypes, WorldTypes, TimerUpdate
<1>3. CASE EntityUpdate(p)
  <2>1. PICK packets \in Each(removed[p], DeleteOnline) : Post([Nothing EXCEPT ![Redis] = packets])
    BY <1>3 DEF EntityUpdate
  <2>2. packets \in Seq(Packets)
    BY <1>1, DeleteOnlines
  <2>3. [Nothing EXCEPT ![Redis] = packets] \in Boxes
    BY <2>2, PostTypes DEF Boxes
  <2>4. box' \in Boxes
    BY <2>1, <2>3, AfterPost DEF TypeInv
  <2>5. ThreadTypes'
    BY <1>3, FS_EmptySet DEF TypeInv, ThreadTypes, EntityUpdate
  <2> QED BY <1>3, <2>4, <2>5
          DEF TypeInv, ClientTypes, StoreTypes, PlayerTypes, WorldTypes, EntityUpdate
<1>4. CASE Period(p)
  <2>1. PICK x \in players[p] : due' = [due EXCEPT ![p] = @ \cup {Online(x)}]
    BY <1>4 DEF Period
  <2>2. Online(x) \in OnlineSet
    BY <2>1 DEF TypeInv, PlayerTypes, Player, Online, OnlineSet
  <2>3. IsFiniteSet(due[p] \cup {Online(x)})
    BY <1>1, FS_AddElement
  <2>4. ThreadTypes'
    <3>1. refreshes' \in 0..MaxRefresh
      BY <1>4, TeleportAssumption DEF TypeInv, ThreadTypes, Period
    <3>2. due' \in [Place -> SUBSET OnlineSet]
      BY <2>1, <2>2 DEF TypeInv, ThreadTypes
    <3>3. \A q \in Place : IsFiniteSet(due'[q])
      BY <2>1, <2>3 DEF TypeInv, ThreadTypes
    <3> QED BY <1>4, <3>1, <3>2, <3>3 DEF TypeInv, ThreadTypes, Period
  <2> QED BY <1>4, <2>4
          DEF TypeInv, ClientTypes, StoreTypes, PlayerTypes, WorldTypes, Period
<1> QED BY <1>2, <1>3, <1>4 DEF FrameStep

\* A player comes to a place or leaves one.
LEMMA TypesAdd ==
  ASSUME TypeInv, NEW p \in Place, NEW x \in Player, AddPlayer(p, x), p \in World => x \in Known
  PROVE  /\ players' \in [Place -> SUBSET Player]
         /\ \A w \in World : players'[w] \subseteq Known
         /\ \A q \in Place : IsFiniteSet(players'[q])
         /\ due' \in [Place -> SUBSET OnlineSet]
         /\ \A q \in Place : IsFiniteSet(due'[q])
<1>1. IsFiniteSet(players[p] \cup {x}) /\ IsFiniteSet(due[p] \cup {Online(x)})
  BY FS_AddElement DEF TypeInv, PlayerTypes, ThreadTypes
<1>2. Online(x) \in OnlineSet
  BY DEF Player, OnlineSet, Online
<1>3. players' \in [Place -> SUBSET Player] /\ \A q \in Place : IsFiniteSet(players'[q])
  BY <1>1 DEF TypeInv, PlayerTypes, AddPlayer
<1>4. \A w \in World : players'[w] \subseteq Known
  BY QueueNames DEF TypeInv, PlayerTypes, AddPlayer
<1>5. due' \in [Place -> SUBSET OnlineSet] /\ \A q \in Place : IsFiniteSet(due'[q])
  BY <1>1, <1>2 DEF TypeInv, ThreadTypes, AddPlayer
<1> QED BY <1>3, <1>4, <1>5

LEMMA TypesRemove ==
  ASSUME TypeInv, NEW p \in Place, NEW x \in players[p], RemovePlayerOf(p, x)
  PROVE  /\ players' \in [Place -> SUBSET Player]
         /\ \A w \in World : players'[w] \subseteq Known
         /\ \A q \in Place : IsFiniteSet(players'[q])
         /\ removed' \in [Place -> SUBSET OnlineSet]
         /\ \A q \in Place : IsFiniteSet(removed'[q])
<1>1. IsFiniteSet(players[p] \ {x}) /\ IsFiniteSet(removed[p] \cup {Online(x)})
  BY FS_AddElement, FS_RemoveElement DEF TypeInv, PlayerTypes, ThreadTypes
<1>2. Online(x) \in OnlineSet
  BY DEF TypeInv, PlayerTypes, Player, OnlineSet, Online
<1>3. players' \in [Place -> SUBSET Player] /\ \A q \in Place : IsFiniteSet(players'[q])
  BY <1>1 DEF TypeInv, PlayerTypes, RemovePlayerOf
<1>4. \A w \in World : players'[w] \subseteq Known
  BY QueueNames DEF TypeInv, PlayerTypes, RemovePlayerOf
<1>5. removed' \in [Place -> SUBSET OnlineSet] /\ \A q \in Place : IsFiniteSet(removed'[q])
  BY <1>1, <1>2 DEF TypeInv, ThreadTypes, RemovePlayerOf
<1> QED BY <1>3, <1>4, <1>5

\* The players that a search finds.
LEMMA FoundTypes ==
  ASSUME TypeInv, NEW p \in Place
  PROVE  /\ \A s : BySocket(p, s) \subseteq players[p]
         /\ \A a : BySn(p, a) \subseteq players[p]
         /\ \A a : \A x \in BySn(p, a) : x.sn = a
         /\ \A a \in Account : BySn(p, a) \subseteq Known
         /\ players[p] \subseteq Player
         /\ p \in World => players[p] \subseteq Known
<1>1. players[p] \subseteq Player
  BY DEF TypeInv, PlayerTypes
<1>2. /\ \A s : BySocket(p, s) \subseteq players[p]
      /\ \A a : BySn(p, a) \subseteq players[p]
      /\ \A a : \A x \in BySn(p, a) : x.sn = a
  BY DEF BySocket, BySn
<1>3. \A x \in Player : x.sn \in Account => x \in Known
  BY DEF Player, Known
<1>4. \A a \in Account : BySn(p, a) \subseteq Known
  BY <1>1, <1>2, <1>3
<1>5. p \in World => players[p] \subseteq Known
  BY DEF TypeInv, PlayerTypes
<1> QED BY <1>1, <1>2, <1>4, <1>5

LEMMA TypesLobbyRemoves ==
  ASSUME TypeInv, NEW x \in players[Lobby], RemovePlayerFromLobby(x), Reply(Lobby, Nothing),
         box[Lobby] # <<>>,
         UNCHANGED <<client, tagged, locator, redis, due, frame, refreshes, waiting, world,
                     space, fate>>
  PROVE  TypeInv'
<1> USE DEF client, redis, thread, lobby, world, space, fate
<1>1. box' \in Boxes
  BY AfterReply, PostTypes, QueueNames DEF TypeInv
<1>2. /\ players' \in [Place -> SUBSET Player]
      /\ \A w \in World : players'[w] \subseteq Known
      /\ \A q \in Place : IsFiniteSet(players'[q])
      /\ removed' \in [Place -> SUBSET OnlineSet]
      /\ \A q \in Place : IsFiniteSet(removed'[q])
  BY TypesRemove, QueueNames DEF RemovePlayerFromLobby
<1>3. PlayerTypes'
  BY <1>2 DEF TypeInv, PlayerTypes, RemovePlayerFromLobby
<1>4. ThreadTypes'
  BY <1>2 DEF TypeInv, ThreadTypes
<1> QED BY <1>1, <1>3, <1>4 DEF TypeInv, ClientTypes, StoreTypes, WorldTypes

LEMMA TypesLogin ==
  ASSUME TypeInv, HandleLoginByToken
  PROVE  TypeInv'
<1> USE DEF client, redis, thread, lobby, world, space, fate
<1> DEFINE s == Message(Lobby).sock
           a == Owner[s]
           x == NewPlayer(s, 0, 1)
           posts == [Nothing EXCEPT ![Net] = <<NetworkListenKey(s)>>, ![Redis] = <<GameToken(a)>>]
<1>1. s \in Socket /\ a \in Account /\ box[Lobby] # <<>>
  BY Received, PacketFields, QueueNames, TeleportAssumption DEF HandleLoginByToken
<1>2. NetworkListenKey(s) \in Packets /\ GameToken(a) \in Packets
  BY <1>1, PacketTypes
<1>3. posts \in Boxes
  <2>1. <<NetworkListenKey(s)>> \in Seq(Packets) /\ <<GameToken(a)>> \in Seq(Packets)
    BY <1>2
  <2>2. [Nothing EXCEPT ![Net] = <<NetworkListenKey(s)>>] \in Boxes
    BY <2>1, PostTypes, PostMore, QueueNames
  <2> QED BY <2>1, <2>2, PostMore, QueueNames
<1>4. box' \in Boxes
  BY <1>1, <1>3, AfterReply, QueueNames DEF TypeInv, HandleLoginByToken
<1>5. x \in Player
  BY <1>1 DEF NewPlayer, Player, Version
<1>6. /\ players' \in [Place -> SUBSET Player]
      /\ \A w \in World : players'[w] \subseteq Known
      /\ \A q \in Place : IsFiniteSet(players'[q])
      /\ due' \in [Place -> SUBSET OnlineSet]
      /\ \A q \in Place : IsFiniteSet(due'[q])
  <2>1. AddPlayer(Lobby, x)
    BY DEF HandleLoginByToken
  <2> QED BY <1>5, <2>1, TypesAdd, QueueNames
<1>7. PlayerTypes'
  BY <1>1, <1>6 DEF TypeInv, PlayerTypes, HandleLoginByToken
<1>8. ThreadTypes'
  BY <1>6 DEF TypeInv, ThreadTypes, HandleLoginByToken
<1>9. StoreTypes'
  BY <1>1, QueueNames DEF TypeInv, StoreTypes, HandleLoginByToken
<1> QED BY <1>4, <1>7, <1>8, <1>9 DEF TypeInv, ClientTypes, WorldTypes, HandleLoginByToken

LEMMA TypesQueryPlayerRs ==
  ASSUME TypeInv, HandleQueryPlayerRs
  PROVE  TypeInv'
<1> USE DEF client, redis, thread, lobby, world, space, fate
<1> DEFINE m == Message(Lobby)
<1>1. m.acct \in Account /\ m.world \in World /\ box[Lobby] # <<>>
  BY Received, PacketFields, QueueNames DEF HandleQueryPlayerRs, ByAcctWorld
<1>2. CASE Ignored(Lobby)
  BY <1>1, <1>2, TypesIgnored, QueueNames
<1>3. ASSUME NEW x \in ByAccount(m.acct), NEW y, y = Identified(x, m.acct),
             players' = [players EXCEPT ![Lobby] = (@ \ {x}) \cup {y}],
             \/ /\ Reply(Lobby, To(m.world, TeleportTo(y, Lobby)))
                /\ UNCHANGED <<waiting, requested>>
             \/ /\ Reply(Lobby, Nothing)
                /\ waiting' = [waiting EXCEPT ![m.world] = @ \cup {y.sn}]
                /\ requested' \in {requested, requested \cup {m.world}},
             UNCHANGED <<client, tagged, locator, redis, thread, accounts, objects, proxies,
                         space, fate>>
      PROVE  TypeInv'
  <2>1. x \in players[Lobby] /\ x \in Player
    BY <1>3, QueueNames DEF ByAccount, TypeInv, PlayerTypes
  <2>2. y \in Known /\ y \in Player /\ y.sn = m.acct
    BY <1>1, <1>3, <2>1 DEF Identified, Known, Player
  <2>3. box' \in Boxes
    <3>1. TeleportTo(y, Lobby) \in Packets /\ m.world \in Queue
      BY <1>1, <2>2, PacketTypes, QueueNames
    <3> QED BY <1>1, <1>3, <3>1, AfterReply, PostTypes, QueueNames DEF TypeInv
  <2>4. PlayerTypes'
    <3>1. IsFiniteSet((players[Lobby] \ {x}) \cup {y})
      BY FS_RemoveElement, FS_AddElement, QueueNames DEF TypeInv, PlayerTypes
    <3>2. players' \in [Place -> SUBSET Player] /\ \A q \in Place : IsFiniteSet(players'[q])
      BY <1>3, <2>2, <3>1 DEF TypeInv, PlayerTypes
    <3>3. \A w \in World : players'[w] \subseteq Known
      BY <1>3, QueueNames DEF TypeInv, PlayerTypes
    <3>4. waiting' \in [World -> SUBSET Account]
      BY <1>1, <1>3, <2>2 DEF TypeInv, PlayerTypes
    <3> QED BY <1>3, <3>2, <3>3, <3>4 DEF TypeInv, PlayerTypes
  <2>5. WorldTypes'
    BY <1>1, <1>3 DEF TypeInv, WorldTypes
  <2> QED BY <1>3, <2>3, <2>4, <2>5 DEF TypeInv, ClientTypes, StoreTypes, ThreadTypes
<1> QED BY <1>2, <1>3 DEF HandleQueryPlayerRs

LEMMA TypesLobby ==
  ASSUME TypeInv, LobbyHandler
  PROVE  TypeInv'
<1> USE DEF client, redis, thread, lobby, world, space, fate
<1>1. CASE HandleGameTokenToRedisRs
  <2>1. Message(Lobby).acct \in Account /\ box[Lobby] # <<>>
    BY <1>1, Received, PacketFields, QueueNames DEF HandleGameTokenToRedisRs
  <2>2. QueryPlayer(Message(Lobby).acct) \in Packets
    BY <2>1, PacketTypes
  <2>3. box' \in Boxes
    BY <1>1, <2>1, <2>2, AfterReply, PostTypes, QueueNames DEF TypeInv, HandleGameTokenToRedisRs
  <2> QED BY <1>1, <2>3
          DEF TypeInv, ClientTypes, StoreTypes, PlayerTypes, ThreadTypes, WorldTypes,
              HandleGameTokenToRedisRs
<1>2. CASE LobbyDisconnect
  <2>1. box[Lobby] # <<>>
    BY <1>2, Received, QueueNames DEF LobbyDisconnect
  <2>2. \A s : BySocket(Lobby, s) \subseteq players[Lobby]
    BY DEF BySocket
  <2> QED BY <1>2, <2>1, <2>2, TypesIgnored, TypesLobbyRemoves, QueueNames DEF LobbyDisconnect
<1>3. CASE LobbyTeleportAfter
  <2>1. box[Lobby] # <<>>
    BY <1>3, Received, QueueNames DEF LobbyTeleportAfter
  <2>2. \A a : BySn(Lobby, a) \subseteq players[Lobby]
    BY DEF BySn
  <2> QED BY <1>3, <2>1, <2>2, TypesIgnored, TypesLobbyRemoves, QueueNames DEF LobbyTeleportAfter
<1>4. CASE LobbyBroadcastCreateWorldProxy
  <2> DEFINE w == Message(Lobby).world
             ready == UNION {BySn(Lobby, a) : a \in waiting[w]}
  <2>1. w \in World /\ box[Lobby] # <<>>
    BY <1>4, Received, PacketFields, QueueNames DEF LobbyBroadcastCreateWorldProxy
  <2>2. PICK packets \in Teleports(ready, Lobby) : Reply(Lobby, [Nothing EXCEPT ![w] = packets])
    BY <1>4 DEF LobbyBroadcastCreateWorldProxy
  <2>3. waiting[w] \subseteq Account
    BY <2>1 DEF TypeInv, PlayerTypes
  <2>4. ready \subseteq Known /\ ready \subseteq players[Lobby]
    BY <2>3, FoundTypes, QueueNames
  <2>5. IsFiniteSet(ready)
    BY <2>4, FS_Subset, QueueNames DEF TypeInv, PlayerTypes
  <2>6. packets \in Seq(Packets)
    BY <2>2, <2>4, <2>5, TeleportsOf, QueueNames
  <2>7. [Nothing EXCEPT ![w] = packets] \in Boxes
    BY <2>1, <2>6, PostTypes DEF Boxes
  <2>8. box' \in Boxes
    BY <2>1, <2>2, <2>7, AfterReply, QueueNames DEF TypeInv
  <2>9. PlayerTypes'
    BY <1>4, <2>1 DEF TypeInv, PlayerTypes, LobbyBroadcastCreateWorldProxy
  <2> QED BY <1>4, <2>8, <2>9
          DEF TypeInv, ClientTypes, StoreTypes, ThreadTypes, WorldTypes,
              LobbyBroadcastCreateWorldProxy
<1> QED BY <1>1, <1>2, <1>3, <1>4, TypesLogin, TypesQueryPlayerRs DEF LobbyHandler

\* A player comes to a world: who posts what to whom.
ArrivalPosts(w, x, from) ==
  [Nothing EXCEPT ![Net] = <<NetworkListenKey(x.sock)>>,
                  ![Space(w)] = <<SyncPlayer(x.sn)>>,
                  ![from] = <<TeleportAfter(x.sn)>>]

LEMMA ArrivalPostTypes ==
  ASSUME NEW w \in World, NEW x \in Known, NEW from \in Place
  PROVE  /\ ArrivalPosts(w, x, from) \in Boxes
         /\ ArrivalPosts(w, x, from)[Net] = <<NetworkListenKey(x.sock)>>
         /\ ArrivalPosts(w, x, from)[Space(w)] = <<SyncPlayer(x.sn)>>
         /\ ArrivalPosts(w, x, from)[from] = <<TeleportAfter(x.sn)>>
         /\ \A q \in Queue \ {Net, Space(w), from} : ArrivalPosts(w, x, from)[q] = <<>>
<1>1. x.sock \in Socket /\ x.sn \in Account
  BY DEF Known
<1>2. {NetworkListenKey(x.sock), SyncPlayer(x.sn), TeleportAfter(x.sn)} \subseteq Packets
  BY <1>1, PacketTypes
<1> DEFINE a == <<NetworkListenKey(x.sock)>>
           b == <<SyncPlayer(x.sn)>>
           c == <<TeleportAfter(x.sn)>>
           p1 == [Nothing EXCEPT ![Net] = a]
           p2 == [p1 EXCEPT ![Space(w)] = b]
           p3 == [p2 EXCEPT ![from] = c]
<1>3. a \in Seq(Packets) /\ b \in Seq(Packets) /\ c \in Seq(Packets)
  BY <1>2
<1>4. /\ Net \in Queue /\ Space(w) \in Queue /\ from \in Queue
      /\ Net # Space(w) /\ Net # from /\ Space(w) # from
      /\ Nothing \in Boxes /\ \A q \in Queue : Nothing[q] = <<>>
  BY QueueNames, PostTypes
<1>5. ArrivalPosts(w, x, from) = p3
  BY DEF ArrivalPosts
<1> HIDE DEF a, b, c
<1>6. /\ p1 \in Boxes /\ p1[Net] = a
      /\ \A q \in Queue : q # Net => p1[q] = Nothing[q]
  BY ONLY <1>3, <1>4, PostMore
<1> HIDE DEF p1
<1>7. /\ p2 \in Boxes /\ p2[Space(w)] = b
      /\ \A q \in Queue : q # Space(w) => p2[q] = p1[q]
  BY ONLY <1>3, <1>4, <1>6, PostMore
<1> HIDE DEF p2
<1>8. /\ p3 \in Boxes /\ p3[from] = c
      /\ \A q \in Queue : q # from => p3[q] = p2[q]
  BY ONLY <1>3, <1>4, <1>7, PostMore
<1> HIDE DEF p3
<1>9. /\ p3 \in Boxes /\ p3[Net] = a /\ p3[Space(w)] = b /\ p3[from] = c
      /\ \A q \in Queue \ {Net, Space(w), from} : p3[q] = <<>>
  BY <1>4, <1>6, <1>7, <1>8
<1> QED BY <1>5, <1>9 DEF a, b, c

\* What HandleTeleport does when it does not ignore the packet.
Arrival(w) ==
  LET m == Message(w)
      x == NewPlayer(m.player.sock, m.player.sn, NewerVersion(m.player))
  IN  /\ BySocket(w, x.sock) = {}
      /\ AddPlayer(w, x)
      /\ locator' = [locator EXCEPT ![x.sock] = w]
      /\ Reply(w, ArrivalPosts(w, x, m.from))
      /\ UNCHANGED <<client, tagged, redis, removed, frame, refreshes, lobby, world, space, fate>>

LEMMA TeleportArrival ==
  ASSUME NEW w, HandleTeleport(w)
  PROVE  Handles(w, "Teleport") /\ (Ignored(w) \/ Arrival(w))
BY DEF HandleTeleport, Arrival, ArrivalPosts

LEMMA TypesTeleport ==
  ASSUME TypeInv, NEW w \in World, HandleTeleport(w)
  PROVE  TypeInv'
<1> USE DEF client, redis, thread, lobby, world, space, fate
<1> DEFINE m == Message(w)
           x == NewPlayer(m.player.sock, m.player.sn, NewerVersion(m.player))
<1>1. m.player \in Known /\ m.from \in Place /\ box[w] # <<>> /\ w \in Queue
  BY Received, PacketFields, QueueNames, TeleportArrival
<1>2. CASE Ignored(w)
  BY <1>1, <1>2, TypesIgnored
<1>3. CASE Arrival(w)
  <2>1. x \in Known /\ x \in Player
    BY <1>1 DEF NewPlayer, NewerVersion, Known, Player, Version
  <2>2. box' \in Boxes
    BY <1>1, <1>3, <2>1, AfterReply, ArrivalPostTypes DEF TypeInv, Arrival
  <2>3. /\ players' \in [Place -> SUBSET Player]
        /\ \A v \in World : players'[v] \subseteq Known
        /\ \A q \in Place : IsFiniteSet(players'[q])
        /\ due' \in [Place -> SUBSET OnlineSet]
        /\ \A q \in Place : IsFiniteSet(due'[q])
    BY <1>3, <2>1, TypesAdd, QueueNames DEF Arrival
  <2>4. PlayerTypes'
    BY <1>3, <2>3 DEF TypeInv, PlayerTypes, Arrival
  <2>5. ThreadTypes'
    BY <1>3, <2>3 DEF TypeInv, ThreadTypes, Arrival
  <2>6. StoreTypes'
    <3>1. x.sock \in Socket /\ w \in Place
      BY <2>1, QueueNames DEF Player
    <3>2. locator' \in [Socket -> Place \cup {None}]
      BY <1>3, <3>1 DEF TypeInv, StoreTypes, Arrival
    <3> QED BY <1>3, <3>2 DEF TypeInv, StoreTypes, Arrival
  <2> QED BY <1>3, <2>2, <2>4, <2>5, <2>6 DEF TypeInv, ClientTypes, WorldTypes, Arrival
<1> QED BY <1>2, <1>3, TeleportArrival

LEMMA TypesLeave ==
  ASSUME TypeInv, NEW w \in World, box[w] # <<>>, NEW x \in players[w],
         NEW packet \in Packets, Leave(w, x, packet)
  PROVE  TypeInv'
<1> USE DEF client, redis, thread, lobby, world, space, fate
<1>1. box' \in Boxes
  BY AfterReply, PostTypes, QueueNames DEF TypeInv, Leave
<1>2. /\ players' \in [Place -> SUBSET Player]
      /\ \A v \in World : players'[v] \subseteq Known
      /\ \A q \in Place : IsFiniteSet(players'[q])
      /\ removed' \in [Place -> SUBSET OnlineSet]
      /\ \A q \in Place : IsFiniteSet(removed'[q])
  BY TypesRemove, QueueNames DEF Leave
<1>3. PlayerTypes'
  BY <1>2 DEF TypeInv, PlayerTypes, Leave
<1>4. ThreadTypes'
  BY <1>2 DEF TypeInv, ThreadTypes, Leave
<1> QED BY <1>1, <1>3, <1>4 DEF TypeInv, ClientTypes, StoreTypes, WorldTypes, Leave

LEMMA TypesEnterWorld ==
  ASSUME TypeInv, NEW w \in World, HandleC2GEnterWorld(w)
  PROVE  TypeInv'
<1> USE DEF client, redis, thread, lobby, world, space, fate
<1> DEFINE m == Message(w)
<1>1. m.sock \in Socket /\ m.world \in World /\ box[w] # <<>> /\ w \in Queue
  BY Received, PacketFields, QueueNames DEF HandleC2GEnterWorld
<1>2. CASE Ignored(w)
  BY <1>1, <1>2, TypesIgnored
<1>3. ASSUME NEW x \in BySocket(w, m.sock),
             objects' = [objects EXCEPT ![w] = @ \cup
               {[sn |-> x.sn, target |-> m.world, world |-> m.world \in proxies, sync |-> FALSE]}],
             requested' = IF m.world \in proxies THEN requested ELSE requested \cup {m.world},
             Reply(w, To(Space(w), RequestSync(x.sn))),
             UNCHANGED <<client, tagged, locator, redis, players, thread, lobby, proxies, space,
                         fate>>
      PROVE  TypeInv'
  <2>1. x.sn \in Account
    BY FoundTypes, QueueNames DEF Known
  <2>2. box' \in Boxes
    <3>1. RequestSync(x.sn) \in Packets
      BY <2>1, PacketTypes
    <3> QED BY <1>1, <1>3, <3>1, AfterReply, PostTypes, QueueNames DEF TypeInv
  <2>3. WorldTypes'
    <3> DEFINE o == [sn |-> x.sn, target |-> m.world, world |-> m.world \in proxies, sync |-> FALSE]
    <3>1. o \in ObjectSet
      BY <1>1, <2>1 DEF ObjectSet
    <3>2. objects' = [objects EXCEPT ![w] = @ \cup {o}]
      BY <1>3
    <3> HIDE DEF o
    <3>3. objects' \in [World -> SUBSET ObjectSet]
      BY <3>1, <3>2 DEF TypeInv, WorldTypes
    <3> QED BY <1>1, <1>3, <3>3 DEF TypeInv, WorldTypes
  <2> QED BY <1>3, <2>2, <2>3 DEF TypeInv, ClientTypes, StoreTypes, PlayerTypes, ThreadTypes
<1> QED BY <1>2, <1>3 DEF HandleC2GEnterWorld

LEMMA TypesSyncPlayer ==
  ASSUME TypeInv, NEW w \in World, HandleS2GSyncPlayer(w)
  PROVE  TypeInv'
<1> USE DEF client, redis, thread, lobby, world, space, fate
<1> DEFINE a == Message(w).acct
<1>1. a \in Account /\ box[w] # <<>> /\ w \in Queue
  BY Received, PacketFields, QueueNames DEF HandleS2GSyncPlayer, ByAcct
<1>2. CASE Ignored(w)
  BY <1>1, <1>2, TypesIgnored
<1>3. ASSUME NEW x \in BySn(w, a), NEW o \in objects[w],
             objects' = [objects EXCEPT ![w] =
               (@ \ {o}) \cup IF o.world THEN {} ELSE {[o EXCEPT !.sync = TRUE]}],
             Reply(w, IF o.world THEN To(o.target, TeleportTo(x, w)) ELSE Nothing),
             UNCHANGED <<client, tagged, locator, redis, players, thread, lobby, proxies,
                         requested, space, fate>>
      PROVE  TypeInv'
  <2>1. x \in Known /\ o \in ObjectSet /\ o.target \in World
    BY FoundTypes, QueueNames DEF TypeInv, WorldTypes, ObjectSet
  <2>2. TeleportTo(x, w) \in Packets /\ o.target \in Queue
    BY <2>1, PacketTypes, QueueNames
  <2>3. (IF o.world THEN To(o.target, TeleportTo(x, w)) ELSE Nothing) \in Boxes
    BY <2>2, PostTypes
  <2>4. box' \in Boxes
    BY <1>1, <1>3, <2>3, AfterReply DEF TypeInv
  <2>5. WorldTypes'
    <3>1. [o EXCEPT !.sync = TRUE] \in ObjectSet
      BY <2>1 DEF ObjectSet
    <3>2. objects' \in [World -> SUBSET ObjectSet]
      BY <1>3, <3>1 DEF TypeInv, WorldTypes
    <3> QED BY <1>3, <3>2 DEF TypeInv, WorldTypes
  <2> QED BY <1>3, <2>4, <2>5 DEF TypeInv, ClientTypes, StoreTypes, PlayerTypes, ThreadTypes
<1> QED BY <1>2, <1>3 DEF HandleS2GSyncPlayer

LEMMA TypesBroadcast ==
  ASSUME TypeInv, NEW w \in World, HandleBroadcastCreateWorldProxy(w)
  PROVE  TypeInv'
<1> USE DEF client, redis, thread, lobby, world, space, fate
<1> DEFINE t == Message(w).world
           checked == Checked(w, t)
           leaving == UNION {BySn(w, o.sn) : o \in checked}
<1>1. t \in World /\ t \in Queue /\ box[w] # <<>> /\ w \in Queue /\ w \in Place
  BY Received, PacketFields, QueueNames DEF HandleBroadcastCreateWorldProxy
<1>2. box' \in Boxes
  <2>1. CASE UNCHANGED box
    BY <2>1 DEF TypeInv
  <2>2. ASSUME NEW packets \in Teleports(leaving, w), Reply(w, [Nothing EXCEPT ![t] = packets])
        PROVE  box' \in Boxes
    <3>1. leaving \subseteq players[w] /\ leaving \subseteq Known
      BY <1>1, FoundTypes
    <3>2. IsFiniteSet(leaving)
      BY <1>1, <3>1, FS_Subset DEF TypeInv, PlayerTypes
    <3>3. packets \in Seq(Packets)
      BY <1>1, <2>2, <3>1, <3>2, TeleportsOf
    <3>4. [Nothing EXCEPT ![t] = packets] \in Boxes
      BY <1>1, <3>3, PostTypes, PostMore
    <3> QED BY <1>1, <2>2, <3>4, AfterReply DEF TypeInv
  <2> QED BY <2>1, <2>2 DEF HandleBroadcastCreateWorldProxy
<1>3. WorldTypes'
  BY <1>1 DEF TypeInv, WorldTypes, HandleBroadcastCreateWorldProxy
<1> QED BY <1>2, <1>3
        DEF TypeInv, ClientTypes, StoreTypes, PlayerTypes, ThreadTypes,
            HandleBroadcastCreateWorldProxy

LEMMA TypesProxy ==
  ASSUME TypeInv, NEW w \in World, ProxyHandler(w) \/ ProxyAwake(w)
  PROVE  TypeInv'
<1> USE DEF client, redis, thread, lobby, world, space, fate
<1>1. CASE HandleTeleportAfter(w)
  <2>1. Message(w).acct \in Account /\ box[w] # <<>> /\ w \in Queue
    BY <1>1, Received, PacketFields, QueueNames DEF HandleTeleportAfter, ByAcct
  <2>2. RemovePlayer(Message(w).acct) \in Packets
    BY <2>1, PacketTypes
  <2> QED BY <1>1, <2>1, <2>2, TypesIgnored, TypesLeave, FoundTypes, QueueNames
          DEF HandleTeleportAfter
<1>2. CASE HandleNetworkDisconnect(w)
  <2>1. box[w] # <<>> /\ w \in Queue
    BY <1>2, Received, QueueNames DEF HandleNetworkDisconnect
  <2>2. CASE Ignored(w)
    BY <2>1, <2>2, TypesIgnored
  <2>3. ASSUME NEW x \in BySocket(w, Message(w).sock), Leave(w, x, PlayerGone(x.sn))
        PROVE  TypeInv'
    <3>1. x \in players[w] /\ x.sn \in Account
      BY FoundTypes, QueueNames DEF Known
    <3>2. PlayerGone(x.sn) \in Packets
      BY <3>1, PacketTypes
    <3> QED BY <2>1, <2>3, <3>1, <3>2, TypesLeave
  <2> QED BY <1>2, <2>2, <2>3 DEF HandleNetworkDisconnect
<1>3. CASE HandleDefaultFunction(w)
  <2>1. Message(w).world \in World /\ box[w] # <<>> /\ w \in Queue
    BY <1>3, Received, PacketFields, QueueNames DEF HandleDefaultFunction, ByAcctWorld
  <2>2. \A x \in BySn(w, Message(w).acct) : Send(x.sock, Message(w).world) \in Packets
    BY <2>1, FoundTypes, PacketTypes, QueueNames DEF Player
  <2>3. box' \in Boxes
    BY <1>3, <2>1, <2>2, AfterReply, PostTypes, QueueNames DEF TypeInv, HandleDefaultFunction
  <2> QED BY <1>3, <2>3
          DEF TypeInv, ClientTypes, StoreTypes, PlayerTypes, ThreadTypes, WorldTypes,
              HandleDefaultFunction
<1>4. CASE ProxyAwake(w)
  <2>1. BroadcastProxy(w) \in Packets
    BY PacketTypes
  <2>2. box' \in Boxes
    BY <1>4, <2>1, AfterPost, PostTypes DEF TypeInv, ProxyAwake
  <2>3. WorldTypes'
    BY <1>4 DEF TypeInv, WorldTypes, ProxyAwake
  <2> QED BY <1>4, <2>2, <2>3
          DEF TypeInv, ClientTypes, StoreTypes, PlayerTypes, ThreadTypes, ProxyAwake
<1> QED BY <1>1, <1>2, <1>3, <1>4, TypesTeleport, TypesEnterWorld, TypesSyncPlayer,
           TypesBroadcast DEF ProxyHandler

LEMMA TypesSpace ==
  ASSUME TypeInv, NEW w \in World, SpaceStep(w)
  PROVE  TypeInv'
<1> USE DEF client, redis, thread, lobby, world, space, fate
<1> DEFINE a == Message(Space(w)).acct
           Sends(posts) == Reply(Space(w), posts) /\ posts \in Boxes
<1>1. a \in Account /\ box[Space(w)] # <<>> /\ Space(w) \in Queue
  BY Received, PacketFields, QueueNames
     DEF SpaceStep, HandleSyncPlayer, HandleRequestSyncPlayer, HandleG2SRemovePlayer,
         WorldDisconnect, ByAcct
<1>2. /\ To(w, ToClient(a, w)) \in Boxes /\ To(w, S2GSyncPlayer(a)) \in Boxes
      /\ To(Db, SavePlayer(a, w)) \in Boxes /\ Nothing \in Boxes
  <2>1. ToClient(a, w) \in Packets /\ S2GSyncPlayer(a) \in Packets /\ SavePlayer(a, w) \in Packets
    BY <1>1, PacketTypes
  <2> QED BY <2>1, PostTypes, QueueNames
<1>3. \E posts \in Boxes : Reply(Space(w), posts)
  BY <1>2 DEF SpaceStep, HandleSyncPlayer, HandleRequestSyncPlayer, HandleG2SRemovePlayer,
              WorldDisconnect
<1>4. box' \in Boxes
  BY <1>1, <1>3, AfterReply DEF TypeInv
<1>5. WorldTypes'
  BY <1>1 DEF TypeInv, WorldTypes, SpaceStep, HandleSyncPlayer, HandleRequestSyncPlayer,
              HandleG2SRemovePlayer, WorldDisconnect
<1> QED BY <1>4, <1>5
        DEF TypeInv, ClientTypes, StoreTypes, PlayerTypes, ThreadTypes, SpaceStep,
            HandleSyncPlayer, HandleRequestSyncPlayer, HandleG2SRemovePlayer, WorldDisconnect

LEMMA TypesExpire ==
  ASSUME TypeInv, NEW a \in Account, Expire(a)
  PROVE  TypeInv'
BY DEF TypeInv, ClientTypes, StoreTypes, PlayerTypes, ThreadTypes, WorldTypes, Expire,
       client, redis, thread, lobby, world, space, fate

LEMMA TypeNext == TypeInv /\ [Next]_vars => TypeInv'
<1> SUFFICES ASSUME TypeInv, [Next]_vars PROVE TypeInv'
  OBVIOUS
<1>1. CASE UNCHANGED vars
  BY <1>1 DEF TypeInv, ClientTypes, StoreTypes, PlayerTypes, ThreadTypes, WorldTypes, vars,
              client, redis, thread, lobby, world, space, fate
<1> QED BY <1>1, TypesClient, TypesNet, TypesRedis, TypesDb, TypesLobby, TypesProxy,
           TypesSpace, TypesFrame, TypesExpire DEF Next, ClientStep

LEMMA TypeInvariant == Spec => []TypeInv
BY TypeInit, TypeNext, PTL DEF Spec

\* Every variable keeps its shape, and a player outside the Lobby has its SN
\* (Player::ParserFromProto), for any clients, worlds and failures.
THEOREM TypeCorrect == Spec => []TypeOK
BY TypeInvariant, TypesImply, PTL

(***************************************************************************)
(* A WorldProxy and its World: the World will have the players of the      *)
(* proxy when it has handled what is under way.                            *)
(***************************************************************************)
About(m, a) == m.type \in {"SyncPlayer", "RemovePlayer", "PlayerGone"} /\ m.acct = a

\* What the last packet about a in q says of a, or S if there is none.
Coming(q, S, a) ==
  \/ \E i \in 1..Len(q) :
       /\ About(q[i], a) /\ q[i].type = "SyncPlayer"
       /\ \A j \in 1..Len(q) : About(q[j], a) => j <= i
  \/ (\A i \in 1..Len(q) : ~About(q[i], a)) /\ a \in S

AgreeInv ==
  \A w \in World : \A a \in Account :
    Coming(box[Space(w)], inWorld[w], a) <=> \E x \in players[w] : x.sn = a

\* No two players at a proxy are the same account's.
NoTwins == \A w \in World : \A x, y \in players[w] : x.sn = y.sn => x = y

LEMMA ComingAppend ==
  ASSUME NEW P, NEW q \in Seq(P), NEW m \in P, NEW S, NEW a
  PROVE  Coming(Append(q, m), S, a) <=>
           IF About(m, a) THEN m.type = "SyncPlayer" ELSE Coming(q, S, a)
<1> DEFINE t == Append(q, m)
           n == Len(q)
<1>1. /\ Len(t) = n + 1 /\ n \in Nat
      /\ \A i \in 1..n : t[i] = q[i]
      /\ t[n + 1] = m
  OBVIOUS
<1> HIDE DEF t, n
<1>2. /\ 1..Len(t) = 1..n \cup {n + 1} /\ n + 1 \notin 1..n
      /\ \A i \in 1..n : i <= n + 1 /\ ~(n + 1 <= i)
      /\ n + 1 <= n + 1
  BY <1>1
<1>3. Coming(q, S, a) <=>
        \/ \E i \in 1..n :
             /\ About(q[i], a) /\ q[i].type = "SyncPlayer"
             /\ \A j \in 1..n : About(q[j], a) => j <= i
        \/ (\A i \in 1..n : ~About(q[i], a)) /\ a \in S
  BY DEF Coming, n
<1>4. CASE About(m, a)
  <2>1. m.type = "SyncPlayer" => Coming(t, S, a)
    BY <1>1, <1>2, <1>4 DEF Coming
  <2>2. Coming(t, S, a) => m.type = "SyncPlayer"
    BY <1>1, <1>2, <1>4 DEF Coming
  <2> QED BY <1>4, <2>1, <2>2 DEF t
<1>5. CASE ~About(m, a)
  <2>1. Coming(q, S, a) => Coming(t, S, a)
    BY <1>1, <1>2, <1>3, <1>5 DEF Coming
  <2>2. Coming(t, S, a) => Coming(q, S, a)
    BY <1>1, <1>2, <1>3, <1>5 DEF Coming
  <2> QED BY <1>5, <2>1, <2>2 DEF t
<1> QED BY <1>4, <1>5

LEMMA ComingTail ==
  ASSUME NEW P, NEW q \in Seq(P), q # <<>>, NEW S, NEW T, NEW a,
         IF About(Head(q), a) THEN a \in T <=> Head(q).type = "SyncPlayer"
                              ELSE a \in T <=> a \in S
  PROVE  Coming(Tail(q), T, a) <=> Coming(q, S, a)
<1> DEFINE t == Tail(q)
           h == Head(q)
           n == Len(t)
<1>1. /\ Len(q) = n + 1 /\ n \in Nat
      /\ \A i \in 1..n : t[i] = q[i + 1]
      /\ h = q[1]
  OBVIOUS
<1>2. IF About(h, a) THEN a \in T <=> h.type = "SyncPlayer" ELSE a \in T <=> a \in S
  OBVIOUS
<1>3. Coming(t, T, a) <=>
        \/ \E i \in 1..n :
             /\ About(t[i], a) /\ t[i].type = "SyncPlayer"
             /\ \A j \in 1..n : About(t[j], a) => j <= i
        \/ (\A i \in 1..n : ~About(t[i], a)) /\ a \in T
  BY DEF Coming
<1> HIDE DEF t, h, n
<1>4. /\ \A i \in 1..n : i + 1 \in 1..Len(q) /\ i + 1 # 1 /\ ~(i + 1 <= 1) /\ 1 <= i + 1
      /\ \A i, j \in 1..n : i + 1 <= j + 1 <=> i <= j
      /\ \A i \in 1..Len(q) : i = 1 \/ \E k \in 1..n : i = k + 1
      /\ 1 \in 1..Len(q) /\ 1 <= 1
  <2>1. \A i \in 1..Len(q) : i = 1 \/ (i - 1 \in 1..n /\ i = (i - 1) + 1)
    BY <1>1
  <2>2. \A i \in 1..n : i + 1 \in 1..Len(q) /\ i + 1 # 1 /\ ~(i + 1 <= 1) /\ 1 <= i + 1
    BY <1>1
  <2>3. \A i, j \in 1..n : i + 1 <= j + 1 <=> i <= j
    BY <1>1
  <2>4. 1 \in 1..Len(q) /\ 1 <= 1
    BY <1>1
  <2> QED BY <2>1, <2>2, <2>3, <2>4
<1>5. CASE \E k \in 1..n : About(t[k], a)
  <2>1. PICK k \in 1..n : About(t[k], a)
    BY <1>5
  <2>2. ~(\A i \in 1..Len(q) : ~About(q[i], a)) /\ ~(\A i \in 1..n : ~About(t[i], a))
    BY <1>1, <1>4, <2>1
  <2>3. ASSUME NEW i \in 1..n, About(t[i], a), t[i].type = "SyncPlayer",
               \A j \in 1..n : About(t[j], a) => j <= i
        PROVE  Coming(q, S, a)
    <3>1. i + 1 \in 1..Len(q) /\ About(q[i + 1], a) /\ q[i + 1].type = "SyncPlayer"
      BY <1>1, <1>4, <2>3
    <3>2. ASSUME NEW j \in 1..Len(q), About(q[j], a) PROVE j <= i + 1
      <4>1. CASE j = 1
        BY <1>4, <4>1
      <4>2. ASSUME NEW l \in 1..n, j = l + 1 PROVE j <= i + 1
        BY <1>1, <1>4, <2>3, <3>2, <4>2
      <4> QED BY <1>4, <4>1, <4>2
    <3> QED BY <3>1, <3>2 DEF Coming
  <2>4. ASSUME NEW i \in 1..Len(q), About(q[i], a), q[i].type = "SyncPlayer",
               \A j \in 1..Len(q) : About(q[j], a) => j <= i
        PROVE  Coming(t, T, a)
    <3>1. k + 1 <= i
      BY <1>1, <1>4, <2>1, <2>4
    <3>2. i # 1
      BY <1>4, <3>1
    <3>3. PICK l \in 1..n : i = l + 1
      BY <1>4, <3>2
    <3>4. About(t[l], a) /\ t[l].type = "SyncPlayer"
      BY <1>1, <2>4, <3>3
    <3>5. \A j \in 1..n : About(t[j], a) => j <= l
      BY <1>1, <1>4, <2>4, <3>3
    <3> QED BY <1>3, <3>4, <3>5
  <2> QED BY <1>3, <2>2, <2>3, <2>4 DEF Coming, t
<1>6. CASE \A k \in 1..n : ~About(t[k], a)
  <2>1. Coming(t, T, a) <=> a \in T
    BY <1>3, <1>6
  <2>2. ASSUME NEW i \in 1..Len(q), About(q[i], a) PROVE i = 1
    <3>1. ASSUME NEW k \in 1..n, i = k + 1 PROVE FALSE
      BY <1>1, <1>6, <2>2, <3>1
    <3> QED BY <1>4, <3>1
  <2>3. CASE About(h, a)
    <3>1. Coming(q, S, a) <=> h.type = "SyncPlayer"
      BY <1>1, <1>4, <2>2, <2>3 DEF Coming
    <3> QED BY <1>2, <2>1, <2>3, <3>1 DEF t
  <2>4. CASE ~About(h, a)
    <3>1. Coming(q, S, a) <=> a \in S
      BY <1>1, <1>4, <2>2, <2>4 DEF Coming
    <3> QED BY <1>2, <2>1, <2>4, <3>1 DEF t
  <2> QED BY <2>3, <2>4
<1> QED BY <1>5, <1>6

\* A queue to which one packet or none is posted.
LEMMA OnePost ==
  ASSUME NEW P, NEW q \in Seq(P)
  PROVE  q \o <<>> = q /\ \A m \in P : q \o <<m>> = Append(q, m)
OBVIOUS

(***************************************************************************)
(* What a step posts, and to whom.                                         *)
(***************************************************************************)
\* A box to which nothing is posted, ...
LEMMA Kept ==
  ASSUME box \in Boxes, NEW posts \in Boxes, NEW q \in Queue, posts[q] = <<>>
  PROVE  /\ Post(posts) => box'[q] = box[q]
         /\ \A r \in Queue : r # q /\ Reply(r, posts) => box'[q] = box[q]
<1>1. box[q] \in Seq(Packets) /\ box[q] \o <<>> = box[q]
  BY DEF Boxes
<1>2. Post(posts) => box'[q] = box[q] \o posts[q]
  BY DEF Post
<1>3. \A r \in Queue : r # q /\ Reply(r, posts) => box'[q] = box[q] \o posts[q]
  BY DEF Reply
<1> QED BY <1>1, <1>2, <1>3

\* ... and what is in the boxes that something is posted to.
LEMMA Posted ==
  /\ \A q \in Queue : \A m : ~In(Nothing[q], m)
  /\ \A r \in Queue : \A p \in Packets : \A q \in Queue : \A m :
       In(To(r, p)[q], m) => q = r /\ m = p
  /\ \A p \in Packets : \A q \in Queue : \A m :
       In(ToAll(p)[q], m) => q \in Place /\ m = p
  /\ \A posts \in Boxes : \A r \in Queue : \A s \in Seq(Packets) : \A q \in Queue : \A m :
       In([posts EXCEPT ![r] = s][q], m) => (q = r /\ In(s, m)) \/ In(posts[q], m)
<1>1. \A m : ~In(<<>>, m)
  BY DEF In
<1>2. \A p, m : In(<<p>>, m) => m = p
  BY DEF In
<1>3. \A q \in Queue : \A m : ~In(Nothing[q], m)
  BY <1>1, PostTypes
<1>4. ASSUME NEW r \in Queue, NEW p \in Packets, NEW q \in Queue, NEW m, In(To(r, p)[q], m)
      PROVE  q = r /\ m = p
  BY <1>1, <1>2, <1>4, PostTypes
<1>5. ASSUME NEW p \in Packets, NEW q \in Queue, NEW m, In(ToAll(p)[q], m)
      PROVE  q \in Place /\ m = p
  BY <1>1, <1>2, <1>5, PostTypes
<1>6. ASSUME NEW posts \in Boxes, NEW r \in Queue, NEW s \in Seq(Packets), NEW q \in Queue, NEW m,
             In([posts EXCEPT ![r] = s][q], m)
      PROVE  (q = r /\ In(s, m)) \/ In(posts[q], m)
  BY <1>6, PostMore
<1> QED BY <1>3, <1>4, <1>5, <1>6

\* The Worlds and their players at the proxies are as they were.
Undisturbed ==
  \A w \in World :
    box'[Space(w)] = box[Space(w)] /\ players'[w] = players[w] /\ inWorld'[w] = inWorld[w]

\* A player's SN is its account's, or 0 until QueryPlayerRs.
Named(x) == x.sn \in {0, Owner[x.sock]}

NamedBoxes == \A q \in Queue : \A m : In(box[q], m) /\ m.type = "Teleport" => Named(m.player)

\* No packet that is posted is a Teleport of a wrong player.
Proper(posts) ==
  posts \in Boxes /\ \A q \in Queue : \A m : In(posts[q], m) /\ m.type = "Teleport" => Named(m.player)

LEMMA NamedPost ==
  ASSUME box \in Boxes, NamedBoxes, NEW posts, Proper(posts),
         Post(posts) \/ \E r \in Queue : box[r] # <<>> /\ Reply(r, posts)
  PROVE  NamedBoxes'
<1>1. posts \in Boxes
  BY DEF Proper
<1>2. \A q \in Queue : \A m : In(box'[q], m) => In(box[q], m) \/ In(posts[q], m)
  BY <1>1, AfterPost, AfterReply
<1> QED BY <1>2 DEF NamedBoxes, Proper

\* A packet of another type, and nothing.
LEMMA ProperPosts ==
  /\ Proper(Nothing)
  /\ \A r \in Queue : \A m \in Packets : (m.type = "Teleport" => Named(m.player)) => Proper(To(r, m))
  /\ \A m \in Packets : m.type # "Teleport" => Proper(ToAll(m))
  /\ \A posts : \A r \in Queue : \A s \in Seq(Packets) :
       Proper(posts) /\ (\A m : In(s, m) /\ m.type = "Teleport" => Named(m.player))
         => Proper([posts EXCEPT ![r] = s])
<1>1. Proper(Nothing)
  BY Posted, PostTypes DEF Proper
<1>2. ASSUME NEW r \in Queue, NEW m \in Packets, m.type = "Teleport" => Named(m.player)
      PROVE  Proper(To(r, m))
  <2>1. To(r, m) \in Boxes
    BY PostTypes
  <2>2. ASSUME NEW q \in Queue, NEW p, In(To(r, m)[q], p) PROVE p = m
    BY ONLY <2>2, Posted, r \in Queue, m \in Packets, q \in Queue
  <2> QED BY ONLY <1>2, <2>1, <2>2 DEF Proper
<1>3. ASSUME NEW m \in Packets, m.type # "Teleport" PROVE Proper(ToAll(m))
  <2>1. ToAll(m) \in Boxes
    BY PostTypes
  <2>2. ASSUME NEW q \in Queue, NEW p, In(ToAll(m)[q], p) PROVE p = m
    BY ONLY <2>2, Posted, m \in Packets, q \in Queue
  <2> QED BY ONLY <1>3, <2>1, <2>2 DEF Proper
<1>4. ASSUME NEW posts, NEW r \in Queue, NEW s \in Seq(Packets), Proper(posts),
             \A m : In(s, m) /\ m.type = "Teleport" => Named(m.player)
      PROVE  Proper([posts EXCEPT ![r] = s])
  <2>1. [posts EXCEPT ![r] = s] \in Boxes
    BY <1>4, PostMore DEF Proper
  <2> QED BY <1>4, <2>1, Posted DEF Proper
<1> QED BY <1>1, <1>2, <1>3, <1>4

LEMMA TypeNames ==
  /\ \A s : LoginByToken(s).type # "Teleport" /\ NetworkListenKey(s).type # "Teleport"
  /\ \A s, tag : Disconnect(s, tag).type # "Teleport"
  /\ \A a : /\ GameToken(a).type # "Teleport" /\ QueryPlayer(a).type # "Teleport"
            /\ TeleportAfter(a).type # "Teleport" /\ SyncPlayer(a).type # "Teleport"
            /\ S2GSyncPlayer(a).type # "Teleport" /\ RequestSync(a).type # "Teleport"
            /\ RemovePlayer(a).type # "Teleport" /\ PlayerGone(a).type # "Teleport"
  /\ \A a, t : GameTokenRs(a, t).type # "Teleport" /\ SavePlayer(a, t).type # "Teleport"
               /\ QueryPlayerRs(a, t).type # "Teleport" /\ ToClient(a, t).type # "Teleport"
               /\ EnterWorld(a, t).type # "Teleport" /\ Send(a, t).type # "Teleport"
  /\ \A o : SyncOnline(o).type # "Teleport" /\ DeleteOnline(o).type # "Teleport"
  /\ \A w : BroadcastProxy(w).type # "Teleport"
  /\ \A x, p : TeleportTo(x, p).type = "Teleport" /\ TeleportTo(x, p).player = x
BY DEF LoginByToken, NetworkListenKey, Disconnect, GameToken, QueryPlayer, TeleportAfter, SyncPlayer,
       S2GSyncPlayer, RequestSync, RemovePlayer, PlayerGone, GameTokenRs, SavePlayer, QueryPlayerRs,
       ToClient, EnterWorld, Send, SyncOnline, DeleteOnline, BroadcastProxy, TeleportTo

\* The steps that leave the Worlds alone, each with what it posts.
Calm == NamedBoxes' /\ Undisturbed

LEMMA CalmPost ==
  ASSUME box \in Boxes, NamedBoxes, NEW posts, Proper(posts),
         \A w \in World : posts[Space(w)] = <<>>,
         \A w \in World : players'[w] = players[w] /\ inWorld'[w] = inWorld[w],
         \/ Post(posts)
         \/ \E r \in Queue : (\A w \in World : r # Space(w)) /\ box[r] # <<>> /\ Reply(r, posts)
  PROVE  Calm
<1>1. NamedBoxes'
  BY NamedPost
<1>2. \A w \in World : box'[Space(w)] = box[Space(w)]
  BY Kept, QueueNames DEF Proper
<1> QED BY <1>1, <1>2 DEF Calm, Undisturbed

\* The readers that are not Worlds, and posts that go to them.
LEMMA NotToSpace ==
  /\ \A p \in Place \cup {Net, Redis, Db} : p \in Queue /\ \A w \in World : p # Space(w)
  /\ \A w \in World : Nothing[Space(w)] = <<>>
  /\ \A r \in Place \cup {Net, Redis, Db} : \A m \in Packets : \A w \in World :
       To(r, m)[Space(w)] = <<>>
  /\ \A m \in Packets : \A w \in World : ToAll(m)[Space(w)] = <<>>
  /\ \A posts \in Boxes : \A r \in Place \cup {Net, Redis, Db} : \A s \in Seq(Packets) :
       \A w \in World : [posts EXCEPT ![r] = s][Space(w)] = posts[Space(w)]
<1>1. \A p \in Place \cup {Net, Redis, Db} : p \in Queue /\ \A w \in World : p # Space(w)
  BY QueueNames
<1>2. \A w \in World : Space(w) \in Queue /\ Space(w) \notin Place
  BY QueueNames
<1>3. \A w \in World : Nothing[Space(w)] = <<>>
  BY <1>2, PostTypes
<1>4. ASSUME NEW r \in Place \cup {Net, Redis, Db}, NEW m \in Packets, NEW w \in World
      PROVE  To(r, m)[Space(w)] = <<>>
  BY <1>1, <1>2, PostTypes
<1>5. ASSUME NEW m \in Packets, NEW w \in World PROVE ToAll(m)[Space(w)] = <<>>
  BY <1>2, PostTypes
<1>6. ASSUME NEW posts \in Boxes, NEW r \in Place \cup {Net, Redis, Db}, NEW s \in Seq(Packets),
             NEW w \in World
      PROVE  [posts EXCEPT ![r] = s][Space(w)] = posts[Space(w)]
  BY <1>1, <1>2, PostMore
<1> QED BY <1>1, <1>3, <1>4, <1>5, <1>6

LEMMA CalmClient ==
  ASSUME TypeInv, NamedBoxes, NEW s \in Socket,
         Connect(s) \/ Close(s) \/ \E w \in World : ClientEnterWorld(s, w)
  PROVE  Calm
<1> USE DEF thread, lobby, world, space
<1>0. box \in Boxes /\ Lobby \in Place
  BY QueueNames DEF TypeInv
<1>1. CASE Connect(s)
  <2> DEFINE posts == To(Lobby, LoginByToken(s))
  <2>1. LoginByToken(s) \in Packets
    BY PacketTypes
  <2>2. Proper(posts) /\ \A w \in World : posts[Space(w)] = <<>>
    BY <1>0, <2>1, ProperPosts, NotToSpace, TypeNames
  <2>3. Post(posts) /\ \A w \in World : players'[w] = players[w] /\ inWorld'[w] = inWorld[w]
    BY <1>1 DEF Connect
  <2> HIDE DEF posts
  <2> QED BY <1>0, <2>2, <2>3, CalmPost
<1>2. CASE Close(s)
  <2> DEFINE posts == ToAll(Disconnect(s, s \in tagged))
  <2>1. Disconnect(s, s \in tagged) \in Packets
    <3>1. (s \in tagged) = TRUE \/ (s \in tagged) = FALSE
      OBVIOUS
    <3>2. Disconnect(s, TRUE) \in Packets /\ Disconnect(s, FALSE) \in Packets
      BY PacketTypes
    <3> QED BY <3>1, <3>2
  <2>2. Proper(posts) /\ \A w \in World : posts[Space(w)] = <<>>
    BY <2>1, ProperPosts, NotToSpace, TypeNames
  <2>3. Post(posts) /\ \A w \in World : players'[w] = players[w] /\ inWorld'[w] = inWorld[w]
    BY <1>2 DEF Close
  <2> HIDE DEF posts
  <2> QED BY <1>0, <2>2, <2>3, CalmPost
<1>3. ASSUME NEW v \in World, ClientEnterWorld(s, v) PROVE Calm
  <2>0. \A w \in World : players'[w] = players[w] /\ inWorld'[w] = inWorld[w]
    BY <1>3 DEF ClientEnterWorld
  <2>1. CASE s \in tagged /\ locator[s] # None
    <3> DEFINE posts == To(locator[s], EnterWorld(s, v))
    <3>1. locator[s] \in Place
      BY <2>1 DEF TypeInv, StoreTypes
    <3>2. EnterWorld(s, v) \in Packets
      BY PacketTypes
    <3>3. Proper(posts) /\ \A w \in World : posts[Space(w)] = <<>>
      BY <3>1, <3>2, ProperPosts, NotToSpace, TypeNames
    <3>4. Post(posts)
      BY <1>3, <2>1 DEF ClientEnterWorld
    <3> HIDE DEF posts
    <3> QED BY <1>0, <2>0, <3>3, <3>4, CalmPost
  <2>2. CASE ~(s \in tagged /\ locator[s] # None)
    <3>1. UNCHANGED box
      BY <1>3, <2>2 DEF ClientEnterWorld
    <3> QED BY <2>0, <3>1 DEF Calm, Undisturbed, NamedBoxes
  <2> QED BY <2>1, <2>2
<1> QED BY <1>1, <1>2, <1>3

\* A thread that only takes a packet.
LEMMA CalmTake ==
  ASSUME TypeInv, NamedBoxes, NEW q \in Place \cup {Net, Redis, Db}, box[q] # <<>>,
         Reply(q, Nothing),
         \A w \in World : players'[w] = players[w] /\ inWorld'[w] = inWorld[w]
  PROVE  Calm
<1>1. Proper(Nothing) /\ \A w \in World : Nothing[Space(w)] = <<>>
  BY ProperPosts, NotToSpace
<1>2. q \in Queue /\ \A w \in World : q # Space(w)
  BY NotToSpace
<1> QED BY <1>1, <1>2, CalmPost DEF TypeInv

\* A thread that answers one packet.
LEMMA CalmAnswer ==
  ASSUME TypeInv, NamedBoxes, NEW q \in Place \cup {Net, Redis, Db}, box[q] # <<>>,
         NEW r \in Place \cup {Net, Redis, Db}, NEW m \in Packets,
         m.type = "Teleport" => Named(m.player), Reply(q, To(r, m)),
         \A w \in World : players'[w] = players[w] /\ inWorld'[w] = inWorld[w]
  PROVE  Calm
<1>0. r \in Queue /\ q \in Queue /\ \A w \in World : q # Space(w)
  BY NotToSpace
<1>1. Proper(To(r, m)) /\ \A w \in World : To(r, m)[Space(w)] = <<>>
  BY <1>0, ProperPosts, NotToSpace
<1> QED BY <1>0, <1>1, CalmPost DEF TypeInv

LEMMA CalmNet ==
  ASSUME TypeInv, NamedBoxes, NetStep
  PROVE  Calm
<1> USE DEF thread, lobby, world, space
<1>1. box[Net] # <<>> /\ Reply(Net, Nothing)
  BY DEF NetStep, HandleNetworkListenKey, SendToClient, Handles
<1>2. \A w \in World : players'[w] = players[w] /\ inWorld'[w] = inWorld[w]
  BY DEF NetStep, HandleNetworkListenKey, SendToClient
<1> QED BY <1>1, <1>2, CalmTake

LEMMA CalmRedis ==
  ASSUME TypeInv, NamedBoxes, RedisStep
  PROVE  Calm
<1> USE DEF thread, lobby, world, space
<1>1. \A w \in World : players'[w] = players[w] /\ inWorld'[w] = inWorld[w]
  BY DEF RedisStep, HandleGameTokenToRedis, HandlePlayerSyncOnlineToRedis,
         HandlePlayerDeleteOnlineToRedis, SetFlag
<1>2. box[Redis] # <<>>
  BY DEF RedisStep, HandleGameTokenToRedis, HandlePlayerSyncOnlineToRedis,
         HandlePlayerDeleteOnlineToRedis, Handles
<1>3. CASE HandleGameTokenToRedis
  <2> DEFINE a == Message(Redis).acct
             m == GameTokenRs(a, token[a])
  <2>1. a \in Account
    BY <1>3, Received, PacketFields, QueueNames DEF HandleGameTokenToRedis, ByAcct
  <2>2. m \in Packets /\ m.type # "Teleport"
    BY <2>1, PacketTypes, TypeNames DEF TypeInv, StoreTypes
  <2>3. Reply(Redis, To(Lobby, m))
    BY <1>3 DEF HandleGameTokenToRedis
  <2> HIDE DEF m
  <2> QED BY <1>1, <1>2, <2>2, <2>3, CalmAnswer, QueueNames
<1>4. CASE HandlePlayerSyncOnlineToRedis \/ HandlePlayerDeleteOnlineToRedis
  <2>1. Reply(Redis, Nothing)
    BY <1>4 DEF HandlePlayerSyncOnlineToRedis, HandlePlayerDeleteOnlineToRedis, SetFlag
  <2> QED BY <1>1, <1>2, <2>1, CalmTake
<1> QED BY <1>3, <1>4 DEF RedisStep

LEMMA CalmDb ==
  ASSUME TypeInv, NamedBoxes, DbStep
  PROVE  Calm
<1> USE DEF thread, lobby, world, space
<1>1. \A w \in World : players'[w] = players[w] /\ inWorld'[w] = inWorld[w]
  BY DEF DbStep, HandleQueryPlayer, HandleSavePlayer
<1>2. box[Db] # <<>>
  BY DEF DbStep, HandleQueryPlayer, HandleSavePlayer, Handles
<1>3. CASE HandleQueryPlayer
  <2> DEFINE a == Message(Db).acct
             m == QueryPlayerRs(a, saved[a])
  <2>1. a \in Account
    BY <1>3, Received, PacketFields, QueueNames DEF HandleQueryPlayer, ByAcct
  <2>2. m \in Packets /\ m.type # "Teleport"
    BY <2>1, PacketTypes, TypeNames DEF TypeInv, StoreTypes
  <2>3. Reply(Db, To(Lobby, m))
    BY <1>3 DEF HandleQueryPlayer
  <2> HIDE DEF m
  <2> QED BY <1>1, <1>2, <2>2, <2>3, CalmAnswer, QueueNames
<1>4. CASE HandleSavePlayer
  <2>1. Reply(Db, Nothing)
    BY <1>4 DEF HandleSavePlayer
  <2> QED BY <1>1, <1>2, <2>1, CalmTake
<1> QED BY <1>3, <1>4 DEF DbStep

LEMMA CalmFrame ==
  ASSUME TypeInv, NamedBoxes, NEW p \in Place, FrameStep(p) \/ Period(p)
  PROVE  Calm
<1> USE DEF thread, lobby, world, space
<1>0. /\ due[p] \in SUBSET OnlineSet /\ IsFiniteSet(due[p])
      /\ removed[p] \in SUBSET OnlineSet /\ IsFiniteSet(removed[p])
  BY DEF TypeInv, ThreadTypes
<1>1. \A w \in World : players'[w] = players[w] /\ inWorld'[w] = inWorld[w]
  BY DEF FrameStep, TimerUpdate, EntityUpdate, Period
<1>2. CASE FrameStep(p)
  <2>1. PICK packets \in Each(due[p], SyncOnline) \cup Each(removed[p], DeleteOnline) :
          Post([Nothing EXCEPT ![Redis] = packets])
    BY <1>2 DEF FrameStep, TimerUpdate, EntityUpdate
  <2>2. packets \in Seq(Packets) /\ \A m : In(packets, m) => m.type # "Teleport"
    <3>1. CASE packets \in Each(due[p], SyncOnline)
      <4>1. packets \in Seq(Packets) /\ \A m : In(packets, m) => \E x \in due[p] : m = SyncOnline(x)
        BY <1>0, <3>1, SyncOnlines
      <4> QED BY <4>1, TypeNames
    <3>2. CASE packets \in Each(removed[p], DeleteOnline)
      <4>1. packets \in Seq(Packets) /\ \A m : In(packets, m) => \E x \in removed[p] : m = DeleteOnline(x)
        BY <1>0, <3>2, DeleteOnlines
      <4> QED BY <4>1, TypeNames
    <3> QED BY <3>1, <3>2
  <2> DEFINE posts == [Nothing EXCEPT ![Redis] = packets]
  <2>3. Proper(posts)
    <3>1. Redis \in Queue /\ Proper(Nothing)
      BY QueueNames, ProperPosts
    <3>2. \A m : In(packets, m) /\ m.type = "Teleport" => Named(m.player)
      BY <2>2
    <3> QED BY ONLY <2>2, <3>1, <3>2, ProperPosts
  <2>4. \A w \in World : posts[Space(w)] = <<>>
    BY <2>2, NotToSpace, PostTypes
  <2>5. Post(posts)
    BY <2>1
  <2> HIDE DEF posts
  <2> QED BY <1>1, <2>3, <2>4, <2>5, CalmPost DEF TypeInv
<1>3. CASE Period(p)
  <2>1. UNCHANGED box
    BY <1>3 DEF Period
  <2> QED BY <1>1, <2>1 DEF Calm, Undisturbed, NamedBoxes
<1> QED BY <1>2, <1>3

LEMMA CalmLobby ==
  ASSUME TypeInv, NamedBoxes, LobbyHandler,
         \A p \in Place : \A x \in players[p] : Named(x),
         \A a \in Account : accounts[a] # None => Owner[accounts[a]] = a
  PROVE  Calm
<1> USE DEF thread, lobby, world, space
<1>0. Lobby \in Place /\ Lobby \notin World
  BY QueueNames
<1>1. \A w \in World : inWorld'[w] = inWorld[w]
  BY DEF LobbyHandler, HandleLoginByToken, LobbyDisconnect, HandleGameTokenToRedisRs,
         HandleQueryPlayerRs, LobbyBroadcastCreateWorldProxy, LobbyTeleportAfter, Ignored
<1>2. \A w \in World : players'[w] = players[w]
  <2>1. players' = players \/ \E S : players' = [players EXCEPT ![Lobby] = S]
    BY DEF LobbyHandler, HandleLoginByToken, LobbyDisconnect, HandleGameTokenToRedisRs,
         HandleQueryPlayerRs, LobbyBroadcastCreateWorldProxy, LobbyTeleportAfter, Ignored,
         AddPlayer, RemovePlayerFromLobby, RemovePlayerOf
  <2> QED BY ONLY <1>0, <2>1, TypeInv, QueueNames DEF TypeInv, PlayerTypes
<1>3. box[Lobby] # <<>>
  BY DEF LobbyHandler, HandleLoginByToken, LobbyDisconnect, HandleGameTokenToRedisRs,
         HandleQueryPlayerRs, LobbyBroadcastCreateWorldProxy, LobbyTeleportAfter, Handles
<1>4. CASE HandleLoginByToken
  <2> DEFINE s == Message(Lobby).sock
             a == Owner[s]
             key == <<NetworkListenKey(s)>>
             ask == <<GameToken(a)>>
             posts == [[Nothing EXCEPT ![Net] = key] EXCEPT ![Redis] = ask]
  <2>0. Message(Lobby) \in Packets /\ Message(Lobby).type = "LoginByToken"
    BY <1>4, Received, QueueNames DEF HandleLoginByToken
  <2>1. s \in Socket /\ a \in Account
    BY <2>0, PacketFields, TeleportAssumption
  <2>2. /\ key \in Seq(Packets) /\ ask \in Seq(Packets)
        /\ \A m : In(key, m) => m.type # "Teleport"
        /\ \A m : In(ask, m) => m.type # "Teleport"
    BY <2>1, PacketTypes, TypeNames DEF In
  <2>3. Reply(Lobby, posts)
    BY <1>4 DEF HandleLoginByToken
  <2> HIDE DEF key, ask
  <2>4. Net \in Queue /\ Redis \in Queue /\ Proper(Nothing)
    BY QueueNames, ProperPosts
  <2>5. Proper([Nothing EXCEPT ![Net] = key])
    BY ONLY <2>2, <2>4, ProperPosts
  <2>6. Proper(posts)
    BY ONLY <2>2, <2>4, <2>5, ProperPosts
  <2>7. \A w \in World : posts[Space(w)] = <<>>
    <3> DEFINE first == [Nothing EXCEPT ![Net] = key]
    <3>1. Nothing \in Boxes /\ first \in Boxes
      BY <2>5, PostTypes DEF Proper
    <3>2. \A w \in World : first[Space(w)] = <<>>
      BY ONLY <2>2, <3>1, NotToSpace
    <3>3. posts = [first EXCEPT ![Redis] = ask]
      OBVIOUS
    <3> HIDE DEF first, posts
    <3> QED BY ONLY <2>2, <3>1, <3>2, <3>3, NotToSpace
  <2> HIDE DEF posts
  <2> QED BY <1>0, <1>1, <1>2, <1>3, <2>3, <2>6, <2>7, CalmPost, NotToSpace DEF TypeInv
<1>5. CASE LobbyDisconnect
  <2>1. Reply(Lobby, Nothing)
    BY <1>5 DEF LobbyDisconnect, Ignored
  <2> QED BY <1>0, <1>1, <1>2, <1>3, <2>1, CalmTake
<1>6. CASE HandleGameTokenToRedisRs
  <2>1. QueryPlayer(Message(Lobby).acct) \in Packets
    BY <1>6, Received, PacketFields, PacketTypes, QueueNames DEF HandleGameTokenToRedisRs
  <2>2. Reply(Lobby, Nothing) \/ Reply(Lobby, To(Db, QueryPlayer(Message(Lobby).acct)))
    BY <1>6 DEF HandleGameTokenToRedisRs
  <2>3. CASE Reply(Lobby, Nothing)
    BY <1>0, <1>1, <1>2, <1>3, <2>3, CalmTake
  <2>4. CASE Reply(Lobby, To(Db, QueryPlayer(Message(Lobby).acct)))
    BY <1>0, <1>1, <1>2, <1>3, <2>1, <2>4, CalmAnswer, TypeNames
  <2> QED BY <2>2, <2>3, <2>4
<1>7. CASE HandleQueryPlayerRs
  <2> DEFINE m == Message(Lobby)
  <2>1. m.acct \in Account /\ m.world \in World
    BY <1>7, Received, PacketFields, QueueNames DEF HandleQueryPlayerRs, ByAcctWorld
  <2>2. CASE Reply(Lobby, Nothing)
    BY <1>0, <1>1, <1>2, <1>3, <2>2, CalmTake
  <2>3. ASSUME NEW x \in ByAccount(m.acct),
               Reply(Lobby, To(m.world, TeleportTo(Identified(x, m.acct), Lobby)))
        PROVE  Calm
    <3> DEFINE y == Identified(x, m.acct)
    <3>1. x \in Player /\ x.sock = accounts[m.acct]
      BY <1>0 DEF ByAccount, TypeInv, PlayerTypes
    <3>2. y \in Known /\ y.sock = x.sock /\ y.sn = m.acct
      BY <2>1, <3>1 DEF Identified, Player, Known
    <3>3. accounts[m.acct] # None
      BY <3>1, TeleportAssumption DEF Player
    <3>4. Named(y)
      BY <2>1, <3>1, <3>2, <3>3 DEF Named
    <3>5. TeleportTo(y, Lobby) \in Packets /\ TeleportTo(y, Lobby).player = y
      BY <1>0, <3>2, PacketTypes, TypeNames
    <3>6. Reply(Lobby, To(m.world, TeleportTo(y, Lobby))) /\ m.world \in Place
      BY <2>1, <2>3, QueueNames
    <3> HIDE DEF y, m
    <3> QED BY <1>0, <1>1, <1>2, <1>3, <3>4, <3>5, <3>6, CalmAnswer
  <2> QED BY <1>7, <2>2, <2>3 DEF HandleQueryPlayerRs, Ignored
<1>8. CASE LobbyBroadcastCreateWorldProxy
  <2> DEFINE w == Message(Lobby).world
             ready == UNION {BySn(Lobby, a) : a \in waiting[w]}
  <2>1. w \in World /\ w \in Place
    BY <1>8, Received, PacketFields, QueueNames DEF LobbyBroadcastCreateWorldProxy
  <2>2. PICK packets \in Teleports(ready, Lobby) : Reply(Lobby, [Nothing EXCEPT ![w] = packets])
    BY <1>8 DEF LobbyBroadcastCreateWorldProxy
  <2>3. ready \subseteq Known /\ ready \subseteq players[Lobby]
    BY <1>0, <2>1, FoundTypes DEF TypeInv, PlayerTypes
  <2>4. IsFiniteSet(ready)
    BY <1>0, <2>3, FS_Subset DEF TypeInv, PlayerTypes
  <2>5. /\ packets \in Seq(Packets)
        /\ \A m : In(packets, m) => \E x \in ready : m = TeleportTo(x, Lobby)
    BY <1>0, <2>2, <2>3, <2>4, TeleportsOf
  <2>6. \A m : In(packets, m) /\ m.type = "Teleport" => Named(m.player)
    BY <1>0, <2>3, <2>5, TypeNames
  <2> DEFINE posts == [Nothing EXCEPT ![w] = packets]
  <2>7. Proper(posts)
    <3>1. w \in Queue /\ Proper(Nothing)
      BY <2>1, QueueNames, ProperPosts
    <3> QED BY ONLY <2>5, <2>6, <3>1, ProperPosts
  <2>8. \A v \in World : posts[Space(v)] = <<>>
    BY <2>1, <2>5, NotToSpace, PostTypes
  <2>9. Reply(Lobby, posts)
    BY <2>2
  <2> HIDE DEF posts
  <2> QED BY <1>0, <1>1, <1>2, <1>3, <2>7, <2>8, <2>9, CalmPost, NotToSpace DEF TypeInv
<1>9. CASE LobbyTeleportAfter
  <2>1. Reply(Lobby, Nothing)
    BY <1>9 DEF LobbyTeleportAfter, Ignored
  <2> QED BY <1>0, <1>1, <1>2, <1>3, <2>1, CalmTake
<1> QED BY <1>4, <1>5, <1>6, <1>7, <1>8, <1>9 DEF LobbyHandler

\* The steps of a WorldProxy that move no player.
LEMMA CalmProxy ==
  ASSUME TypeInv, NamedBoxes, NEW w \in World,
         \A p \in Place : \A x \in players[p] : Named(x),
         \/ HandleS2GSyncPlayer(w) \/ HandleBroadcastCreateWorldProxy(w)
         \/ HandleDefaultFunction(w) \/ ProxyAwake(w)
  PROVE  Calm
<1> USE DEF thread, lobby, world, space
<1>0. w \in Place /\ w \in Queue
  BY QueueNames
<1>1. \A v \in World : players'[v] = players[v] /\ inWorld'[v] = inWorld[v]
  BY DEF HandleS2GSyncPlayer, HandleBroadcastCreateWorldProxy, HandleDefaultFunction, ProxyAwake,
         Ignored
<1>2. CASE HandleS2GSyncPlayer(w)
  <2>1. Message(w).acct \in Account /\ box[w] # <<>>
    BY <1>0, <1>2, Received, PacketFields DEF HandleS2GSyncPlayer, ByAcct
  <2>2. CASE Reply(w, Nothing)
    BY <1>0, <1>1, <2>1, <2>2, CalmTake
  <2>3. ASSUME NEW x \in BySn(w, Message(w).acct), NEW o \in objects[w],
               Reply(w, To(o.target, TeleportTo(x, w)))
        PROVE  Calm
    <3>1. x \in Known /\ Named(x) /\ o.target \in Place
      BY <1>0, FoundTypes, QueueNames DEF TypeInv, WorldTypes, ObjectSet
    <3>2. TeleportTo(x, w) \in Packets /\ TeleportTo(x, w).player = x
      BY <1>0, <3>1, PacketTypes, TypeNames
    <3> QED BY <1>0, <1>1, <2>1, <2>3, <3>1, <3>2, CalmAnswer
  <2> QED BY <1>2, <2>2, <2>3 DEF HandleS2GSyncPlayer, Ignored
<1>3. CASE HandleBroadcastCreateWorldProxy(w)
  <2> DEFINE t == Message(w).world
             leaving == UNION {BySn(w, o.sn) : o \in Checked(w, t)}
  <2>1. t \in World /\ t \in Place /\ box[w] # <<>>
    BY <1>0, <1>3, Received, PacketFields, QueueNames DEF HandleBroadcastCreateWorldProxy
  <2>2. CASE UNCHANGED box
    BY <1>1, <2>2 DEF Calm, Undisturbed, NamedBoxes
  <2>3. ASSUME NEW packets \in Teleports(leaving, w), Reply(w, [Nothing EXCEPT ![t] = packets])
        PROVE  Calm
    <3>1. leaving \subseteq players[w] /\ leaving \subseteq Known
      BY <1>0, FoundTypes
    <3>2. IsFiniteSet(leaving)
      BY <1>0, <3>1, FS_Subset DEF TypeInv, PlayerTypes
    <3>3. /\ packets \in Seq(Packets)
          /\ \A m : In(packets, m) => \E x \in leaving : m = TeleportTo(x, w)
      BY <1>0, <2>3, <3>1, <3>2, TeleportsOf
    <3>4. \A m : In(packets, m) /\ m.type = "Teleport" => Named(m.player)
      BY <1>0, <3>1, <3>3, TypeNames
    <3> DEFINE posts == [Nothing EXCEPT ![t] = packets]
    <3>5. Proper(posts)
      <4>1. t \in Queue /\ Proper(Nothing)
        BY <2>1, QueueNames, ProperPosts
      <4> QED BY ONLY <3>3, <3>4, <4>1, ProperPosts
    <3>6. \A v \in World : posts[Space(v)] = <<>>
      BY <2>1, <3>3, NotToSpace, PostTypes
    <3>7. Reply(w, posts)
      BY <2>3
    <3> HIDE DEF posts
    <3> QED BY <1>0, <1>1, <2>1, <3>5, <3>6, <3>7, CalmPost, NotToSpace DEF TypeInv
  <2> QED BY <1>3, <2>2, <2>3 DEF HandleBroadcastCreateWorldProxy
<1>4. CASE HandleDefaultFunction(w)
  <2>1. Message(w).world \in World /\ box[w] # <<>>
    BY <1>0, <1>4, Received, PacketFields DEF HandleDefaultFunction, ByAcctWorld
  <2>2. CASE Reply(w, Nothing)
    BY <1>0, <1>1, <2>1, <2>2, CalmTake
  <2>3. ASSUME NEW x \in BySn(w, Message(w).acct), Reply(w, To(Net, Send(x.sock, Message(w).world)))
        PROVE  Calm
    <3>1. x.sock \in Socket
      BY <1>0, FoundTypes DEF Player
    <3>2. Send(x.sock, Message(w).world) \in Packets
      BY <2>1, <3>1, PacketTypes
    <3> QED BY <1>0, <1>1, <2>1, <2>3, <3>2, CalmAnswer, TypeNames
  <2> QED BY <1>4, <2>2, <2>3 DEF HandleDefaultFunction
<1>5. CASE ProxyAwake(w)
  <2>1. BroadcastProxy(w) \in Packets
    BY PacketTypes
  <2>2. Proper(ToAll(BroadcastProxy(w))) /\ \A v \in World : ToAll(BroadcastProxy(w))[Space(v)] = <<>>
    BY <2>1, ProperPosts, NotToSpace, TypeNames
  <2>3. Post(ToAll(BroadcastProxy(w)))
    BY <1>5 DEF ProxyAwake
  <2> QED BY <1>1, <2>2, <2>3, CalmPost DEF TypeInv
<1> QED BY <1>2, <1>3, <1>4, <1>5

LEMMA CalmExpire ==
  ASSUME NamedBoxes, NEW a \in Account, Expire(a)
  PROVE  Calm
BY DEF Expire, Calm, Undisturbed, NamedBoxes, space

(***************************************************************************)
(* Who a player is.                                                        *)
(***************************************************************************)
PeopleInv ==
  /\ \A p \in Place : \A x \in players[p] : Named(x)
  /\ \A w \in World : \A x, y \in players[w] : x.sock = y.sock => x = y
  /\ \A a \in Account : accounts[a] # None => Owner[accounts[a]] = a

NamesInv == PeopleInv /\ NamedBoxes

LEMMA PeopleLogin ==
  ASSUME TypeInv, NamesInv, HandleLoginByToken
  PROVE  PeopleInv'
<1> DEFINE s == Message(Lobby).sock
           x == NewPlayer(s, 0, 1)
<1>0. s \in Socket
  BY Received, PacketFields, QueueNames DEF HandleLoginByToken
<1>1. /\ players' = [players EXCEPT ![Lobby] = @ \cup {x}]
      /\ accounts' = [accounts EXCEPT ![Owner[s]] = s]
  BY DEF HandleLoginByToken, AddPlayer
<1>2. Named(x)
  BY DEF Named, NewPlayer
<1> HIDE DEF s, x
<1>3. \A a \in Account : accounts'[a] # None => Owner[accounts'[a]] = a
  BY <1>0, <1>1, TeleportAssumption DEF NamesInv, PeopleInv, TypeInv, PlayerTypes
<1>4. \A p \in Place : \A y \in players'[p] : Named(y)
  BY <1>1, <1>2 DEF NamesInv, PeopleInv, TypeInv, PlayerTypes
<1>5. \A w \in World : players'[w] = players[w]
  BY <1>1, QueueNames DEF TypeInv, PlayerTypes
<1> QED BY <1>3, <1>4, <1>5 DEF NamesInv, PeopleInv

LEMMA PeopleQuery ==
  ASSUME TypeInv, NamesInv, HandleQueryPlayerRs
  PROVE  PeopleInv'
<1> DEFINE a == Message(Lobby).acct
<1>0. a \in Account /\ Lobby \in Place
  BY Received, PacketFields, QueueNames DEF HandleQueryPlayerRs, ByAcctWorld
<1>1. CASE UNCHANGED <<players, accounts>>
  BY <1>1 DEF NamesInv, PeopleInv
<1>2. ASSUME NEW x \in ByAccount(a), UNCHANGED accounts,
             players' = [players EXCEPT ![Lobby] = (@ \ {x}) \cup {Identified(x, a)}]
      PROVE  PeopleInv'
  <2> DEFINE y == Identified(x, a)
  <2>1. x \in Player /\ x.sock = accounts[a]
    BY <1>0 DEF ByAccount, TypeInv, PlayerTypes
  <2>2. y.sock = x.sock /\ y.sn = a
    BY <2>1 DEF Identified, Player
  <2>3. accounts[a] # None
    BY <2>1, TeleportAssumption DEF Player
  <2>4. Named(y)
    BY <1>0, <2>1, <2>2, <2>3 DEF Named, NamesInv, PeopleInv
  <2> HIDE DEF y
  <2>5. players' = [players EXCEPT ![Lobby] = (@ \ {x}) \cup {y}]
    BY <1>2 DEF y
  <2>6. \A p \in Place : \A z \in players'[p] : Named(z)
    BY <1>0, <2>4, <2>5 DEF NamesInv, PeopleInv, TypeInv, PlayerTypes
  <2>7. \A w \in World : players'[w] = players[w]
    BY <2>5, QueueNames DEF TypeInv, PlayerTypes
  <2> QED BY <1>2, <2>6, <2>7 DEF NamesInv, PeopleInv
<1> QED BY <1>1, <1>2 DEF HandleQueryPlayerRs, Ignored, lobby

LEMMA PeopleLeave ==
  ASSUME TypeInv, NamesInv, NEW p \in Place, NEW x \in players[p], RemovePlayerOf(p, x),
         UNCHANGED accounts \/ (p = Lobby /\ RemovePlayerFromLobby(x))
  PROVE  PeopleInv'
<1>1. \A q \in Place : players'[q] \subseteq players[q]
  BY DEF RemovePlayerOf, TypeInv, PlayerTypes
<1>2. \A w \in World : w \in Place
  BY QueueNames
<1>3. \A a \in Account : accounts'[a] # None => accounts'[a] = accounts[a]
  BY DEF RemovePlayerFromLobby, TypeInv, PlayerTypes
<1>4. \A a \in Account : accounts'[a] # None => Owner[accounts'[a]] = a
  BY <1>3 DEF NamesInv, PeopleInv
<1> QED BY <1>1, <1>2, <1>4 DEF NamesInv, PeopleInv

LEMMA PeopleTeleport ==
  ASSUME TypeInv, NamesInv, NEW w \in World, HandleTeleport(w)
  PROVE  PeopleInv'
<1>1. CASE Ignored(w)
  BY <1>1 DEF Ignored, NamesInv, PeopleInv, lobby
<1>2. CASE Arrival(w)
  <2> DEFINE old == Message(w).player
             x == NewPlayer(old.sock, old.sn, NewerVersion(old))
  <2>0. In(box[w], Message(w)) /\ Message(w).type = "Teleport" /\ w \in Queue /\ w \in Place
    BY Received, TeleportArrival, QueueNames
  <2>1. Named(old)
    BY <2>0 DEF NamesInv, NamedBoxes
  <2>2. Named(x) /\ x.sock = old.sock
    BY <2>1 DEF Named, NewPlayer
  <2>3. /\ players' = [players EXCEPT ![w] = @ \cup {x}]
        /\ BySocket(w, x.sock) = {} /\ UNCHANGED accounts
    BY <1>2 DEF Arrival, AddPlayer, lobby
  <2> HIDE DEF old, x
  <2>4. \A p \in Place : \A z \in players'[p] : Named(z)
    BY <2>0, <2>2, <2>3 DEF NamesInv, PeopleInv, TypeInv, PlayerTypes
  <2>5. \A y \in players[w] : y.sock # x.sock
    BY <2>3 DEF BySocket
  <2>6. \A v \in World : \A y, z \in players'[v] : y.sock = z.sock => y = z
    <3> SUFFICES ASSUME NEW v \in World, NEW y \in players'[v], NEW z \in players'[v], y.sock = z.sock
                 PROVE  y = z
      OBVIOUS
    <3>1. CASE v # w
      BY <2>3, <3>1, QueueNames DEF NamesInv, PeopleInv, TypeInv, PlayerTypes
    <3>2. CASE v = w
      <4>1. players'[w] = players[w] \cup {x}
        BY <2>0, <2>3 DEF TypeInv, PlayerTypes
      <4>2. \A g, h \in players[w] : g.sock = h.sock => g = h
        BY DEF NamesInv, PeopleInv
      <4> QED BY <2>5, <3>2, <4>1, <4>2
    <3> QED BY <3>1, <3>2
  <2> QED BY <2>3, <2>4, <2>6 DEF NamesInv, PeopleInv
<1> QED BY <1>1, <1>2, TeleportArrival

LEMMA NamesInit == Init => NamesInv
<1> SUFFICES ASSUME Init PROVE NamesInv
  OBVIOUS
<1>1. \A q \in Queue : \A m : ~In(box[q], m)
  BY DEF Init, In
<1> QED BY <1>1, QueueNames DEF Init, NamesInv, PeopleInv, NamedBoxes

(***************************************************************************)
(* The World and its WorldProxy agree.                                     *)
(***************************************************************************)
LEMMA AgreeInit == Init => AgreeInv
<1> SUFFICES ASSUME Init, NEW w \in World, NEW a \in Account
             PROVE  Coming(box[Space(w)], inWorld[w], a) <=> \E x \in players[w] : x.sn = a
  BY DEF AgreeInv
<1>1. box[Space(w)] = <<>> /\ inWorld[w] = {} /\ players[w] = {}
  BY QueueNames DEF Init
<1> QED BY <1>1 DEF Coming

LEMMA AgreeUndisturbed ==
  ASSUME AgreeInv, Undisturbed
  PROVE  AgreeInv'
BY DEF AgreeInv, Undisturbed

\* A WorldProxy tells its World one thing.
LEMMA AgreeTold ==
  ASSUME TypeInv, AgreeInv, NEW w \in World, NEW r \in Place, box[r] # <<>>,
         NEW posts \in Boxes, NEW m \in Packets, posts[Space(w)] = <<m>>,
         \A v \in World : v # w => posts[Space(v)] = <<>>,
         Reply(r, posts), UNCHANGED inWorld,
         \A v \in World : v # w => players'[v] = players[v],
         \A a \in Account : (\E x \in players'[w] : x.sn = a) <=>
           IF About(m, a) THEN m.type = "SyncPlayer" ELSE \E x \in players[w] : x.sn = a
  PROVE  AgreeInv'
<1>0. /\ r \in Queue /\ box \in Boxes
      /\ \A v \in World : Space(v) \in Queue /\ r # Space(v)
  BY NotToSpace, QueueNames DEF TypeInv
<1>1. ASSUME NEW v \in World, v # w PROVE box'[Space(v)] = box[Space(v)]
  BY <1>0, <1>1, Kept
<1>2. box[Space(w)] \in Seq(Packets)
  BY <1>0 DEF Boxes
<1>3. box'[Space(w)] = Append(box[Space(w)], m)
  <2>1. box'[Space(w)] = box[Space(w)] \o <<m>>
    BY <1>0 DEF Reply
  <2> QED BY <1>2, <2>1
<1>4. ASSUME NEW a \in Account
      PROVE  Coming(box'[Space(w)], inWorld[w], a) <=> \E x \in players'[w] : x.sn = a
  <2>1. Coming(box'[Space(w)], inWorld[w], a) <=>
          IF About(m, a) THEN m.type = "SyncPlayer" ELSE Coming(box[Space(w)], inWorld[w], a)
    BY ONLY <1>2, <1>3, ComingAppend, m \in Packets
  <2>2. Coming(box[Space(w)], inWorld[w], a) <=> \E x \in players[w] : x.sn = a
    BY DEF AgreeInv
  <2> QED BY <2>1, <2>2
<1>5. ASSUME NEW v \in World, NEW a \in Account
      PROVE  Coming(box'[Space(v)], inWorld'[v], a) <=> \E x \in players'[v] : x.sn = a
  <2>1. CASE v = w
    BY <1>4, <2>1
  <2>2. CASE v # w
    BY <1>1, <2>2 DEF AgreeInv
  <2> QED BY <2>1, <2>2
<1> QED BY <1>5 DEF AgreeInv

LEMMA AgreeArrival ==
  ASSUME TypeInv, AgreeInv, NEW w \in World, HandleTeleport(w)
  PROVE  AgreeInv'
<1>0. /\ box[w] # <<>> /\ w \in Place /\ w \in Queue
      /\ Message(w).player \in Known /\ Message(w).from \in Place
  BY Received, PacketFields, QueueNames, TeleportArrival
<1>1. CASE Ignored(w)
  <2>1. \A v \in World : players'[v] = players[v] /\ inWorld'[v] = inWorld[v]
    BY <1>1 DEF Ignored, space
  <2>2. Reply(w, Nothing)
    BY <1>1 DEF Ignored
  <2>3. \A v \in World : box'[Space(v)] = box[Space(v)]
    <3>1. Nothing \in Boxes /\ \A v \in World : Nothing[Space(v)] = <<>>
      BY PostTypes, NotToSpace
    <3> QED BY <1>0, <2>2, <3>1, Kept, QueueNames DEF TypeInv
  <2> QED BY <2>1, <2>3, AgreeUndisturbed DEF Undisturbed
<1>2. CASE Arrival(w)
  <2> DEFINE from == Message(w).from
             x == NewPlayer(Message(w).player.sock, Message(w).player.sn,
                            NewerVersion(Message(w).player))
             m == SyncPlayer(x.sn)
             posts == ArrivalPosts(w, x, from)
  <2>1. x \in Known
    BY <1>0 DEF NewPlayer, NewerVersion, Known, Version
  <2>2. /\ players' = [players EXCEPT ![w] = @ \cup {x}]
        /\ Reply(w, posts) /\ UNCHANGED inWorld
    BY <1>2 DEF Arrival, AddPlayer, space
  <2>3. from \in Place
    BY <1>0
  <2> HIDE DEF x, from
  <2>4. /\ posts \in Boxes /\ posts[Space(w)] = <<m>>
        /\ \A q \in Queue \ {Net, Space(w), from} : posts[q] = <<>>
    BY ONLY <2>1, <2>3, ArrivalPostTypes, w \in World
  <2>5. \A v \in World : v # w => posts[Space(v)] = <<>>
    <3>1. \A v \in World : v # w => Space(v) \in Queue \ {Net, Space(w), from}
      BY <2>3, QueueNames
    <3> QED BY <2>4, <3>1
  <2>6. m \in Packets
    BY <2>1, PacketTypes DEF Known
  <2>7. /\ players'[w] = players[w] \cup {x}
        /\ \A v \in World : v # w => players'[v] = players[v]
    BY <1>0, <2>2, QueueNames DEF TypeInv, PlayerTypes
  <2>8. \A a : (About(m, a) <=> a = x.sn) /\ m.type = "SyncPlayer"
    BY DEF About, SyncPlayer
  <2> HIDE DEF m, posts
  <2>9. \A a \in Account : (\E y \in players'[w] : y.sn = a) <=>
           IF About(m, a) THEN m.type = "SyncPlayer" ELSE \E y \in players[w] : y.sn = a
    BY <2>7, <2>8
  <2> QED BY <1>0, <2>2, <2>4, <2>5, <2>6, <2>7, <2>9, AgreeTold
<1> QED BY <1>1, <1>2, TeleportArrival

\* The player that leaves is the only one of its account here.
LEMMA AgreeLeave ==
  ASSUME TypeInv, AgreeInv, NEW w \in World, box[w] # <<>>, NEW x \in players[w],
         \A y \in players[w] : y.sn = x.sn => y = x,
         NEW m \in Packets, m.type \in {"RemovePlayer", "PlayerGone"}, m.acct = x.sn,
         Leave(w, x, m)
  PROVE  AgreeInv'
<1>0. w \in Place /\ w \in Queue /\ Space(w) \in Queue
  BY QueueNames
<1>1. /\ players' = [players EXCEPT ![w] = @ \ {x}]
      /\ Reply(w, To(Space(w), m)) /\ UNCHANGED inWorld
  BY DEF Leave, RemovePlayerOf, space
<1>2. /\ To(Space(w), m) \in Boxes /\ To(Space(w), m)[Space(w)] = <<m>>
      /\ \A v \in World : v # w => To(Space(w), m)[Space(v)] = <<>>
  BY <1>0, PostTypes, QueueNames
<1>3. /\ players'[w] = players[w] \ {x}
      /\ \A v \in World : v # w => players'[v] = players[v]
  BY <1>0, <1>1, QueueNames DEF TypeInv, PlayerTypes
<1>4. \A a : (About(m, a) <=> a = x.sn) /\ m.type # "SyncPlayer"
  BY DEF About
<1>5. \A a \in Account : (\E y \in players'[w] : y.sn = a) <=>
        IF About(m, a) THEN m.type = "SyncPlayer" ELSE \E y \in players[w] : y.sn = a
  BY <1>3, <1>4
<1> QED BY <1>0, <1>1, <1>2, <1>3, <1>5, AgreeTold

LEMMA AgreeRequest ==
  ASSUME TypeInv, AgreeInv, NEW w \in World, HandleC2GEnterWorld(w)
  PROVE  AgreeInv'
<1>0. box[w] # <<>> /\ w \in Place /\ w \in Queue /\ Space(w) \in Queue
  BY Received, QueueNames DEF HandleC2GEnterWorld
<1>1. UNCHANGED players /\ UNCHANGED inWorld
  BY DEF HandleC2GEnterWorld, Ignored, space
<1>2. CASE Reply(w, Nothing)
  <2>1. \A v \in World : box'[Space(v)] = box[Space(v)]
    <3>1. Nothing \in Boxes /\ \A v \in World : Nothing[Space(v)] = <<>>
      BY PostTypes, NotToSpace
    <3> QED BY <1>0, <1>2, <3>1, Kept, QueueNames DEF TypeInv
  <2> QED BY <1>1, <2>1, AgreeUndisturbed DEF Undisturbed
<1>3. ASSUME NEW x \in BySocket(w, Message(w).sock), Reply(w, To(Space(w), RequestSync(x.sn)))
      PROVE  AgreeInv'
  <2> DEFINE m == RequestSync(x.sn)
  <2>1. x.sn \in Account
    BY <1>0, FoundTypes DEF Known
  <2>2. m \in Packets
    BY <2>1, PacketTypes
  <2>3. /\ To(Space(w), m) \in Boxes /\ To(Space(w), m)[Space(w)] = <<m>>
        /\ \A v \in World : v # w => To(Space(w), m)[Space(v)] = <<>>
    BY <1>0, <2>2, PostTypes, QueueNames
  <2>4. \A a : ~About(m, a)
    BY DEF About, RequestSync
  <2> HIDE DEF m
  <2>5. Reply(w, To(Space(w), m))
    BY <1>3 DEF m
  <2> QED BY <1>0, <1>1, <2>2, <2>3, <2>4, <2>5, AgreeTold
<1> QED BY <1>2, <1>3 DEF HandleC2GEnterWorld, Ignored

\* The World handles what it was told.
LEMMA AgreeSpace ==
  ASSUME TypeInv, AgreeInv, NEW w \in World, SpaceStep(w)
  PROVE  AgreeInv'
<1> DEFINE q == Space(w)
           m == Message(q)
<1>0. /\ box[q] # <<>> /\ q \in Queue /\ m = Head(box[q]) /\ m \in Packets
      /\ box[q] \in Seq(Packets)
      /\ m.type \in {"SyncPlayer", "RequestSync", "RemovePlayer", "PlayerGone"}
  BY Received, QueueNames
     DEF SpaceStep, HandleSyncPlayer, HandleRequestSyncPlayer, HandleG2SRemovePlayer,
         WorldDisconnect, TypeInv, Boxes
<1>1. m.acct \in Account
  BY <1>0, PacketFields DEF ByAcct
<1>2. UNCHANGED players
  BY DEF SpaceStep, HandleSyncPlayer, HandleRequestSyncPlayer, HandleG2SRemovePlayer,
         WorldDisconnect
<1>3. PICK posts \in Boxes : Reply(q, posts) /\ \A v \in World : posts[Space(v)] = <<>>
  <2>1. /\ ToClient(m.acct, w) \in Packets /\ S2GSyncPlayer(m.acct) \in Packets
        /\ SavePlayer(m.acct, w) \in Packets
    BY <1>1, PacketTypes
  <2>2. /\ To(w, ToClient(m.acct, w)) \in Boxes /\ To(w, S2GSyncPlayer(m.acct)) \in Boxes
        /\ To(Db, SavePlayer(m.acct, w)) \in Boxes /\ Nothing \in Boxes
    BY <2>1, PostTypes, QueueNames
  <2>3. \A v \in World :
          /\ To(w, ToClient(m.acct, w))[Space(v)] = <<>>
          /\ To(w, S2GSyncPlayer(m.acct))[Space(v)] = <<>>
          /\ To(Db, SavePlayer(m.acct, w))[Space(v)] = <<>> /\ Nothing[Space(v)] = <<>>
    BY <2>1, NotToSpace, QueueNames
  <2>4. \/ Reply(q, Nothing) \/ Reply(q, To(w, ToClient(m.acct, w)))
        \/ Reply(q, To(w, S2GSyncPlayer(m.acct))) \/ Reply(q, To(Db, SavePlayer(m.acct, w)))
    BY DEF SpaceStep, HandleSyncPlayer, HandleRequestSyncPlayer, HandleG2SRemovePlayer,
           WorldDisconnect
  <2> QED BY <2>2, <2>3, <2>4
<1>4. box'[q] = Tail(box[q])
  <2>1. box'[q] = Tail(box[q]) \o posts[q]
    BY <1>0, <1>3 DEF Reply
  <2>2. Tail(box[q]) \in Seq(Packets) /\ posts[q] = <<>>
    BY <1>0, <1>3
  <2> QED BY <2>1, <2>2
<1>5. ASSUME NEW v \in World, v # w PROVE box'[Space(v)] = box[Space(v)]
  BY <1>0, <1>3, <1>5, Kept, QueueNames DEF TypeInv
<1>6. /\ \A v \in World : v # w => inWorld'[v] = inWorld[v]
      /\ \A a \in Account :
           IF About(m, a) THEN a \in inWorld'[w] <=> m.type = "SyncPlayer"
                          ELSE a \in inWorld'[w] <=> a \in inWorld[w]
  <2>1. \/ /\ m.type = "SyncPlayer"
           /\ inWorld' = [inWorld EXCEPT ![w] = @ \cup {m.acct}]
        \/ m.type = "RequestSync" /\ inWorld' = inWorld
        \/ /\ m.type \in {"RemovePlayer", "PlayerGone"}
           /\ inWorld' = [inWorld EXCEPT ![w] = @ \ {m.acct}]
    BY DEF SpaceStep, HandleSyncPlayer, HandleRequestSyncPlayer, HandleG2SRemovePlayer,
           WorldDisconnect, Handles, Message, space
  <2> HIDE DEF m, q
  <2> QED BY <1>1, <2>1 DEF About, TypeInv, WorldTypes
<1>7. ASSUME NEW a \in Account
      PROVE  Coming(box'[q], inWorld'[w], a) <=> \E x \in players[w] : x.sn = a
  <2>1. IF About(Head(box[q]), a) THEN a \in inWorld'[w] <=> Head(box[q]).type = "SyncPlayer"
                                  ELSE a \in inWorld'[w] <=> a \in inWorld[w]
    BY <1>0, <1>6
  <2>2. Coming(Tail(box[q]), inWorld'[w], a) <=> Coming(box[q], inWorld[w], a)
    BY ONLY <1>0, <2>1, ComingTail
  <2>3. Coming(box[q], inWorld[w], a) <=> \E x \in players[w] : x.sn = a
    BY DEF AgreeInv
  <2> QED BY <1>4, <2>2, <2>3
<1>8. ASSUME NEW v \in World, NEW a \in Account
      PROVE  Coming(box'[Space(v)], inWorld'[v], a) <=> \E x \in players'[v] : x.sn = a
  <2>1. CASE v = w
    BY <1>2, <1>7, <2>1
  <2>2. CASE v # w
    BY <1>2, <1>5, <1>6, <2>2 DEF AgreeInv
  <2> QED BY <2>1, <2>2
<1> QED BY <1>8 DEF AgreeInv

\* The steps that are calm, and those that are not.
CalmStep ==
  \/ ClientStep \/ NetStep \/ RedisStep \/ DbStep \/ LobbyHandler
  \/ \E w \in World : \/ HandleS2GSyncPlayer(w) \/ HandleBroadcastCreateWorldProxy(w)
                      \/ HandleDefaultFunction(w) \/ ProxyAwake(w)
  \/ \E p \in Place : FrameStep(p) \/ Period(p)
  \/ \E a \in Account : Expire(a)

LEMMA Steps ==
  Next => \/ CalmStep
          \/ \E w \in World : \/ HandleTeleport(w) \/ HandleTeleportAfter(w)
                              \/ HandleNetworkDisconnect(w) \/ HandleC2GEnterWorld(w)
                              \/ SpaceStep(w)
BY DEF Next, CalmStep, ProxyHandler

LEMMA CalmSteps ==
  ASSUME TypeInv, NamesInv, CalmStep
  PROVE  Calm
BY CalmClient, CalmNet, CalmRedis, CalmDb, CalmLobby, CalmProxy, CalmFrame, CalmExpire
   DEF CalmStep, ClientStep, NamesInv, PeopleInv

LEMMA PeopleNext ==
  ASSUME TypeInv, NamesInv, [Next]_vars
  PROVE  PeopleInv'
<1> USE DEF client, redis, thread, lobby, world, space, fate
<1>1. CASE UNCHANGED <<players, accounts>>
  BY <1>1 DEF NamesInv, PeopleInv
<1>2. CASE LobbyDisconnect \/ LobbyTeleportAfter
  <2>1. CASE Ignored(Lobby)
    BY <1>1, <2>1 DEF Ignored
  <2>2. ASSUME NEW x \in players[Lobby], RemovePlayerFromLobby(x) PROVE PeopleInv'
    BY <2>2, PeopleLeave, QueueNames DEF RemovePlayerFromLobby
  <2> QED BY <1>2, <2>1, <2>2 DEF LobbyDisconnect, LobbyTeleportAfter, BySocket, BySn
<1>3. ASSUME NEW w \in World, HandleTeleportAfter(w) \/ HandleNetworkDisconnect(w)
      PROVE  PeopleInv'
  <2>1. CASE Ignored(w)
    BY <1>1, <2>1 DEF Ignored
  <2>2. ASSUME NEW x \in players[w], RemovePlayerOf(w, x), UNCHANGED accounts PROVE PeopleInv'
    BY <2>2, PeopleLeave, QueueNames
  <2> QED BY <1>3, <2>1, <2>2
          DEF HandleTeleportAfter, HandleNetworkDisconnect, Leave, BySocket, BySn
<1>4. CASE ClientStep \/ NetStep \/ RedisStep \/ DbStep
  BY <1>1, <1>4
     DEF ClientStep, NetStep, RedisStep, DbStep, Connect, Close, ClientEnterWorld,
         HandleNetworkListenKey, SendToClient, HandleGameTokenToRedis,
         HandlePlayerSyncOnlineToRedis, HandlePlayerDeleteOnlineToRedis, SetFlag,
         HandleQueryPlayer, HandleSavePlayer
<1>5. ASSUME NEW w \in World,
             \/ HandleC2GEnterWorld(w) \/ HandleS2GSyncPlayer(w)
             \/ HandleBroadcastCreateWorldProxy(w) \/ HandleDefaultFunction(w)
             \/ SpaceStep(w) \/ ProxyAwake(w)
      PROVE  PeopleInv'
  BY <1>1, <1>5
     DEF HandleC2GEnterWorld, HandleS2GSyncPlayer, HandleBroadcastCreateWorldProxy,
         HandleDefaultFunction, SpaceStep, ProxyAwake, HandleSyncPlayer,
         HandleRequestSyncPlayer, HandleG2SRemovePlayer, WorldDisconnect, Ignored
<1>6. ASSUME NEW p \in Place, FrameStep(p) \/ Period(p) PROVE PeopleInv'
  BY <1>1, <1>6 DEF FrameStep, TimerUpdate, EntityUpdate, Period
<1>7. ASSUME NEW a \in Account, Expire(a) PROVE PeopleInv'
  BY <1>1, <1>7 DEF Expire
<1>8. CASE HandleGameTokenToRedisRs \/ LobbyBroadcastCreateWorldProxy
  BY <1>1, <1>8 DEF HandleGameTokenToRedisRs, LobbyBroadcastCreateWorldProxy
<1>9. CASE UNCHANGED vars
  BY <1>1, <1>9 DEF vars
<1> QED BY <1>2, <1>3, <1>4, <1>5, <1>6, <1>7, <1>8, <1>9, PeopleLogin, PeopleQuery,
           PeopleTeleport DEF Next, LobbyHandler, ProxyHandler

\* A step of a WorldProxy that moves a player posts no Teleport.
LEMMA NamedMove ==
  ASSUME TypeInv, NamesInv, NEW w \in World,
         \/ HandleTeleport(w) \/ HandleTeleportAfter(w) \/ HandleNetworkDisconnect(w)
         \/ HandleC2GEnterWorld(w) \/ SpaceStep(w)
  PROVE  NamedBoxes'
<1>0. w \in Place /\ w \in Queue /\ Space(w) \in Queue /\ box \in Boxes /\ NamedBoxes
  BY QueueNames DEF TypeInv, NamesInv
<1>1. ASSUME NEW r \in Queue, box[r] # <<>>, NEW p \in Queue, NEW m \in Packets,
             m.type # "Teleport", Reply(r, To(p, m)) \/ Reply(r, Nothing)
      PROVE  NamedBoxes'
  <2>1. Proper(Nothing) /\ Proper(To(p, m))
    BY <1>1, ProperPosts
  <2> QED BY <1>0, <1>1, <2>1, NamedPost
<1>2. ASSUME NEW r \in Queue, box[r] # <<>>, Ignored(r) PROVE NamedBoxes'
  <2>1. Reply(r, Nothing) /\ Proper(Nothing)
    BY <1>2, ProperPosts DEF Ignored
  <2> QED BY <1>0, <1>2, <2>1, NamedPost
<1>3. CASE HandleTeleport(w)
  <2>0. /\ box[w] # <<>> /\ Message(w).player \in Known /\ Message(w).from \in Place
    BY <1>0, <1>3, Received, PacketFields, TeleportArrival
  <2>1. CASE Arrival(w)
    <3> DEFINE from == Message(w).from
               x == NewPlayer(Message(w).player.sock, Message(w).player.sn,
                              NewerVersion(Message(w).player))
               posts == ArrivalPosts(w, x, from)
    <3>1. x \in Known /\ from \in Place
      BY <2>0 DEF NewPlayer, NewerVersion, Known, Version
    <3>2. Reply(w, posts)
      BY <2>1 DEF Arrival
    <3> HIDE DEF x, from
    <3>3. /\ posts \in Boxes /\ posts[Net] = <<NetworkListenKey(x.sock)>>
          /\ posts[Space(w)] = <<SyncPlayer(x.sn)>> /\ posts[from] = <<TeleportAfter(x.sn)>>
          /\ \A q \in Queue \ {Net, Space(w), from} : posts[q] = <<>>
      BY ONLY <3>1, ArrivalPostTypes, w \in World
    <3> HIDE DEF posts
    <3>4. \A q \in Queue : posts[q] = <<>> \/ \E m : posts[q] = <<m>> /\ m.type # "Teleport"
      BY <3>3, TypeNames
    <3>5. \A q \in Queue : \A m : In(posts[q], m) => m.type # "Teleport"
      BY <3>4 DEF In
    <3>6. Proper(posts)
      BY <3>3, <3>5 DEF Proper
    <3> QED BY <1>0, <2>0, <3>2, <3>6, NamedPost
  <2> QED BY <1>0, <1>2, <1>3, <2>0, <2>1, TeleportArrival
<1>4. CASE HandleTeleportAfter(w) \/ HandleNetworkDisconnect(w)
  <2>0. box[w] # <<>>
    BY <1>4 DEF HandleTeleportAfter, HandleNetworkDisconnect, Handles
  <2>1. CASE Ignored(w)
    BY <1>0, <1>2, <2>0, <2>1
  <2>2. ASSUME NEW x \in players[w],
               Leave(w, x, RemovePlayer(x.sn)) \/ Leave(w, x, PlayerGone(x.sn))
        PROVE  NamedBoxes'
    <3>1. x.sn \in Account
      BY <1>0, FoundTypes DEF Known
    <3>2. {RemovePlayer(x.sn), PlayerGone(x.sn)} \subseteq Packets
      BY <3>1, PacketTypes
    <3> QED BY <1>0, <1>1, <2>0, <2>2, <3>2, TypeNames DEF Leave
  <2> QED BY <1>4, <2>1, <2>2
          DEF HandleTeleportAfter, HandleNetworkDisconnect, BySocket, BySn
<1>5. CASE HandleC2GEnterWorld(w)
  <2>0. box[w] # <<>>
    BY <1>5 DEF HandleC2GEnterWorld, Handles
  <2>1. CASE Ignored(w)
    BY <1>0, <1>2, <2>0, <2>1
  <2>2. ASSUME NEW x \in BySocket(w, Message(w).sock), Reply(w, To(Space(w), RequestSync(x.sn)))
        PROVE  NamedBoxes'
    <3>1. x.sn \in Account
      BY <1>0, FoundTypes DEF Known
    <3>2. RequestSync(x.sn) \in Packets
      BY <3>1, PacketTypes
    <3> QED BY <1>0, <1>1, <2>0, <2>2, <3>2, TypeNames
  <2> QED BY <1>5, <2>1, <2>2 DEF HandleC2GEnterWorld
<1>6. CASE SpaceStep(w)
  <2> DEFINE q == Space(w)
             a == Message(q).acct
  <2>1. a \in Account /\ box[q] # <<>>
    BY <1>0, <1>6, Received, PacketFields
       DEF SpaceStep, HandleSyncPlayer, HandleRequestSyncPlayer, HandleG2SRemovePlayer,
           WorldDisconnect, ByAcct
  <2>2. {ToClient(a, w), S2GSyncPlayer(a), SavePlayer(a, w)} \subseteq Packets
    BY <2>1, PacketTypes
  <2>3. \/ Reply(q, Nothing) \/ Reply(q, To(w, ToClient(a, w)))
        \/ Reply(q, To(w, S2GSyncPlayer(a))) \/ Reply(q, To(Db, SavePlayer(a, w)))
    BY <1>6 DEF SpaceStep, HandleSyncPlayer, HandleRequestSyncPlayer, HandleG2SRemovePlayer,
                WorldDisconnect
  <2>4. /\ ToClient(a, w).type # "Teleport" /\ S2GSyncPlayer(a).type # "Teleport"
        /\ SavePlayer(a, w).type # "Teleport" /\ Db \in Queue
    BY TypeNames, QueueNames
  <2> HIDE DEF a, q
  <2> QED BY <1>0, <1>1, <2>1, <2>2, <2>3, <2>4 DEF q
<1> QED BY <1>3, <1>4, <1>5, <1>6

LEMMA NamesNext == TypeInv /\ NamesInv /\ [Next]_vars => NamesInv'
<1> SUFFICES ASSUME TypeInv, NamesInv, [Next]_vars PROVE NamesInv'
  OBVIOUS
<1>1. PeopleInv'
  BY PeopleNext
<1>2. NamedBoxes'
  <2>1. CASE UNCHANGED vars
    BY <2>1 DEF NamesInv, NamedBoxes, vars
  <2>2. CASE CalmStep
    BY <2>2, CalmSteps DEF Calm
  <2> QED BY <2>1, <2>2, Steps, NamedMove
<1> QED BY <1>1, <1>2 DEF NamesInv

LEMMA NamesInvariant == Spec => []NamesInv
<1>1. Spec => []TypeInv
  BY TypeInvariant
<1> QED BY <1>1, NamesInit, NamesNext, PTL DEF Spec

LEMMA AgreeNext == TypeInv /\ NamesInv /\ NoTwins /\ AgreeInv /\ [Next]_vars => AgreeInv'
<1> SUFFICES ASSUME TypeInv, NamesInv, NoTwins, AgreeInv, [Next]_vars PROVE AgreeInv'
  OBVIOUS
<1>1. CASE UNCHANGED vars
  BY <1>1 DEF AgreeInv, vars, space
<1>2. CASE CalmStep
  BY <1>2, CalmSteps, AgreeUndisturbed DEF Calm
<1>3. ASSUME NEW w \in World, HandleTeleportAfter(w) \/ HandleNetworkDisconnect(w)
      PROVE  AgreeInv'
  <2>0. box[w] # <<>> /\ w \in Place /\ w \in Queue
    BY <1>3, QueueNames DEF HandleTeleportAfter, HandleNetworkDisconnect, Handles
  <2>1. CASE Ignored(w)
    <3>1. \A v \in World : players'[v] = players[v] /\ inWorld'[v] = inWorld[v]
      BY <2>1 DEF Ignored, space
    <3>2. Reply(w, Nothing) /\ w \in Place \cup {Net, Redis, Db}
      BY <2>0, <2>1 DEF Ignored
    <3> QED BY <2>0, <3>1, <3>2, CalmTake, AgreeUndisturbed DEF Calm, NamesInv
  <2>2. ASSUME NEW x \in players[w],
               Leave(w, x, RemovePlayer(x.sn)) \/ Leave(w, x, PlayerGone(x.sn))
        PROVE  AgreeInv'
    <3>1. x.sn \in Account
      BY <2>0, FoundTypes DEF Known
    <3>2. {RemovePlayer(x.sn), PlayerGone(x.sn)} \subseteq Packets
      BY <3>1, PacketTypes
    <3>3. /\ RemovePlayer(x.sn).type = "RemovePlayer" /\ RemovePlayer(x.sn).acct = x.sn
          /\ PlayerGone(x.sn).type = "PlayerGone" /\ PlayerGone(x.sn).acct = x.sn
      BY DEF RemovePlayer, PlayerGone
    <3>4. \A y \in players[w] : y.sn = x.sn => y = x
      BY DEF NoTwins
    <3> QED BY <2>0, <2>2, <3>2, <3>3, <3>4, AgreeLeave
  <2> QED BY <1>3, <2>1, <2>2
          DEF HandleTeleportAfter, HandleNetworkDisconnect, BySocket, BySn
<1> QED BY <1>1, <1>2, <1>3, Steps, AgreeArrival, AgreeRequest, AgreeSpace

LEMMA AgreeImplies == AgreeInv /\ TypeInv => WorldsAgree
<1> SUFFICES ASSUME AgreeInv, TypeInv, NEW w \in World, box[Space(w)] = <<>>
             PROVE  inWorld[w] = {x.sn : x \in players[w]}
  BY DEF WorldsAgree
<1>1. \A a \in Account : Coming(box[Space(w)], inWorld[w], a) <=> a \in inWorld[w]
  BY DEF Coming
<1>2. \A a \in Account : a \in inWorld[w] <=> \E x \in players[w] : x.sn = a
  BY <1>1 DEF AgreeInv
<1>3. inWorld[w] \subseteq Account /\ \A x \in players[w] : x.sn \in Account
  BY QueueNames DEF TypeInv, WorldTypes, PlayerTypes, Known
<1> QED BY <1>2, <1>3

\* However often clients log in, move, close or come back, and whichever places
\* hang: as long as no WorldProxy has two players of one account, its World has
\* the same players once it has handled what it was sent (G2S_SyncPlayer,
\* G2S_RemovePlayer, MI_NetworkDisconnect).
THEOREM WorldsInStep == Spec /\ []NoTwins => []WorldsAgree
<1>1. Spec => []TypeInv /\ []NamesInv
  BY TypeInvariant, NamesInvariant, PTL
<1>2. Spec /\ []NoTwins => []AgreeInv
  BY <1>1, AgreeInit, AgreeNext, PTL DEF Spec
<1> QED BY <1>1, <1>2, AgreeImplies, PTL

\* Each account connects once.
OneSession == \A s, t \in Socket : Owner[s] = Owner[t] => s = t

LEMMA SessionNoTwins == OneSession /\ TypeInv /\ NamesInv => NoTwins
<1> SUFFICES ASSUME OneSession, TypeInv, NamesInv, NEW w \in World,
                    NEW x \in players[w], NEW y \in players[w], x.sn = y.sn
             PROVE  x = y
  BY DEF NoTwins
<1>1. x \in Known /\ y \in Known /\ Named(x) /\ Named(y)
  BY QueueNames DEF TypeInv, PlayerTypes, NamesInv, PeopleInv
<1>2. Owner[x.sock] = Owner[y.sock]
  BY <1>1, TeleportAssumption DEF Named, Known
<1>3. x.sock = y.sock
  BY <1>1, <1>2 DEF OneSession, Known
<1> QED BY <1>3 DEF NamesInv, PeopleInv

\* In particular where each account has one connection.
THEOREM WorldsInStepForSessions == OneSession => (Spec => []WorldsAgree)
<1> SUFFICES ASSUME OneSession PROVE Spec => []WorldsAgree
  OBVIOUS
<1>1. TypeInv /\ NamesInv => NoTwins
  BY SessionNoTwins
<1>2. Spec => []NoTwins
  BY <1>1, TypeInvariant, NamesInvariant, PTL
<1> QED BY <1>2, WorldsInStep, PTL

(***************************************************************************)
(* The session of a client that is patient and whose account connects      *)
(* once: one packet, list or teleport object at a time carries it on.      *)
(***************************************************************************)
\* The packet carries the login, the teleport or the arrival of s on.
Job(m, s) ==
  \/ m.type \in {"LoginByToken", "EnterWorld", "Send"} /\ m.sock = s
  \/ /\ m.type \in {"GameToken", "GameTokenRs", "QueryPlayer", "QueryPlayerRs",
                    "SyncPlayer", "ToClient"}
     /\ m.acct = Owner[s]
  \/ m.type = "Teleport" /\ m.player.sock = s

\* The packet takes no place, no flag and no connection from s.
Harmless(m, s) ==
  /\ m.type \in {"TeleportAfter", "DeleteOnline"} => m.acct # Owner[s]
  /\ m.type = "Disconnect" => m.sock # s

Minor(m, s) == ~Job(m, s) /\ Harmless(m, s)

\* In the boxes b there is no packet, or just this one, that carries s on.
NoJob(b, s) == \A q \in Queue : \A m : In(b[q], m) => ~Job(m, s)

OnlyJob(b, s, q, m) ==
  /\ Once(b[q], m) /\ Job(m, s)
  /\ \A r \in Queue : \A n : In(b[r], n) /\ Job(n, s) => r = q /\ n = m

AllHarmless(b, s) == \A q \in Queue : \A m : In(b[q], m) => Harmless(m, s)

\* What the packets that the actions make are to s.
LEMMA PacketsOf ==
  ASSUME NEW s
  PROVE  /\ \A t : /\ Minor(NetworkListenKey(t), s)
                   /\ Harmless(LoginByToken(t), s)
                   /\ Job(LoginByToken(t), s) <=> t = s
         /\ \A t, w : /\ Job(EnterWorld(t, w), s) <=> t = s
                      /\ Job(Send(t, w), s) <=> t = s
                      /\ Harmless(EnterWorld(t, w), s) /\ Harmless(Send(t, w), s)
         /\ \A t, tag : ~Job(Disconnect(t, tag), s) /\ (t # s => Harmless(Disconnect(t, tag), s))
         /\ \A a : /\ Minor(RequestSync(a), s) /\ Minor(S2GSyncPlayer(a), s)
                   /\ Minor(RemovePlayer(a), s) /\ Minor(PlayerGone(a), s)
                   /\ ~Job(TeleportAfter(a), s)
                   /\ a # Owner[s] => Harmless(TeleportAfter(a), s)
         /\ \A a : /\ Job(GameToken(a), s) <=> a = Owner[s]
                   /\ Job(QueryPlayer(a), s) <=> a = Owner[s]
                   /\ Job(SyncPlayer(a), s) <=> a = Owner[s]
                   /\ Harmless(GameToken(a), s) /\ Harmless(QueryPlayer(a), s)
                   /\ Harmless(SyncPlayer(a), s)
         /\ \A a, w : /\ Minor(SavePlayer(a, w), s)
                      /\ Job(GameTokenRs(a, w), s) <=> a = Owner[s]
                      /\ Job(QueryPlayerRs(a, w), s) <=> a = Owner[s]
                      /\ Job(ToClient(a, w), s) <=> a = Owner[s]
                      /\ Harmless(GameTokenRs(a, w), s) /\ Harmless(QueryPlayerRs(a, w), s)
                      /\ Harmless(ToClient(a, w), s)
         /\ \A w : Minor(BroadcastProxy(w), s)
         /\ \A x, p : /\ Job(TeleportTo(x, p), s) <=> x.sock = s
                      /\ Harmless(TeleportTo(x, p), s)
         /\ \A o : /\ Minor(SyncOnline(o), s)
                   /\ ~Job(DeleteOnline(o), s)
                   /\ Owner[o.sock] # Owner[s] => Harmless(DeleteOnline(o), s)
<1> USE DEF Job, Harmless, Minor
<1>1. \A t : /\ Minor(NetworkListenKey(t), s)
             /\ Harmless(LoginByToken(t), s)
             /\ Job(LoginByToken(t), s) <=> t = s
  BY DEF NetworkListenKey, LoginByToken
<1>2. \A t, w : /\ Job(EnterWorld(t, w), s) <=> t = s
                /\ Job(Send(t, w), s) <=> t = s
                /\ Harmless(EnterWorld(t, w), s) /\ Harmless(Send(t, w), s)
  BY DEF EnterWorld, Send
<1>3. \A t, tag : ~Job(Disconnect(t, tag), s) /\ (t # s => Harmless(Disconnect(t, tag), s))
  BY DEF Disconnect
<1>4. \A a : /\ Minor(RequestSync(a), s) /\ Minor(S2GSyncPlayer(a), s)
             /\ Minor(RemovePlayer(a), s) /\ Minor(PlayerGone(a), s)
             /\ ~Job(TeleportAfter(a), s)
             /\ a # Owner[s] => Harmless(TeleportAfter(a), s)
  BY DEF RequestSync, S2GSyncPlayer, RemovePlayer, PlayerGone, TeleportAfter
<1>5. \A a : /\ Job(GameToken(a), s) <=> a = Owner[s]
             /\ Job(QueryPlayer(a), s) <=> a = Owner[s]
             /\ Job(SyncPlayer(a), s) <=> a = Owner[s]
             /\ Harmless(GameToken(a), s) /\ Harmless(QueryPlayer(a), s)
             /\ Harmless(SyncPlayer(a), s)
  BY DEF GameToken, QueryPlayer, SyncPlayer
<1>6. \A a, w : /\ Minor(SavePlayer(a, w), s)
                /\ Job(GameTokenRs(a, w), s) <=> a = Owner[s]
                /\ Job(QueryPlayerRs(a, w), s) <=> a = Owner[s]
                /\ Job(ToClient(a, w), s) <=> a = Owner[s]
                /\ Harmless(GameTokenRs(a, w), s) /\ Harmless(QueryPlayerRs(a, w), s)
                /\ Harmless(ToClient(a, w), s)
  BY DEF SavePlayer, GameTokenRs, QueryPlayerRs, ToClient
<1>7. \A w : Minor(BroadcastProxy(w), s)
  BY DEF BroadcastProxy
<1>8. \A x, p : /\ Job(TeleportTo(x, p), s) <=> x.sock = s
                /\ Harmless(TeleportTo(x, p), s)
  BY DEF TeleportTo
<1>9. \A o : /\ Minor(SyncOnline(o), s)
             /\ ~Job(DeleteOnline(o), s)
             /\ Owner[o.sock] # Owner[s] => Harmless(DeleteOnline(o), s)
  BY DEF SyncOnline, DeleteOnline
<1> QED BY <1>1, <1>2, <1>3, <1>4, <1>5, <1>6, <1>7, <1>8, <1>9

\* The boxes b, with what is posted.
Joined(b, c) == [q \in Queue |-> b[q] \o c[q]]

LEMMA JoinedBoxes ==
  ASSUME NEW b \in Boxes, NEW c \in Boxes
  PROVE  /\ Joined(b, c) \in Boxes
         /\ \A q \in Queue : \A m : In(Joined(b, c)[q], m) <=> In(b[q], m) \/ In(c[q], m)
         /\ \A q \in Queue : \A m :
              Once(b[q], m) /\ Once(c[q], m) /\ ~(In(b[q], m) /\ In(c[q], m))
                => Once(Joined(b, c)[q], m)
<1>1. ASSUME NEW q \in Queue
      PROVE  /\ Joined(b, c)[q] \in Seq(Packets)
             /\ \A m : In(Joined(b, c)[q], m) <=> In(b[q], m) \/ In(c[q], m)
             /\ \A m : Once(b[q], m) /\ Once(c[q], m) /\ ~(In(b[q], m) /\ In(c[q], m))
                         => Once(Joined(b, c)[q], m)
  <2>1. b[q] \in Seq(Packets) /\ c[q] \in Seq(Packets)
    BY DEF Boxes
  <2>2. Joined(b, c)[q] = b[q] \o c[q]
    BY DEF Joined
  <2> QED BY ONLY <2>1, <2>2, MoreQueue
<1>2. Joined(b, c) \in Boxes
  BY <1>1 DEF Joined, Boxes
<1> QED BY <1>1, <1>2

LEMMA JoinedNothing ==
  ASSUME NEW b \in Boxes
  PROVE  Joined(b, Nothing) = b
<1>1. \A q \in Queue : Nothing[q] = <<>> /\ b[q] \o <<>> = b[q]
  BY PostTypes DEF Boxes
<1> QED BY <1>1 DEF Joined, Boxes

\* Nobody has put a packet twice into what is empty.
LEMMA NeverTwice == \A q, m : ~In(q, m) => Once(q, m)
BY DEF In, Once

LEMMA JobsJoined ==
  ASSUME NEW b \in Boxes, NEW c \in Boxes, NEW s
  PROVE  /\ NoJob(b, s) /\ NoJob(c, s) => NoJob(Joined(b, c), s)
         /\ \A q \in Queue : \A m :
              \/ NoJob(b, s) /\ OnlyJob(c, s, q, m)
              \/ OnlyJob(b, s, q, m) /\ NoJob(c, s)
              => OnlyJob(Joined(b, c), s, q, m)
<1>1. /\ \A q \in Queue : \A m : In(Joined(b, c)[q], m) <=> In(b[q], m) \/ In(c[q], m)
      /\ \A q \in Queue : \A m :
           Once(b[q], m) /\ Once(c[q], m) /\ ~(In(b[q], m) /\ In(c[q], m))
             => Once(Joined(b, c)[q], m)
  BY JoinedBoxes
<1>2. NoJob(b, s) /\ NoJob(c, s) => NoJob(Joined(b, c), s)
  BY <1>1 DEF NoJob
<1>3. ASSUME NEW q \in Queue, NEW m, NoJob(b, s), OnlyJob(c, s, q, m)
      PROVE  OnlyJob(Joined(b, c), s, q, m)
  <2>1. Once(Joined(b, c)[q], m)
    BY <1>1, <1>3, NeverTwice DEF NoJob, OnlyJob
  <2> QED BY <1>1, <1>3, <2>1 DEF NoJob, OnlyJob
<1>4. ASSUME NEW q \in Queue, NEW m, OnlyJob(b, s, q, m), NoJob(c, s)
      PROVE  OnlyJob(Joined(b, c), s, q, m)
  <2>1. Once(Joined(b, c)[q], m)
    BY <1>1, <1>4, NeverTwice DEF NoJob, OnlyJob
  <2> QED BY <1>1, <1>4, <2>1 DEF NoJob, OnlyJob
<1> QED BY <1>2, <1>3, <1>4

LEMMA JobsTaken ==
  ASSUME box \in Boxes, NEW r \in Queue, box[r] # <<>>, NEW s
  PROVE  /\ NoJob(box, s) => NoJob(Taken(r), s) /\ ~Job(Head(box[r]), s)
         /\ \A q \in Queue : \A m : OnlyJob(box, s, q, m) =>
              IF Job(Head(box[r]), s) THEN NoJob(Taken(r), s) /\ q = r /\ m = Head(box[r])
                                      ELSE OnlyJob(Taken(r), s, q, m)
<1>1. /\ In(box[r], Head(box[r]))
      /\ \A q \in Queue : \A m : In(Taken(r)[q], m) => In(box[q], m)
      /\ Taken(r)[r] = Tail(box[r])
      /\ \A q \in Queue : q # r => Taken(r)[q] = box[q]
  BY AfterTake
<1>2. \A m : Once(box[r], m) => /\ Once(Taken(r)[r], m)
                                /\ m = Head(box[r]) => ~In(Taken(r)[r], m)
  BY <1>1, TailQueue DEF Boxes
<1>3. NoJob(box, s) => NoJob(Taken(r), s) /\ ~Job(Head(box[r]), s)
  BY <1>1 DEF NoJob
<1>4. ASSUME NEW q \in Queue, NEW m, OnlyJob(box, s, q, m), Job(Head(box[r]), s)
      PROVE  NoJob(Taken(r), s) /\ q = r /\ m = Head(box[r])
  <2>1. q = r /\ m = Head(box[r])
    BY <1>1, <1>4 DEF OnlyJob
  <2>2. ~In(Taken(r)[r], m)
    BY <1>2, <1>4, <2>1 DEF OnlyJob
  <2> QED BY <1>1, <1>4, <2>1, <2>2 DEF OnlyJob, NoJob
<1>5. ASSUME NEW q \in Queue, NEW m, OnlyJob(box, s, q, m), ~Job(Head(box[r]), s)
      PROVE  OnlyJob(Taken(r), s, q, m)
  <2>1. Once(Taken(r)[q], m)
    BY <1>1, <1>2, <1>5 DEF OnlyJob
  <2> QED BY <1>1, <1>5, <2>1 DEF OnlyJob
<1> QED BY <1>3, <1>4, <1>5

LEMMA PostedTo ==
  ASSUME NEW s
  PROVE  /\ Nothing \in Boxes /\ NoJob(Nothing, s) /\ AllHarmless(Nothing, s)
         /\ \A r \in Queue : \A m \in Packets :
              /\ To(r, m) \in Boxes
              /\ ~Job(m, s) => NoJob(To(r, m), s)
              /\ Job(m, s) => OnlyJob(To(r, m), s, r, m) /\ In(To(r, m)[r], m)
              /\ Harmless(m, s) => AllHarmless(To(r, m), s)
         /\ \A m \in Packets :
              /\ ToAll(m) \in Boxes
              /\ ~Job(m, s) => NoJob(ToAll(m), s)
              /\ Harmless(m, s) => AllHarmless(ToAll(m), s)
<1>1. Nothing \in Boxes /\ NoJob(Nothing, s) /\ AllHarmless(Nothing, s)
  BY Posted, PostTypes DEF NoJob, AllHarmless
<1>2. ASSUME NEW r \in Queue, NEW m \in Packets
      PROVE  /\ To(r, m) \in Boxes
             /\ ~Job(m, s) => NoJob(To(r, m), s)
             /\ Job(m, s) => OnlyJob(To(r, m), s, r, m) /\ In(To(r, m)[r], m)
             /\ Harmless(m, s) => AllHarmless(To(r, m), s)
  <2>1. To(r, m) \in Boxes /\ To(r, m)[r] = <<m>>
    BY PostTypes
  <2>2. \A q \in Queue : \A n : In(To(r, m)[q], n) => q = r /\ n = m
    BY Posted
  <2>3. Once(<<m>>, m) /\ In(<<m>>, m)
    BY DEF Once, In
  <2> QED BY <2>1, <2>2, <2>3 DEF NoJob, OnlyJob, AllHarmless
<1>3. ASSUME NEW m \in Packets
      PROVE  /\ ToAll(m) \in Boxes
             /\ ~Job(m, s) => NoJob(ToAll(m), s)
             /\ Harmless(m, s) => AllHarmless(ToAll(m), s)
  <2>1. ToAll(m) \in Boxes
    BY PostTypes
  <2>2. \A q \in Queue : \A n : In(ToAll(m)[q], n) => n = m
    BY Posted
  <2> QED BY <2>1, <2>2 DEF NoJob, AllHarmless
<1> QED BY <1>1, <1>2, <1>3

(***************************************************************************)
(* The invariant of a session: where its player is, ...                    *)
(***************************************************************************)
\* x is the player of s at its present place p; the players of s at other
\* places are older, and each is about to be removed by a TeleportAfter.
Led(s, p, x) ==
  /\ locator[s] = p
  /\ BySocket(p, s) = {x}
  /\ ~In(box[p], TeleportAfter(Owner[s]))
  /\ \A q \in Place \ {p} :
       /\ Once(box[q], TeleportAfter(Owner[s]))
       /\ In(box[q], TeleportAfter(Owner[s])) <=> BySocket(q, s) # {}
       /\ \A y, z \in BySocket(q, s) : y = z
       /\ \A y \in BySocket(q, s) : y.ver < x.ver /\ y.sn = Owner[s]
  /\ \A q, r \in Place : q # r => \A y \in BySocket(q, s) : \A z \in BySocket(r, s) : y.ver # z.ver

\* ... that its flag is set, or about to be set, and older flags only are
\* deleted, ...
Flagged(s, p, x) ==
  /\ p \notin hung =>
       \/ flag[Owner[s]] >= x.ver
       \/ Online(x) \in due[p]
       \/ In(box[Redis], SyncOnline(Online(x)))
  /\ \A q \in Place : \A o \in removed[q] : o.sock = s => o.ver < x.ver
  /\ \A m : In(box[Redis], m) /\ m.type = "DeleteOnline" /\ m.acct = Owner[s] => m.ver < x.ver

\* ... and what is going on: the packet m in the box of q, ...
Fits(q, m, p, x) ==
  /\ m.type # "LoginByToken"
  /\ m.type \in {"GameToken", "GameTokenRs", "QueryPlayer", "QueryPlayerRs"} => p = Lobby
  /\ m.type = "Teleport" => m.from = p /\ m.player = x
  /\ m.type = "EnterWorld" => q = p

NoWait(s) == \A w \in World : Owner[s] \notin waiting[w]
NoMove(s) == \A w \in World : \A o \in objects[w] : o.sn # Owner[s]
Rests(s) == at[s] # None /\ want[s] = None

Carried(s, p, x) ==
  /\ \E q \in Queue : \E m : OnlyJob(box, s, q, m) /\ Fits(q, m, p, x)
  /\ NoWait(s) /\ NoMove(s) /\ ~Rests(s)

\* ... the Lobby's list, ...
Waiting(s, p) ==
  /\ NoJob(box, s) /\ NoMove(s) /\ ~Rests(s)
  /\ p = Lobby
  /\ \A v, w \in World : Owner[s] \in waiting[v] /\ Owner[s] \in waiting[w] => v = w

\* ... a teleport object, ...
Moving(s, p) ==
  /\ NoJob(box, s) /\ NoWait(s) /\ ~Rests(s)
  /\ \A w \in World : \A o \in objects[w] : o.sn = Owner[s] => w = p
  /\ \A w \in World : \A o, k \in objects[w] : o.sn = Owner[s] /\ k.sn = Owner[s] => o = k

\* ... or nothing that does not start with the client.
Resting(s) == NoJob(box, s) /\ NoWait(s) /\ NoMove(s)

Doing(s, p, x) == Carried(s, p, x) \/ Waiting(s, p) \/ Moving(s, p) \/ Resting(s)

\* There is no player of s yet.
Unborn(s) ==
  /\ locator[s] = None
  /\ \A p \in Place : /\ BySocket(p, s) = {}
                      /\ \A o \in removed[p] : o.sock # s
                      /\ ~In(box[p], TeleportAfter(Owner[s]))
  /\ \A m : In(box[Redis], m) /\ m.type = "DeleteOnline" => m.acct # Owner[s]
  /\ at[s] = None /\ NoWait(s) /\ NoMove(s)

Starting(s) == NoJob(box, s) \/ \E q \in Queue : OnlyJob(box, s, q, LoginByToken(s))

\* No packet says that s has closed.
Connected(s) == \A q \in Queue : \A m : In(box[q], m) /\ m.type = "Disconnect" => m.sock # s

SessionInv(s) ==
  /\ conn[s] = "idle" => Unborn(s) /\ NoJob(box, s) /\ Connected(s)
  /\ conn[s] = "open" =>
       /\ Connected(s)
       /\ \/ Unborn(s) /\ Starting(s)
          \/ \E p \in Place : \E x : Led(s, p, x) /\ Flagged(s, p, x) /\ Doing(s, p, x)

\* What of it a step leaves as it is.
SameLocator(s) == locator'[s] = locator[s]

SameCopies(s) == \A p \in Place : BySocket(p, s)' = BySocket(p, s)

NoMoreRemoved(s) == \A p \in Place : \A o \in removed'[p] : o.sock = s => o \in removed[p]

SameFlags(s) ==
  /\ flag'[Owner[s]] = flag[Owner[s]] /\ hung \subseteq hung'
  /\ \A p \in Place : \A o \in due[p] : o.sock = s => o \in due'[p]
  /\ NoMoreRemoved(s)

SameLists(s) ==
  /\ \A w \in World : Owner[s] \in waiting'[w] <=> Owner[s] \in waiting[w]
  /\ \A w \in World : \A o : o.sn = Owner[s] => (o \in objects'[w] <=> o \in objects[w])

SameWish(s) == at'[s] = at[s] /\ want'[s] = want[s]

\* Of the boxes, b is what the step leaves and c what it posts.
Moved(b, c) ==
  /\ b \in Boxes /\ c \in Boxes /\ box' = Joined(b, c)
  /\ \/ b = box
     \/ \E r \in Queue : box[r] # <<>> /\ b = Taken(r)

\* A step that takes no packet that carries s on, ...
Passes(b, s) ==
  \/ b = box
  \/ \E r \in Queue : box[r] # <<>> /\ b = Taken(r) /\ ~Job(Head(box[r]), s)

\* ... no TeleportAfter of s, ...
KeepsAfter(b, s) ==
  \A q \in Queue : In(box[q], TeleportAfter(Owner[s])) => In(b[q], TeleportAfter(Owner[s]))

\* ... and no SyncOnline of s.
KeepsSync(b, s) ==
  \A m : In(box[Redis], m) /\ m.type = "SyncOnline" /\ m.acct = Owner[s] => In(b[Redis], m)

LEMMA MovedIn ==
  ASSUME box \in Boxes, NEW b, NEW c, Moved(b, c)
  PROVE  /\ \A q \in Queue : \A m : In(box'[q], m) <=> In(b[q], m) \/ In(c[q], m)
         /\ \A q \in Queue : \A m : In(b[q], m) => In(box[q], m)
         /\ \A q \in Queue : \A m : Once(b[q], m) /\ ~In(c[q], m) => Once(box'[q], m)
         /\ \A q \in Queue : \A m : Once(box[q], m) => Once(b[q], m)
<1>1. /\ \A q \in Queue : \A m : In(box'[q], m) <=> In(b[q], m) \/ In(c[q], m)
      /\ \A q \in Queue : \A m : Once(b[q], m) /\ ~In(c[q], m) => Once(box'[q], m)
  BY JoinedBoxes, NeverTwice DEF Moved
<1>2. ASSUME NEW r \in Queue, box[r] # <<>>, b = Taken(r)
      PROVE  /\ \A q \in Queue : \A m : In(b[q], m) => In(box[q], m)
             /\ \A q \in Queue : \A m : Once(box[q], m) => Once(b[q], m)
  <2>1. /\ \A q \in Queue : \A m : In(b[q], m) => In(box[q], m)
        /\ b[r] = Tail(box[r]) /\ \A q \in Queue : q # r => b[q] = box[q]
    BY <1>2, AfterTake
  <2>2. \A m : Once(box[r], m) => Once(Tail(box[r]), m)
    BY <1>2, TailQueue DEF Boxes
  <2> QED BY <2>1, <2>2
<1> QED BY <1>1, <1>2 DEF Moved

LEMMA PassesIn ==
  ASSUME box \in Boxes, NEW s, NEW b, Passes(b, s)
  PROVE  /\ NoJob(box, s) => NoJob(b, s)
         /\ \A q \in Queue : \A m : OnlyJob(box, s, q, m) => OnlyJob(b, s, q, m)
BY JobsTaken DEF Passes

LEMMA KeepsIn ==
  ASSUME box \in Boxes, NEW s
  PROVE  /\ KeepsAfter(box, s) /\ KeepsSync(box, s)
         /\ \A r \in Queue : box[r] # <<>> =>
              /\ Head(box[r]) # TeleportAfter(Owner[s]) => KeepsAfter(Taken(r), s)
              /\ Head(box[r]).type # "SyncOnline" \/ Head(box[r]).acct # Owner[s]
                   => KeepsSync(Taken(r), s)
<1>1. ASSUME NEW r \in Queue, box[r] # <<>>
      PROVE  \A q \in Queue : \A m : In(box[q], m) => In(Taken(r)[q], m) \/ m = Head(box[r])
  BY <1>1, AfterTake
<1> QED BY <1>1, QueueNames DEF KeepsAfter, KeepsSync

LEMMA LedKept ==
  ASSUME box \in Boxes, NEW s, NEW p \in Place, NEW x, NEW b, NEW c, Moved(b, c), KeepsAfter(b, s),
         AllHarmless(c, s), SameLocator(s), SameCopies(s), Led(s, p, x)
  PROVE  Led(s, p, x)'
<1> DEFINE m == TeleportAfter(Owner[s])
<1>1. m.type = "TeleportAfter" /\ m.acct = Owner[s]
  BY DEF TeleportAfter
<1> HIDE DEF m
<1>2. \A q \in Place : /\ In(box'[q], m) <=> In(box[q], m)
                       /\ Once(box[q], m) => Once(box'[q], m)
  <2>1. \A q \in Queue : ~In(c[q], m)
    BY <1>1 DEF AllHarmless, Harmless
  <2>2. \A q \in Queue : In(box[q], m) <=> In(b[q], m)
    BY MovedIn DEF KeepsAfter, m
  <2>3. \A q \in Place : q \in Queue
    BY QueueNames
  <2> QED BY <2>1, <2>2, <2>3, MovedIn
<1>3. \A q \in Place : BySocket(q, s)' = BySocket(q, s)
  BY DEF SameCopies
<1>4. locator'[s] = p /\ BySocket(p, s) = {x}
  BY DEF SameLocator, Led
<1>5. ~In(box[p], m)
  BY DEF Led, m
<1>6. \A q \in Place \ {p} :
       /\ Once(box[q], m)
       /\ In(box[q], m) <=> BySocket(q, s) # {}
       /\ \A y, z \in BySocket(q, s) : y = z
       /\ \A y \in BySocket(q, s) : y.ver < x.ver /\ y.sn = Owner[s]
  BY DEF Led, m
<1>7. \A q, r \in Place : q # r => \A y \in BySocket(q, s) : \A z \in BySocket(r, s) : y.ver # z.ver
  BY DEF Led
<1>8. BySocket(p, s)' = {x} /\ ~In(box'[p], m)
  BY <1>2, <1>3, <1>4, <1>5
<1>9. \A q \in Place \ {p} :
       /\ Once(box'[q], m)
       /\ In(box'[q], m) <=> BySocket(q, s)' # {}
       /\ \A y, z \in BySocket(q, s)' : y = z
       /\ \A y \in BySocket(q, s)' : y.ver < x.ver /\ y.sn = Owner[s]
  BY ONLY <1>2, <1>3, <1>6
<1>10. \A q, r \in Place : q # r =>
         \A y \in BySocket(q, s)' : \A z \in BySocket(r, s)' : y.ver # z.ver
  BY ONLY <1>3, <1>7
<1> QED BY <1>4, <1>8, <1>9, <1>10 DEF Led, m

LEMMA FlaggedKept ==
  ASSUME box \in Boxes, NEW s, NEW p \in Place, NEW x, x.sock = s, NEW b, NEW c, Moved(b, c),
         KeepsSync(b, s), AllHarmless(c, s), SameFlags(s), Flagged(s, p, x)
  PROVE  Flagged(s, p, x)'
<1> DEFINE m == SyncOnline(Online(x))
<1>1. m.type = "SyncOnline" /\ m.acct = Owner[s] /\ Online(x).sock = s
  BY DEF SyncOnline, Online
<1>2. In(box[Redis], m) => In(box'[Redis], m)
  BY <1>1, MovedIn, QueueNames DEF KeepsSync
<1>3. \A n : In(box'[Redis], n) /\ n.type = "DeleteOnline" /\ n.acct = Owner[s] => In(box[Redis], n)
  BY MovedIn, QueueNames DEF AllHarmless, Harmless
<1>4. p \notin hung' =>
        flag'[Owner[s]] >= x.ver \/ Online(x) \in due'[p] \/ In(box'[Redis], m)
  BY <1>1, <1>2 DEF Flagged, SameFlags
<1>5. \A q \in Place : \A o \in removed'[q] : o.sock = s => o.ver < x.ver
  BY DEF Flagged, SameFlags, NoMoreRemoved
<1>6. \A n : In(box'[Redis], n) /\ n.type = "DeleteOnline" /\ n.acct = Owner[s] => n.ver < x.ver
  BY <1>3 DEF Flagged
<1> QED BY <1>4, <1>5, <1>6 DEF Flagged

LEMMA ConnectedKept ==
  ASSUME box \in Boxes, NEW s, NEW b, NEW c, Moved(b, c), AllHarmless(c, s), Connected(s)
  PROVE  Connected(s)'
<1>1. \A q \in Queue : \A m : In(box'[q], m) => In(box[q], m) \/ In(c[q], m)
  BY MovedIn
<1> QED BY <1>1 DEF Connected, AllHarmless, Harmless

LEMMA UnbornKept ==
  ASSUME box \in Boxes, NEW s, NEW b, NEW c, Moved(b, c), AllHarmless(c, s), SameLocator(s),
         SameCopies(s), NoMoreRemoved(s), SameLists(s), at'[s] = at[s], Unborn(s)
  PROVE  Unborn(s)'
<1> DEFINE m == TeleportAfter(Owner[s])
<1>1. m.type = "TeleportAfter" /\ m.acct = Owner[s]
  BY DEF TeleportAfter
<1> HIDE DEF m
<1>2. \A q \in Queue : \A n : In(box'[q], n) => In(box[q], n) \/ In(c[q], n)
  BY MovedIn
<1>3. \A p \in Place : ~In(box'[p], m)
  BY <1>1, <1>2, QueueNames DEF Unborn, AllHarmless, Harmless, m
<1>4. \A n : In(box'[Redis], n) /\ n.type = "DeleteOnline" => n.acct # Owner[s]
  BY <1>2, QueueNames DEF Unborn, AllHarmless, Harmless
<1>5. \A p \in Place : BySocket(p, s)' = {} /\ \A o \in removed'[p] : o.sock # s
  BY DEF Unborn, SameCopies, NoMoreRemoved
<1>6. locator'[s] = None /\ at'[s] = None
  BY DEF Unborn, SameLocator
<1>7. NoWait(s)' /\ NoMove(s)'
  BY DEF Unborn, SameLists, NoWait, NoMove
<1> QED BY <1>3, <1>4, <1>5, <1>6, <1>7 DEF Unborn, m

LEMMA JobsKept ==
  ASSUME box \in Boxes, NEW s, NEW b, NEW c, Moved(b, c), Passes(b, s), NoJob(c, s)
  PROVE  /\ NoJob(box, s) => NoJob(box', s)
         /\ \A q \in Queue : \A m : OnlyJob(box, s, q, m) => OnlyJob(box', s, q, m)
<1>1. box' = Joined(b, c) /\ b \in Boxes /\ c \in Boxes
  BY DEF Moved
<1> QED BY <1>1, JobsJoined, PassesIn

LEMMA DoingKept ==
  ASSUME box \in Boxes, NEW s, NEW p, NEW x, NEW b, NEW c, Moved(b, c), Passes(b, s), NoJob(c, s),
         SameLists(s), SameWish(s), Doing(s, p, x)
  PROVE  Doing(s, p, x)'
<1>1. /\ NoJob(box, s) => NoJob(box', s)
      /\ \A q \in Queue : \A m : OnlyJob(box, s, q, m) => OnlyJob(box', s, q, m)
  BY JobsKept
<1>2. /\ NoWait(s) => NoWait(s)'
      /\ NoMove(s) => NoMove(s)'
      /\ Rests(s)' <=> Rests(s)
  BY DEF SameLists, SameWish, NoWait, NoMove, Rests
<1>3. CASE Carried(s, p, x)
  BY <1>1, <1>2, <1>3 DEF Doing, Carried
<1>4. CASE Waiting(s, p)
  BY <1>1, <1>2, <1>4 DEF Doing, Waiting, SameLists
<1>5. CASE Moving(s, p)
  BY <1>1, <1>2, <1>5 DEF Doing, Moving, SameLists
<1>6. CASE Resting(s)
  BY <1>1, <1>2, <1>6 DEF Doing, Resting
<1> QED BY <1>3, <1>4, <1>5, <1>6 DEF Doing

\* A step that has nothing to do with the session.
Elsewhere(s, b, c) ==
  /\ Moved(b, c) /\ Passes(b, s) /\ KeepsAfter(b, s) /\ KeepsSync(b, s)
  /\ NoJob(c, s) /\ AllHarmless(c, s)
  /\ conn'[s] = conn[s] /\ SameLocator(s) /\ SameCopies(s) /\ SameFlags(s) /\ SameLists(s) /\ SameWish(s)

LEMMA SessionElsewhere ==
  ASSUME TypeInv, NEW s, NEW b, NEW c, Elsewhere(s, b, c), SessionInv(s)
  PROVE  SessionInv(s)'
<1> USE DEF Elsewhere
<1>0. box \in Boxes
  BY DEF TypeInv
<1>1. /\ NoJob(box, s) => NoJob(box', s)
      /\ \A q \in Queue : \A m : OnlyJob(box, s, q, m) => OnlyJob(box', s, q, m)
  BY <1>0, JobsKept
<1>2. Connected(s) => Connected(s)'
  BY <1>0, ConnectedKept
<1>3. Unborn(s) => Unborn(s)'
  BY <1>0, UnbornKept DEF SameWish, SameFlags
<1>4. Starting(s) => Starting(s)'
  BY <1>1 DEF Starting
<1>5. ASSUME NEW p \in Place, NEW x, Led(s, p, x), Flagged(s, p, x), Doing(s, p, x)
      PROVE  Led(s, p, x)' /\ Flagged(s, p, x)' /\ Doing(s, p, x)'
  <2>1. x.sock = s
    BY <1>5 DEF Led, BySocket
  <2> QED BY <1>0, <1>5, <2>1, LedKept, FlaggedKept, DoingKept
<1>6. conn'[s] = conn[s]
  OBVIOUS
<1> QED BY <1>1, <1>2, <1>3, <1>4, <1>5, <1>6 DEF SessionInv

\* How a step's boxes come about.
Takes(b, s) == Passes(b, s) /\ KeepsAfter(b, s) /\ KeepsSync(b, s)

LEMMA Movements ==
  ASSUME TypeInv, NEW s
  PROVE  /\ \A posts \in Boxes : Post(posts) => Moved(box, posts)
         /\ UNCHANGED box => Moved(box, Nothing)
         /\ Takes(box, s)
         /\ \A r \in Queue : \A type : Handles(r, type) =>
              /\ \A posts \in Boxes : Reply(r, posts) => Moved(Taken(r), posts)
              /\ ~Job(Message(r), s) => Passes(Taken(r), s)
              /\ type # "TeleportAfter" \/ Message(r).acct # Owner[s] => KeepsAfter(Taken(r), s)
              /\ type # "SyncOnline" \/ Message(r).acct # Owner[s] => KeepsSync(Taken(r), s)
<1>0. box \in Boxes
  BY DEF TypeInv
<1>1. ASSUME NEW posts \in Boxes, Post(posts) PROVE Moved(box, posts)
  <2>1. box' = Joined(box, posts)
    BY <1>1 DEF Post, Joined
  <2> QED BY <1>0, <2>1 DEF Moved
<1>2. ASSUME UNCHANGED box PROVE Moved(box, Nothing)
  <2>1. box' = Joined(box, Nothing)
    BY <1>0, <1>2, JoinedNothing
  <2> QED BY <1>0, <2>1, PostTypes DEF Moved
<1>3. Takes(box, s)
  BY <1>0, KeepsIn DEF Takes, Passes
<1>4. ASSUME NEW r \in Queue, NEW type, Handles(r, type)
      PROVE  /\ \A posts \in Boxes : Reply(r, posts) => Moved(Taken(r), posts)
             /\ ~Job(Message(r), s) => Passes(Taken(r), s)
             /\ type # "TeleportAfter" \/ Message(r).acct # Owner[s] => KeepsAfter(Taken(r), s)
             /\ type # "SyncOnline" \/ Message(r).acct # Owner[s] => KeepsSync(Taken(r), s)
  <2>1. box[r] # <<>> /\ Message(r) = Head(box[r]) /\ Message(r).type = type
    BY <1>4 DEF Handles, Message
  <2>2. Taken(r) \in Boxes
    BY <1>0, <2>1, AfterTake
  <2>3. ASSUME NEW posts \in Boxes, Reply(r, posts) PROVE Moved(Taken(r), posts)
    <3>1. box' = Joined(Taken(r), posts)
      BY <2>3 DEF Reply, Joined, Taken
    <3> QED BY <2>1, <2>2, <3>1 DEF Moved
  <2>4. TeleportAfter(Owner[s]).type = "TeleportAfter" /\ TeleportAfter(Owner[s]).acct = Owner[s]
    BY DEF TeleportAfter
  <2>5. /\ Message(r) # TeleportAfter(Owner[s]) => KeepsAfter(Taken(r), s)
        /\ Message(r).type # "SyncOnline" \/ Message(r).acct # Owner[s] => KeepsSync(Taken(r), s)
    BY <1>0, <2>1, KeepsIn
  <2>6. ~Job(Message(r), s) => Passes(Taken(r), s)
    BY <2>1 DEF Passes
  <2> QED BY <2>1, <2>3, <2>4, <2>5, <2>6
<1> QED BY <1>1, <1>2, <1>3, <1>4

\* Taking a packet of another type keeps all TeleportAfter, and all SyncOnline.
LEMMA OtherType ==
  ASSUME TypeInv, NEW s, NEW r \in Queue, NEW type, Handles(r, type)
  PROVE  /\ type # "TeleportAfter" => KeepsAfter(Taken(r), s)
         /\ type # "SyncOnline" => KeepsSync(Taken(r), s)
<1>1. box \in Boxes /\ box[r] # <<>> /\ Message(r) = Head(box[r]) /\ Message(r).type = type
  BY DEF TypeInv, Handles, Message
<1>2. TeleportAfter(Owner[s]).type = "TeleportAfter"
  BY DEF TeleportAfter
<1>3. /\ Message(r) # TeleportAfter(Owner[s]) => KeepsAfter(Taken(r), s)
      /\ Message(r).type # "SyncOnline" => KeepsSync(Taken(r), s)
  BY <1>1, KeepsIn
<1> QED BY ONLY <1>1, <1>2, <1>3

LEMMA SameIfUnchanged ==
  ASSUME NEW s
  PROVE  /\ UNCHANGED locator => SameLocator(s)
         /\ UNCHANGED players => SameCopies(s)
         /\ UNCHANGED <<flag, hung, due, removed>> => SameFlags(s)
         /\ UNCHANGED <<waiting, objects>> => SameLists(s)
         /\ UNCHANGED <<at, want>> => SameWish(s)
BY DEF SameLocator, SameCopies, SameFlags, NoMoreRemoved, SameLists, SameWish, BySocket

\* Whoever connects, closes or asks for a world is another client, or s.
LEMMA SessionClient ==
  ASSUME OneSession, Patient, TypeInv, NEW s \in Socket, SessionInv(s), NEW t \in Socket,
         Connect(t) \/ Close(t) \/ \E w \in World : ClientEnterWorld(t, w)
  PROVE  SessionInv(s)'
<1> USE DEF client, redis, thread, lobby, world, space, fate
<1>0. box \in Boxes /\ Lobby \in Queue /\ Takes(box, s)
  BY QueueNames, Movements DEF TypeInv
<1>1. CASE Connect(t)
  <2> DEFINE m == LoginByToken(t)
             c == To(Lobby, m)
  <2>1. m \in Packets /\ Harmless(m, s) /\ (Job(m, s) <=> t = s)
    BY PacketTypes, PacketsOf
  <2>2. Post(c) /\ conn[t] = "idle" /\ conn' = [conn EXCEPT ![t] = "open"]
    BY <1>1 DEF Connect
  <2>9. t = s => m = LoginByToken(s)
    OBVIOUS
  <2> HIDE DEF m
  <2>3. /\ c \in Boxes /\ AllHarmless(c, s)
        /\ t # s => NoJob(c, s)
        /\ t = s => OnlyJob(c, s, Lobby, m)
    BY <1>0, <2>1, PostedTo
  <2> HIDE DEF c
  <2>4. Moved(box, c)
    BY <2>2, <2>3, Movements
  <2>5. SameLocator(s) /\ SameCopies(s) /\ SameFlags(s) /\ SameLists(s) /\ SameWish(s)
    BY <1>1, SameIfUnchanged DEF Connect
  <2>6. CASE t # s
    <3>1. conn'[s] = conn[s]
      BY <2>2, <2>6 DEF TypeInv, ClientTypes
    <3> QED BY <2>3, <2>4, <2>5, <2>6, <3>1, <1>0, SessionElsewhere DEF Elsewhere, Takes
  <2>7. CASE t = s
    <3>1. conn'[s] = "open" /\ conn[s] = "idle"
      BY <2>2, <2>7 DEF TypeInv, ClientTypes
    <3>2. Unborn(s) /\ NoJob(box, s) /\ Connected(s)
      BY <3>1 DEF SessionInv
    <3>3. Unborn(s)'
      BY <1>0, <2>3, <2>4, <2>5, <3>2, UnbornKept DEF SameWish, SameFlags
    <3>4. Connected(s)'
      BY <1>0, <2>3, <2>4, <3>2, ConnectedKept
    <3>5. OnlyJob(box', s, Lobby, m)
      BY <1>0, <2>3, <2>4, <2>7, <3>2, JobsJoined DEF Moved
    <3>6. Starting(s)'
      BY <1>0, <2>7, <2>9, <3>5 DEF Starting
    <3> QED BY <3>1, <3>3, <3>4, <3>6 DEF SessionInv
  <2> QED BY <2>6, <2>7
<1>2. CASE Close(t)
  <2> DEFINE m == Disconnect(t, t \in tagged)
             c == ToAll(m)
  <2>1. m \in Packets /\ ~Job(m, s) /\ (t # s => Harmless(m, s))
    <3>1. (t \in tagged) = TRUE \/ (t \in tagged) = FALSE
      OBVIOUS
    <3>2. Disconnect(t, TRUE) \in Packets /\ Disconnect(t, FALSE) \in Packets
      BY PacketTypes
    <3> QED BY <3>1, <3>2, PacketsOf
  <2>2. /\ Post(c) /\ conn' = [conn EXCEPT ![t] = "closed"]
        /\ locator' = [locator EXCEPT ![t] = None]
    BY <1>2 DEF Close
  <2> HIDE DEF m
  <2>3. CASE t = s
    <3>1. conn'[s] = "closed"
      BY <2>2, <2>3 DEF TypeInv, ClientTypes
    <3> QED BY <3>1 DEF SessionInv
  <2>4. CASE t # s
    <3>1. c \in Boxes /\ AllHarmless(c, s) /\ NoJob(c, s)
      BY <2>1, <2>4, PostedTo
    <3> HIDE DEF c
    <3>2. Moved(box, c)
      BY <2>2, <3>1, Movements
    <3>3. conn'[s] = conn[s] /\ SameLocator(s)
      BY <2>2, <2>4 DEF TypeInv, ClientTypes, StoreTypes, SameLocator
    <3>4. SameCopies(s) /\ SameFlags(s) /\ SameLists(s) /\ SameWish(s)
      BY <1>2, SameIfUnchanged DEF Close
    <3> QED BY <3>1, <3>2, <3>3, <3>4, <1>0, SessionElsewhere DEF Elsewhere, Takes
  <2> QED BY <2>3, <2>4
<1>3. ASSUME NEW w \in World, ClientEnterWorld(t, w) PROVE SessionInv(s)'
  <2> DEFINE m == EnterWorld(t, w)
  <2>1. m \in Packets /\ Harmless(m, s) /\ (Job(m, s) <=> t = s)
    BY PacketTypes, PacketsOf
  <2>2. /\ conn' = conn /\ conn[t] = "open" /\ at' = at /\ at[t] \in World
        /\ want' = [want EXCEPT ![t] = w]
        /\ want[t] = None
        /\ IF t \in tagged /\ locator[t] # None THEN Post(To(locator[t], m)) ELSE UNCHANGED box
    BY <1>3 DEF ClientEnterWorld
  <2>3. SameLocator(s) /\ SameCopies(s) /\ SameFlags(s) /\ SameLists(s)
    BY <1>3, SameIfUnchanged DEF ClientEnterWorld
  <2>9. m.type = "EnterWorld"
    BY DEF EnterWorld
  <2> HIDE DEF m
  <2>4. PICK c \in Boxes : /\ Moved(box, c) /\ AllHarmless(c, s)
                           /\ t # s => NoJob(c, s)
                           /\ t = s => NoJob(c, s) \/ OnlyJob(c, s, locator[s], m)
                           /\ t = s /\ ~NoJob(c, s) => locator[s] # None
    <3>1. CASE t \in tagged /\ locator[t] # None
      <4>1. locator[t] \in Queue
        BY <3>1, QueueNames DEF TypeInv, StoreTypes
      <4>2. Post(To(locator[t], m))
        BY <2>2, <3>1
      <4>3. /\ To(locator[t], m) \in Boxes /\ AllHarmless(To(locator[t], m), s)
            /\ t # s => NoJob(To(locator[t], m), s)
            /\ t = s => OnlyJob(To(locator[t], m), s, locator[t], m)
        BY <2>1, <4>1, PostedTo
      <4>4. Moved(box, To(locator[t], m))
        BY <4>2, <4>3, Movements
      <4> QED BY <3>1, <4>3, <4>4
    <3>2. CASE ~(t \in tagged /\ locator[t] # None)
      <4>1. UNCHANGED box
        BY <2>2, <3>2
      <4>2. Moved(box, Nothing)
        BY <4>1, Movements
      <4>3. Nothing \in Boxes /\ NoJob(Nothing, s) /\ AllHarmless(Nothing, s)
        BY PostedTo
      <4> QED BY <4>2, <4>3
    <3> QED BY <3>1, <3>2
  <2>5. CASE t # s
    <3>1. conn'[s] = conn[s] /\ SameWish(s)
      BY <2>2, <2>5 DEF SameWish, TypeInv, ClientTypes
    <3> QED BY <2>3, <2>4, <2>5, <3>1, <1>0, SessionElsewhere DEF Elsewhere, Takes
  <2>6. CASE t = s
    <3>1. conn[s] = "open" /\ conn'[s] = "open" /\ at[s] # None /\ Rests(s)
      BY <2>2, <2>6, TeleportAssumption DEF Rests
    <3>2a. PICK p \in Place : \E x : Led(s, p, x) /\ Flagged(s, p, x) /\ Doing(s, p, x) /\ Connected(s)
      BY <3>1 DEF SessionInv, Unborn
    <3>2. PICK x : Led(s, p, x) /\ Flagged(s, p, x) /\ Doing(s, p, x) /\ Connected(s)
      BY <3>2a
    <3>3. x.sock = s /\ locator[s] = p /\ p \in Queue
      BY <3>2, QueueNames DEF Led, BySocket
    <3>4. Led(s, p, x)' /\ Flagged(s, p, x)' /\ Connected(s)'
      BY <1>0, <2>3, <2>4, <3>2, <3>3, LedKept, FlaggedKept, ConnectedKept DEF Takes
    <3>5. Resting(s)
      BY <3>1, <3>2 DEF Doing, Carried, Waiting, Moving
    <3>6. NoWait(s)' /\ NoMove(s)'
      BY <2>3, <3>5 DEF Resting, NoWait, NoMove, SameLists
    <3>7. ~Rests(s)'
      BY <2>2, <2>6, TeleportAssumption DEF Rests, TypeInv, ClientTypes
    <3>8. NoJob(box', s) \/ OnlyJob(box', s, p, m)
      BY <1>0, <2>4, <2>6, <3>3, <3>5, JobsJoined DEF Moved, Resting
    <3>9. Fits(p, m, p, x)
      BY <2>9 DEF Fits
    <3>10. Doing(s, p, x)'
      BY <3>3, <3>6, <3>7, <3>8, <3>9 DEF Doing, Resting, Carried
    <3> QED BY <3>1, <3>4, <3>10 DEF SessionInv
  <2> QED BY <2>5, <2>6
<1> QED BY <1>1, <1>2, <1>3

\* The thread of r handles the packet that carries s on.
AtWork(s, r, p, x) ==
  /\ conn[s] = "open" /\ Connected(s)
  /\ Led(s, p, x) /\ Flagged(s, p, x) /\ x.sock = s
  /\ Fits(r, Message(r), p, x)
  /\ NoJob(Taken(r), s) /\ NoWait(s) /\ NoMove(s) /\ ~Rests(s)

LEMMA Working ==
  ASSUME TypeInv, NEW s \in Socket, SessionInv(s), NEW r \in Queue, NEW type, Handles(r, type),
         Job(Message(r), s), type # "LoginByToken"
  PROVE  conn[s] = "closed" \/ \E p \in Place : \E x : AtWork(s, r, p, x)
<1>1. /\ box \in Boxes /\ box[r] # <<>> /\ Message(r) = Head(box[r]) /\ Message(r).type = type
      /\ In(box[r], Message(r))
  BY Received DEF TypeInv
<1>2. /\ ~NoJob(box, s)
      /\ \A q \in Queue : \A m : OnlyJob(box, s, q, m) =>
           NoJob(Taken(r), s) /\ q = r /\ m = Message(r)
  BY <1>1, JobsTaken
<1>3. ~Starting(s)
  <2>1. LoginByToken(s).type = "LoginByToken"
    BY DEF LoginByToken
  <2> QED BY <1>1, <1>2, <2>1 DEF Starting
<1>4. CASE conn[s] = "idle"
  BY <1>2, <1>4 DEF SessionInv
<1>5. CASE conn[s] = "open"
  <2>1a. PICK p \in Place : \E x : Led(s, p, x) /\ Flagged(s, p, x) /\ Doing(s, p, x) /\ Connected(s)
    BY <1>3, <1>5 DEF SessionInv
  <2>1. PICK x : Led(s, p, x) /\ Flagged(s, p, x) /\ Doing(s, p, x) /\ Connected(s)
    BY <2>1a
  <2>2. Carried(s, p, x)
    BY <1>2, <2>1 DEF Doing, Waiting, Moving, Resting
  <2>3. x.sock = s
    BY <2>1 DEF Led, BySocket
  <2> QED BY <1>2, <1>5, <2>1, <2>2, <2>3 DEF Carried, AtWork
<1> QED BY <1>4, <1>5 DEF TypeInv, ClientTypes

\* What a step has to leave alone so that the player keeps its place and flag.
Stays(s, b, c) ==
  /\ Moved(b, c) /\ KeepsAfter(b, s) /\ KeepsSync(b, s) /\ AllHarmless(c, s)
  /\ conn'[s] = conn[s] /\ SameLocator(s) /\ SameCopies(s) /\ SameFlags(s)

LEMMA SessionGoesOn ==
  ASSUME TypeInv, NEW s, NEW p \in Place, NEW x, NEW b, NEW c, Stays(s, b, c),
         conn[s] = "open", Connected(s), Led(s, p, x), Flagged(s, p, x), Doing(s, p, x)'
  PROVE  SessionInv(s)'
<1> USE DEF Stays
<1>1. x.sock = s /\ box \in Boxes
  BY DEF Led, BySocket, TypeInv
<1>2. Led(s, p, x)' /\ Flagged(s, p, x)' /\ Connected(s)'
  BY <1>1, LedKept, FlaggedKept, ConnectedKept
<1> QED BY <1>2 DEF SessionInv

\* It passes the session on to another thread, or drops the packet.
LEMMA SessionPassed ==
  ASSUME TypeInv, NEW s \in Socket, SessionInv(s), NEW r \in Queue, NEW type, Handles(r, type),
         Job(Message(r), s), type # "LoginByToken",
         NEW c \in Boxes, Reply(r, c), AllHarmless(c, s),
         \/ NoJob(c, s)
         \/ \E q \in Queue : \E m :
              /\ OnlyJob(c, s, q, m)
              /\ \A p, x : Fits(r, Message(r), p, x) => Fits(q, m, p, x),
         conn'[s] = conn[s], SameLocator(s), SameCopies(s), SameFlags(s), SameLists(s), SameWish(s)
  PROVE  SessionInv(s)'
<1>1. CASE conn[s] = "closed"
  BY <1>1 DEF SessionInv
<1>2. ASSUME NEW p \in Place, NEW x, AtWork(s, r, p, x) PROVE SessionInv(s)'
  <2>0. type \notin {"TeleportAfter", "SyncOnline"}
    BY Received DEF Job
  <2>1. Moved(Taken(r), c) /\ KeepsAfter(Taken(r), s) /\ KeepsSync(Taken(r), s)
    BY <2>0, Movements
  <2>2. Stays(s, Taken(r), c)
    BY <2>1 DEF Stays
  <2>3. NoWait(s)' /\ NoMove(s)' /\ ~Rests(s)'
    BY <1>2 DEF AtWork, SameLists, SameWish, NoWait, NoMove, Rests
  <2>4. \/ NoJob(box', s)
        \/ \E q \in Queue : \E m : OnlyJob(box', s, q, m) /\ Fits(q, m, p, x)
    BY <1>2, <2>1, JobsJoined DEF Moved, AtWork
  <2>5. Doing(s, p, x)'
    BY <2>3, <2>4 DEF Doing, Carried, Resting
  <2> QED BY <1>2, <2>2, <2>5, SessionGoesOn DEF AtWork
<1> QED BY <1>1, <1>2, Working

\* A thread that answers with one packet, or with none.
LEMMA SessionAnswer ==
  ASSUME TypeInv, NEW s \in Socket, SessionInv(s), NEW r \in Queue, NEW type, Handles(r, type),
         type \notin {"LoginByToken", "TeleportAfter", "SyncOnline"},
         NEW q \in Queue, NEW m \in Packets, Reply(r, To(q, m)) \/ Reply(r, Nothing), Harmless(m, s),
         Job(m, s) => Job(Message(r), s),
         Job(m, s) => \A p, x : Fits(r, Message(r), p, x) => Fits(q, m, p, x),
         conn'[s] = conn[s], SameLocator(s), SameCopies(s), SameFlags(s), SameLists(s), SameWish(s)
  PROVE  SessionInv(s)'
<1>1. PICK c \in Boxes : /\ Reply(r, c) /\ AllHarmless(c, s)
                         /\ NoJob(c, s) \/ (Job(m, s) /\ OnlyJob(c, s, q, m))
  BY PostedTo
<1>2. CASE Job(Message(r), s)
  BY <1>1, <1>2, SessionPassed
<1>3. CASE ~Job(Message(r), s)
  <2>2. Moved(Taken(r), c) /\ Takes(Taken(r), s)
    BY <1>1, <1>3, Movements DEF Takes
  <2> QED BY <1>1, <1>3, <2>2, SessionElsewhere DEF Elsewhere, Takes
<1> QED BY <1>2, <1>3

\* A thread that only takes a packet.
LEMMA SessionTaken ==
  ASSUME TypeInv, NEW s \in Socket, SessionInv(s), NEW r \in Queue, NEW type, Handles(r, type),
         Reply(r, Nothing), type \notin {"LoginByToken", "TeleportAfter", "SyncOnline"},
         conn'[s] = conn[s], SameLocator(s), SameCopies(s), SameFlags(s), SameLists(s), SameWish(s)
  PROVE  SessionInv(s)'
<1>1. Nothing \in Boxes /\ NoJob(Nothing, s) /\ AllHarmless(Nothing, s)
  BY PostedTo
<1>2. CASE Job(Message(r), s)
  BY <1>1, <1>2, SessionPassed
<1>3. CASE ~Job(Message(r), s)
  <2>2. Moved(Taken(r), Nothing) /\ Takes(Taken(r), s)
    BY <1>1, <1>3, Movements DEF Takes
  <2> QED BY <1>1, <2>2, SessionElsewhere DEF Elsewhere, Takes
<1> QED BY <1>2, <1>3

\* The client gets into its world.
LEMMA SessionNet ==
  ASSUME TypeInv, NEW s \in Socket, SessionInv(s), NetStep
  PROVE  SessionInv(s)'
<1> USE DEF client, redis, thread, lobby, world, space, fate
<1>0. box \in Boxes /\ Net \in Queue
  BY QueueNames DEF TypeInv
<1>1. CASE HandleNetworkListenKey
  <2>1. Handles(Net, "ListenKey") /\ Reply(Net, Nothing) /\ conn'[s] = conn[s]
    BY <1>1 DEF HandleNetworkListenKey
  <2>2. SameLocator(s) /\ SameCopies(s) /\ SameFlags(s) /\ SameLists(s) /\ SameWish(s)
    BY <1>1, SameIfUnchanged DEF HandleNetworkListenKey
  <2> QED BY <1>0, <2>1, <2>2, SessionTaken
<1>2. CASE SendToClient
  <2> DEFINE m == Message(Net)
  <2>1. Handles(Net, "Send") /\ Reply(Net, Nothing) /\ UNCHANGED conn
    BY <1>2 DEF SendToClient
  <2>2. m.sock \in Socket /\ m.world \in World /\ m.type = "Send" /\ (Job(m, s) <=> m.sock = s)
    BY <1>0, <2>1, Received, PacketFields DEF Job
  <2>3. /\ at' = IF conn[m.sock] = "open" THEN [at EXCEPT ![m.sock] = m.world] ELSE at
        /\ want' = IF conn[m.sock] = "open" THEN [want EXCEPT ![m.sock] = None] ELSE want
    BY <1>2 DEF SendToClient
  <2>4. SameLocator(s) /\ SameCopies(s) /\ SameFlags(s) /\ SameLists(s)
    BY <1>2, SameIfUnchanged DEF SendToClient
  <2>5. Nothing \in Boxes /\ NoJob(Nothing, s) /\ AllHarmless(Nothing, s)
    BY PostedTo
  <2>9. Handles(Net, "Send") /\ Reply(Net, Nothing) /\ Nothing \in Boxes /\ Net \in Queue
    BY <1>0, <2>1, <2>5
  <2>10. Moved(Taken(Net), Nothing)
    BY ONLY <2>9, TypeInv, Movements
  <2>11. KeepsAfter(Taken(Net), s)
    BY ONLY <2>9, TypeInv, Movements, "Send" # "TeleportAfter"
  <2>12. KeepsSync(Taken(Net), s)
    BY ONLY <2>9, TypeInv, Movements, "Send" # "SyncOnline"
  <2>6. Moved(Taken(Net), Nothing) /\ KeepsAfter(Taken(Net), s) /\ KeepsSync(Taken(Net), s)
    BY <2>10, <2>11, <2>12
  <2>7. CASE m.sock # s
    <3>1. SameWish(s)
      BY <2>2, <2>3, <2>7 DEF SameWish, TypeInv, ClientTypes
    <3>2. Passes(Taken(Net), s)
      BY <1>0, <2>1, <2>2, <2>7, Movements
    <3> QED BY <2>1, <2>4, <2>5, <2>6, <3>1, <3>2, SessionElsewhere DEF Elsewhere
  <2>8. CASE m.sock = s
    <3>1. CASE conn[s] = "closed"
      BY <2>1, <3>1 DEF SessionInv
    <3>2. ASSUME NEW p \in Place, NEW x, AtWork(s, Net, p, x) PROVE SessionInv(s)'
      <4>1. NoJob(box', s)
        BY <2>5, <2>6, <3>2, JobsJoined DEF Moved, AtWork
      <4>2. NoWait(s)' /\ NoMove(s)'
        BY <2>4, <3>2 DEF AtWork, SameLists, NoWait, NoMove
      <4>3. Doing(s, p, x)'
        BY <4>1, <4>2 DEF Doing, Resting
      <4>4. Stays(s, Taken(Net), Nothing)
        BY <2>1, <2>4, <2>5, <2>6 DEF Stays
      <4> QED BY <3>2, <4>3, <4>4, SessionGoesOn DEF AtWork
    <3> QED BY <1>0, <2>1, <2>2, <2>8, <3>1, <3>2, Working
  <2> QED BY <2>7, <2>8
<1> QED BY <1>1, <1>2 DEF NetStep

\* The flag in Redis: what does not concern s, ...
LEMMA SessionToken ==
  ASSUME TypeInv, NEW s \in Socket, SessionInv(s), HandleGameTokenToRedis
  PROVE  SessionInv(s)'
<1> USE DEF client, redis, thread, lobby, world, space, fate
<1> DEFINE a == Message(Redis).acct
           m == GameTokenRs(a, token[a])
<1>1. Redis \in Queue /\ Lobby \in Queue /\ Handles(Redis, "GameToken")
  BY QueueNames DEF HandleGameTokenToRedis
<1>2. a \in Account /\ Message(Redis).type = "GameToken"
  BY <1>1, Received, PacketFields DEF ByAcct
<1>3. /\ m \in Packets /\ Harmless(m, s) /\ m.type = "GameTokenRs"
      /\ Job(m, s) => Job(Message(Redis), s)
  <2>1. token[a] \in Socket \cup {None}
    BY <1>2 DEF TypeInv, StoreTypes
  <2>2. m \in Packets /\ Harmless(m, s) /\ (Job(m, s) <=> a = Owner[s])
    BY <1>2, <2>1, PacketTypes, PacketsOf
  <2> QED BY <1>2, <2>2 DEF GameTokenRs, Job
<1>4. Reply(Redis, To(Lobby, m)) /\ conn'[s] = conn[s]
  BY DEF HandleGameTokenToRedis
<1>5. SameLocator(s) /\ SameCopies(s) /\ SameFlags(s) /\ SameLists(s) /\ SameWish(s)
  BY SameIfUnchanged DEF HandleGameTokenToRedis
<1> HIDE DEF m
<1>6. \A p, x : Fits(Redis, Message(Redis), p, x) => Fits(Lobby, m, p, x)
  BY <1>2, <1>3 DEF Fits
<1> QED BY <1>1, <1>3, <1>4, <1>5, <1>6, SessionAnswer

LEMMA SessionOtherFlag ==
  ASSUME TypeInv, NEW s \in Socket, SessionInv(s), NEW type \in {"SyncOnline", "DeleteOnline"},
         Handles(Redis, type), NEW value, SetFlag(Message(Redis), value),
         Message(Redis).acct # Owner[s]
  PROVE  SessionInv(s)'
<1> USE DEF client, redis, thread, lobby, world, space, fate
<1> DEFINE m == Message(Redis)
<1>1. Redis \in Queue /\ Nothing \in Boxes /\ NoJob(Nothing, s) /\ AllHarmless(Nothing, s)
  BY QueueNames, PostedTo
<1>2. /\ Reply(Redis, Nothing) /\ conn'[s] = conn[s]
      /\ flag' = IF m.ver < flag[m.acct] THEN flag ELSE [flag EXCEPT ![m.acct] = value]
  BY DEF SetFlag
<1>3. flag'[Owner[s]] = flag[Owner[s]]
  BY <1>2, TeleportAssumption DEF TypeInv, StoreTypes
<1>4. SameLocator(s) /\ SameCopies(s) /\ SameLists(s) /\ SameWish(s)
  BY SameIfUnchanged DEF SetFlag
<1>5. SameFlags(s)
  BY <1>3 DEF SetFlag, SameFlags, NoMoreRemoved
<1>6. ~Job(m, s)
  BY <1>1, Received DEF Job
<1>7. Moved(Taken(Redis), Nothing) /\ Takes(Taken(Redis), s)
  BY <1>1, <1>2, <1>6, Movements DEF Takes
<1> QED BY <1>1, <1>2, <1>4, <1>5, <1>7, SessionElsewhere DEF Elsewhere, Takes

\* ... and what does: the flag of the present place stays.
LEMMA SessionOwnFlag ==
  ASSUME TypeInv, NEW s \in Socket, SessionInv(s),
         HandlePlayerSyncOnlineToRedis \/ HandlePlayerDeleteOnlineToRedis,
         Message(Redis).acct = Owner[s]
  PROVE  SessionInv(s)'
<1> USE DEF client, redis, thread, lobby, world, space, fate
<1> DEFINE m == Message(Redis)
           c == Nothing
<1>1. /\ Redis \in Queue /\ c \in Boxes /\ NoJob(c, s) /\ AllHarmless(c, s)
      /\ \A q \in Queue : \A n : ~In(c[q], n)
  BY QueueNames, PostedTo, Posted
<1>2. PICK type \in {"SyncOnline", "DeleteOnline"} :
        Handles(Redis, type) /\ m.type = type
  BY <1>1, Received DEF HandlePlayerSyncOnlineToRedis, HandlePlayerDeleteOnlineToRedis
<1>3. /\ m.ver \in Nat /\ In(box[Redis], m) /\ ~Job(m, s) /\ box[Redis] # <<>> /\ m = Head(box[Redis])
      /\ flag[Owner[s]] \in Nat
  <2>1. m.ver \in Nat
    BY <1>1, <1>2, Received, PacketFields DEF Version
  <2>2. flag[Owner[s]] \in Nat
    BY TeleportAssumption DEF TypeInv, StoreTypes
  <2>3. ~Job(m, s)
    BY <1>2 DEF Job
  <2> QED BY <1>1, <1>2, <2>1, <2>2, <2>3, Received
<1>4. /\ Reply(Redis, c) /\ conn'[s] = conn[s]
      /\ UNCHANGED <<hung, due, removed>>
  BY DEF HandlePlayerSyncOnlineToRedis, HandlePlayerDeleteOnlineToRedis, SetFlag
<1>5. /\ flag[Owner[s]] > m.ver => flag'[Owner[s]] = flag[Owner[s]]
      /\ flag[Owner[s]] <= m.ver =>
           flag'[Owner[s]] = IF type = "SyncOnline" THEN m.ver ELSE 0
  <2>1. PICK value : /\ flag' = IF m.ver < flag[m.acct] THEN flag ELSE [flag EXCEPT ![m.acct] = value]
                     /\ value = IF type = "SyncOnline" THEN m.ver ELSE 0
    <3>1. CASE HandlePlayerSyncOnlineToRedis
      <4>1. type = "SyncOnline"
        BY <1>1, <1>2, <3>1, Received DEF HandlePlayerSyncOnlineToRedis
      <4> QED BY <3>1, <4>1 DEF HandlePlayerSyncOnlineToRedis, SetFlag
    <3>2. CASE HandlePlayerDeleteOnlineToRedis
      <4>1. type = "DeleteOnline"
        BY <1>1, <1>2, <3>2, Received DEF HandlePlayerDeleteOnlineToRedis
      <4> QED BY <3>2, <4>1 DEF HandlePlayerDeleteOnlineToRedis, SetFlag
    <3> QED BY <3>1, <3>2
  <2>2. flag \in [Account -> Nat] /\ m.acct = Owner[s] /\ Owner[s] \in Account /\ m.ver \in Nat
    BY <1>3, TeleportAssumption DEF TypeInv, StoreTypes
  <2> HIDE DEF m
  <2>3. CASE m.ver < flag[m.acct]
    BY ONLY <2>1, <2>2, <2>3
  <2>4. CASE ~(m.ver < flag[m.acct])
    <3>1. flag' = [flag EXCEPT ![m.acct] = value]
      BY ONLY <2>1, <2>4
    <3>2. flag'[Owner[s]] = value
      BY ONLY <2>2, <3>1
    <3>3. flag[Owner[s]] \in Nat
      BY ONLY <2>2
    <3> QED BY ONLY <2>1, <2>2, <2>4, <3>2, <3>3
  <2> QED BY <2>3, <2>4
<1>6. SameLocator(s) /\ SameCopies(s) /\ SameLists(s) /\ SameWish(s)
  BY SameIfUnchanged
     DEF HandlePlayerSyncOnlineToRedis, HandlePlayerDeleteOnlineToRedis, SetFlag
<1>7. NoMoreRemoved(s)
  BY <1>4 DEF NoMoreRemoved
<1>8. Moved(Taken(Redis), c) /\ Passes(Taken(Redis), s) /\ KeepsAfter(Taken(Redis), s)
  BY <1>1, <1>2, <1>3, <1>4, Movements
<1>9. \A n : In(box'[Redis], n) => In(box[Redis], n)
  BY <1>1, <1>8, MovedIn DEF TypeInv
<1>10. \A n : In(box[Redis], n) => In(box'[Redis], n) \/ n = m
  BY <1>1, <1>3, <1>4, AfterReply DEF TypeInv
<1> HIDE DEF m, c
<1>11. /\ NoJob(box, s) => NoJob(box', s)
       /\ \A q \in Queue : \A n : OnlyJob(box, s, q, n) => OnlyJob(box', s, q, n)
  BY <1>1, <1>8, JobsKept DEF TypeInv
<1>12. Connected(s) => Connected(s)'
  BY <1>1, <1>8, ConnectedKept DEF TypeInv
<1>13. Unborn(s) => Unborn(s)'
  BY <1>1, <1>6, <1>7, <1>8, UnbornKept DEF TypeInv, SameWish
<1>14. ASSUME NEW p \in Place, NEW x, Led(s, p, x), Flagged(s, p, x), Doing(s, p, x)
       PROVE  Led(s, p, x)' /\ Flagged(s, p, x)' /\ Doing(s, p, x)'
  <2>1. x.sock = s /\ x.ver \in Nat
    BY <1>14 DEF Led, BySocket, TypeInv, PlayerTypes, Player, Version
  <2>2. Led(s, p, x)' /\ Doing(s, p, x)'
    BY <1>1, <1>6, <1>8, <1>14, LedKept, DoingKept DEF TypeInv
  <2>3. \A n : In(box'[Redis], n) /\ n.type = "DeleteOnline" /\ n.acct = Owner[s] => n.ver < x.ver
    BY <1>9, <1>14 DEF Flagged
  <2>4. type = "DeleteOnline" => m.ver < x.ver
    BY <1>2, <1>3, <1>14 DEF Flagged, m
  <2>5. flag[Owner[s]] >= x.ver => flag'[Owner[s]] >= x.ver
    BY <1>2, <1>3, <1>5, <2>1, <2>4
  <2>6. In(box[Redis], SyncOnline(Online(x))) =>
          In(box'[Redis], SyncOnline(Online(x))) \/ flag'[Owner[s]] >= x.ver
    <3>1. SyncOnline(Online(x)).type = "SyncOnline" /\ SyncOnline(Online(x)).ver = x.ver
      BY DEF SyncOnline, Online
    <3>2. m = SyncOnline(Online(x)) => flag'[Owner[s]] >= x.ver
      BY <1>2, <1>3, <1>5, <2>1, <3>1
    <3> QED BY <1>10, <3>2
  <2>7. p \notin hung' => flag'[Owner[s]] >= x.ver \/ Online(x) \in due'[p]
                           \/ In(box'[Redis], SyncOnline(Online(x)))
    BY <1>4, <1>14, <2>5, <2>6 DEF Flagged
  <2>8. \A q \in Place : \A o \in removed'[q] : o.sock = s => o.ver < x.ver
    BY <1>4, <1>14 DEF Flagged
  <2> QED BY <2>2, <2>3, <2>7, <2>8 DEF Flagged
<1> QED BY <1>4, <1>11, <1>12, <1>13, <1>14 DEF SessionInv, Starting

LEMMA SessionRedis ==
  ASSUME TypeInv, NEW s \in Socket, SessionInv(s), RedisStep
  PROVE  SessionInv(s)'
<1>1. CASE HandleGameTokenToRedis
  BY <1>1, SessionToken
<1>2. CASE HandlePlayerSyncOnlineToRedis
  BY <1>2, SessionOwnFlag, SessionOtherFlag DEF HandlePlayerSyncOnlineToRedis
<1>3. CASE HandlePlayerDeleteOnlineToRedis
  BY <1>3, SessionOwnFlag, SessionOtherFlag DEF HandlePlayerDeleteOnlineToRedis
<1> QED BY <1>1, <1>2, <1>3 DEF RedisStep

LEMMA SessionDb ==
  ASSUME TypeInv, NEW s \in Socket, SessionInv(s), DbStep
  PROVE  SessionInv(s)'
<1> USE DEF client, redis, thread, lobby, world, space, fate
<1> DEFINE a == Message(Db).acct
<1>0. Db \in Queue /\ Lobby \in Queue
  BY QueueNames
<1>1. CASE HandleQueryPlayer
  <2> DEFINE m == QueryPlayerRs(a, saved[a])
  <2>1. Handles(Db, "QueryPlayer") /\ Reply(Db, To(Lobby, m)) /\ conn'[s] = conn[s]
    BY <1>1 DEF HandleQueryPlayer
  <2>2. a \in Account /\ Message(Db).type = "QueryPlayer"
    BY <1>0, <2>1, Received, PacketFields DEF ByAcct
  <2>3. m \in Packets /\ Harmless(m, s) /\ (Job(m, s) <=> a = Owner[s])
    BY <2>2, PacketTypes, PacketsOf DEF TypeInv, StoreTypes
  <2>4. m.type = "QueryPlayerRs"
    BY DEF QueryPlayerRs
  <2>5. Job(m, s) => Job(Message(Db), s)
    BY <2>2, <2>3 DEF Job
  <2>6. SameLocator(s) /\ SameCopies(s) /\ SameFlags(s) /\ SameLists(s) /\ SameWish(s)
    BY <1>1, SameIfUnchanged DEF HandleQueryPlayer
  <2> HIDE DEF m
  <2>7. \A p, x : Fits(Db, Message(Db), p, x) => Fits(Lobby, m, p, x)
    BY <2>2, <2>4 DEF Fits
  <2> QED BY <1>0, <2>1, <2>3, <2>5, <2>6, <2>7, SessionAnswer
<1>2. CASE HandleSavePlayer
  <2>1. Handles(Db, "SavePlayer") /\ Reply(Db, Nothing) /\ conn'[s] = conn[s]
    BY <1>2 DEF HandleSavePlayer
  <2>2. SameLocator(s) /\ SameCopies(s) /\ SameFlags(s) /\ SameLists(s) /\ SameWish(s)
    BY <1>2, SameIfUnchanged DEF HandleSavePlayer
  <2> QED BY <1>0, <2>1, <2>2, SessionTaken
<1> QED BY <1>1, <1>2 DEF DbStep

\* The World sends S2C_EnterWorld.
LEMMA SessionSpace ==
  ASSUME TypeInv, NEW s \in Socket, SessionInv(s), NEW w \in World, SpaceStep(w)
  PROVE  SessionInv(s)'
<1> USE DEF client, redis, thread, lobby, world, space, fate
<1> DEFINE a == Message(Space(w)).acct
           q == Space(w)
<1>0. Space(w) \in Queue /\ w \in Queue /\ Db \in Queue
  BY QueueNames
<1>1. conn'[s] = conn[s]
  BY DEF SpaceStep, HandleSyncPlayer, HandleRequestSyncPlayer, HandleG2SRemovePlayer, WorldDisconnect
<1>2. SameLocator(s) /\ SameCopies(s) /\ SameFlags(s) /\ SameLists(s) /\ SameWish(s)
  BY SameIfUnchanged
     DEF SpaceStep, HandleSyncPlayer, HandleRequestSyncPlayer, HandleG2SRemovePlayer, WorldDisconnect
<1>3. CASE HandleSyncPlayer(w)
  <2> DEFINE m == ToClient(a, w)
  <2>1. /\ Handles(Space(w), "SyncPlayer")
        /\ Reply(Space(w), To(w, m)) \/ Reply(Space(w), Nothing)
    BY <1>3 DEF HandleSyncPlayer
  <2>2. a \in Account /\ Message(Space(w)).type = "SyncPlayer"
    BY <1>0, <2>1, Received, PacketFields DEF ByAcct
  <2>3. m \in Packets /\ Harmless(m, s) /\ (Job(m, s) <=> a = Owner[s])
    BY <2>2, PacketTypes, PacketsOf
  <2>4. m.type = "ToClient"
    BY DEF ToClient
  <2>5. Job(m, s) => Job(Message(Space(w)), s)
    BY <2>2, <2>3 DEF Job
  <2> HIDE DEF m
  <2>7. \A p, x : Fits(Space(w), Message(Space(w)), p, x) => Fits(w, m, p, x)
    BY <2>2, <2>4 DEF Fits
  <2> QED BY <1>0, <1>1, <1>2, <2>1, <2>3, <2>5, <2>7, SessionAnswer
<1>4. CASE HandleRequestSyncPlayer(w)
  <2> DEFINE m == S2GSyncPlayer(a)
  <2>1. /\ Handles(Space(w), "RequestSync")
        /\ Reply(Space(w), To(w, m)) \/ Reply(Space(w), Nothing)
    BY <1>4 DEF HandleRequestSyncPlayer
  <2>2. a \in Account
    BY <1>0, <2>1, Received, PacketFields DEF ByAcct
  <2>3. m \in Packets /\ Harmless(m, s) /\ ~Job(m, s)
    BY <2>2, PacketTypes, PacketsOf DEF Minor
  <2> HIDE DEF m
  <2> QED BY <1>0, <1>1, <1>2, <2>1, <2>3, SessionAnswer
<1>5. CASE HandleG2SRemovePlayer(w)
  <2>1. Handles(Space(w), "RemovePlayer") /\ Reply(Space(w), Nothing)
    BY <1>5 DEF HandleG2SRemovePlayer
  <2> QED BY <1>0, <1>1, <1>2, <2>1, SessionTaken
<1>6. CASE WorldDisconnect(w)
  <2> DEFINE m == SavePlayer(a, w)
  <2>1. /\ Handles(Space(w), "PlayerGone")
        /\ Reply(Space(w), To(Db, m)) \/ Reply(Space(w), Nothing)
    BY <1>6 DEF WorldDisconnect
  <2>2. a \in Account
    BY <1>0, <2>1, Received, PacketFields DEF ByAcct
  <2>3. m \in Packets /\ Harmless(m, s) /\ ~Job(m, s)
    BY <2>2, PacketTypes, PacketsOf DEF Minor
  <2> HIDE DEF m
  <2> QED BY <1>0, <1>1, <1>2, <2>1, <2>3, SessionAnswer
<1> QED BY <1>3, <1>4, <1>5, <1>6 DEF SpaceStep

LEMMA SessionAwake ==
  ASSUME TypeInv, NEW s \in Socket, SessionInv(s), NEW w \in World, ProxyAwake(w)
  PROVE  SessionInv(s)'
<1> USE DEF client, redis, thread, lobby, world, space, fate
<1> DEFINE m == BroadcastProxy(w)
           c == ToAll(m)
<1>1. m \in Packets /\ Harmless(m, s) /\ ~Job(m, s)
  BY PacketTypes, PacketsOf DEF Minor
<1>2. Post(c) /\ conn'[s] = conn[s]
  BY DEF ProxyAwake
<1>3. SameLocator(s) /\ SameCopies(s) /\ SameFlags(s) /\ SameLists(s) /\ SameWish(s)
  BY SameIfUnchanged DEF ProxyAwake
<1> HIDE DEF m
<1>4. c \in Boxes /\ NoJob(c, s) /\ AllHarmless(c, s)
  BY <1>1, PostedTo
<1> HIDE DEF c
<1>5. Moved(box, c) /\ Takes(box, s)
  BY <1>2, <1>4, Movements
<1> QED BY <1>2, <1>3, <1>4, <1>5, SessionElsewhere DEF Elsewhere, Takes

\* The flag of an account expires: that of s only where s has no player.
LEMMA SessionExpire ==
  ASSUME TypeInv, NEW s \in Socket, SessionInv(s), NEW a \in Account, Expire(a)
  PROVE  SessionInv(s)'
<1> USE DEF client, redis, thread, lobby, world, space, fate
<1> DEFINE Of(O) == {o \in O : Owner[o.sock] = a}
<1>1. /\ \A p \in Place \ hung : Of(players[p]) = {}
      /\ flag' = [flag EXCEPT ![a] = 0] /\ conn'[s] = conn[s]
      /\ UNCHANGED <<hung, due, removed, box>>
  BY DEF Expire
<1>2. SameLocator(s) /\ SameCopies(s) /\ SameLists(s) /\ SameWish(s)
  BY SameIfUnchanged DEF Expire
<1>3. NoMoreRemoved(s)
  BY <1>1 DEF NoMoreRemoved
<1>4. /\ Nothing \in Boxes /\ NoJob(Nothing, s) /\ AllHarmless(Nothing, s) /\ box \in Boxes
      /\ Moved(box, Nothing) /\ Passes(box, s) /\ KeepsAfter(box, s) /\ KeepsSync(box, s)
  BY <1>1, PostedTo, Movements DEF TypeInv, Takes
<1>5. CASE a # Owner[s]
  <2>1. flag'[Owner[s]] = flag[Owner[s]]
    BY <1>1, <1>5 DEF TypeInv, StoreTypes
  <2>2. SameFlags(s)
    BY <1>1, <1>3, <2>1 DEF SameFlags
  <2> QED BY <1>1, <1>2, <1>4, <2>2, SessionElsewhere DEF Elsewhere
<1>6. CASE a = Owner[s]
  <2>1. NoJob(box, s) => NoJob(box, s)'
    BY <1>1 DEF NoJob
  <2>2. Connected(s) => Connected(s)'
    BY <1>4, ConnectedKept
  <2>3. Unborn(s) => Unborn(s)'
    BY <1>2, <1>3, <1>4, UnbornKept DEF SameWish
  <2>4. Starting(s) => Starting(s)'
    BY <1>1 DEF Starting, NoJob, OnlyJob
  <2>5. ASSUME NEW p \in Place, NEW x, Led(s, p, x), Flagged(s, p, x), Doing(s, p, x)
        PROVE  Led(s, p, x)' /\ Flagged(s, p, x)' /\ Doing(s, p, x)'
    <3>1. Led(s, p, x)' /\ Doing(s, p, x)'
      BY <1>2, <1>4, <2>5, LedKept, DoingKept
    <3>2. x \in players[p] /\ x.sock = s
      BY <2>5 DEF Led, BySocket
    <3>3. p \in hung'
      BY <1>1, <1>6, <3>2
    <3>4. Flagged(s, p, x)'
      BY <1>1, <2>5, <3>3 DEF Flagged
    <3> QED BY <3>1, <3>4
  <2> QED BY <1>1, <2>1, <2>2, <2>3, <2>4, <2>5 DEF SessionInv
<1> QED BY <1>5, <1>6

\* All of a set's elements are in any sequence of its elements.
LEMMA SeveralOnto ==
  ASSUME NEW S, IsFiniteSet(S), NEW o \in SetToSeqs(S), NEW e \in S
  PROVE  \E i \in 1..Len(o) : o[i] = e
<1> SUFFICES ASSUME \A i \in 1..Len(o) : o[i] # e PROVE FALSE
  OBVIOUS
<1> DEFINE n == Cardinality(S)
           R == S \ {e}
<1>1. /\ n \in Nat /\ Len(o) = n
      /\ \A i \in 1..n : o[i] \in R
      /\ \A i, j \in 1..n : i # j => o[i] # o[j]
  BY SeveralTypes
<1>2. IsFiniteSet(R) /\ Cardinality(R) = n - 1
  BY FS_RemoveElement
<1>3. IsFiniteSet(1..n) /\ Cardinality(1..n) = n
  BY <1>1, FS_Interval
<1> DEFINE f == [i \in 1..n |-> o[i]]
           D == 1..n
<1>4. D = 1..n /\ f \in [D -> R] /\ \A i \in 1..n : f[i] = o[i]
  BY <1>1
<1> HIDE DEF n, R, f, D
<1>5. IsFiniteSet(R) /\ IsFiniteSet(D) /\ Cardinality(R) < Cardinality(D) /\ f \in [D -> R]
  BY <1>1, <1>2, <1>3, <1>4
<1>6. \E i, j \in D : i # j /\ f[i] = f[j]
  BY ONLY <1>5, FS_PigeonHole
<1> QED BY <1>1, <1>4, <1>6

LEMMA AllSynced ==
  ASSUME NEW S \in SUBSET OnlineSet, IsFiniteSet(S), NEW packets \in Each(S, SyncOnline), NEW e \in S
  PROVE  In(packets, SyncOnline(e))
<1>1. PICK o \in SetToSeqs(S) : packets = [i \in 1..Len(o) |-> SyncOnline(o[i])]
  BY DEF Each
<1>2. Len(o) \in Nat
  BY SeveralTypes
<1>3. PICK i \in 1..Len(o) : o[i] = e
  BY SeveralOnto
<1>4. Len(packets) = Len(o)
  BY <1>1, <1>2
<1> QED BY <1>1, <1>3, <1>4 DEF In

\* Several packets for one reader.
LEMMA PostedSeveral ==
  ASSUME NEW r \in Queue, NEW packets \in Seq(Packets), NEW s
  PROVE  LET c == [Nothing EXCEPT ![r] = packets]
         IN  /\ c \in Boxes
             /\ \A q \in Queue : \A m : In(c[q], m) <=> q = r /\ In(packets, m)
             /\ (\A m : In(packets, m) => ~Job(m, s)) => NoJob(c, s)
             /\ (\A m : In(packets, m) => Harmless(m, s)) => AllHarmless(c, s)
<1> DEFINE c == [Nothing EXCEPT ![r] = packets]
<1>1. c \in Boxes /\ c[r] = packets /\ \A q \in Queue : q # r => c[q] = Nothing[q]
  BY PostTypes, PostMore
<1> HIDE DEF c
<1>2. \A q \in Queue : \A m : In(c[q], m) <=> q = r /\ In(packets, m)
  BY <1>1, Posted
<1>3. c \in Boxes /\ ((\A m : In(packets, m) => ~Job(m, s)) => NoJob(c, s))
  BY <1>1, <1>2 DEF NoJob
<1>4. (\A m : In(packets, m) => Harmless(m, s)) => AllHarmless(c, s)
  BY <1>2 DEF AllHarmless
<1> QED BY <1>2, <1>3, <1>4 DEF c

\* A step that leaves all but the player's flag alone.
LEMMA SessionFlag ==
  ASSUME TypeInv, NEW s, SessionInv(s), NEW b, NEW c, Moved(b, c), Passes(b, s), KeepsAfter(b, s),
         NoJob(c, s), AllHarmless(c, s), conn'[s] = conn[s], SameLocator(s), SameCopies(s),
         NoMoreRemoved(s), SameLists(s), SameWish(s),
         \A p \in Place : \A x : Led(s, p, x) /\ Flagged(s, p, x) => Flagged(s, p, x)'
  PROVE  SessionInv(s)'
<1>0. box \in Boxes
  BY DEF TypeInv
<1>1. /\ NoJob(box, s) => NoJob(box', s)
      /\ \A q \in Queue : \A m : OnlyJob(box, s, q, m) => OnlyJob(box', s, q, m)
  BY <1>0, JobsKept
<1>2. Connected(s) => Connected(s)'
  BY <1>0, ConnectedKept
<1>3. Unborn(s) => Unborn(s)'
  BY <1>0, UnbornKept DEF SameWish
<1>4. Starting(s) => Starting(s)'
  BY <1>1 DEF Starting
<1>5. ASSUME NEW p \in Place, NEW x, Led(s, p, x), Flagged(s, p, x), Doing(s, p, x)
      PROVE  Led(s, p, x)' /\ Flagged(s, p, x)' /\ Doing(s, p, x)'
  BY <1>0, <1>5, LedKept, DoingKept
<1>6. conn'[s] = conn[s]
  OBVIOUS
<1> QED BY <1>1, <1>2, <1>3, <1>4, <1>5, <1>6 DEF SessionInv

\* What is due goes to Redis.
LEMMA SessionTimer ==
  ASSUME TypeInv, NEW s \in Socket, SessionInv(s), NEW r \in Place, TimerUpdate(r)
  PROVE  SessionInv(s)'
<1> USE DEF client, redis, thread, lobby, world, space, fate
<1>1. PICK packets \in Each(due[r], SyncOnline) : Post([Nothing EXCEPT ![Redis] = packets])
  BY DEF TimerUpdate
<1> DEFINE c == [Nothing EXCEPT ![Redis] = packets]
<1>2. due[r] \in SUBSET OnlineSet /\ IsFiniteSet(due[r])
  BY DEF TypeInv, ThreadTypes
<1>3. /\ packets \in Seq(Packets)
      /\ \A m : In(packets, m) => \E o \in due[r] : m = SyncOnline(o)
      /\ \A o \in due[r] : In(packets, SyncOnline(o))
  BY <1>1, <1>2, SyncOnlines, AllSynced
<1>4. \A o : ~Job(SyncOnline(o), s) /\ Harmless(SyncOnline(o), s) /\ SyncOnline(o).type = "SyncOnline"
  BY PacketsOf DEF Minor, SyncOnline
<1>5. /\ c \in Boxes /\ NoJob(c, s) /\ AllHarmless(c, s) /\ Redis \in Queue
      /\ \A q \in Queue : \A m : In(c[q], m) <=> q = Redis /\ In(packets, m)
  BY <1>3, <1>4, QueueNames, PostedSeveral
<1>0. Post(c)
  BY <1>1
<1> HIDE DEF c
<1>6. Moved(box, c) /\ Takes(box, s) /\ box \in Boxes
  BY <1>0, <1>5, Movements DEF TypeInv
<1>7. SameLocator(s) /\ SameCopies(s) /\ SameLists(s) /\ SameWish(s) /\ conn'[s] = conn[s]
  BY SameIfUnchanged DEF TimerUpdate
<1>8. /\ due' = [due EXCEPT ![r] = {}] /\ UNCHANGED <<flag, hung, removed>> /\ due \in [Place -> SUBSET OnlineSet]
  BY DEF TimerUpdate, TypeInv, ThreadTypes
<1>9. NoMoreRemoved(s)
  BY <1>8 DEF NoMoreRemoved
<1>10. ASSUME NEW p \in Place, NEW x, Flagged(s, p, x)
       PROVE  Flagged(s, p, x)'
  <2>1. \A m : In(box[Redis], m) => In(box'[Redis], m)
    BY <1>5, <1>6, MovedIn
  <2>2. \A m : In(box'[Redis], m) /\ m.type = "DeleteOnline" => In(box[Redis], m)
    BY <1>3, <1>4, <1>5, <1>6, MovedIn
  <2>3. Online(x) \in due[p] => Online(x) \in due'[p] \/ In(box'[Redis], SyncOnline(Online(x)))
    <3>1. CASE p = r
      BY <1>3, <1>5, <1>6, <3>1, MovedIn
    <3>2. CASE p # r
      BY <1>8, <3>2
    <3> QED BY <3>1, <3>2
  <2>4. p \notin hung' => \/ flag'[Owner[s]] >= x.ver
                          \/ Online(x) \in due'[p]
                          \/ In(box'[Redis], SyncOnline(Online(x)))
    BY <1>8, <1>10, <2>1, <2>3 DEF Flagged
  <2> QED BY <1>8, <1>10, <2>2, <2>4 DEF Flagged
<1> QED BY <1>5, <1>6, <1>7, <1>9, <1>10, SessionFlag DEF Takes

\* What is removed has an older version.
LEMMA SessionEntities ==
  ASSUME OneSession, TypeInv, NEW s \in Socket, SessionInv(s), NEW r \in Place, EntityUpdate(r)
  PROVE  SessionInv(s)'
<1> USE DEF client, redis, thread, lobby, world, space, fate
<1>1. PICK packets \in Each(removed[r], DeleteOnline) : Post([Nothing EXCEPT ![Redis] = packets])
  BY DEF EntityUpdate
<1> DEFINE c == [Nothing EXCEPT ![Redis] = packets]
<1>2. removed[r] \in SUBSET OnlineSet /\ IsFiniteSet(removed[r])
  BY DEF TypeInv, ThreadTypes
<1>3. /\ packets \in Seq(Packets)
      /\ \A m : In(packets, m) => \E o \in removed[r] : m = DeleteOnline(o)
  BY <1>1, <1>2, DeleteOnlines
<1>4. \A o \in removed[r] : /\ ~Job(DeleteOnline(o), s)
                            /\ o.sock # s => Harmless(DeleteOnline(o), s)
  BY <1>2, PacketsOf DEF OneSession, OnlineSet
<1>14. \A o : /\ DeleteOnline(o).type = "DeleteOnline" /\ DeleteOnline(o).ver = o.ver
              /\ DeleteOnline(o).acct = Owner[o.sock]
  BY DEF DeleteOnline
<1>5. /\ c \in Boxes /\ NoJob(c, s) /\ Redis \in Queue
      /\ \A q \in Queue : \A m : In(c[q], m) <=> q = Redis /\ In(packets, m)
      /\ (\A o \in removed[r] : o.sock # s) => AllHarmless(c, s)
  BY <1>3, <1>4, QueueNames, PostedSeveral
<1>0. Post(c)
  BY <1>1
<1> HIDE DEF c
<1>6. Moved(box, c) /\ Takes(box, s) /\ box \in Boxes
  BY <1>0, <1>5, Movements DEF TypeInv
<1>7. SameLocator(s) /\ SameCopies(s) /\ SameLists(s) /\ SameWish(s) /\ conn'[s] = conn[s]
  BY SameIfUnchanged DEF EntityUpdate
<1>8. /\ removed' = [removed EXCEPT ![r] = {}] /\ UNCHANGED <<flag, hung, due>>
      /\ removed \in [Place -> SUBSET OnlineSet]
  BY DEF EntityUpdate, TypeInv, ThreadTypes
<1>9. NoMoreRemoved(s)
  BY <1>8 DEF NoMoreRemoved
<1>10. SameFlags(s)
  BY <1>8, <1>9 DEF SameFlags
<1>11. CASE \A o \in removed[r] : o.sock # s
  BY <1>5, <1>6, <1>7, <1>10, <1>11, SessionElsewhere DEF Elsewhere, Takes
<1>12. CASE ~\A o \in removed[r] : o.sock # s
  <2>1. CASE conn[s] = "closed"
    BY <1>7, <2>1 DEF SessionInv
  <2>2. CASE conn[s] = "idle"
    BY <1>12, <2>2 DEF SessionInv, Unborn
  <2>3. CASE conn[s] = "open"
    <3>1a. PICK p \in Place : \E x : Led(s, p, x) /\ Flagged(s, p, x) /\ Doing(s, p, x) /\ Connected(s)
      BY <1>12, <2>3 DEF SessionInv, Unborn
    <3>1. PICK x : Led(s, p, x) /\ Flagged(s, p, x) /\ Doing(s, p, x) /\ Connected(s)
      BY <3>1a
    <3>2. \A q \in Place : box'[q] = box[q]
      <4>1. \A q \in Place : c[q] = <<>>
        BY QueueNames, PostTypes DEF c
      <4>2. \A q \in Place : q \in Queue
        BY QueueNames
      <4> QED BY <1>0, <1>5, <1>6, <4>1, <4>2, Kept
    <3>3. /\ locator'[s] = locator[s]
          /\ \A q \in Place : BySocket(q, s)' = BySocket(q, s)
      BY <1>7 DEF SameLocator, SameCopies
    <3>4. Led(s, p, x)'
      BY ONLY <3>1, <3>2, <3>3 DEF Led
    <3>5. Doing(s, p, x)'
      BY <1>5, <1>6, <1>7, <3>1, DoingKept DEF Takes
    <3>6. Flagged(s, p, x)'
      <4>0. box \in Boxes /\ c \in Boxes /\ Moved(box, c) /\ Redis \in Queue
        BY <1>5, <1>6
      <4>1. \A m : In(box[Redis], m) => In(box'[Redis], m)
        BY ONLY <4>0, MovedIn
      <4>2. p \notin hung' => \/ flag'[Owner[s]] >= x.ver
                              \/ Online(x) \in due'[p]
                              \/ In(box'[Redis], SyncOnline(Online(x)))
        BY <1>8, <3>1, <4>1 DEF Flagged
      <4>3. \A q \in Place : \A o \in removed'[q] : o.sock = s => o.ver < x.ver
        BY <1>8, <3>1 DEF Flagged
      <4>4. ASSUME NEW m, In(box'[Redis], m), m.type = "DeleteOnline", m.acct = Owner[s]
            PROVE  m.ver < x.ver
        <5>1. CASE In(box[Redis], m)
          BY <3>1, <4>4, <5>1 DEF Flagged
        <5>2. CASE In(c[Redis], m)
          <6>1. PICK o \in removed[r] : m = DeleteOnline(o)
            BY <1>3, <1>5, <5>2
          <6>2. Owner[o.sock] = Owner[s] /\ m.ver = o.ver /\ o.sock \in Socket
            BY <1>2, <1>14, <4>4, <6>1 DEF OnlineSet
          <6>3. o.sock = s
            BY <6>2 DEF OneSession
          <6> QED BY <3>1, <6>2, <6>3 DEF Flagged
        <5> QED BY <1>5, <1>6, <4>4, <5>1, <5>2, MovedIn
      <4> QED BY <4>2, <4>3, <4>4 DEF Flagged
    <3>7. Connected(s)'
      <4>0. box \in Boxes /\ c \in Boxes /\ Moved(box, c)
        BY <1>5, <1>6
      <4>2. \A q \in Queue : \A m : In(box'[q], m) => In(box[q], m) \/ In(c[q], m)
        BY ONLY <4>0, MovedIn
      <4>3. \A q \in Queue : \A m : In(c[q], m) => m.type = "DeleteOnline"
        BY ONLY <1>3, <1>5, <1>14
      <4>1. \A q \in Queue : \A m : In(box'[q], m) => In(box[q], m) \/ m.type = "DeleteOnline"
        BY ONLY <4>2, <4>3
      <4> QED BY <3>1, <4>1 DEF Connected
    <3> QED BY <1>7, <2>3, <3>4, <3>5, <3>6, <3>7 DEF SessionInv
  <2> QED BY <2>1, <2>2, <2>3 DEF TypeInv, ClientTypes
<1> QED BY <1>11, <1>12

LEMMA SessionFrame ==
  ASSUME OneSession, TypeInv, NEW s \in Socket, SessionInv(s), NEW r \in Place,
         FrameStep(r) \/ Period(r)
  PROVE  SessionInv(s)'
<1> USE DEF client, redis, thread, lobby, world, space, fate
<1>1. CASE Period(r)
  <2>1. /\ UNCHANGED <<box, flag, hung, removed>> /\ conn'[s] = conn[s]
        /\ \E x \in players[r] : due' = [due EXCEPT ![r] = @ \cup {Online(x)}]
    BY <1>1 DEF Period
  <2>2. \A p \in Place : due[p] \subseteq due'[p]
    BY <2>1 DEF TypeInv, ThreadTypes
  <2>3. SameFlags(s)
    BY <2>1, <2>2 DEF SameFlags, NoMoreRemoved
  <2>4. SameLocator(s) /\ SameCopies(s) /\ SameLists(s) /\ SameWish(s)
    BY <1>1, SameIfUnchanged DEF Period
  <2>5. Moved(box, Nothing) /\ Takes(box, s) /\ NoJob(Nothing, s) /\ AllHarmless(Nothing, s)
    BY <2>1, Movements, PostedTo
  <2> QED BY <2>1, <2>3, <2>4, <2>5, SessionElsewhere DEF Elsewhere, Takes
<1> QED BY <1>1, SessionTimer, SessionEntities DEF FrameStep

\* Players of other sockets come and go.
LEMMA CopiesAdded ==
  ASSUME TypeInv, NEW s, NEW p \in Place, NEW x, x.sock # s, AddPlayer(p, x)
  PROVE  SameCopies(s) /\ \A q \in Place : due[q] \subseteq due'[q]
<1>1. /\ players \in [Place -> SUBSET Player] /\ players' = [players EXCEPT ![p] = @ \cup {x}]
      /\ due \in [Place -> SUBSET OnlineSet] /\ due' = [due EXCEPT ![p] = @ \cup {Online(x)}]
  BY DEF TypeInv, PlayerTypes, ThreadTypes, AddPlayer
<1>2. \A q \in Place : players'[q] = IF q = p THEN players[q] \cup {x} ELSE players[q]
  BY <1>1
<1>3. \A q \in Place : BySocket(q, s)' = BySocket(q, s)
  BY <1>2 DEF BySocket
<1> QED BY <1>1, <1>3 DEF SameCopies

LEMMA CopiesRemoved ==
  ASSUME TypeInv, NEW s, NEW p \in Place, NEW x, x.sock # s, RemovePlayerOf(p, x)
  PROVE  SameCopies(s) /\ NoMoreRemoved(s)
<1>1. /\ players \in [Place -> SUBSET Player] /\ players' = [players EXCEPT ![p] = @ \ {x}]
      /\ removed \in [Place -> SUBSET OnlineSet] /\ removed' = [removed EXCEPT ![p] = @ \cup {Online(x)}]
  BY DEF TypeInv, PlayerTypes, ThreadTypes, RemovePlayerOf
<1>2. \A q \in Place : players'[q] = IF q = p THEN players[q] \ {x} ELSE players[q]
  BY <1>1
<1>3. \A q \in Place : BySocket(q, s)' = BySocket(q, s)
  BY <1>2 DEF BySocket
<1>4. Online(x).sock # s
  BY DEF Online
<1>5. NoMoreRemoved(s)
  BY <1>1, <1>4 DEF NoMoreRemoved
<1> QED BY <1>3, <1>5 DEF SameCopies

\* A player's SN leads to the players of its account's one socket.
LEMMA OwnBySn ==
  ASSUME OneSession, TypeInv, NamesInv, NEW s \in Socket, NEW p \in Place
  PROVE  /\ \A x \in BySn(p, Owner[s]) : x \in BySocket(p, s) /\ x.sn = Owner[s]
         /\ \A x \in BySocket(p, s) : x.sn = Owner[s] => BySn(p, Owner[s]) # {}
         /\ \A a \in Account \ {Owner[s]} : \A x \in BySn(p, a) : x.sock # s
<1>1. /\ Owner[s] \in Account /\ 0 \notin Account
      /\ \A x \in players[p] : x.sock \in Socket /\ x.sn \in {0, Owner[x.sock]}
  BY TeleportAssumption DEF TypeInv, PlayerTypes, Player, NamesInv, PeopleInv, Named
<1>2. \A x \in players[p] : x.sn = Owner[s] => x.sock = s
  BY <1>1 DEF OneSession
<1>3. \A x \in BySn(p, Owner[s]) : x \in BySocket(p, s) /\ x.sn = Owner[s]
  BY <1>2 DEF BySn, BySocket
<1>4. ASSUME NEW x \in BySocket(p, s), x.sn = Owner[s] PROVE x \in BySn(p, Owner[s])
  <2>1. \A y \in players[p] : y.sn = Owner[s] => x.sock = y.sock
    BY <1>2, <1>4 DEF BySocket
  <2>2. x.sock \in Nat
    BY TeleportAssumption, <1>1, <1>4 DEF BySocket
  <2>3. \A y \in players[p] : y.sn = Owner[s] => x.sock <= y.sock
    BY <2>1, <2>2
  <2> QED BY <1>4, <2>3 DEF BySn, BySocket
<1>5. ASSUME NEW a \in Account \ {Owner[s]}, NEW x \in BySn(p, a) PROVE x.sock # s
  BY <1>1, <1>5 DEF BySn
<1> QED BY <1>3, <1>4, <1>5

\* Another client's player leaves a place.
LEMMA SessionLeaves ==
  ASSUME TypeInv, NEW s \in Socket, SessionInv(s), NEW r \in Place,
         NEW type \in {"Disconnect", "TeleportAfter"}, Handles(r, type),
         type = "TeleportAfter" => Message(r).acct # Owner[s],
         NEW x, x.sock # s, RemovePlayerOf(r, x),
         NEW c \in Boxes, Reply(r, c), NoJob(c, s), AllHarmless(c, s),
         UNCHANGED <<client, locator, redis, due, waiting, objects, hung>>
  PROVE  SessionInv(s)'
<1> USE DEF client, redis
<1>0. r \in Queue
  BY QueueNames
<1>1. ~Job(Message(r), s)
  BY <1>0, Received DEF Job
<1>2. Moved(Taken(r), c) /\ Takes(Taken(r), s)
  BY <1>0, <1>1, Movements DEF Takes
<1>3. SameCopies(s) /\ NoMoreRemoved(s)
  BY CopiesRemoved
<1>4. SameLocator(s) /\ SameLists(s) /\ SameWish(s) /\ conn'[s] = conn[s]
  BY SameIfUnchanged
<1>5. SameFlags(s)
  BY <1>3 DEF SameFlags
<1> QED BY <1>2, <1>3, <1>4, <1>5, SessionElsewhere DEF Elsewhere, Takes

LEMMA AfterPacket ==
  ASSUME NEW m \in Packets, m.type = "TeleportAfter"
  PROVE  m = TeleportAfter(m.acct)
BY DEF Packets, ByAcct, ByAcctWorld, BySock, TeleportAfter

\* The player of s leaves its old place.
LEMMA SessionAfter ==
  ASSUME OneSession, TypeInv, NamesInv, NEW s \in Socket, SessionInv(s), NEW r \in Place,
         Handles(r, "TeleportAfter"), Message(r).acct = Owner[s],
         NEW y \in BySn(r, Owner[s]), RemovePlayerOf(r, y),
         NEW c \in Boxes, Reply(r, c), NoJob(c, s), AllHarmless(c, s),
         UNCHANGED <<client, locator, redis, due, waiting, objects, hung>>
  PROVE  SessionInv(s)'
<1> USE DEF client, redis
<1> DEFINE m == TeleportAfter(Owner[s])
<1>0. r \in Queue /\ Redis \notin Place /\ Redis \in Queue /\ box \in Boxes /\ \A q \in Place : q \in Queue
  BY QueueNames DEF TypeInv
<1>1. box[r] # <<>> /\ Head(box[r]) = m /\ In(box[r], m) /\ ~Job(m, s)
  <2>1. Message(r) = m
    BY <1>0, Received, AfterPacket
  <2> QED BY <1>0, <2>1, Received, PacketsOf
<1>2. Moved(Taken(r), c) /\ Passes(Taken(r), s) /\ KeepsSync(Taken(r), s)
  <2>1. Message(r) = m
    BY <1>0, <1>1 DEF Message
  <2>2. ~Job(Message(r), s)
    BY <1>1, <2>1
  <2> QED BY <1>0, <2>2, Movements
<1>3. SameLocator(s) /\ SameLists(s) /\ SameWish(s) /\ conn'[s] = conn[s]
  BY SameIfUnchanged
<1>4. /\ players' = [players EXCEPT ![r] = @ \ {y}] /\ players \in [Place -> SUBSET Player]
      /\ removed' = [removed EXCEPT ![r] = @ \cup {Online(y)}] /\ removed \in [Place -> SUBSET OnlineSet]
  BY DEF RemovePlayerOf, TypeInv, PlayerTypes, ThreadTypes
<1>5. y \in BySocket(r, s)
  BY OwnBySn
<1>6. CASE conn[s] = "closed"
  BY <1>3, <1>6 DEF SessionInv
<1>7. CASE conn[s] = "idle"
  BY <1>1, <1>7 DEF SessionInv, Unborn
<1>8. CASE conn[s] = "open"
  <2>1a. PICK p \in Place : \E x : Led(s, p, x) /\ Flagged(s, p, x) /\ Doing(s, p, x) /\ Connected(s)
    BY <1>1, <1>8 DEF SessionInv, Unborn
  <2>1. PICK x : Led(s, p, x) /\ Flagged(s, p, x) /\ Doing(s, p, x) /\ Connected(s)
    BY <2>1a
  <2>2. r # p
    BY <1>1, <2>1 DEF Led
  <2>3. /\ Once(box[r], m) /\ \A z \in BySocket(r, s) : z = y
        /\ y.ver < x.ver
    BY <1>5, <2>1, <2>2 DEF Led
  <2>4. \A q \in Place : In(box'[q], m) <=> In(box[q], m) /\ q # r
    <3>1. \A q \in Queue : ~In(c[q], m)
      BY DEF AllHarmless, Harmless, TeleportAfter
    <3>2. /\ Taken(r)[r] = Tail(box[r])
          /\ \A q \in Queue : q # r => Taken(r)[q] = box[q]
      BY <1>0, <1>1, AfterTake
    <3>3. ~In(Tail(box[r]), m)
      BY <1>0, <1>1, <2>3, TailQueue DEF Boxes
    <3> HIDE DEF m
    <3> QED BY <1>0, <1>2, <3>1, <3>2, <3>3, MovedIn
  <2>5. \A q \in Place : Once(box[q], m) => Once(box'[q], m)
    <3>1. \A q \in Queue : ~In(c[q], m)
      BY DEF AllHarmless, Harmless, TeleportAfter
    <3> HIDE DEF m
    <3> QED BY <1>0, <1>2, <3>1, MovedIn
  <2>6. \A q \in Place : BySocket(q, s)' = IF q = r THEN {} ELSE BySocket(q, s)
    BY <1>4, <2>3 DEF BySocket
  <2>7. Led(s, p, x)'
    <3>1. locator'[s] = p /\ BySocket(p, s)' = {x} /\ ~In(box'[p], m)
      BY <1>3, <2>1, <2>2, <2>4, <2>6 DEF Led, SameLocator
    <3>2. \A q \in Place \ {p} :
            /\ Once(box[q], m)
            /\ In(box[q], m) <=> BySocket(q, s) # {}
            /\ \A z, zz \in BySocket(q, s) : z = zz
            /\ \A z \in BySocket(q, s) : z.ver < x.ver /\ z.sn = Owner[s]
      BY <2>1 DEF Led
    <3>3. \A q, qq \in Place : q # qq =>
            \A z \in BySocket(q, s) : \A zz \in BySocket(qq, s) : z.ver # zz.ver
      BY <2>1 DEF Led
    <3> HIDE DEF m
    <3>4. \A q \in Place \ {p} :
            /\ Once(box'[q], m)
            /\ In(box'[q], m) <=> BySocket(q, s)' # {}
            /\ \A z, zz \in BySocket(q, s)' : z = zz
            /\ \A z \in BySocket(q, s)' : z.ver < x.ver /\ z.sn = Owner[s]
      BY ONLY <2>4, <2>5, <2>6, <3>2
    <3>5. \A q, qq \in Place : q # qq =>
            \A z \in BySocket(q, s)' : \A zz \in BySocket(qq, s)' : z.ver # zz.ver
      BY ONLY <2>6, <3>3
    <3> QED BY <3>1, <3>4, <3>5 DEF Led, m
  <2>8. Flagged(s, p, x)'
    <3>1. \A n : In(box[Redis], n) /\ n.type = "SyncOnline" /\ n.acct = Owner[s] => In(box'[Redis], n)
      BY <1>0, <1>2, MovedIn DEF KeepsSync
    <3>2. SyncOnline(Online(x)).type = "SyncOnline" /\ SyncOnline(Online(x)).acct = Owner[s]
      BY <2>1 DEF SyncOnline, Online, Led, BySocket
    <3>3. p \notin hung' => \/ flag'[Owner[s]] >= x.ver
                            \/ Online(x) \in due'[p]
                            \/ In(box'[Redis], SyncOnline(Online(x)))
      BY <2>1, <3>1, <3>2 DEF Flagged
    <3>4. \A q \in Place : \A o \in removed'[q] : o.sock = s => o.ver < x.ver
      <4>1. Online(y).ver < x.ver
        BY <2>3 DEF Online
      <4> QED BY <1>4, <2>1, <4>1 DEF Flagged
    <3>5. \A n : In(box'[Redis], n) /\ n.type = "DeleteOnline" /\ n.acct = Owner[s] => n.ver < x.ver
      <4>1. \A n : In(box'[Redis], n) => In(box[Redis], n) \/ In(c[Redis], n)
        BY <1>0, <1>2, MovedIn
      <4> QED BY <1>0, <2>1, <4>1 DEF Flagged, AllHarmless, Harmless
    <3> QED BY <3>3, <3>4, <3>5 DEF Flagged
  <2>9. Doing(s, p, x)'
    BY <1>0, <1>2, <1>3, <2>1, DoingKept
  <2>10. Connected(s)'
    BY <1>0, <1>2, <2>1, ConnectedKept
  <2> QED BY <1>3, <1>8, <2>7, <2>8, <2>9, <2>10 DEF SessionInv
<1> QED BY <1>6, <1>7, <1>8 DEF TypeInv, ClientTypes

\* There is a player to remove.
LEMMA AfterFound ==
  ASSUME OneSession, TypeInv, NamesInv, NEW s \in Socket, SessionInv(s), NEW r \in Place,
         Handles(r, "TeleportAfter"), Message(r).acct = Owner[s], BySn(r, Owner[s]) = {}
  PROVE  conn[s] = "closed"
<1>0. r \in Queue
  BY QueueNames
<1>1. In(box[r], TeleportAfter(Owner[s]))
  BY <1>0, Received, AfterPacket
<1>2. BySocket(r, s) # {} => \E y \in BySocket(r, s) : y.sn # Owner[s]
  BY OwnBySn
<1>3. ~Unborn(s)
  BY <1>1 DEF Unborn
<1>4. \A p \in Place : \A x : ~Led(s, p, x)
  BY <1>1, <1>2 DEF Led
<1> QED BY <1>3, <1>4 DEF SessionInv, TypeInv, ClientTypes

\* What the Lobby sends at a login.
LoginPosts(t) == [Nothing EXCEPT ![Net] = <<NetworkListenKey(t)>>, ![Redis] = <<GameToken(Owner[t])>>]

LEMMA LoginPostsTo ==
  ASSUME NEW t \in Socket
  PROVE  /\ LoginPosts(t) \in Boxes
         /\ \A q \in Queue : \A m : In(LoginPosts(t)[q], m) <=>
              (q = Net /\ m = NetworkListenKey(t)) \/ (q = Redis /\ m = GameToken(Owner[t]))
         /\ \A m : Once(LoginPosts(t)[Redis], m)
<1> DEFINE k == <<NetworkListenKey(t)>>
           g == <<GameToken(Owner[t])>>
           p1 == [Nothing EXCEPT ![Net] = k]
           p2 == [p1 EXCEPT ![Redis] = g]
<1>9. Owner[t] \in Account
  BY TeleportAssumption
<1>10. NetworkListenKey(t) \in Packets /\ GameToken(Owner[t]) \in Packets
  BY <1>9, PacketTypes
<1>1. k \in Seq(Packets) /\ g \in Seq(Packets)
  BY ONLY <1>10
<1>2. /\ \A m : In(k, m) <=> m = NetworkListenKey(t)
      /\ \A m : In(g, m) <=> m = GameToken(Owner[t])
      /\ \A m : ~In(<<>>, m)
      /\ \A m : Once(g, m)
  BY DEF In, Once
<1>3. Net \in Queue /\ Redis \in Queue /\ Net # Redis
  BY QueueNames
<1>4. LoginPosts(t) = p2
  BY DEF LoginPosts
<1> HIDE DEF k, g
<1>5. p1 \in Boxes /\ p1[Net] = k /\ \A q \in Queue : q # Net => p1[q] = <<>>
  BY <1>1, <1>3, PostTypes, PostMore
<1> HIDE DEF p1
<1>6. p2 \in Boxes /\ p2[Redis] = g /\ \A q \in Queue : q # Redis => p2[q] = p1[q]
  BY <1>1, <1>3, <1>5, PostMore
<1> HIDE DEF p2
<1>7. \A q \in Queue : q \notin {Net, Redis} => p2[q] = <<>>
  BY <1>5, <1>6
<1>8. p2[Net] = k
  BY <1>3, <1>5, <1>6
<1> QED BY <1>2, <1>3, <1>4, <1>6, <1>7, <1>8

LEMMA SessionLogin ==
  ASSUME OneSession, TypeInv, NamesInv, NEW s \in Socket, SessionInv(s), HandleLoginByToken
  PROVE  SessionInv(s)'
<1> USE DEF client, redis, thread, lobby, world, space, fate
<1>14. PICK t : t = Message(Lobby).sock
  OBVIOUS
<1> DEFINE c == LoginPosts(t)
           x == NewPlayer(t, 0, 1)
<1>0. Lobby \in Queue /\ Redis \in Queue /\ Lobby \in Place /\ box \in Boxes /\ \A q \in Place : q \in Queue
  BY QueueNames DEF TypeInv
<1>1. /\ Handles(Lobby, "LoginByToken") /\ AddPlayer(Lobby, x)
      /\ locator' = [locator EXCEPT ![t] = Lobby]
      /\ UNCHANGED <<client, redis, removed, waiting, objects, hung>>
      /\ Reply(Lobby, c)
  BY <1>14 DEF HandleLoginByToken, LoginPosts
<1>2. t \in Socket /\ Message(Lobby).type = "LoginByToken" /\ Message(Lobby).sock = t
  BY <1>0, <1>1, <1>14, Received, PacketFields
<1>3. x.sock = t /\ x.ver = 1 /\ Online(x).sock = t
  BY DEF NewPlayer, Online
<1>4. c \in Boxes /\ AllHarmless(c, s) /\ (t # s => NoJob(c, s))
  <2>1. /\ Harmless(NetworkListenKey(t), s) /\ Harmless(GameToken(Owner[t]), s)
        /\ ~Job(NetworkListenKey(t), s)
        /\ t # s => ~Job(GameToken(Owner[t]), s)
    BY <1>2, PacketsOf DEF Minor, OneSession
  <2>2. c \in Boxes /\ \A q \in Queue : \A m : In(c[q], m) =>
              m = NetworkListenKey(t) \/ m = GameToken(Owner[t])
    BY <1>2, LoginPostsTo
  <2> HIDE DEF c
  <2> QED BY <2>1, <2>2 DEF AllHarmless, NoJob
<1> HIDE DEF c
<1>5. Moved(Taken(Lobby), c) /\ KeepsAfter(Taken(Lobby), s) /\ KeepsSync(Taken(Lobby), s)
  <2>1. Moved(Taken(Lobby), c)
    BY <1>0, <1>1, <1>4, Movements
  <2>4. Handles(Lobby, "LoginByToken") /\ Lobby \in Queue
    BY <1>0, <1>1
  <2>2. KeepsAfter(Taken(Lobby), s)
    BY ONLY <2>4, TypeInv, OtherType, "LoginByToken" # "TeleportAfter"
  <2>3. KeepsSync(Taken(Lobby), s)
    BY ONLY <2>4, TypeInv, OtherType, "LoginByToken" # "SyncOnline"
  <2> QED BY <2>1, <2>2, <2>3
<1>6. SameLists(s) /\ SameWish(s) /\ conn'[s] = conn[s]
  BY <1>1, SameIfUnchanged
<1>7. Job(Message(Lobby), s) <=> t = s
  BY <1>2 DEF Job
<1>8. CASE t # s
  <2>1. Passes(Taken(Lobby), s)
    BY <1>0, <1>1, <1>7, <1>8, Movements
  <2>2. SameLocator(s)
    BY <1>1, <1>8 DEF SameLocator, TypeInv, StoreTypes
  <2>3. SameCopies(s) /\ \A q \in Place : due[q] \subseteq due'[q]
    BY <1>0, <1>1, <1>3, <1>8, CopiesAdded
  <2>4. SameFlags(s)
    BY <1>1, <2>3 DEF SameFlags, NoMoreRemoved
  <2> QED BY <1>4, <1>5, <1>6, <1>8, <2>1, <2>2, <2>3, <2>4, SessionElsewhere DEF Elsewhere
<1>9. CASE t = s
  <2> DEFINE m == TeleportAfter(Owner[s])
             g == GameToken(Owner[s])
  <2>1. /\ ~NoJob(box, s)
        /\ \A q \in Queue : \A n : OnlyJob(box, s, q, n) => NoJob(Taken(Lobby), s) /\ n = Message(Lobby)
    BY <1>0, <1>1, <1>7, <1>9, Received, JobsTaken
  <2>2. CASE conn[s] = "closed"
    BY <1>6, <2>2 DEF SessionInv
  <2>3. CASE conn[s] = "idle"
    BY <2>1, <2>3 DEF SessionInv
  <2>4. CASE conn[s] = "open"
    <3>1. \A p \in Place : \A z : ~Doing(s, p, z)
      BY <1>2, <2>1 DEF Doing, Carried, Waiting, Moving, Resting, Fits
    <3>2. Unborn(s) /\ Starting(s) /\ Connected(s)
      BY <2>4, <3>1 DEF SessionInv
    <3>3. NoJob(Taken(Lobby), s)
      BY <1>0, <2>1, <3>2 DEF Starting
    <3>4. locator'[s] = Lobby
      BY <1>1, <1>9 DEF TypeInv, StoreTypes
    <3>5. \A q \in Place : BySocket(q, s)' = IF q = Lobby THEN {x} ELSE {}
      <4>1. \A q \in Place : players'[q] = IF q = Lobby THEN players[q] \cup {x} ELSE players[q]
        BY <1>0, <1>1 DEF AddPlayer, TypeInv, PlayerTypes
      <4>2. \A q \in Place : \A z \in players[q] : z.sock # s
        BY <3>2 DEF Unborn, BySocket
      <4> HIDE DEF x
      <4> QED BY <1>3, <1>9, <4>1, <4>2 DEF BySocket
    <3>6. \A q \in Place : ~In(box'[q], m)
      <4>1. \A q \in Queue : ~In(c[q], m)
        BY <1>4 DEF AllHarmless, Harmless, TeleportAfter
      <4> QED BY <1>0, <1>5, <3>2, <4>1, MovedIn DEF Unborn
    <3>7. Led(s, Lobby, x)'
      <4> HIDE DEF x
      <4>1. Lobby \in Place /\ BySocket(Lobby, s)' = {x} /\ \A q \in Place \ {Lobby} : BySocket(q, s)' = {}
        BY <1>0, <3>5
      <4>2. \A q \in Place : Once(box'[q], m)
        BY <3>6, NeverTwice
      <4>3. \A q, r \in Place : q # r => \A y \in BySocket(q, s)' : \A z \in BySocket(r, s)' : y.ver # z.ver
        BY ONLY <4>1
      <4> QED BY ONLY <3>4, <3>6, <4>1, <4>2, <4>3 DEF Led
    <3>8. Flagged(s, Lobby, x)'
      <4>1. Online(x) \in due'[Lobby]
        BY <1>0, <1>1 DEF AddPlayer, TypeInv, ThreadTypes
      <4>2. \A q \in Place : \A o \in removed'[q] : o.sock # s
        BY <1>1, <3>2 DEF Unborn
      <4>3. \A n : In(box'[Redis], n) /\ n.type = "DeleteOnline" => n.acct # Owner[s]
        <5>1. \A n : In(box'[Redis], n) => In(box[Redis], n) \/ In(c[Redis], n)
          BY <1>0, <1>5, MovedIn
        <5> QED BY <1>0, <1>4, <3>2, <5>1 DEF Unborn, AllHarmless, Harmless
      <4> QED BY <4>1, <4>2, <4>3 DEF Flagged
    <3>9. OnlyJob(c, s, Redis, g)
      <4>1. Job(g, s) /\ g = GameToken(Owner[t]) /\ ~Job(NetworkListenKey(t), s)
        BY <1>9, PacketsOf DEF Minor
      <4>2. /\ \A q \in Queue : \A n : In(c[q], n) =>
                 (q = Net /\ n = NetworkListenKey(t)) \/ (q = Redis /\ n = GameToken(Owner[t]))
            /\ \A n : Once(c[Redis], n)
        BY <1>2, LoginPostsTo DEF c
      <4> HIDE DEF g
      <4> QED BY <4>1, <4>2 DEF OnlyJob
    <3>10. OnlyJob(box', s, Redis, g)
      BY <1>0, <1>5, <3>3, <3>9, JobsJoined DEF Moved
    <3>11. g.type = "GameToken"
      BY DEF GameToken
    <3> HIDE DEF g
    <3>12. Fits(Redis, g, Lobby, x)
      BY <3>11 DEF Fits
    <3>13. NoWait(s)' /\ NoMove(s)' /\ ~Rests(s)'
      BY <1>6, <3>2 DEF Unborn, NoWait, NoMove, Rests, SameLists, SameWish
    <3>14. Doing(s, Lobby, x)'
      BY <1>0, <3>10, <3>12, <3>13 DEF Doing, Carried
    <3>15. Connected(s)'
      BY <1>0, <1>4, <1>5, <3>2, ConnectedKept
    <3> QED BY <1>0, <1>6, <2>4, <3>7, <3>8, <3>14, <3>15 DEF SessionInv
  <2> QED BY <2>2, <2>3, <2>4 DEF TypeInv, ClientTypes
<1> QED BY <1>8, <1>9

\* A packet that is dropped.
LEMMA SessionIgnored ==
  ASSUME TypeInv, NEW s \in Socket, SessionInv(s), NEW r \in Queue, NEW type, Handles(r, type),
         Ignored(r), type \notin {"LoginByToken", "TeleportAfter", "SyncOnline"}
  PROVE  SessionInv(s)'
<1>1. /\ Reply(r, Nothing) /\ conn'[s] = conn[s]
      /\ SameLocator(s) /\ SameCopies(s) /\ SameFlags(s) /\ SameLists(s) /\ SameWish(s)
  BY SameIfUnchanged DEF Ignored, client, redis, thread, lobby, world, space, fate
<1> QED BY <1>1, SessionTaken

LEMMA SessionAfterIgnored ==
  ASSUME OneSession, TypeInv, NamesInv, NEW s \in Socket, SessionInv(s), NEW r \in Place,
         Handles(r, "TeleportAfter"), Ignored(r), BySn(r, Message(r).acct) = {}
  PROVE  SessionInv(s)'
<1>0. r \in Queue /\ Nothing \in Boxes /\ NoJob(Nothing, s) /\ AllHarmless(Nothing, s)
  BY QueueNames, PostedTo
<1>1. /\ Reply(r, Nothing) /\ conn'[s] = conn[s]
      /\ SameLocator(s) /\ SameCopies(s) /\ SameFlags(s) /\ SameLists(s) /\ SameWish(s)
  BY SameIfUnchanged DEF Ignored, client, redis, thread, lobby, world, space, fate
<1>2. CASE Message(r).acct = Owner[s]
  <2>1. conn[s] = "closed"
    BY <1>2, AfterFound
  <2> QED BY <1>1, <2>1 DEF SessionInv
<1>3. CASE Message(r).acct # Owner[s]
  <2>1. ~Job(Message(r), s)
    BY <1>0, Received DEF Job
  <2>2. Moved(Taken(r), Nothing) /\ Takes(Taken(r), s)
    BY <1>0, <1>1, <1>3, <2>1, Movements DEF Takes
  <2> QED BY <1>0, <1>1, <2>2, SessionElsewhere DEF Elsewhere, Takes
<1> QED BY <1>2, <1>3

\* Whoever has been said to have closed has closed.
LEMMA Disconnected ==
  ASSUME TypeInv, NEW s \in Socket, SessionInv(s), NEW r \in Queue, Handles(r, "Disconnect"),
         Message(r).sock = s
  PROVE  conn[s] = "closed"
<1>1. In(box[r], Message(r)) /\ Message(r).type = "Disconnect"
  BY Received
<1> QED BY <1>1 DEF SessionInv, Connected, TypeInv, ClientTypes

LEMMA SessionLobbyLeft ==
  ASSUME OneSession, TypeInv, NamesInv, NEW s \in Socket, SessionInv(s),
         LobbyDisconnect \/ LobbyTeleportAfter
  PROVE  SessionInv(s)'
<1> USE DEF client, redis, thread, lobby, world, space, fate
<1> DEFINE m == Message(Lobby)
<1>0. /\ Lobby \in Queue /\ Lobby \in Place
      /\ Nothing \in Boxes /\ NoJob(Nothing, s) /\ AllHarmless(Nothing, s)
  BY QueueNames, PostedTo
<1>1. CASE LobbyDisconnect
  <2>1. Handles(Lobby, "Disconnect")
    BY <1>1 DEF LobbyDisconnect
  <2>2. CASE Ignored(Lobby)
    BY <1>0, <2>1, <2>2, SessionIgnored
  <2>3. ASSUME NEW x \in BySocket(Lobby, m.sock), RemovePlayerFromLobby(x), Reply(Lobby, Nothing),
               UNCHANGED <<client, tagged, locator, redis, due, frame, refreshes, waiting, world,
                           space, fate>>
        PROVE  SessionInv(s)'
    <3>1. x.sock = m.sock /\ RemovePlayerOf(Lobby, x)
      BY <2>3 DEF BySocket, RemovePlayerFromLobby
    <3>2. CASE m.sock = s
      <4>1. conn[s] = "closed"
        BY <1>0, <2>1, <3>2, Disconnected
      <4> QED BY <2>3, <4>1 DEF SessionInv
    <3>3. CASE m.sock # s
      <4>1. UNCHANGED <<client, locator, redis, due, waiting, objects, hung>>
        BY <2>3
      <4> QED BY <1>0, <2>1, <2>3, <3>1, <3>3, <4>1, SessionLeaves
    <3> QED BY <3>2, <3>3
  <2> QED BY <1>1, <2>2, <2>3 DEF LobbyDisconnect
<1>2. CASE LobbyTeleportAfter
  <2>1. Handles(Lobby, "TeleportAfter")
    BY <1>2 DEF LobbyTeleportAfter
  <2>2. CASE Ignored(Lobby) /\ BySn(Lobby, m.acct) = {}
    BY <1>0, <2>1, <2>2, SessionAfterIgnored
  <2>3. ASSUME NEW x \in BySn(Lobby, m.acct), RemovePlayerFromLobby(x), Reply(Lobby, Nothing),
               UNCHANGED <<client, tagged, locator, redis, due, frame, refreshes, waiting, world,
                           space, fate>>
        PROVE  SessionInv(s)'
    <3>1. RemovePlayerOf(Lobby, x)
      BY <2>3 DEF RemovePlayerFromLobby
    <3>2. UNCHANGED <<client, locator, redis, due, waiting, objects, hung>>
      BY <2>3
    <3>3. CASE m.acct = Owner[s]
      BY <1>0, <2>1, <2>3, <3>1, <3>2, <3>3, SessionAfter
    <3>4. CASE m.acct # Owner[s]
      <4>1. m.acct \in Account
        BY <1>0, <2>1, Received, PacketFields DEF ByAcct
      <4>2. x.sock # s
        BY <1>0, <2>3, <3>4, <4>1, OwnBySn
      <4> QED BY <1>0, <2>1, <2>3, <3>1, <3>2, <3>4, <4>2, SessionLeaves
    <3> QED BY <3>3, <3>4
  <2> QED BY <1>2, <2>2, <2>3 DEF LobbyTeleportAfter
<1> QED BY <1>1, <1>2

LEMMA SessionTokenRs ==
  ASSUME TypeInv, NEW s \in Socket, SessionInv(s), HandleGameTokenToRedisRs
  PROVE  SessionInv(s)'
<1> USE DEF client, redis, thread, lobby, world, space, fate
<1> DEFINE a == Message(Lobby).acct
           m == QueryPlayer(a)
<1>0. Lobby \in Queue /\ Db \in Queue
  BY QueueNames
<1>1. /\ Handles(Lobby, "GameTokenRs") /\ conn'[s] = conn[s]
      /\ Reply(Lobby, To(Db, m)) \/ Reply(Lobby, Nothing)
  BY DEF HandleGameTokenToRedisRs
<1>2. a \in Account /\ Message(Lobby).type = "GameTokenRs"
  BY <1>0, <1>1, Received, PacketFields
<1>3. /\ m \in Packets /\ Harmless(m, s) /\ m.type = "QueryPlayer"
      /\ Job(m, s) => Job(Message(Lobby), s)
  <2>1. m \in Packets /\ Harmless(m, s) /\ (Job(m, s) <=> a = Owner[s])
    BY <1>2, PacketTypes, PacketsOf
  <2> QED BY <1>2, <2>1 DEF QueryPlayer, Job
<1>4. SameLocator(s) /\ SameCopies(s) /\ SameFlags(s) /\ SameLists(s) /\ SameWish(s)
  BY SameIfUnchanged DEF HandleGameTokenToRedisRs
<1> HIDE DEF m
<1>5. \A p, x : Fits(Lobby, Message(Lobby), p, x) => Fits(Db, m, p, x)
  BY <1>2, <1>3 DEF Fits
<1> QED BY <1>0, <1>1, <1>3, <1>4, <1>5, SessionAnswer

\* Who waits for a world teleports when it is there.
LEMMA SessionWaited ==
  ASSUME OneSession, TypeInv, NamesInv, NEW s \in Socket, SessionInv(s), LobbyBroadcastCreateWorldProxy
  PROVE  SessionInv(s)'
<1> USE DEF client, redis, thread, lobby, world, space, fate
<1> DEFINE w == Message(Lobby).world
           ready == UNION {BySn(Lobby, a) : a \in waiting[w]}
<1>0. Lobby \in Queue /\ Lobby \in Place /\ box \in Boxes
  BY QueueNames DEF TypeInv
<1>1. Handles(Lobby, "BroadcastProxy")
  BY DEF LobbyBroadcastCreateWorldProxy
<1>2. w \in World /\ w \in Queue /\ Message(Lobby).type = "BroadcastProxy"
  BY <1>0, <1>1, Received, PacketFields, QueueNames
<1>3. PICK packets \in Teleports(ready, Lobby) : Reply(Lobby, [Nothing EXCEPT ![w] = packets])
  BY DEF LobbyBroadcastCreateWorldProxy
<1> DEFINE c == [Nothing EXCEPT ![w] = packets]
<1>4. ready \in SUBSET Known /\ IsFiniteSet(ready)
  <2>1. waiting[w] \subseteq Account
    BY <1>2 DEF TypeInv, PlayerTypes
  <2>2. ready \subseteq Known /\ ready \subseteq players[Lobby]
    BY <1>0, <2>1, FoundTypes
  <2>3. IsFiniteSet(players[Lobby])
    BY <1>0 DEF TypeInv, PlayerTypes
  <2> QED BY <2>2, <2>3, FS_Subset
<1>5. /\ packets \in Seq(Packets)
      /\ \A m : In(packets, m) => \E x \in ready : m = TeleportTo(x, Lobby)
      /\ \A m : Once(packets, m)
  BY <1>0, <1>3, <1>4, TeleportsOf
<1>6. \A x \in ready : x.sock = s => Owner[s] \in waiting[w] /\ x \in BySocket(Lobby, s)
  <2>1. waiting[w] \subseteq Account
    BY <1>2 DEF TypeInv, PlayerTypes
  <2> QED BY <1>0, <2>1, OwnBySn, FoundTypes DEF BySocket
<1>7. \A x : Job(TeleportTo(x, Lobby), s) <=> x.sock = s
  BY PacketsOf
<1>8. \A x : Harmless(TeleportTo(x, Lobby), s)
  BY PacketsOf
<1> HIDE DEF ready
<1>9. /\ c \in Boxes /\ AllHarmless(c, s)
      /\ \A q \in Queue : \A m : In(c[q], m) <=> q = w /\ In(packets, m)
      /\ c[w] = packets
  <2>1. \A m : In(packets, m) => Harmless(m, s)
    BY <1>5, <1>8
  <2>2. c[w] = packets
    BY ONLY <1>2, PostTypes DEF Boxes
  <2> QED BY <1>2, <1>5, <2>1, <2>2, PostedSeveral
<1> HIDE DEF c
<1>10. Reply(Lobby, c)
  BY <1>3 DEF c
<1>11. ~Job(Message(Lobby), s)
  BY <1>2 DEF Job
<1>12. Moved(Taken(Lobby), c) /\ Takes(Taken(Lobby), s)
  <2>1. Handles(Lobby, "BroadcastProxy") /\ Lobby \in Queue
    BY <1>0, <1>1
  <2>2. KeepsAfter(Taken(Lobby), s)
    BY ONLY <2>1, TypeInv, OtherType, "BroadcastProxy" # "TeleportAfter"
  <2>3. KeepsSync(Taken(Lobby), s)
    BY ONLY <2>1, TypeInv, OtherType, "BroadcastProxy" # "SyncOnline"
  <2>4. Moved(Taken(Lobby), c) /\ Passes(Taken(Lobby), s)
    BY <1>9, <1>10, <1>11, <2>1, Movements
  <2> QED BY <2>2, <2>3, <2>4 DEF Takes
<1>13. /\ SameLocator(s) /\ SameCopies(s) /\ SameFlags(s) /\ SameWish(s) /\ conn'[s] = conn[s]
       /\ UNCHANGED objects
  BY SameIfUnchanged DEF LobbyBroadcastCreateWorldProxy
<1>14. \A v \in World : waiting'[v] = IF v = w THEN {} ELSE waiting[v]
  BY <1>2 DEF LobbyBroadcastCreateWorldProxy, TypeInv, PlayerTypes
<1> HIDE DEF w
<1>15. CASE Owner[s] \notin waiting[w]
  <2>1. NoJob(c, s)
    BY <1>5, <1>6, <1>7, <1>9, <1>15 DEF NoJob
  <2>2. SameLists(s)
    BY <1>13, <1>14, <1>15 DEF SameLists
  <2> QED BY <1>9, <1>12, <1>13, <2>1, <2>2, SessionElsewhere DEF Elsewhere, Takes
<1>16. CASE Owner[s] \in waiting[w]
  <2>1. CASE conn[s] = "closed"
    BY <1>13, <2>1 DEF SessionInv
  <2>2. CASE conn[s] = "idle"
    BY <1>2, <1>16, <2>2 DEF SessionInv, Unborn, NoWait
  <2>3. CASE conn[s] = "open"
    <3>1a. PICK p \in Place : \E x : Led(s, p, x) /\ Flagged(s, p, x) /\ Doing(s, p, x) /\ Connected(s)
      BY <1>2, <1>16, <2>3 DEF SessionInv, Unborn, NoWait
    <3>1. PICK x : Led(s, p, x) /\ Flagged(s, p, x) /\ Doing(s, p, x) /\ Connected(s)
      BY <3>1a
    <3>2. Waiting(s, p)
      BY <1>2, <1>16, <3>1 DEF Doing, Carried, Moving, Resting, NoWait
    <3>3. NoJob(box, s) /\ NoJob(Taken(Lobby), s)
      BY <1>0, <1>12, <3>2, PassesIn DEF Takes, Waiting
    <3>4. p = Lobby /\ \A y \in BySocket(Lobby, s) : y = x
      BY <3>1, <3>2 DEF Waiting, Led
    <3>5. NoWait(s)' /\ NoMove(s)' /\ ~Rests(s)'
      BY <1>2, <1>13, <1>14, <1>16, <3>2 DEF Waiting, NoWait, NoMove, Rests, SameWish
    <3> DEFINE m == TeleportTo(x, Lobby)
    <3>6. \A q \in Queue : \A n : In(c[q], n) /\ Job(n, s) => q = w /\ n = m
      BY <1>5, <1>6, <1>7, <1>9, <3>4
    <3>7. NoJob(c, s) \/ OnlyJob(c, s, w, m)
      <4>1. CASE NoJob(c, s)
        BY <4>1
      <4>2. CASE ~NoJob(c, s)
        <5>1. Job(m, s)
          BY <3>6, <4>2 DEF NoJob
        <5> HIDE DEF m
        <5> QED BY <1>2, <1>5, <1>9, <3>6, <5>1 DEF OnlyJob
      <4> QED BY <4>1, <4>2
    <3>8. Fits(w, m, Lobby, x)
      BY DEF Fits, TeleportTo
    <3> HIDE DEF m
    <3>9. NoJob(box', s) \/ OnlyJob(box', s, w, m)
      BY <1>0, <1>2, <1>12, <3>3, <3>7, JobsJoined DEF Moved
    <3>10. Doing(s, p, x)'
      BY <1>2, <3>4, <3>5, <3>8, <3>9 DEF Doing, Resting, Carried
    <3>11. Stays(s, Taken(Lobby), c)
      BY <1>9, <1>12, <1>13 DEF Stays, Takes
    <3> QED BY <2>3, <3>1, <3>10, <3>11, SessionGoesOn
  <2> QED BY <2>1, <2>2, <2>3 DEF TypeInv, ClientTypes
<1> QED BY <1>15, <1>16

\* The Lobby learns the SN of the player of s and sends it to its last world,
\* or has it wait for that world.
LEMMA SessionOwnQuery ==
  ASSUME OneSession, TypeInv, NamesInv, NEW s \in Socket, SessionInv(s), HandleQueryPlayerRs,
         Message(Lobby).acct = Owner[s], NEW x \in ByAccount(Owner[s]),
         LET y == Identified(x, Owner[s])
             w == Message(Lobby).world
         IN  /\ players' = [players EXCEPT ![Lobby] = (@ \ {x}) \cup {y}]
             /\ IF w \in proxies
                  THEN /\ Reply(Lobby, To(w, TeleportTo(y, Lobby)))
                       /\ UNCHANGED <<waiting, requested>>
                  ELSE /\ Reply(Lobby, Nothing)
                       /\ waiting' = [waiting EXCEPT ![w] = @ \cup {y.sn}]
             /\ UNCHANGED <<client, locator, redis, thread, objects, fate>>
  PROVE  SessionInv(s)'
<1> USE DEF client, redis, thread, fate
<1> DEFINE y == Identified(x, Owner[s])
           w == Message(Lobby).world
           m == TeleportTo(y, Lobby)
           ta == TeleportAfter(Owner[s])
<1>0. /\ Lobby \in Queue /\ Lobby \in Place /\ box \in Boxes /\ Redis \in Queue
      /\ \A q \in Place : q \in Queue
  BY QueueNames DEF TypeInv
<1>1. Handles(Lobby, "QueryPlayerRs")
  BY DEF HandleQueryPlayerRs
<1>2. w \in World /\ w \in Queue /\ Message(Lobby).type = "QueryPlayerRs"
  BY <1>0, <1>1, Received, PacketFields, QueueNames DEF ByAcctWorld
<1>3. x \in players[Lobby] /\ x \in Player /\ x.sock \in Socket /\ x.sock = s
  <2>1. x \in players[Lobby] /\ x \in Player /\ x.sock \in Socket /\ x.sock = accounts[Owner[s]]
    BY <1>0 DEF ByAccount, TypeInv, PlayerTypes, Player
  <2>2. Owner[x.sock] = Owner[s]
    BY <2>1, TeleportAssumption DEF NamesInv, PeopleInv
  <2> QED BY <2>1, <2>2 DEF OneSession
<1>4. y \in Known /\ y.sock = s /\ y.sn = Owner[s] /\ y.ver = x.ver /\ Online(y) = Online(x)
  BY <1>3, TeleportAssumption DEF Identified, Player, Known, Online
<1>5. Job(Message(Lobby), s)
  BY <1>2 DEF Job
<1>6. /\ m \in Packets /\ Job(m, s) /\ Harmless(m, s)
      /\ m.type = "Teleport" /\ m.from = Lobby /\ m.player = y
  BY <1>0, <1>4, PacketTypes, PacketsOf DEF TeleportTo
<1>7. players' = [players EXCEPT ![Lobby] = (@ \ {x}) \cup {y}]
  OBVIOUS
<1>8. \/ w \in proxies /\ Reply(Lobby, To(w, m)) /\ UNCHANGED waiting
      \/ Reply(Lobby, Nothing) /\ waiting' = [waiting EXCEPT ![w] = @ \cup {Owner[s]}]
  BY <1>4
<1>9. /\ UNCHANGED <<conn, locator, flag, hung, due, removed, objects, at, want>>
  OBVIOUS
<1>10. \A v \in World : waiting[v] \subseteq Account
  BY DEF TypeInv, PlayerTypes
<1> HIDE DEF y, w, m
<1>11. PICK c \in Boxes :
         /\ Reply(Lobby, c) /\ AllHarmless(c, s)
         /\ \/ OnlyJob(c, s, w, m) /\ UNCHANGED waiting
            \/ NoJob(c, s) /\ \A v \in World :
                 Owner[s] \in waiting'[v] <=> v = w \/ Owner[s] \in waiting[v]
  <2>1. CASE Reply(Lobby, To(w, m)) /\ UNCHANGED waiting
    BY <1>2, <1>6, <2>1, PostedTo
  <2>2. CASE Reply(Lobby, Nothing) /\ waiting' = [waiting EXCEPT ![w] = @ \cup {Owner[s]}]
    <3>1. \A v \in World : Owner[s] \in waiting'[v] <=> v = w \/ Owner[s] \in waiting[v]
      BY <1>2, <2>2 DEF TypeInv, PlayerTypes
    <3> QED BY <2>2, <3>1, PostedTo
  <2> QED BY <1>8, <2>1, <2>2
<1>12. Moved(Taken(Lobby), c)
  BY <1>0, <1>1, <1>11, Movements
<1>13. KeepsAfter(Taken(Lobby), s)
  BY ONLY <1>0, <1>1, TypeInv, OtherType, "QueryPlayerRs" # "TeleportAfter"
<1>14. KeepsSync(Taken(Lobby), s)
  BY ONLY <1>0, <1>1, TypeInv, OtherType, "QueryPlayerRs" # "SyncOnline"
<1>15. CASE conn[s] = "closed"
  BY <1>9, <1>15 DEF SessionInv
<1>16. ASSUME NEW p \in Place, NEW z, AtWork(s, Lobby, p, z) PROVE SessionInv(s)'
  <2>1. p = Lobby /\ Led(s, Lobby, z) /\ Flagged(s, Lobby, z)
    BY <1>2, <1>16 DEF AtWork, Fits
  <2>2. z = x /\ BySocket(Lobby, s) = {x}
    BY <1>3, <2>1 DEF Led, BySocket
  <2>3. \A q \in Place : BySocket(q, s)' = IF q = Lobby THEN {y} ELSE BySocket(q, s)
    <3>1. \A q \in Place : players'[q] = IF q = Lobby THEN (players[q] \ {x}) \cup {y} ELSE players[q]
      BY <1>7 DEF TypeInv, PlayerTypes
    <3>2. \A u \in players[Lobby] : u.sock = s => u = x
      BY <2>2 DEF BySocket
    <3>3. \A q \in Place : /\ BySocket(q, s) = {u \in players[q] : u.sock = s}
                          /\ BySocket(q, s)' = {u \in players'[q] : u.sock = s}
      BY DEF BySocket
    <3>4. BySocket(Lobby, s)' = {y}
      BY ONLY <1>0, <1>4, <3>1, <3>2, <3>3
    <3> QED BY ONLY <3>1, <3>3, <3>4
  <2>4. \A q \in Place : (In(box'[q], ta) <=> In(box[q], ta)) /\ (Once(box[q], ta) => Once(box'[q], ta))
    <3>1. \A q \in Queue : ~In(c[q], ta)
      BY <1>11 DEF AllHarmless, Harmless, TeleportAfter
    <3>2. \A q \in Queue : In(box[q], ta) <=> In(Taken(Lobby)[q], ta)
      BY <1>0, <1>12, <1>13, MovedIn DEF KeepsAfter
    <3> HIDE DEF ta
    <3> QED BY <1>0, <1>12, <3>1, <3>2, MovedIn
  <2>5. Led(s, Lobby, y)'
    <3>1. locator'[s] = Lobby /\ BySocket(Lobby, s)' = {y} /\ ~In(box'[Lobby], ta)
      BY <1>0, <1>9, <2>1, <2>3, <2>4 DEF Led
    <3>2. \A q \in Place \ {Lobby} :
            /\ Once(box[q], ta)
            /\ In(box[q], ta) <=> BySocket(q, s) # {}
            /\ \A u, v \in BySocket(q, s) : u = v
            /\ \A u \in BySocket(q, s) : u.ver < x.ver /\ u.sn = Owner[s]
      BY <2>1, <2>2 DEF Led
    <3>3. \A q, r \in Place : q # r =>
            \A u \in BySocket(q, s) : \A v \in BySocket(r, s) : u.ver # v.ver
      BY <2>1 DEF Led
    <3> HIDE DEF ta
    <3>4. \A q \in Place \ {Lobby} :
            /\ Once(box'[q], ta)
            /\ In(box'[q], ta) <=> BySocket(q, s)' # {}
            /\ \A u, v \in BySocket(q, s)' : u = v
            /\ \A u \in BySocket(q, s)' : u.ver < y.ver /\ u.sn = Owner[s]
      BY ONLY <1>4, <2>3, <2>4, <3>2
    <3>5. \A q, r \in Place : q # r =>
            \A u \in BySocket(q, s)' : \A v \in BySocket(r, s)' : u.ver # v.ver
      <4>1. \A q \in Place : \A u \in BySocket(q, s)' :
              \E o \in BySocket(q, s) : u.ver = o.ver
        BY ONLY <1>0, <1>4, <2>2, <2>3
      <4> QED BY ONLY <3>3, <4>1
    <3> QED BY <3>1, <3>4, <3>5 DEF Led, ta
  <2>6. Flagged(s, Lobby, y)'
    <3>1. \A n : In(box[Redis], n) /\ n.type = "SyncOnline" /\ n.acct = Owner[s] => In(box'[Redis], n)
      BY <1>0, <1>12, <1>14, MovedIn DEF KeepsSync
    <3>2. SyncOnline(Online(x)).type = "SyncOnline" /\ SyncOnline(Online(x)).acct = Owner[s]
      BY <1>3 DEF SyncOnline, Online
    <3>3. Lobby \notin hung' => \/ flag'[Owner[s]] >= y.ver
                                \/ Online(y) \in due'[Lobby]
                                \/ In(box'[Redis], SyncOnline(Online(y)))
      BY <1>4, <1>9, <2>1, <2>2, <3>1, <3>2 DEF Flagged
    <3>4. \A n : In(box'[Redis], n) /\ n.type = "DeleteOnline" /\ n.acct = Owner[s] => n.ver < y.ver
      <4>1. \A n : In(box'[Redis], n) => In(box[Redis], n) \/ In(c[Redis], n)
        BY <1>0, <1>12, MovedIn
      <4> QED BY <1>0, <1>4, <1>11, <2>1, <2>2, <4>1 DEF Flagged, AllHarmless, Harmless
    <3> QED BY <1>4, <1>9, <2>1, <2>2, <3>3, <3>4 DEF Flagged
  <2>7. NoJob(Taken(Lobby), s) /\ NoWait(s) /\ NoMove(s)' /\ ~Rests(s)'
    BY <1>9, <1>16 DEF AtWork, NoMove, Rests
  <2>8. Doing(s, Lobby, y)'
    <3>1. CASE OnlyJob(c, s, w, m) /\ UNCHANGED waiting
      <4>1. OnlyJob(box', s, w, m)
        BY <1>0, <1>2, <1>12, <2>7, <3>1, JobsJoined DEF Moved
      <4>2. Fits(w, m, Lobby, y)
        BY <1>6 DEF Fits
      <4>3. NoWait(s)'
        BY <2>7, <3>1 DEF NoWait
      <4> QED BY <1>2, <2>7, <4>1, <4>2, <4>3 DEF Doing, Carried
    <3>2. CASE /\ NoJob(c, s)
               /\ \A v \in World : Owner[s] \in waiting'[v] <=> v = w \/ Owner[s] \in waiting[v]
      <4>1. NoJob(box', s)
        BY <1>0, <1>12, <2>7, <3>2, JobsJoined DEF Moved
      <4>2. \A u, v \in World : Owner[s] \in waiting'[u] /\ Owner[s] \in waiting'[v] => u = v
        BY <2>7, <3>2 DEF NoWait
      <4> QED BY <2>7, <4>1, <4>2 DEF Doing, Waiting
    <3> QED BY <1>11, <3>1, <3>2
  <2>9. Connected(s)' /\ conn'[s] = "open"
    BY <1>0, <1>9, <1>11, <1>12, <1>16, ConnectedKept DEF AtWork
  <2> QED BY <1>0, <2>5, <2>6, <2>8, <2>9 DEF SessionInv
<1>17. conn[s] = "closed" \/ \E p \in Place : \E z : AtWork(s, Lobby, p, z)
  BY ONLY <1>0, <1>1, <1>5, TypeInv, s \in Socket, SessionInv(s), Working,
     "QueryPlayerRs" # "LoginByToken"
<1> QED BY <1>15, <1>16, <1>17

LEMMA SessionOtherQuery ==
  ASSUME OneSession, TypeInv, NamesInv, NEW s \in Socket, SessionInv(s), HandleQueryPlayerRs,
         NEW a \in Account \ {Owner[s]}, Message(Lobby).acct = a, NEW x \in ByAccount(a),
         LET y == Identified(x, a)
             w == Message(Lobby).world
         IN  /\ players' = [players EXCEPT ![Lobby] = (@ \ {x}) \cup {y}]
             /\ IF w \in proxies
                  THEN /\ Reply(Lobby, To(w, TeleportTo(y, Lobby)))
                       /\ UNCHANGED <<waiting, requested>>
                  ELSE /\ Reply(Lobby, Nothing)
                       /\ waiting' = [waiting EXCEPT ![w] = @ \cup {y.sn}]
             /\ UNCHANGED <<client, locator, redis, thread, objects, fate>>
  PROVE  SessionInv(s)'
<1> USE DEF client, redis, thread, fate
<1> DEFINE y == Identified(x, a)
           w == Message(Lobby).world
           m == TeleportTo(y, Lobby)
<1>0. Lobby \in Queue /\ Lobby \in Place /\ box \in Boxes
  BY QueueNames DEF TypeInv
<1>1. Handles(Lobby, "QueryPlayerRs")
  BY DEF HandleQueryPlayerRs
<1>2. w \in World /\ w \in Queue /\ Message(Lobby).type = "QueryPlayerRs"
  BY <1>0, <1>1, Received, PacketFields, QueueNames DEF ByAcctWorld
<1>3. x \in Player /\ x.sock # s
  <2>1. x \in Player /\ x.sock \in Socket /\ x.sock = accounts[a]
    BY <1>0 DEF ByAccount, TypeInv, PlayerTypes, Player
  <2>2. Owner[x.sock] = a
    BY <2>1, TeleportAssumption DEF NamesInv, PeopleInv
  <2> QED BY <2>1, <2>2
<1>4. y \in Known /\ y.sock # s /\ y.sn = a
  BY <1>3 DEF Identified, Player, Known
<1>5. ~Job(Message(Lobby), s)
  BY <1>2 DEF Job
<1>6. m \in Packets /\ ~Job(m, s) /\ Harmless(m, s)
  BY <1>0, <1>4, PacketTypes, PacketsOf
<1>7. players' = [players EXCEPT ![Lobby] = (@ \ {x}) \cup {y}]
  OBVIOUS
<1>8. \/ Reply(Lobby, To(w, m)) /\ UNCHANGED waiting
      \/ Reply(Lobby, Nothing) /\ waiting' = [waiting EXCEPT ![w] = @ \cup {a}]
  BY <1>4
<1>9. /\ UNCHANGED <<conn, locator, flag, hung, due, removed, objects, at, want>>
  OBVIOUS
<1> HIDE DEF y, w, m
<1>10. PICK c \in Boxes : Reply(Lobby, c) /\ NoJob(c, s) /\ AllHarmless(c, s)
  BY <1>2, <1>6, <1>8, PostedTo
<1>11. \A v \in World : Owner[s] \in waiting'[v] <=> Owner[s] \in waiting[v]
  BY <1>2, <1>8 DEF TypeInv, PlayerTypes
<1>12. Moved(Taken(Lobby), c) /\ Passes(Taken(Lobby), s)
  BY <1>0, <1>1, <1>5, <1>10, Movements
<1>13. KeepsAfter(Taken(Lobby), s)
  BY ONLY <1>0, <1>1, TypeInv, OtherType, "QueryPlayerRs" # "TeleportAfter"
<1>14. KeepsSync(Taken(Lobby), s)
  BY ONLY <1>0, <1>1, TypeInv, OtherType, "QueryPlayerRs" # "SyncOnline"
<1>15. SameLocator(s) /\ SameFlags(s) /\ SameWish(s) /\ conn'[s] = conn[s]
  BY <1>9, SameIfUnchanged
<1>16. SameLists(s)
  BY <1>9, <1>11 DEF SameLists
<1>17. SameCopies(s)
  <2>1. \A q \in Place : players'[q] = IF q = Lobby THEN (players[q] \ {x}) \cup {y} ELSE players[q]
    BY <1>7 DEF TypeInv, PlayerTypes
  <2>2. \A q \in Place : /\ BySocket(q, s) = {u \in players[q] : u.sock = s}
                        /\ BySocket(q, s)' = {u \in players'[q] : u.sock = s}
    BY DEF BySocket
  <2>3. \A q \in Place : BySocket(q, s)' = BySocket(q, s)
    <3>1. {u \in (players[Lobby] \ {x}) \cup {y} : u.sock = s} = {u \in players[Lobby] : u.sock = s}
      BY ONLY <1>3, <1>4
    <3> QED BY ONLY <1>0, <2>1, <2>2, <3>1
  <2> QED BY <2>3 DEF SameCopies
<1> QED BY <1>10, <1>12, <1>13, <1>14, <1>15, <1>16, <1>17, SessionElsewhere DEF Elsewhere

LEMMA SessionLobby ==
  ASSUME OneSession, TypeInv, NamesInv, NEW s \in Socket, SessionInv(s), LobbyHandler
  PROVE  SessionInv(s)'
<1> USE DEF client, redis, thread, lobby, world, space, fate
<1>1. CASE HandleQueryPlayerRs
  <2> DEFINE a == Message(Lobby).acct
  <2>1. Lobby \in Queue /\ Handles(Lobby, "QueryPlayerRs")
    BY <1>1, QueueNames DEF HandleQueryPlayerRs
  <2>2. a \in Account
    BY <2>1, Received, PacketFields DEF ByAcctWorld
  <2>3. CASE Ignored(Lobby)
    BY <2>1, <2>3, SessionIgnored
  <2>4. CASE ~Ignored(Lobby)
    <3>1. PICK x \in ByAccount(a) :
            LET y == Identified(x, a)
                w == Message(Lobby).world
            IN  /\ players' = [players EXCEPT ![Lobby] = (@ \ {x}) \cup {y}]
                /\ IF w \in proxies
                     THEN /\ Reply(Lobby, To(w, TeleportTo(y, Lobby)))
                          /\ UNCHANGED <<waiting, requested>>
                     ELSE /\ Reply(Lobby, Nothing)
                          /\ waiting' = [waiting EXCEPT ![w] = @ \cup {y.sn}]
                /\ UNCHANGED <<client, locator, redis, thread, objects, fate>>
      BY <1>1, <2>4 DEF HandleQueryPlayerRs
    <3>2. CASE a = Owner[s]
      BY <1>1, <3>1, <3>2, SessionOwnQuery
    <3>3. CASE a # Owner[s]
      BY <1>1, <2>2, <3>1, <3>3, SessionOtherQuery
    <3> QED BY <3>2, <3>3
  <2> QED BY <2>3, <2>4
<1> QED BY <1>1, SessionLogin, SessionLobbyLeft, SessionTokenRs, SessionWaited DEF LobbyHandler

\* The packets of an arrival.
LEMMA ArrivalPostsTo ==
  ASSUME NEW w \in World, NEW x \in Known, NEW from \in Place
  PROVE  /\ ArrivalPosts(w, x, from) \in Boxes
         /\ \A q \in Queue : \A m : In(ArrivalPosts(w, x, from)[q], m) <=>
              \/ q = Net /\ m = NetworkListenKey(x.sock)
              \/ q = Space(w) /\ m = SyncPlayer(x.sn)
              \/ q = from /\ m = TeleportAfter(x.sn)
         /\ \A m : Once(ArrivalPosts(w, x, from)[Space(w)], m) /\ Once(ArrivalPosts(w, x, from)[from], m)
<1> DEFINE c == ArrivalPosts(w, x, from)
           k == NetworkListenKey(x.sock)
           y == SyncPlayer(x.sn)
           ta == TeleportAfter(x.sn)
<1>1. /\ c \in Boxes /\ c[Net] = <<k>> /\ c[Space(w)] = <<y>> /\ c[from] = <<ta>>
      /\ \A q \in Queue \ {Net, Space(w), from} : c[q] = <<>>
  BY ArrivalPostTypes
<1>2. /\ Net \in Queue /\ Space(w) \in Queue /\ from \in Queue
      /\ Net # Space(w) /\ Net # from /\ Space(w) # from
  BY QueueNames
<1>3. /\ \A e, m : In(<<e>>, m) <=> m = e
      /\ \A m : ~In(<<>>, m)
      /\ \A e, m : Once(<<e>>, m)
  BY DEF In, Once
<1> HIDE DEF c, k, y, ta
<1>4. \A q \in Queue : \A m : In(c[q], m) <=>
        (q = Net /\ m = k) \/ (q = Space(w) /\ m = y) \/ (q = from /\ m = ta)
  <2>1. \A q \in Queue : q \notin {Net, Space(w), from} => \A m : ~In(c[q], m)
    BY <1>1, <1>3
  <2>2. \A m : (In(c[Net], m) <=> m = k) /\ (In(c[Space(w)], m) <=> m = y) /\ (In(c[from], m) <=> m = ta)
    BY <1>1, <1>3
  <2> QED BY <1>2, <2>1, <2>2
<1> QED BY <1>1, <1>3, <1>4 DEF c, k, y, ta

LEMMA SessionOtherArrival ==
  ASSUME OneSession, TypeInv, NamesInv, NEW s \in Socket, SessionInv(s), NEW w \in World,
         Handles(w, "Teleport"), Arrival(w), Message(w).player.sock # s
  PROVE  SessionInv(s)'
<1> USE DEF client, redis, thread, lobby, world, space, fate
<1> DEFINE old == Message(w).player
           from == Message(w).from
<1>20. PICK x : x = NewPlayer(old.sock, old.sn, NewerVersion(old))
  OBVIOUS
<1> DEFINE c == ArrivalPosts(w, x, from)
<1>0. w \in Queue /\ w \in Place /\ Message(w).type = "Teleport"
  BY QueueNames, Received
<1>1. old \in Known /\ from \in Place /\ In(box[w], Message(w))
  BY <1>0, Received, PacketFields
<1>2. /\ AddPlayer(w, x) /\ locator' = [locator EXCEPT ![x.sock] = w] /\ Reply(w, c)
      /\ UNCHANGED <<client, redis, removed, waiting, objects, hung>>
  BY <1>20 DEF Arrival
<1>3. x \in Known /\ x.sock = old.sock /\ x.sn = old.sn
  BY <1>1, <1>20 DEF NewPlayer, NewerVersion, Known, Version
<1>4. x.sn = Owner[old.sock] /\ x.sn # Owner[s]
  <2>1. Named(old)
    BY <1>0, <1>1 DEF NamesInv, NamedBoxes
  <2>2. old.sn \in Account /\ 0 \notin Account /\ old.sock \in Socket
    BY <1>1, TeleportAssumption DEF Known
  <2> QED BY <1>3, <2>1, <2>2 DEF Named, OneSession
<1>5. c \in Boxes /\ NoJob(c, s) /\ AllHarmless(c, s)
  <2>3. w \in World /\ x \in Known /\ from \in Place
    BY <1>1, <1>3
  <2>4. /\ c \in Boxes
        /\ \A q \in Queue : \A m : In(c[q], m) <=>
              \/ q = Net /\ m = NetworkListenKey(x.sock)
              \/ q = Space(w) /\ m = SyncPlayer(x.sn)
              \/ q = from /\ m = TeleportAfter(x.sn)
        /\ \A m : Once(c[Space(w)], m) /\ Once(c[from], m)
    BY ONLY <2>3, ArrivalPostsTo
  <2>1. c \in Boxes /\ \A q \in Queue : \A m : In(c[q], m) =>
          m \in {NetworkListenKey(x.sock), SyncPlayer(x.sn), TeleportAfter(x.sn)}
    BY ONLY <2>4
  <2>2. \A m \in {NetworkListenKey(x.sock), SyncPlayer(x.sn), TeleportAfter(x.sn)} :
          ~Job(m, s) /\ Harmless(m, s)
    BY <1>4, PacketsOf DEF Minor
  <2> QED BY <2>1, <2>2 DEF NoJob, AllHarmless
<1> HIDE DEF c
<1>6. ~Job(Message(w), s)
  BY <1>0 DEF Job
<1>7. Moved(Taken(w), c) /\ Passes(Taken(w), s)
  BY <1>0, <1>2, <1>5, <1>6, Movements
<1>8. KeepsAfter(Taken(w), s)
  BY ONLY <1>0, Handles(w, "Teleport"), TypeInv, OtherType, "Teleport" # "TeleportAfter"
<1>9. KeepsSync(Taken(w), s)
  BY ONLY <1>0, Handles(w, "Teleport"), TypeInv, OtherType, "Teleport" # "SyncOnline"
<1>10. SameLists(s) /\ SameWish(s) /\ conn'[s] = conn[s]
  BY <1>2, SameIfUnchanged
<1>11. SameLocator(s)
  BY <1>2, <1>3 DEF SameLocator, TypeInv, StoreTypes
<1>12. SameCopies(s) /\ \A q \in Place : due[q] \subseteq due'[q]
  BY <1>0, <1>2, <1>3, CopiesAdded
<1>13. SameFlags(s)
  BY <1>2, <1>12 DEF SameFlags, NoMoreRemoved
<1> QED BY <1>5, <1>7, <1>8, <1>9, <1>10, <1>11, <1>12, <1>13, SessionElsewhere DEF Elsewhere

\* The player of s arrives.
LEMMA SessionOwnArrival ==
  ASSUME OneSession, TypeInv, NamesInv, NEW s \in Socket, SessionInv(s), NEW w \in World,
         Handles(w, "Teleport"), Arrival(w), Message(w).player.sock = s
  PROVE  SessionInv(s)'
<1> USE DEF client, redis, thread, lobby, world, space, fate
<1> DEFINE old == Message(w).player
           from == Message(w).from
<1>20. PICK x : x = NewPlayer(old.sock, old.sn, NewerVersion(old))
  OBVIOUS
<1> DEFINE c == ArrivalPosts(w, x, from)
           ta == TeleportAfter(Owner[s])
           sy == SyncPlayer(Owner[s])
<1>0. /\ w \in Queue /\ w \in Place /\ Message(w).type = "Teleport" /\ Space(w) \in Queue
      /\ Redis \in Queue /\ Redis \notin Place /\ Redis # Net /\ Redis # Space(w) /\ box \in Boxes
      /\ Space(w) \notin Place /\ Net \notin Place
      /\ \A q \in Place : q \in Queue
  BY QueueNames, Received DEF TypeInv
<1>1. old \in Known /\ from \in Place /\ In(box[w], Message(w))
  BY <1>0, Received, PacketFields
<1>2. /\ AddPlayer(w, x) /\ locator' = [locator EXCEPT ![x.sock] = w] /\ Reply(w, c)
      /\ UNCHANGED <<conn, at, want, flag, removed, waiting, objects, hung>>
      /\ BySocket(w, x.sock) = {}
  BY <1>20 DEF Arrival
<1>3. /\ x \in Known /\ x.sock = s /\ x.sn = old.sn /\ x.ver = old.ver + 1 /\ old.ver \in Nat
      /\ x.ver \in Nat
  BY <1>1, <1>20 DEF NewPlayer, NewerVersion, Known, Version
<1>4. x.sn = Owner[s] /\ old.sn = Owner[s]
  <2>1. Named(old)
    BY <1>0, <1>1 DEF NamesInv, NamedBoxes
  <2>2. old.sn \in Account /\ 0 \notin Account
    BY <1>1, TeleportAssumption DEF Known
  <2> QED BY <1>3, <2>1, <2>2 DEF Named
<1>5. /\ c \in Boxes
      /\ \A q \in Queue : \A m : In(c[q], m) <=>
              \/ q = Net /\ m = NetworkListenKey(s)
              \/ q = Space(w) /\ m = sy
              \/ q = from /\ m = ta
      /\ \A m : Once(c[Space(w)], m) /\ Once(c[from], m)
  <2>1. w \in World /\ x \in Known /\ from \in Place
    BY <1>1, <1>3
  <2>2. /\ c \in Boxes
        /\ \A q \in Queue : \A m : In(c[q], m) <=>
              \/ q = Net /\ m = NetworkListenKey(x.sock)
              \/ q = Space(w) /\ m = SyncPlayer(x.sn)
              \/ q = from /\ m = TeleportAfter(x.sn)
        /\ \A m : Once(c[Space(w)], m) /\ Once(c[from], m)
    BY ONLY <2>1, ArrivalPostsTo
  <2>3. x.sock = s /\ x.sn = Owner[s]
    BY <1>3, <1>4
  <2> HIDE DEF c
  <2> QED BY ONLY <2>2, <2>3
<1>6. /\ Job(sy, s) /\ sy.type = "SyncPlayer" /\ ~Job(NetworkListenKey(s), s) /\ ~Job(ta, s)
      /\ ta.type = "TeleportAfter"
      /\ \A m \in {sy, NetworkListenKey(s), ta} : m.type \notin {"DeleteOnline", "Disconnect"}
  <2>1. Job(sy, s) /\ ~Job(NetworkListenKey(s), s) /\ ~Job(ta, s)
    BY PacketsOf DEF Minor
  <2> QED BY <2>1 DEF SyncPlayer, NetworkListenKey, TeleportAfter
<1> HIDE DEF c, ta, sy
<1>7. Moved(Taken(w), c)
  BY <1>0, <1>2, <1>5, Movements
<1>8. KeepsAfter(Taken(w), s)
  BY ONLY <1>0, Handles(w, "Teleport"), TypeInv, OtherType, "Teleport" # "TeleportAfter"
<1>9. KeepsSync(Taken(w), s)
  BY ONLY <1>0, Handles(w, "Teleport"), TypeInv, OtherType, "Teleport" # "SyncOnline"
<1>10. Job(Message(w), s)
  BY <1>0 DEF Job
<1>11. CASE conn[s] = "closed"
  BY <1>2, <1>11 DEF SessionInv
<1>12. ASSUME NEW p \in Place, NEW z, AtWork(s, w, p, z) PROVE SessionInv(s)'
  <2>1. from = p /\ old = z /\ Led(s, p, z) /\ Flagged(s, p, z)
    BY <1>0, <1>12 DEF AtWork, Fits
  <2>2. w # p /\ BySocket(w, s) = {} /\ BySocket(p, s) = {z}
    BY <1>2, <1>3, <2>1 DEF Led
  <2>3. \A q \in Place : BySocket(q, s)' = IF q = w THEN {x} ELSE BySocket(q, s)
    <3>1. \A q \in Place : players'[q] = IF q = w THEN players[q] \cup {x} ELSE players[q]
      BY <1>0, <1>2 DEF AddPlayer, TypeInv, PlayerTypes
    <3>2. \A y \in players[w] : y.sock # s
      BY <2>2 DEF BySocket
    <3>3. \A q \in Place : /\ BySocket(q, s) = {u \in players[q] : u.sock = s}
                          /\ BySocket(q, s)' = {u \in players'[q] : u.sock = s}
      BY DEF BySocket
    <3>4. BySocket(w, s)' = {x}
      BY ONLY <1>0, <1>3, <3>1, <3>2, <3>3
    <3> QED BY ONLY <3>1, <3>3, <3>4
  <2>4. /\ \A q \in Place : In(box'[q], ta) <=> In(box[q], ta) \/ q = p
        /\ \A q \in Place : q # p /\ Once(box[q], ta) => Once(box'[q], ta)
        /\ ~In(box[p], ta)
        /\ Once(box'[p], ta)
    <3>1. \A q \in Place : In(c[q], ta) <=> q = p
      BY <1>0, <1>5, <2>1
    <3>2. \A q \in Queue : In(box[q], ta) <=> In(Taken(w)[q], ta)
      BY <1>0, <1>7, <1>8, MovedIn DEF KeepsAfter, ta
    <3>3. ~In(box[p], ta)
      BY <2>1 DEF Led, ta
    <3>4. \A q \in Place : In(box'[q], ta) <=> In(box[q], ta) \/ q = p
      BY <1>0, <1>7, <3>1, <3>2, MovedIn
    <3>5. \A q \in Place : q # p /\ Once(box[q], ta) => Once(box'[q], ta)
      BY <1>0, <1>7, <3>1, MovedIn
    <3>6. Once(box'[p], ta)
      <4>1. Once(c[p], ta) /\ ~In(Taken(w)[p], ta)
        BY <1>0, <1>5, <2>1, <3>2, <3>3
      <4>2. Taken(w) \in Boxes /\ box' = Joined(Taken(w), c)
        BY <1>7 DEF Moved
      <4> QED BY <1>0, <1>5, <4>1, <4>2, NeverTwice, JoinedBoxes
    <3> QED BY <3>3, <3>4, <3>5, <3>6
  <2>5. /\ \A q \in Place \ {p} :
             /\ Once(box[q], ta)
             /\ In(box[q], ta) <=> BySocket(q, s) # {}
             /\ \A u, v \in BySocket(q, s) : u = v
             /\ \A u \in BySocket(q, s) : u.ver < z.ver /\ u.sn = Owner[s]
        /\ \A q, r \in Place : q # r =>
             \A u \in BySocket(q, s) : \A v \in BySocket(r, s) : u.ver # v.ver
    BY <2>1 DEF Led, ta
  <2>6. \A q \in Place : \A u \in BySocket(q, s) : u.ver \in Nat /\ u.ver < x.ver /\ u.sn = Owner[s]
    <3>1. \A q \in Place : \A u \in BySocket(q, s) : u.ver \in Nat
      BY DEF BySocket, TypeInv, PlayerTypes, Player, Version
    <3>2. \A q \in Place : \A u \in BySocket(q, s) : (u = z \/ u.ver < z.ver) /\ u.sn = Owner[s]
      BY <1>4, <2>1, <2>2, <2>5
    <3> QED BY <1>3, <2>1, <3>1, <3>2
  <2>7. Led(s, w, x)'
    <3>1. locator'[s] = w /\ BySocket(w, s)' = {x} /\ ~In(box'[w], ta)
      BY <1>0, <1>2, <1>3, <2>2, <2>3, <2>4, <2>5 DEF TypeInv, StoreTypes
    <3>2. \A q \in Place \ {w} :
             /\ Once(box'[q], ta)
             /\ In(box'[q], ta) <=> BySocket(q, s)' # {}
      BY ONLY <2>2, <2>3, <2>4, <2>5
    <3>3. \A q \in Place \ {w} :
             /\ \A u, v \in BySocket(q, s)' : u = v
             /\ \A u \in BySocket(q, s)' : u.ver < x.ver /\ u.sn = Owner[s]
      BY ONLY <2>2, <2>3, <2>5, <2>6
    <3>4. \A q, r \in Place : q # r =>
            \A u \in BySocket(q, s)' : \A v \in BySocket(r, s)' : u.ver # v.ver
      <4>1. \A q \in Place : \A u \in BySocket(q, s) : u.ver # x.ver
        BY ONLY <1>3, <2>6
      <4> QED BY ONLY <2>3, <2>5, <4>1
    <3> QED BY <3>1, <3>2, <3>3, <3>4 DEF Led, ta
  <2>8. Flagged(s, w, x)'
    <3>1. Online(x) \in due'[w]
      BY <1>0, <1>2 DEF AddPlayer, TypeInv, ThreadTypes
    <3>2. \A q \in Place : \A o \in removed'[q] : o.sock = s => o.ver < x.ver
      <4>1. \A q \in Place : \A o \in removed[q] : o.ver \in Nat
        BY DEF TypeInv, ThreadTypes, OnlineSet, Version
      <4>2. \A q \in Place : \A o \in removed[q] : o.sock = s => o.ver < z.ver
        BY <2>1 DEF Flagged
      <4> QED BY <1>2, <1>3, <2>1, <4>1, <4>2
    <3>3. \A n : In(box'[Redis], n) /\ n.type = "DeleteOnline" /\ n.acct = Owner[s] => n.ver < x.ver
      <4>1. \A n : In(box'[Redis], n) => In(box[Redis], n) \/ In(c[Redis], n)
        BY <1>0, <1>7, MovedIn
      <4>2. \A n : ~In(c[Redis], n)
        BY <1>0, <1>1, <1>5
      <4>3. \A n : In(box[Redis], n) /\ n.type = "DeleteOnline" /\ n.acct = Owner[s] => n.ver < z.ver
        BY <2>1 DEF Flagged
      <4>4. \A n : In(box[Redis], n) /\ n.type = "DeleteOnline" => n.ver \in Nat
        <5>1. \A n : In(box[Redis], n) => n \in Packets
          BY <1>0 DEF In, Boxes
        <5> QED BY <5>1, PacketFields DEF Version
      <4> QED BY <1>3, <2>1, <4>1, <4>2, <4>3, <4>4
    <3> QED BY <3>1, <3>2, <3>3 DEF Flagged
  <2>9. Doing(s, w, x)'
    <3>1. OnlyJob(c, s, Space(w), sy)
      <4>1. \A q \in Queue : \A n : In(c[q], n) /\ Job(n, s) => q = Space(w) /\ n = sy
        BY <1>5, <1>6
      <4> QED BY <1>5, <1>6, <4>1 DEF OnlyJob
    <3>2. NoJob(Taken(w), s) /\ NoWait(s)' /\ NoMove(s)' /\ ~Rests(s)'
      BY <1>2, <1>12 DEF AtWork, NoWait, NoMove, Rests
    <3>3. OnlyJob(box', s, Space(w), sy)
      BY <1>0, <1>7, <3>1, <3>2, JobsJoined DEF Moved
    <3>4. Fits(Space(w), sy, w, x)
      BY <1>6 DEF Fits
    <3> QED BY <1>0, <3>2, <3>3, <3>4 DEF Doing, Carried
  <2>10. Connected(s)' /\ conn'[s] = "open"
    <3>1. \A q \in Queue : \A n : In(box'[q], n) /\ n.type = "Disconnect" => In(box[q], n)
      <4>1. \A q \in Queue : \A n : In(c[q], n) => n.type # "Disconnect"
        BY <1>5, <1>6
      <4> QED BY <1>0, <1>7, <4>1, MovedIn
    <3> QED BY <1>2, <1>12, <3>1 DEF AtWork, Connected
  <2> QED BY <1>0, <2>7, <2>8, <2>9, <2>10 DEF SessionInv
<1>13. conn[s] = "closed" \/ \E p \in Place : \E z : AtWork(s, w, p, z)
  BY ONLY <1>0, <1>10, Handles(w, "Teleport"), TypeInv, s \in Socket, SessionInv(s), Working,
     "Teleport" # "LoginByToken"
<1> QED BY <1>11, <1>12, <1>13

LEMMA SessionProxyLeft ==
  ASSUME OneSession, TypeInv, NamesInv, NEW s \in Socket, SessionInv(s), NEW w \in World,
         HandleTeleportAfter(w) \/ HandleNetworkDisconnect(w)
  PROVE  SessionInv(s)'
<1> USE DEF client, redis, thread, lobby, world, space, fate
<1> DEFINE m == Message(w)
<1>0. w \in Queue /\ w \in Place /\ Space(w) \in Queue
  BY QueueNames
<1>1. ASSUME NEW x \in players[w], NEW n \in {RemovePlayer(x.sn), PlayerGone(x.sn)}, Leave(w, x, n)
      PROVE  /\ RemovePlayerOf(w, x) /\ Reply(w, To(Space(w), n))
             /\ UNCHANGED <<client, locator, redis, due, waiting, objects, hung>>
             /\ To(Space(w), n) \in Boxes /\ NoJob(To(Space(w), n), s)
             /\ AllHarmless(To(Space(w), n), s)
  <2>1. x.sn \in Account
    BY DEF TypeInv, PlayerTypes, Known
  <2>3. \A a : Minor(RemovePlayer(a), s) /\ Minor(PlayerGone(a), s)
    BY PacketsOf
  <2>4. RemovePlayer(x.sn) \in Packets /\ PlayerGone(x.sn) \in Packets
    BY <2>1, PacketTypes
  <2>2. n \in Packets /\ ~Job(n, s) /\ Harmless(n, s)
    BY ONLY n \in {RemovePlayer(x.sn), PlayerGone(x.sn)}, <2>3, <2>4 DEF Minor
  <2> QED BY <1>0, <1>1, <2>2, PostedTo DEF Leave
<1>2. CASE HandleNetworkDisconnect(w)
  <2>1. Handles(w, "Disconnect")
    BY <1>2 DEF HandleNetworkDisconnect
  <2>2. CASE Ignored(w)
    BY <1>0, <2>1, <2>2, SessionIgnored
  <2>3. ASSUME NEW x \in BySocket(w, m.sock), Leave(w, x, PlayerGone(x.sn))
        PROVE  SessionInv(s)'
    <3> DEFINE c == To(Space(w), PlayerGone(x.sn))
    <3>1. x.sock = m.sock /\ x \in players[w]
      BY DEF BySocket
    <3>2. /\ RemovePlayerOf(w, x) /\ Reply(w, c)
          /\ UNCHANGED <<client, locator, redis, due, waiting, objects, hung>>
          /\ c \in Boxes /\ NoJob(c, s) /\ AllHarmless(c, s)
      BY <1>1, <2>3, <3>1
    <3>3. CASE m.sock = s
      <4>1. conn[s] = "closed"
        BY <1>0, <2>1, <3>3, Disconnected
      <4> QED BY <3>2, <4>1 DEF SessionInv
    <3> HIDE DEF c
    <3>4. CASE m.sock # s
      BY <1>0, <2>1, <3>1, <3>2, <3>4, SessionLeaves
    <3> QED BY <3>3, <3>4
  <2> QED BY <1>2, <2>2, <2>3 DEF HandleNetworkDisconnect
<1>3. CASE HandleTeleportAfter(w)
  <2>1. Handles(w, "TeleportAfter")
    BY <1>3 DEF HandleTeleportAfter
  <2>2. CASE Ignored(w) /\ BySn(w, m.acct) = {}
    BY <1>0, <2>1, <2>2, SessionAfterIgnored
  <2>3. ASSUME NEW x \in BySn(w, m.acct), Leave(w, x, RemovePlayer(m.acct))
        PROVE  SessionInv(s)'
    <3> DEFINE c == To(Space(w), RemovePlayer(x.sn))
    <3>1. x.sn = m.acct /\ x \in players[w]
      BY DEF BySn
    <3>2. /\ RemovePlayerOf(w, x) /\ Reply(w, c)
          /\ UNCHANGED <<client, locator, redis, due, waiting, objects, hung>>
          /\ c \in Boxes /\ NoJob(c, s) /\ AllHarmless(c, s)
      BY <1>1, <2>3, <3>1
    <3> HIDE DEF c
    <3>3. CASE m.acct = Owner[s]
      BY <1>0, <2>1, <2>3, <3>2, <3>3, SessionAfter
    <3>4. CASE m.acct # Owner[s]
      <4>1. m.acct \in Account
        BY <1>0, <2>1, Received, PacketFields DEF ByAcct
      <4>2. x.sock # s
        BY <1>0, <2>3, <3>4, <4>1, OwnBySn
      <4> QED BY <1>0, <2>1, <3>2, <3>4, <4>2, SessionLeaves
    <3> QED BY <3>3, <3>4
  <2> QED BY <1>3, <2>2, <2>3 DEF HandleTeleportAfter
<1> QED BY <1>2, <1>3

\* The client's wish becomes a teleport object.
LEMMA SessionEnterWorld ==
  ASSUME OneSession, TypeInv, NamesInv, NEW s \in Socket, SessionInv(s), NEW w \in World,
         HandleC2GEnterWorld(w)
  PROVE  SessionInv(s)'
<1> USE DEF client, redis, thread, lobby, world, space, fate
<1> DEFINE m == Message(w)
<1>0. w \in Queue /\ w \in Place /\ Space(w) \in Queue /\ box \in Boxes
  BY QueueNames DEF TypeInv
<1>1. Handles(w, "EnterWorld")
  BY DEF HandleC2GEnterWorld
<1>2. m.type = "EnterWorld" /\ m.world \in World /\ m.sock \in Socket
  BY <1>0, <1>1, Received, PacketFields
<1>3. CASE Ignored(w)
  BY <1>0, <1>1, <1>3, SessionIgnored
<1>4. CASE ~Ignored(w)
  <2>1. PICK x \in BySocket(w, m.sock) :
          /\ objects' = [objects EXCEPT ![w] = @ \cup
               {[sn |-> x.sn, target |-> m.world, world |-> m.world \in proxies, sync |-> FALSE]}]
          /\ Reply(w, To(Space(w), RequestSync(x.sn)))
          /\ UNCHANGED <<client, locator, players, flag, hung, due, removed, waiting>>
    BY <1>4 DEF HandleC2GEnterWorld
  <2> DEFINE o == [sn |-> x.sn, target |-> m.world, world |-> m.world \in proxies, sync |-> FALSE]
             n == RequestSync(x.sn)
             c == To(Space(w), n)
  <2>2. x \in players[w] /\ x.sock = m.sock /\ x.sn \in Account /\ x.sn = Owner[m.sock]
    <3>1. x \in players[w] /\ x.sock = m.sock /\ x \in Known /\ Named(x)
      BY <1>0 DEF BySocket, TypeInv, PlayerTypes, NamesInv, PeopleInv
    <3>2. x.sn \in Account /\ 0 \notin Account
      BY <3>1, TeleportAssumption DEF Known
    <3> QED BY <3>1, <3>2 DEF Named
  <2>3. n \in Packets /\ ~Job(n, s) /\ Harmless(n, s)
    BY <2>2, PacketTypes, PacketsOf DEF Minor
  <2>4. o.sn = x.sn
    OBVIOUS
  <2>5. Reply(w, c) /\ objects' = [objects EXCEPT ![w] = @ \cup {o}]
    BY <2>1
  <2> HIDE DEF n, o
  <2>6. c \in Boxes /\ NoJob(c, s) /\ AllHarmless(c, s)
    BY <1>0, <2>3, PostedTo
  <2> HIDE DEF c
  <2>7. \A v \in World : objects'[v] = IF v = w THEN objects[v] \cup {o} ELSE objects[v]
    BY <2>5 DEF TypeInv, WorldTypes
  <2>8. Moved(Taken(w), c)
    BY <1>0, <1>1, <2>5, <2>6, Movements
  <2>9. KeepsAfter(Taken(w), s)
    BY ONLY <1>0, <1>1, TypeInv, OtherType, "EnterWorld" # "TeleportAfter"
  <2>10. KeepsSync(Taken(w), s)
    BY ONLY <1>0, <1>1, TypeInv, OtherType, "EnterWorld" # "SyncOnline"
  <2>11. SameLocator(s) /\ SameCopies(s) /\ SameFlags(s) /\ SameWish(s) /\ conn'[s] = conn[s]
    BY <2>1, SameIfUnchanged
  <2>12. Job(m, s) <=> m.sock = s
    BY <1>2 DEF Job
  <2>13. CASE m.sock # s
    <3>1. SameLists(s)
      <4>1. o.sn # Owner[s]
        BY <1>2, <2>2, <2>4, <2>13 DEF OneSession
      <4>2. \A v \in World : \A k : k.sn = Owner[s] => (k \in objects'[v] <=> k \in objects[v])
        BY ONLY <2>7, <4>1
      <4>3. UNCHANGED waiting
        BY <2>1
      <4> QED BY ONLY <4>2, <4>3 DEF SameLists
    <3>2. Passes(Taken(w), s)
      BY <1>0, <1>1, <2>12, <2>13, Movements
    <3> QED BY <2>6, <2>8, <2>9, <2>10, <2>11, <3>1, <3>2, SessionElsewhere DEF Elsewhere
  <2>14. CASE m.sock = s
    <3>1. CASE conn[s] = "closed"
      BY <2>11, <3>1 DEF SessionInv
    <3>2. ASSUME NEW p \in Place, NEW z, AtWork(s, w, p, z) PROVE SessionInv(s)'
      <4>1. w = p
        BY <1>2, <3>2 DEF AtWork, Fits
      <4>2. NoJob(box', s)
        BY <1>0, <2>6, <2>8, <3>2, JobsJoined DEF Moved, AtWork
      <4>3. NoWait(s)' /\ ~Rests(s)' /\ NoMove(s)
        BY <2>1, <3>2 DEF AtWork, NoWait, Rests
      <4>4. \A v \in World : \A k \in objects'[v] : k.sn = Owner[s] => v = p /\ k = o
        BY <2>7, <4>1, <4>3 DEF NoMove
      <4>5. Moving(s, p)'
        BY <4>2, <4>3, <4>4 DEF Moving
      <4>6. Stays(s, Taken(w), c)
        BY <2>6, <2>8, <2>9, <2>10, <2>11 DEF Stays
      <4> QED BY <3>2, <4>5, <4>6, SessionGoesOn DEF AtWork, Doing
    <3>3. conn[s] = "closed" \/ \E p \in Place : \E z : AtWork(s, w, p, z)
      <4>1. Job(m, s)
        BY <2>12, <2>14
      <4> QED BY ONLY <1>0, <1>1, <4>1, TypeInv, s \in Socket, SessionInv(s), Working,
             "EnterWorld" # "LoginByToken"
    <3> QED BY <3>1, <3>2, <3>3
  <2> QED BY <2>13, <2>14
<1> QED BY <1>3, <1>4

\* S2C_EnterWorld on its way to the client.
LEMMA SessionToClient ==
  ASSUME OneSession, TypeInv, NamesInv, NEW s \in Socket, SessionInv(s), NEW w \in World,
         HandleDefaultFunction(w)
  PROVE  SessionInv(s)'
<1> USE DEF client, redis, thread, lobby, world, space, fate
<1> DEFINE a == Message(w).acct
           v == Message(w).world
<1>0. w \in Queue /\ w \in Place /\ Net \in Queue
  BY QueueNames
<1>1. Handles(w, "ToClient") /\ conn'[s] = conn[s]
  BY DEF HandleDefaultFunction
<1>2. a \in Account /\ v \in World /\ Message(w).type = "ToClient"
  BY <1>0, <1>1, Received, PacketFields DEF ByAcctWorld
<1>3. SameLocator(s) /\ SameCopies(s) /\ SameFlags(s) /\ SameLists(s) /\ SameWish(s)
  BY SameIfUnchanged DEF HandleDefaultFunction
<1>4. CASE Reply(w, Nothing)
  BY <1>0, <1>1, <1>3, <1>4, SessionTaken
<1>5. ASSUME NEW x \in BySn(w, a), Reply(w, To(Net, Send(x.sock, v))) PROVE SessionInv(s)'
  <2> DEFINE m == Send(x.sock, v)
  <2>1. x.sock \in Socket
    BY <1>0 DEF BySn, TypeInv, PlayerTypes, Player
  <2>2. m \in Packets /\ Harmless(m, s) /\ (Job(m, s) <=> x.sock = s) /\ m.type = "Send"
    BY <1>2, <2>1, PacketTypes, PacketsOf DEF Send
  <2>3. x.sock = s => a = Owner[s]
    BY <1>0, <1>2, OwnBySn
  <2>4. Job(m, s) => Job(Message(w), s)
    BY <1>2, <2>2, <2>3 DEF Job
  <2>5. Reply(w, To(Net, m))
    BY <1>5
  <2> HIDE DEF m
  <2>6. \A p, z : Fits(w, Message(w), p, z) => Fits(Net, m, p, z)
    BY <2>2 DEF Fits
  <2> QED BY <1>0, <1>1, <1>3, <2>2, <2>4, <2>5, <2>6, SessionAnswer
<1> QED BY <1>4, <1>5 DEF HandleDefaultFunction

\* A session with a teleport object is moving.
LEMMA AtMove ==
  ASSUME TypeInv, NEW s \in Socket, SessionInv(s), NEW w \in World,
         NEW o \in objects[w], o.sn = Owner[s]
  PROVE  \/ conn[s] = "closed"
         \/ /\ conn[s] = "open" /\ Connected(s) /\ Moving(s, w)
            /\ \E x : Led(s, w, x) /\ Flagged(s, w, x)
<1>1. ~NoMove(s)
  BY DEF NoMove
<1>2. CASE conn[s] = "idle"
  BY <1>1, <1>2 DEF SessionInv, Unborn
<1>3. CASE conn[s] = "open"
  <2>1a. PICK p \in Place : \E x : Led(s, p, x) /\ Flagged(s, p, x) /\ Doing(s, p, x) /\ Connected(s)
    BY <1>1, <1>3 DEF SessionInv, Unborn
  <2>1. PICK x : Led(s, p, x) /\ Flagged(s, p, x) /\ Doing(s, p, x) /\ Connected(s)
    BY <2>1a
  <2>2. Moving(s, p)
    BY <1>1, <2>1 DEF Doing, Carried, Waiting, Resting
  <2>3. p = w
    BY <2>2 DEF Moving
  <2> QED BY <1>3, <2>1, <2>2, <2>3
<1> QED BY <1>2, <1>3 DEF TypeInv, ClientTypes

\* The player's data is there: the object waits for its world, or teleports.
LEMMA SessionSynced ==
  ASSUME OneSession, TypeInv, NamesInv, NEW s \in Socket, SessionInv(s), NEW w \in World,
         HandleS2GSyncPlayer(w)
  PROVE  SessionInv(s)'
<1> USE DEF client, redis, thread, lobby, world, space, fate
<1> DEFINE a == Message(w).acct
<1>0. w \in Queue /\ w \in Place /\ box \in Boxes /\ \A v \in World : v \in Queue
  BY QueueNames DEF TypeInv
<1>1. Handles(w, "S2GSyncPlayer")
  BY DEF HandleS2GSyncPlayer
<1>2. a \in Account /\ Message(w).type = "S2GSyncPlayer"
  BY <1>0, <1>1, Received, PacketFields DEF ByAcct
<1>3. CASE Ignored(w)
  BY <1>0, <1>1, <1>3, SessionIgnored
<1>4. CASE ~Ignored(w)
  <2>1. PICK x \in BySn(w, a), o \in objects[w] :
          /\ o.sn = a
          /\ objects' = [objects EXCEPT ![w] =
               (@ \ {o}) \cup IF o.world THEN {} ELSE {[o EXCEPT !.sync = TRUE]}]
          /\ Reply(w, IF o.world THEN To(o.target, TeleportTo(x, w)) ELSE Nothing)
          /\ UNCHANGED <<client, locator, players, flag, hung, due, removed, waiting>>
    BY <1>4 DEF HandleS2GSyncPlayer
  <2> DEFINE m == TeleportTo(x, w)
             t == o.target
             k == [o EXCEPT !.sync = TRUE]
  <2>2. x \in Known /\ x \in players[w]
    BY <1>0, <1>2, FoundTypes
  <2>3. t \in World /\ t \in Queue /\ k.sn = a
    BY <1>0, <2>1 DEF TypeInv, WorldTypes, ObjectSet
  <2>4. /\ m \in Packets /\ Harmless(m, s) /\ (Job(m, s) <=> x.sock = s)
        /\ m.type = "Teleport" /\ m.from = w /\ m.player = x
    BY <1>0, <2>2, PacketTypes, PacketsOf DEF TeleportTo
  <2>5. /\ x.sock = s => a = Owner[s]
        /\ a = Owner[s] => x \in BySocket(w, s) /\ x.sock = s
    BY <1>0, <1>2, OwnBySn DEF BySocket
  <2>6. \/ Reply(w, To(t, m)) /\ objects' = [objects EXCEPT ![w] = @ \ {o}]
        \/ Reply(w, Nothing) /\ objects' = [objects EXCEPT ![w] = (@ \ {o}) \cup {k}]
    <3>1. CASE o.world
      BY <2>1, <3>1
    <3>2. CASE ~o.world
      BY <2>1, <3>2
    <3> QED BY <3>1, <3>2
  <2> HIDE DEF m, t, k
  <2>7. \/ /\ Reply(w, To(t, m))
           /\ \A v \in World : objects'[v] = IF v = w THEN objects[v] \ {o} ELSE objects[v]
        \/ /\ Reply(w, Nothing)
           /\ \A v \in World : objects'[v] = IF v = w THEN (objects[v] \ {o}) \cup {k} ELSE objects[v]
    BY <2>6 DEF TypeInv, WorldTypes
  <2>8. PICK c \in Boxes :
          /\ Reply(w, c) /\ AllHarmless(c, s)
          /\ x.sock # s => NoJob(c, s)
          /\ \/ /\ x.sock = s => OnlyJob(c, s, t, m)
                /\ \A v \in World : objects'[v] = IF v = w THEN objects[v] \ {o} ELSE objects[v]
             \/ /\ NoJob(c, s)
                /\ \A v \in World : objects'[v] = IF v = w THEN (objects[v] \ {o}) \cup {k} ELSE objects[v]
    <3>1. CASE /\ Reply(w, To(t, m))
               /\ \A v \in World : objects'[v] = IF v = w THEN objects[v] \ {o} ELSE objects[v]
      <4>1. /\ To(t, m) \in Boxes /\ AllHarmless(To(t, m), s)
            /\ x.sock # s => NoJob(To(t, m), s)
            /\ x.sock = s => OnlyJob(To(t, m), s, t, m)
        BY <2>3, <2>4, PostedTo
      <4> QED BY <3>1, <4>1
    <3>2. CASE /\ Reply(w, Nothing)
               /\ \A v \in World : objects'[v] = IF v = w THEN (objects[v] \ {o}) \cup {k} ELSE objects[v]
      <4>1. Nothing \in Boxes /\ NoJob(Nothing, s) /\ AllHarmless(Nothing, s)
        BY PostedTo
      <4> QED BY <3>2, <4>1
    <3> QED BY <2>7, <3>1, <3>2
  <2>9. ~Job(Message(w), s)
    BY <1>2 DEF Job
  <2>10. Moved(Taken(w), c) /\ Passes(Taken(w), s)
    BY <1>0, <1>1, <2>8, <2>9, Movements
  <2>11. KeepsAfter(Taken(w), s)
    BY ONLY <1>0, <1>1, TypeInv, OtherType, "S2GSyncPlayer" # "TeleportAfter"
  <2>12. KeepsSync(Taken(w), s)
    BY ONLY <1>0, <1>1, TypeInv, OtherType, "S2GSyncPlayer" # "SyncOnline"
  <2>13. /\ SameLocator(s) /\ SameCopies(s) /\ SameFlags(s) /\ SameWish(s) /\ conn'[s] = conn[s]
         /\ UNCHANGED waiting
    BY <2>1, SameIfUnchanged
  <2>14. CASE a # Owner[s]
    <3>1. \A v \in World : \A e : e.sn = Owner[s] => (e \in objects'[v] <=> e \in objects[v])
      <4>1. o.sn # Owner[s] /\ k.sn # Owner[s]
        BY <2>1, <2>3, <2>14
      <4>2. \/ \A v \in World : objects'[v] = IF v = w THEN objects[v] \ {o} ELSE objects[v]
            \/ \A v \in World : objects'[v] = IF v = w THEN (objects[v] \ {o}) \cup {k} ELSE objects[v]
        BY <2>8
      <4> QED BY ONLY <4>1, <4>2
    <3>2. SameLists(s)
      BY <2>13, <3>1 DEF SameLists
    <3>3. NoJob(c, s)
      BY <2>5, <2>8, <2>14
    <3> QED BY <2>8, <2>10, <2>11, <2>12, <2>13, <3>2, <3>3, SessionElsewhere DEF Elsewhere
  <2>15. CASE a = Owner[s]
    <3>1. x.sock = s /\ x \in BySocket(w, s) /\ o.sn = Owner[s] /\ k.sn = Owner[s]
      BY <2>1, <2>3, <2>5, <2>15
    <3>2. CASE conn[s] = "closed"
      BY <2>13, <3>2 DEF SessionInv
    <3>3. CASE conn[s] # "closed"
      <4>1. PICK z : /\ conn[s] = "open" /\ Connected(s) /\ Moving(s, w)
                     /\ Led(s, w, z) /\ Flagged(s, w, z)
        BY <2>1, <3>1, <3>3, AtMove
      <4>2. z = x
        BY <3>1, <4>1 DEF Led
      <4>3. \A v \in World : \A e \in objects[v] : e.sn = Owner[s] => v = w /\ e = o
        BY <2>1, <3>1, <4>1 DEF Moving
      <4>4. NoJob(Taken(w), s) /\ NoWait(s)' /\ ~Rests(s)'
        BY <1>0, <2>10, <2>13, <4>1, PassesIn DEF Moving, NoWait, Rests, SameWish
      <4>5. Stays(s, Taken(w), c)
        BY <2>8, <2>10, <2>11, <2>12, <2>13 DEF Stays
      <4>6. Doing(s, w, z)'
        <5>1. CASE /\ OnlyJob(c, s, t, m)
                   /\ \A v \in World : objects'[v] = IF v = w THEN objects[v] \ {o} ELSE objects[v]
          <6>1. OnlyJob(box', s, t, m)
            BY <2>3, <2>10, <4>4, <5>1, JobsJoined DEF Moved
          <6>2. NoMove(s)'
            BY <4>3, <5>1 DEF NoMove
          <6>3. Fits(t, m, w, z)
            BY <2>4, <4>2 DEF Fits
          <6> QED BY <2>3, <4>4, <6>1, <6>2, <6>3 DEF Doing, Carried
        <5>2. CASE /\ NoJob(c, s)
                   /\ \A v \in World : objects'[v] = IF v = w THEN (objects[v] \ {o}) \cup {k} ELSE objects[v]
          <6>1. NoJob(box', s)
            BY <2>10, <4>4, <5>2, JobsJoined DEF Moved
          <6>2. \A v \in World : \A e \in objects'[v] : e.sn = Owner[s] => v = w /\ e = k
            BY <4>3, <5>2
          <6> QED BY <4>4, <6>1, <6>2 DEF Doing, Moving
        <5> QED BY <2>8, <3>1, <5>1, <5>2
      <4> QED BY <1>0, <4>1, <4>5, <4>6, SessionGoesOn
    <3> QED BY <3>2, <3>3
  <2> QED BY <2>14, <2>15
<1> QED BY <1>3, <1>4

\* The world is there: the objects for it whose data has come teleport.
LEMMA SessionChecked ==
  ASSUME OneSession, TypeInv, NamesInv, NEW s \in Socket, SessionInv(s), NEW w \in World,
         HandleBroadcastCreateWorldProxy(w)
  PROVE  SessionInv(s)'
<1> USE DEF client, redis, thread, lobby, world, space
<1> DEFINE t == Message(w).world
           checked == Checked(w, t)
           ready == UNION {BySn(w, o.sn) : o \in checked}
<1>0. w \in Queue /\ w \in Place /\ box \in Boxes
  BY QueueNames DEF TypeInv
<1>1. Handles(w, "BroadcastProxy")
  BY DEF HandleBroadcastCreateWorldProxy
<1>2. t \in World /\ t \in Queue /\ Message(w).type = "BroadcastProxy"
  BY <1>0, <1>1, Received, PacketFields, QueueNames
<1>3. UNCHANGED <<client, locator, players, flag, due, removed, waiting>>
  BY DEF HandleBroadcastCreateWorldProxy
<1>4. SameLocator(s) /\ SameCopies(s) /\ SameWish(s) /\ conn'[s] = conn[s]
  BY <1>3, SameIfUnchanged
<1>5. CASE UNCHANGED <<box, objects, hung>>
  <2>1. SameFlags(s) /\ SameLists(s)
    BY <1>3, <1>5, SameIfUnchanged
  <2>2. Moved(box, Nothing) /\ Takes(box, s) /\ NoJob(Nothing, s) /\ AllHarmless(Nothing, s)
    BY <1>5, Movements, PostedTo
  <2> QED BY <1>4, <2>1, <2>2, SessionElsewhere DEF Elsewhere, Takes
<1>6. ASSUME NEW packets \in Teleports(ready, w), Reply(w, [Nothing EXCEPT ![t] = packets]),
             objects' = [objects EXCEPT ![w] = @ \ checked], hung \subseteq hung'
      PROVE  SessionInv(s)'
  <2> DEFINE c == [Nothing EXCEPT ![t] = packets]
  <2>1. checked \subseteq objects[w] /\ \A o \in checked : o.sn \in Account
    BY DEF Checked, TypeInv, WorldTypes, ObjectSet
  <2>2. ready \subseteq Known /\ ready \subseteq players[w]
    BY <1>0, <2>1, FoundTypes
  <2>3. IsFiniteSet(ready)
    BY <1>0, <2>2, FS_Subset DEF TypeInv, PlayerTypes
  <2>4. /\ packets \in Seq(Packets)
        /\ \A m : In(packets, m) => \E x \in ready : m = TeleportTo(x, w)
        /\ \A m : Once(packets, m)
    BY <1>0, <1>6, <2>2, <2>3, TeleportsOf
  <2>5. \A x \in ready : x.sock = s =>
          x \in BySocket(w, s) /\ \E o \in checked : o.sn = Owner[s]
    BY <1>0, <2>1, OwnBySn
  <2>6. \A x : (Job(TeleportTo(x, w), s) <=> x.sock = s) /\ Harmless(TeleportTo(x, w), s)
    BY PacketsOf
  <2> HIDE DEF ready, checked
  <2>7. /\ c \in Boxes /\ AllHarmless(c, s)
        /\ \A q \in Queue : \A m : In(c[q], m) <=> q = t /\ In(packets, m)
        /\ c[t] = packets
    <3>1. \A m : In(packets, m) => Harmless(m, s)
      BY <2>4, <2>6
    <3>2. c[t] = packets
      BY ONLY <1>2, PostTypes DEF Boxes
    <3> QED BY <1>2, <2>4, <3>1, <3>2, PostedSeveral
  <2>8. Reply(w, c)
    BY <1>6
  <2> HIDE DEF c
  <2>9. \A v \in World : objects'[v] = IF v = w THEN objects[v] \ checked ELSE objects[v]
    BY <1>6 DEF TypeInv, WorldTypes
  <2>10. ~Job(Message(w), s)
    BY <1>2 DEF Job
  <2>11. Moved(Taken(w), c) /\ Takes(Taken(w), s)
    <3>1. Handles(w, "BroadcastProxy") /\ w \in Queue
      BY <1>0, <1>1
    <3>2. KeepsAfter(Taken(w), s)
      BY ONLY <3>1, TypeInv, OtherType, "BroadcastProxy" # "TeleportAfter"
    <3>3. KeepsSync(Taken(w), s)
      BY ONLY <3>1, TypeInv, OtherType, "BroadcastProxy" # "SyncOnline"
    <3>4. Moved(Taken(w), c) /\ Passes(Taken(w), s)
      BY <2>7, <2>8, <2>10, <3>1, Movements
    <3> QED BY <3>2, <3>3, <3>4 DEF Takes
  <2>12. SameFlags(s)
    BY <1>3, <1>6 DEF SameFlags, NoMoreRemoved
  <2> HIDE DEF t
  <2>13. CASE \A o \in checked : o.sn # Owner[s]
    <3>1. NoJob(c, s)
      BY <2>4, <2>5, <2>6, <2>7, <2>13 DEF NoJob
    <3>2. SameLists(s)
      BY <1>3, <2>9, <2>13 DEF SameLists
    <3> QED BY <1>4, <2>7, <2>11, <2>12, <3>1, <3>2, SessionElsewhere DEF Elsewhere, Takes
  <2>14. ASSUME NEW o \in checked, o.sn = Owner[s] PROVE SessionInv(s)'
    <3>1. CASE conn[s] = "closed"
      BY <1>4, <3>1 DEF SessionInv
    <3>2. CASE conn[s] # "closed"
      <4>1. PICK x : /\ conn[s] = "open" /\ Connected(s) /\ Moving(s, w)
                     /\ Led(s, w, x) /\ Flagged(s, w, x)
        BY <2>1, <2>14, <3>2, AtMove
      <4>2. \A v \in World : \A e \in objects[v] : e.sn = Owner[s] => v = w /\ e = o
        BY <2>1, <2>14, <4>1 DEF Moving
      <4>3. NoMove(s)'
        BY <2>9, <2>14, <4>2 DEF NoMove
      <4>4. NoJob(Taken(w), s) /\ NoWait(s)' /\ ~Rests(s)'
        BY <1>0, <1>3, <1>4, <2>11, <4>1, PassesIn DEF Takes, Moving, NoWait, Rests, SameWish
      <4> DEFINE m == TeleportTo(x, w)
      <4>5. \A y \in BySocket(w, s) : y = x
        BY <4>1 DEF Led
      <4>6. \A q \in Queue : \A n : In(c[q], n) /\ Job(n, s) => q = t /\ n = m
        BY <2>4, <2>5, <2>6, <2>7, <4>5
      <4>7. NoJob(c, s) \/ OnlyJob(c, s, t, m)
        <5>1. CASE NoJob(c, s)
          BY <5>1
        <5>2. CASE ~NoJob(c, s)
          <6>1. Job(m, s)
            BY <4>6, <5>2 DEF NoJob
          <6> HIDE DEF m
          <6> QED BY <1>2, <2>4, <2>7, <4>6, <6>1 DEF OnlyJob
        <5> QED BY <5>1, <5>2
      <4>8. Fits(t, m, w, x)
        BY DEF Fits, TeleportTo
      <4> HIDE DEF m
      <4>9. NoJob(box', s) \/ OnlyJob(box', s, t, m)
        BY <1>2, <2>11, <4>4, <4>7, JobsJoined DEF Moved
      <4>10. Doing(s, w, x)'
        BY <1>2, <4>3, <4>4, <4>8, <4>9 DEF Doing, Resting, Carried
      <4>11. Stays(s, Taken(w), c)
        BY <1>4, <2>7, <2>11, <2>12 DEF Stays, Takes
      <4> QED BY <1>0, <4>1, <4>10, <4>11, SessionGoesOn
    <3> QED BY <3>1, <3>2
  <2> QED BY <2>13, <2>14
<1> QED BY <1>5, <1>6 DEF HandleBroadcastCreateWorldProxy

LEMMA SessionInit == Init => \A s \in Socket : SessionInv(s)
<1> SUFFICES ASSUME Init, NEW s \in Socket PROVE SessionInv(s)
  OBVIOUS
<1>1. \A q \in Queue : \A m : ~In(box[q], m)
  BY DEF Init, In
<1>2. NoJob(box, s) /\ Connected(s)
  BY <1>1 DEF NoJob, Connected
<1>3. Unborn(s)
  BY <1>1, QueueNames DEF Init, Unborn, BySocket, NoWait, NoMove
<1>4. conn[s] = "idle"
  BY DEF Init
<1> QED BY <1>2, <1>3, <1>4 DEF SessionInv

LEMMA SessionProxy ==
  ASSUME OneSession, TypeInv, NamesInv, NEW s \in Socket, SessionInv(s), NEW w \in World,
         ProxyHandler(w)
  PROVE  SessionInv(s)'
<1>1. CASE HandleTeleport(w)
  <2>1. Handles(w, "Teleport") /\ (Ignored(w) \/ Arrival(w))
    BY <1>1, TeleportArrival
  <2>2. CASE Ignored(w)
    <3>1. w \in Queue
      BY QueueNames
    <3> QED BY <2>1, <2>2, <3>1, SessionIgnored
  <2>3. CASE Arrival(w)
    BY <2>1, <2>3, SessionOtherArrival, SessionOwnArrival
  <2> QED BY <2>1, <2>2, <2>3
<1> QED BY <1>1, SessionProxyLeft, SessionEnterWorld, SessionSynced, SessionChecked, SessionToClient
        DEF ProxyHandler

\* The session's invariant holds after every step.
LEMMA SessionNext ==
  ASSUME OneSession, Patient, TypeInv, NamesInv, NEW s \in Socket, SessionInv(s), [Next]_vars
  PROVE  SessionInv(s)'
<1>1. CASE ClientStep
  BY <1>1, SessionClient DEF ClientStep
<1>2. CASE NetStep
  BY <1>2, SessionNet
<1>3. CASE RedisStep
  BY <1>3, SessionRedis
<1>4. CASE DbStep
  BY <1>4, SessionDb
<1>5. CASE LobbyHandler
  BY <1>5, SessionLobby
<1>6. CASE \E w \in World : ProxyHandler(w) \/ SpaceStep(w) \/ ProxyAwake(w)
  BY <1>6, SessionProxy, SessionSpace, SessionAwake
<1>7. CASE \E p \in Place : FrameStep(p) \/ Period(p)
  BY <1>7, SessionFrame
<1>8. CASE \E a \in Account : Expire(a)
  BY <1>8, SessionExpire
<1>9. CASE UNCHANGED vars
  <2>1. /\ UNCHANGED <<box, conn, locator, players, flag, hung, due, removed, waiting, objects,
                       at, want>>
    BY <1>9 DEF vars, client, redis, thread, lobby, world, space, fate
  <2>2. SameLocator(s) /\ SameCopies(s) /\ SameFlags(s) /\ SameLists(s) /\ SameWish(s)
    BY <2>1, SameIfUnchanged
  <2>3. Moved(box, Nothing) /\ Takes(box, s) /\ NoJob(Nothing, s) /\ AllHarmless(Nothing, s)
    BY <2>1, Movements, PostedTo
  <2> QED BY <2>1, <2>2, <2>3, SessionElsewhere DEF Elsewhere, Takes
<1> QED BY <1>1, <1>2, <1>3, <1>4, <1>5, <1>6, <1>7, <1>8, <1>9 DEF Next

Sessions == \A s \in Socket : SessionInv(s)

LEMMA SessionInvariant == OneSession /\ Patient => (Spec => []Sessions)
<1> SUFFICES ASSUME OneSession, Patient PROVE Spec => []Sessions
  OBVIOUS
<1>1. Init => Sessions
  BY SessionInit DEF Sessions
<1>2. TypeInv /\ NamesInv /\ Sessions /\ [Next]_vars => Sessions'
  <2> SUFFICES ASSUME TypeInv, NamesInv, Sessions, [Next]_vars, NEW s \in Socket
               PROVE  SessionInv(s)'
    BY DEF Sessions
  <2> QED BY SessionNext DEF Sessions
<1> QED BY <1>1, <1>2, TypeInvariant, NamesInvariant, PTL DEF Spec

\* Where the players of a connected socket are.
LEMMA Whereabouts ==
  ASSUME TypeInv, Sessions, NEW p \in Place, NEW x \in players[p], conn[x.sock] = "open"
  PROVE  /\ x.sock \in Socket /\ x.ver \in Version /\ x \in BySocket(p, x.sock)
         /\ \E q \in Place : \E y :
              /\ Led(x.sock, q, y) /\ Flagged(x.sock, q, y)
              /\ p = q => x = y
              /\ p # q => x.sn = Owner[x.sock] /\ Has(p, TeleportAfter(x.sn))
<1> DEFINE s == x.sock
<1>1. s \in Socket /\ x.ver \in Version
  BY DEF TypeInv, PlayerTypes, Player
<1>2. x \in BySocket(p, s)
  BY DEF BySocket
<1>3a. PICK q \in Place : \E y : Led(s, q, y) /\ Flagged(s, q, y)
  BY <1>1, <1>2 DEF Sessions, SessionInv, Unborn
<1>3. PICK y : Led(s, q, y) /\ Flagged(s, q, y)
  BY <1>3a
<1>4. p = q => x = y
  BY <1>2, <1>3 DEF Led
<1>5. p # q => x.sn = Owner[s] /\ In(box[p], TeleportAfter(x.sn))
  BY <1>2, <1>3 DEF Led
<1>6. In(box[p], TeleportAfter(x.sn)) => Has(p, TeleportAfter(x.sn))
  BY DEF In, Has
<1> QED BY <1>1, <1>2, <1>3, <1>4, <1>5, <1>6

LEMMA SessionsInOnePlace == TypeInv /\ Sessions => InOnePlace
<1> SUFFICES ASSUME TypeInv, Sessions, NEW p \in Place, NEW q \in Place,
                    NEW x \in players[p], NEW y \in players[q],
                    p # q, x.sock = y.sock, conn[x.sock] = "open"
             PROVE  x.ver # y.ver /\ (x.ver < y.ver => Has(p, TeleportAfter(x.sn)))
  BY DEF InOnePlace
<1> DEFINE s == x.sock
<1>1. x \in BySocket(p, s) /\ y \in BySocket(q, s) /\ x.ver \in Nat /\ y.ver \in Nat
  BY Whereabouts DEF Version
<1>2a. PICK r \in Place : \E z : /\ Led(s, r, z)
                                 /\ p = r => x = z
                                 /\ p # r => Has(p, TeleportAfter(x.sn))
  BY Whereabouts
<1>2. PICK z : /\ Led(s, r, z)
               /\ p = r => x = z
               /\ p # r => Has(p, TeleportAfter(x.sn))
  BY <1>2a
<1>3. x.ver # y.ver
  BY <1>1, <1>2 DEF Led
<1>4. p = r => y.ver < x.ver
  BY <1>1, <1>2 DEF Led
<1> QED BY <1>1, <1>2, <1>3, <1>4

LEMMA SessionsFlagged == TypeInv /\ Sessions => OnlineFlagSet
<1> SUFFICES ASSUME TypeInv, Sessions, NEW p \in Place \ hung, NEW x \in players[p],
                    conn[x.sock] = "open"
             PROVE  \/ flag[Owner[x.sock]] # 0
                    \/ \E q \in Place \ hung : \E o \in due[q] : Owner[o.sock] = Owner[x.sock]
                    \/ \E i \in 1..Len(box[Redis]) :
                         /\ box[Redis][i].type = "SyncOnline"
                         /\ box[Redis][i].acct = Owner[x.sock]
                    \/ Has(p, TeleportAfter(x.sn))
  BY DEF OnlineFlagSet
<1> DEFINE s == x.sock
<1>1. s \in Socket /\ x.ver \in Nat \ {0}
  BY Whereabouts DEF Version
<1>2. flag[Owner[s]] \in Nat
  BY <1>1, TeleportAssumption DEF TypeInv, StoreTypes
<1>3a. PICK q \in Place : \E y : /\ Flagged(s, q, y)
                                 /\ p = q => x = y
                                 /\ p # q => Has(p, TeleportAfter(x.sn))
  BY Whereabouts
<1>3. PICK y : /\ Flagged(s, q, y)
               /\ p = q => x = y
               /\ p # q => Has(p, TeleportAfter(x.sn))
  BY <1>3a
<1>4. Online(x).sock = s /\ SyncOnline(Online(x)).type = "SyncOnline"
      /\ SyncOnline(Online(x)).acct = Owner[s]
  BY DEF Online, SyncOnline
<1>5. CASE p # q
  BY <1>3, <1>5
<1>6. CASE p = q
  <2>1. \/ flag[Owner[s]] >= x.ver
        \/ Online(x) \in due[p]
        \/ In(box[Redis], SyncOnline(Online(x)))
    BY <1>3, <1>6 DEF Flagged
  <2>2. CASE flag[Owner[s]] >= x.ver
    BY <1>1, <1>2, <2>2
  <2>3. CASE Online(x) \in due[p]
    BY <1>4, <2>3
  <2>4. CASE In(box[Redis], SyncOnline(Online(x)))
    BY <1>4, <2>4 DEF In
  <2> QED BY <2>1, <2>2, <2>3, <2>4
<1> QED BY <1>5, <1>6

\* In whatever order the threads of the places and Redis go on, a client that
\* waits for S2C_EnterWorld before it asks for the next world, on the one
\* connection of its account, has one player, apart from older ones that an
\* MI_TeleportAfter is on its way to (Lobby::HandleQueryPlayerRs,
\* WorldProxy::HandleTeleport, HandleTeleportAfter).
THEOREM PlayerInOnePlace == OneSession /\ Patient => (Spec => []InOnePlace)
<1> SUFFICES ASSUME OneSession, Patient PROVE Spec => []InOnePlace
  OBVIOUS
<1>1. Spec => []Sessions
  BY SessionInvariant
<1> QED BY <1>1, SessionsInOnePlace, TypeInvariant, PTL

\* The player of such a client is flagged as online, or is about to be, as long
\* as the thread of its place runs: the places that it has left delete only older
\* flags (PlayerComponentOnlineInGame::BackToPool and the comparison of versions
\* in RedisGame::HandlePlayerDeleteOnlineToRedis). Expire, the key's timeout, is
\* assumed never to outrun the timer that refreshes the key.
THEOREM OnlineFlagKept == OneSession /\ Patient => (Spec => []OnlineFlagSet)
<1> SUFFICES ASSUME OneSession, Patient PROVE Spec => []OnlineFlagSet
  OBVIOUS
<1>1. Spec => []Sessions
  BY SessionInvariant
<1> QED BY <1>1, SessionsFlagged, TypeInvariant, PTL
=============================================================================
