-------------------------- MODULE EntityFrameProofs --------------------------
(***************************************************************************)
(* EntityFrame's invariants, for any number of objects and players.  The   *)
(* inductive invariant says what the pool counts, what the collections     *)
(* hold, where the pointers between objects lead, in which part of a frame *)
(* a MoveComponent may have a parent that is gone, and in which part one   *)
(* that is to be taken out may be left beside its Player.                  *)
(***************************************************************************)
EXTENDS EntityFrame, TLAPS

\* CacheRefresh and the free list share the objects; those with an SN are in use
\* and not given back.
PoolCounts ==
  /\ free \cap (adds \cup inUse) = {}
  /\ free \cup adds \cup inUse = Object
  /\ removes \subseteq adds \cup inUse
  /\ alive = (adds \cup inUse) \ removes

\* ComponentCollections hold the objects that have an SN.
CollectionsHold ==
  /\ objs \cup addObjs = alive
  /\ removeObjs \subseteq alive

\* The players' index, and the pointers between a Player and its MoveComponent.
Linked ==
  /\ \A i \in Id : players[i] # None => players[i] \in alive \ removeObjs
  /\ \A i, j \in Id : players[i] # None /\ players[i] = players[j] => i = j
  /\ \A p \in Player : component[p] # None =>
       /\ p \in alive
       /\ component[p] \in alive \ removeObjs
       /\ parent[component[p]] = p
  /\ \A m \in Move \cap alive :
       /\ parent[m] \in Player
       /\ component[parent[m]] = m \/ m \in removeObjs

\* A MoveComponent outlives its Player from one Swap to the other: within
\* EntitySystem::Update, or around the frame if MoveComponents come first.
Outlived ==
  \A m \in Move \cap alive : parent[m] \notin alive =>
    /\ ~movesFirst => pc = "second"
    /\ movesFirst => pc # "second" /\ (pc # "first" => parent[m] \in removes)

\* When handlers and MoveSystem run, the MoveComponents that are to be taken out
\* are those whose Players are gone; when their own Swap was the first, none are.
NoneStopped ==
  /\ pc \in {"messages", "systems"} => \A m \in Move \cap removeObjs : parent[m] \notin alive
  /\ movesFirst /\ pc = "second" => Move \cap removeObjs = {}

IInv ==
  /\ TypeOK
  /\ PoolCounts
  /\ CollectionsHold
  /\ Linked
  /\ Outlived
  /\ NoneStopped
  /\ OneMoveEach
  /\ CrashOnlyMovesFirst

-----------------------------------------------------------------------------
\* The fields as the pool makes them are consistent.
LEMMA FrameInit == Init => IInv
  BY EntityFrameAssumption
     DEF Init, IInv, TypeOK, PoolCounts, CollectionsHold, Linked, Outlived,
         NoneStopped, OneMoveEach, CrashOnlyMovesFirst, Object

\* DynamicObjectPool::Update moves objects between the pool's own lists only.
LEMMA PoolUpdateKeeps ==
  ASSUME IInv, PoolUpdate
  PROVE  IInv'
<1> USE DEF IInv, PoolUpdate, collections, links
<1>1. TypeOK'
  BY DEF TypeOK
<1>2. PoolCounts'
  BY DEF TypeOK, PoolCounts
<1>3. CollectionsHold' /\ Linked' /\ CrashOnlyMovesFirst'
  BY DEF CollectionsHold, Linked, CrashOnlyMovesFirst
<1>4. Outlived' /\ NoneStopped' /\ OneMoveEach'
  BY DEF Outlived, NoneStopped, OneMoveEach
<1> QED BY <1>1, <1>2, <1>3, <1>4

\* What a Swap takes out of its collection had an SN, and has no index.
LEMMA GoneWas ==
  ASSUME IInv, NEW class \in {Player, Move}
  PROVE  /\ Gone(class) = removeObjs \cap class
         /\ Gone(class) \subseteq alive
         /\ \A m \in ComponentsOf(Gone(class)) :
              /\ m \in Move \cap alive
              /\ m \notin removeObjs \cup Gone(class)
              /\ parent[m] \in Gone(class)
              /\ component[parent[m]] = m
<1>1. Gone(class) = removeObjs \cap class /\ Gone(class) \subseteq alive
  BY DEF IInv, CollectionsHold, Gone
<1>2. ASSUME NEW m \in ComponentsOf(Gone(class))
      PROVE  /\ m \in Move \cap alive /\ m \notin removeObjs \cup Gone(class)
             /\ parent[m] \in Gone(class) /\ component[parent[m]] = m
  <2>1. PICK p \in Gone(class) \cap Player : m = component[p] /\ m # None
    BY <1>2 DEF ComponentsOf
  <2>2. m \in Move
    BY <2>1 DEF IInv, TypeOK
  <2>3. m \in alive \ removeObjs /\ parent[m] = p
    BY <2>1 DEF IInv, Linked
  <2> QED BY <1>1, <2>1, <2>2, <2>3
<1> QED BY <1>1, <1>2

\* ComponentCollections::Swap: the objects that go back leave the collection,
\* the index has none of them, and their MoveComponents are to follow.
LEMMA SwapKeeps ==
  ASSUME IInv, NEW class \in {Player, Move}, Swap(class),
         pc' \in {"second", "messages"}
  PROVE  /\ TypeOK' /\ PoolCounts' /\ CollectionsHold' /\ Linked'
         /\ OneMoveEach' /\ CrashOnlyMovesFirst'
<1> DEFINE gone == Gone(class)
           follow == ComponentsOf(gone)
<1>1. /\ gone = removeObjs \cap class
      /\ gone \subseteq alive
      /\ \A m \in follow :
           /\ m \in Move \cap alive
           /\ m \notin removeObjs \cup gone
           /\ parent[m] \in gone
           /\ component[parent[m]] = m
  BY GoneWas
<1>2. /\ objs' = (objs \cup (addObjs \cap class)) \ gone
      /\ addObjs' = addObjs \ class
      /\ removeObjs' = (removeObjs \ class) \cup follow
      /\ removes' = removes \cup gone
      /\ alive' = alive \ gone
      /\ parent' = [m \in Move |-> IF m \in gone THEN None ELSE parent[m]]
      /\ component' = [p \in Player |-> IF p \in gone THEN None ELSE component[p]]
      /\ UNCHANGED <<movesFirst, free, adds, inUse, players, crashed>>
  BY DEF Swap, ComponentBackToPool, FreeObject
<1>3. follow = {component[p] : p \in gone \cap Player} \ {None}
  BY DEF ComponentsOf
<1> HIDE DEF gone, follow
<1>4. TypeOK'
  BY <1>1, <1>2 DEF IInv, TypeOK, Object
<1>5. PoolCounts'
  BY <1>1, <1>2 DEF IInv, PoolCounts
<1>6. CollectionsHold'
  BY <1>1, <1>2 DEF IInv, CollectionsHold
<1>7. Linked'
  <2>1. \A i \in Id : players'[i] # None => players'[i] \in alive' \ removeObjs'
    BY <1>1, <1>2, EntityFrameAssumption DEF IInv, Linked, TypeOK
  <2>2. \A i, j \in Id : players'[i] # None /\ players'[i] = players'[j] => i = j
    BY <1>2 DEF IInv, Linked
  <2>3. ASSUME NEW p \in Player, component'[p] # None
        PROVE  /\ p \in alive'
               /\ component'[p] \in alive' \ removeObjs'
               /\ parent'[component'[p]] = p
    <3>1. p \notin gone /\ component'[p] = component[p]
      BY <1>2, <2>3
    <3>2. /\ p \in alive /\ component[p] \in alive \ removeObjs
          /\ parent[component[p]] = p /\ component[p] \in Move
      BY <2>3, <3>1 DEF IInv, Linked, TypeOK
    <3>3. component[p] \notin follow
      BY <1>1, <3>1, <3>2
    <3> QED BY <1>1, <1>2, <3>1, <3>2, <3>3
  <2>4. ASSUME NEW m \in Move \cap alive'
        PROVE  /\ parent'[m] \in Player
               /\ component'[parent'[m]] = m \/ m \in removeObjs'
    <3>1. m \in alive /\ m \notin gone /\ parent'[m] = parent[m]
      BY <1>2, <2>4
    <3>2. parent[m] \in Player /\ (component[parent[m]] = m \/ m \in removeObjs)
      BY <3>1, <2>4 DEF IInv, Linked
    <3>3. m \in removeObjs => m \in removeObjs'
      BY <1>1, <1>2, <3>1
    <3>4. component[parent[m]] = m /\ parent[m] \in gone => m \in follow
      BY <1>3, <3>2, <2>4, EntityFrameAssumption
    <3> QED BY <1>2, <3>1, <3>2, <3>3, <3>4
  <2> QED BY <2>1, <2>2, <2>3, <2>4 DEF Linked
<1>8. CrashOnlyMovesFirst'
  BY <1>2 DEF IInv, CrashOnlyMovesFirst
<1>9. OneMoveEach'
  <2>1. \A m \in Move \cap (objs' \cup addObjs') : m \in objs \cup addObjs /\ parent'[m] = parent[m]
    <3>1. objs' \cup addObjs' = alive'
      BY <1>6 DEF CollectionsHold
    <3> QED BY <1>2, <3>1 DEF IInv, CollectionsHold
  <2> QED BY <2>1 DEF IInv, OneMoveEach
<1> QED BY <1>4, <1>5, <1>6, <1>7, <1>8, <1>9

\* The first Swap of a frame: if it is the MoveComponents', those that have
\* outlived their Players go back.
LEMMA SwapFirstKeeps ==
  ASSUME IInv, SwapFirst
  PROVE  IInv'
<1> DEFINE class == IF movesFirst THEN Move ELSE Player
<1>1. class \in {Player, Move} /\ Swap(class) /\ pc = "first" /\ pc' = "second"
  BY DEF SwapFirst
<1>2. /\ TypeOK' /\ PoolCounts' /\ CollectionsHold' /\ Linked'
      /\ OneMoveEach' /\ CrashOnlyMovesFirst'
  BY <1>1, SwapKeeps
<1>3. ASSUME NEW m \in Move \cap alive', parent'[m] \notin alive', movesFirst
      PROVE  FALSE
  <2>1. Gone(Move) = removeObjs \cap Move
    BY GoneWas
  <2>2. /\ alive' = alive \ Gone(Move)
        /\ parent'[m] = IF m \in Gone(Move) THEN None ELSE parent[m]
    BY <1>1, <1>3 DEF Swap, ComponentBackToPool
  <2>3. m \in alive /\ m \notin removeObjs /\ parent'[m] = parent[m]
    BY <1>3, <2>1, <2>2
  <2>4. parent[m] \in Player /\ component[parent[m]] = m
    BY <1>3, <2>3 DEF IInv, Linked
  <2>5. parent[m] \in alive
    BY <1>3, <2>4, EntityFrameAssumption DEF IInv, Linked
  <2> QED BY <1>3, <2>1, <2>2, <2>3, <2>4, <2>5, EntityFrameAssumption
<1>4. movesFirst' = movesFirst
  BY <1>1 DEF Swap
<1>5. Outlived'
  BY <1>1, <1>3, <1>4 DEF Outlived
<1>6. NoneStopped'
  <2>1. ASSUME movesFirst PROVE Move \cap removeObjs' = {}
    <3>1. removeObjs' = (removeObjs \ Move) \cup ComponentsOf(Gone(Move))
      BY <1>1, <2>1 DEF Swap
    <3>2. ComponentsOf(Gone(Move)) = {}
      BY EntityFrameAssumption DEF ComponentsOf, Gone
    <3> QED BY <3>1, <3>2
  <2> QED BY <1>1, <1>4, <2>1 DEF NoneStopped
<1> QED BY <1>2, <1>5, <1>6 DEF IInv

\* The second Swap: if it is the Players', their MoveComponents outlive them, and
\* the Players are in the pool's list of removals.
LEMMA SwapSecondKeeps ==
  ASSUME IInv, SwapSecond
  PROVE  IInv'
<1> DEFINE class == IF movesFirst THEN Player ELSE Move
<1>1. class \in {Player, Move} /\ Swap(class) /\ pc = "second" /\ pc' = "messages"
  BY DEF SwapSecond
<1>2. /\ TypeOK' /\ PoolCounts' /\ CollectionsHold' /\ Linked'
      /\ OneMoveEach' /\ CrashOnlyMovesFirst'
  BY <1>1, SwapKeeps
<1>3. Gone(class) = removeObjs \cap class
  BY <1>1, GoneWas
<1>4. /\ alive' = alive \ Gone(class)
      /\ removes' = removes \cup Gone(class)
      /\ movesFirst' = movesFirst
      /\ parent' = [m \in Move |-> IF m \in Gone(class) THEN None ELSE parent[m]]
  BY <1>1 DEF Swap, ComponentBackToPool, FreeObject
<1>5. ASSUME NEW m \in Move \cap alive', parent'[m] \notin alive'
      PROVE  movesFirst /\ parent'[m] \in removes'
  <2>1. m \in alive /\ m \notin Gone(class) /\ parent'[m] = parent[m]
    BY <1>4, <1>5
  <2>2. parent[m] \in Player /\ (component[parent[m]] = m \/ m \in removeObjs)
    BY <1>5, <2>1 DEF IInv, Linked
  <2>3. CASE movesFirst
    <3>1. parent[m] \in alive
      BY <1>1, <2>1, <2>3, <1>5 DEF IInv, Outlived
    <3> QED BY <1>4, <1>5, <2>1, <2>3, <3>1
  <2>4. CASE ~movesFirst
    <3>1. m \notin removeObjs /\ component[parent[m]] = m
      BY <1>3, <1>5, <2>1, <2>2, <2>4
    <3>2. parent[m] \in alive
      BY <1>5, <2>2, <3>1, EntityFrameAssumption DEF IInv, Linked
    <3> QED BY <1>3, <1>4, <1>5, <2>1, <2>2, <2>4, <3>2, EntityFrameAssumption
  <2> QED BY <2>3, <2>4
<1>6. Outlived'
  BY <1>1, <1>4, <1>5 DEF Outlived
<1>7. NoneStopped'
  <2>1. ASSUME NEW m \in Move \cap removeObjs' PROVE parent'[m] \notin alive'
    <3>1. removeObjs' = (removeObjs \ class) \cup ComponentsOf(Gone(class))
      BY <1>1 DEF Swap
    <3>2. CASE m \in ComponentsOf(Gone(class))
      <4>1. m \notin Gone(class) /\ parent[m] \in Gone(class)
        BY <1>1, <3>2, GoneWas
      <4> QED BY <1>4, <2>1, <4>1
    <3>3. CASE m \notin ComponentsOf(Gone(class))
      <4>1. m \in removeObjs /\ movesFirst
        BY <2>1, <3>1, <3>3
      <4> QED BY <1>1, <2>1, <4>1 DEF IInv, NoneStopped
    <3> QED BY <3>2, <3>3
  <2> QED BY <1>1, <2>1 DEF NoneStopped
<1> QED BY <1>2, <1>6, <1>7 DEF IInv

\* An object from the pool is new to everyone.
LEMMA MallocObjectKeeps ==
  ASSUME IInv, NEW o \in Object, MallocObject(o)
  PROVE  /\ PoolCounts' /\ CollectionsHold'
         /\ o \notin alive \cup removeObjs \cup removes
         /\ alive' = alive \cup {o} /\ UNCHANGED <<removes, removeObjs>>
         /\ \A p \in Player : component[p] # o
         /\ \A i \in Id : players[i] # o
<1> USE DEF IInv, MallocObject
<1>1. o \notin alive \cup removeObjs \cup removes
  BY DEF PoolCounts, CollectionsHold
<1>2. \A p \in Player : component[p] # o
  BY <1>1, EntityFrameAssumption DEF Linked, Object
<1>3. \A i \in Id : players[i] # o
  BY <1>1, EntityFrameAssumption DEF Linked, Object
<1>4. PoolCounts'
  BY <1>1 DEF PoolCounts
<1>5. CollectionsHold'
  BY DEF CollectionsHold
<1> QED BY <1>1, <1>2, <1>3, <1>4, <1>5

\* PlayerManagerComponent::AddPlayer.
LEMMA HandleSyncPlayerKeeps ==
  ASSUME IInv, NEW i \in Id, HandleSyncPlayer(i)
  PROVE  IInv'
<1>1. PICK p \in Player :
        /\ MallocObject(p)
        /\ players' = [players EXCEPT ![i] = p]
  BY DEF HandleSyncPlayer
<1>2. /\ pc = "messages" /\ UNCHANGED <<movesFirst, pc, parent, component, crashed>>
  BY DEF HandleSyncPlayer
<1>3. p \in Object
  BY DEF Object
<1>4. /\ PoolCounts' /\ CollectionsHold'
      /\ p \notin alive \cup removeObjs \cup removes
      /\ alive' = alive \cup {p} /\ UNCHANGED <<removes, removeObjs>>
      /\ \A q \in Player : component[q] # p
      /\ \A j \in Id : players[j] # p
  BY <1>1, <1>3, MallocObjectKeeps
<1>5. TypeOK'
  BY <1>1, <1>2, <1>3 DEF IInv, TypeOK, MallocObject
<1>6. Linked'
  <2>1. \A j \in Id : players'[j] # None => players'[j] \in alive' \ removeObjs'
    BY <1>1, <1>4 DEF IInv, Linked, TypeOK
  <2>2. \A j, k \in Id : players'[j] # None /\ players'[j] = players'[k] => j = k
    BY <1>1, <1>4 DEF IInv, Linked, TypeOK
  <2>3. \A q \in Player : component'[q] # None =>
          /\ q \in alive'
          /\ component'[q] \in alive' \ removeObjs'
          /\ parent'[component'[q]] = q
    BY <1>2, <1>4 DEF IInv, Linked
  <2>4. \A m \in Move \cap alive' :
          /\ parent'[m] \in Player
          /\ component'[parent'[m]] = m \/ m \in removeObjs'
    BY <1>2, <1>4, EntityFrameAssumption DEF IInv, Linked
  <2> QED BY <2>1, <2>2, <2>3, <2>4 DEF Linked
<1>7. Outlived'
  BY <1>2, <1>4, EntityFrameAssumption DEF IInv, Outlived
<1>8. CrashOnlyMovesFirst'
  BY <1>2 DEF IInv, CrashOnlyMovesFirst
<1>9. NoneStopped'
  <2>1. ASSUME NEW m \in Move \cap removeObjs PROVE parent[m] \notin alive /\ parent[m] # p
    <3>1. m \in alive /\ parent[m] \notin alive
      BY <1>2 DEF IInv, CollectionsHold, NoneStopped
    <3>2. parent[m] \in removes
      BY <1>2, <3>1 DEF IInv, Outlived
    <3> QED BY <1>4, <3>1, <3>2
  <2> QED BY <1>2, <1>4, <2>1 DEF NoneStopped
<1>10. OneMoveEach'
  BY <1>1, <1>2, EntityFrameAssumption DEF IInv, OneMoveEach, MallocObject
<1> QED BY <1>4, <1>5, <1>6, <1>7, <1>8, <1>9, <1>10 DEF IInv

\* IEntity::AddComponent<MoveComponent> of a player that has none.
LEMMA HandleMoveKeeps ==
  ASSUME IInv, NEW i \in Id, HandleMove(i)
  PROVE  IInv'
<1> DEFINE p == players[i]
<1>1. PICK m \in Move :
        /\ MallocObject(m)
        /\ parent' = [parent EXCEPT ![m] = p]
        /\ component' = [component EXCEPT ![p] = m]
  BY DEF HandleMove
<1>2. /\ pc = "messages" /\ p # None /\ component[p] = None
      /\ UNCHANGED <<movesFirst, pc, players, crashed>>
  BY DEF HandleMove
<1>3. m \in Object
  BY DEF Object
<1>4. p \in Player /\ p \in alive \ removeObjs
  BY <1>2 DEF IInv, TypeOK, Linked
<1>5. /\ PoolCounts' /\ CollectionsHold'
      /\ m \notin alive \cup removeObjs \cup removes
      /\ alive' = alive \cup {m} /\ UNCHANGED <<removes, removeObjs>>
      /\ \A q \in Player : component[q] # m
      /\ \A j \in Id : players[j] # m
  BY <1>1, <1>3, MallocObjectKeeps
<1> HIDE DEF p
<1>6. TypeOK'
  BY <1>1, <1>2, <1>3, <1>4 DEF IInv, TypeOK, MallocObject
<1>7. Linked'
  <2>1. \A j \in Id : players'[j] # None => players'[j] \in alive' \ removeObjs'
    BY <1>2, <1>5 DEF IInv, Linked
  <2>2. \A j, k \in Id : players'[j] # None /\ players'[j] = players'[k] => j = k
    BY <1>2 DEF IInv, Linked
  <2>3. \A q \in Player : component'[q] # None =>
          /\ q \in alive'
          /\ component'[q] \in alive' \ removeObjs'
          /\ parent'[component'[q]] = q
    BY <1>1, <1>4, <1>5 DEF IInv, Linked, TypeOK
  <2>4. ASSUME NEW n \in Move \cap alive'
        PROVE  /\ parent'[n] \in Player
               /\ component'[parent'[n]] = n \/ n \in removeObjs'
    <3>1. CASE n = m
      BY <1>1, <1>4, <3>1 DEF IInv, TypeOK
    <3>2. CASE n # m
      <4>1. /\ n \in alive /\ parent'[n] = parent[n] /\ parent[n] \in Player
            /\ component[parent[n]] = n \/ n \in removeObjs
        BY <1>1, <1>5, <2>4, <3>2 DEF IInv, Linked, TypeOK
      <4>2. component[parent[n]] = n => parent[n] # p
        BY <1>2, <2>4, EntityFrameAssumption
      <4> QED BY <1>1, <1>5, <4>1, <4>2 DEF IInv, TypeOK
    <3> QED BY <3>1, <3>2
  <2> QED BY <2>1, <2>2, <2>3, <2>4 DEF Linked
<1>8. Outlived'
  BY <1>1, <1>2, <1>4, <1>5 DEF IInv, Outlived, TypeOK
<1>9. CrashOnlyMovesFirst'
  BY <1>2 DEF IInv, CrashOnlyMovesFirst
<1>10. NoneStopped'
  <2>1. ASSUME NEW n \in Move \cap removeObjs PROVE parent'[n] \notin alive'
    <3>1. n # m /\ n \in alive /\ parent[n] \notin alive
      BY <1>2, <1>5 DEF IInv, CollectionsHold, NoneStopped
    <3>2. parent'[n] = parent[n] /\ parent[n] \in Player
      BY <1>1, <3>1 DEF IInv, TypeOK, Linked
    <3> QED BY <1>5, <3>1, <3>2, EntityFrameAssumption
  <2> QED BY <1>2, <1>5, <2>1 DEF NoneStopped
<1>11. OneMoveEach'
  <2>1. objs' \cup addObjs' = (objs \cup addObjs) \cup {m} /\ objs \cup addObjs = alive
    BY <1>1 DEF MallocObject, IInv, CollectionsHold
  <2>2. ASSUME NEW n \in Move \cap alive PROVE n # m /\ parent'[n] = parent[n] /\ parent[n] # p
    <3>1. n # m /\ parent'[n] = parent[n]
      BY <1>1, <1>5 DEF IInv, TypeOK
    <3>2. n \in removeObjs => parent[n] # p
      BY <1>2, <1>4 DEF IInv, NoneStopped
    <3>3. n \notin removeObjs => component[parent[n]] = n
      BY DEF IInv, Linked
    <3> QED BY <1>2, <3>1, <3>2, <3>3, EntityFrameAssumption
  <2>3. parent'[m] = p
    BY <1>1 DEF IInv, TypeOK
  <2> QED BY <2>1, <2>2, <2>3 DEF IInv, OneMoveEach
<1> QED BY <1>5, <1>6, <1>7, <1>8, <1>9, <1>10, <1>11 DEF IInv

\* PlayerManagerComponent::RemovePlayer: out of the index at once, out of the
\* collection in the next frame.
LEMMA RemovePlayerKeeps ==
  ASSUME IInv, NEW i \in Id, RemovePlayer(i)
  PROVE  IInv'
<1> DEFINE p == players[i]
<1>1. /\ pc = "messages" /\ p # None
      /\ removeObjs' = removeObjs \cup {p}
      /\ players' = [players EXCEPT ![i] = None]
      /\ UNCHANGED <<movesFirst, pc, free, adds, inUse, removes, alive, addObjs,
                     objs, parent, component, crashed>>
  BY DEF RemovePlayer, Erase, pool
<1>2. p \in Player /\ p \in alive \ removeObjs
  BY <1>1 DEF IInv, TypeOK, Linked
<1>3. \A j \in Id : j # i => players[j] # p
  BY <1>1 DEF IInv, Linked
<1> HIDE DEF p
<1>4. TypeOK'
  BY <1>1, <1>2 DEF IInv, TypeOK, Object
<1>5. PoolCounts' /\ CollectionsHold' /\ CrashOnlyMovesFirst'
  BY <1>1, <1>2 DEF IInv, PoolCounts, CollectionsHold, CrashOnlyMovesFirst
<1>6. Linked'
  <2>1. \A j \in Id : players'[j] # None => players'[j] \in alive' \ removeObjs'
    BY <1>1, <1>3 DEF IInv, Linked, TypeOK
  <2>2. \A j, k \in Id : players'[j] # None /\ players'[j] = players'[k] => j = k
    BY <1>1 DEF IInv, Linked, TypeOK
  <2>3. \A q \in Player : component'[q] # None =>
          /\ q \in alive'
          /\ component'[q] \in alive' \ removeObjs'
          /\ parent'[component'[q]] = q
    BY <1>1, <1>2, EntityFrameAssumption DEF IInv, Linked, TypeOK
  <2>4. \A m \in Move \cap alive' :
          /\ parent'[m] \in Player
          /\ component'[parent'[m]] = m \/ m \in removeObjs'
    BY <1>1 DEF IInv, Linked
  <2> QED BY <2>1, <2>2, <2>3, <2>4 DEF Linked
<1>7. Outlived' /\ OneMoveEach'
  BY <1>1 DEF IInv, Outlived, OneMoveEach
<1>8. NoneStopped'
  BY <1>1, <1>2, EntityFrameAssumption DEF IInv, NoneStopped
<1> QED BY <1>4, <1>5, <1>6, <1>7, <1>8 DEF IInv

\* MoveSystem::Update either meets a MoveComponent that has outlived its Player,
\* or removes some MoveComponents from their Players and their collection.
LEMMA MoveSystemUpdateKeeps ==
  ASSUME IInv, MoveSystemUpdate
  PROVE  IInv'
<1> DEFINE visited == objs \cap Move
<1>1. /\ pc = "systems" /\ pc' = "pool"
      /\ UNCHANGED <<movesFirst, free, adds, inUse, removes, alive, addObjs, objs,
                     parent, players>>
  BY DEF MoveSystemUpdate, pool
<1>2. visited \subseteq Move \cap alive
  BY DEF IInv, CollectionsHold
<1>3. CASE /\ \E m \in visited : parent[m] \notin alive
           /\ crashed' = TRUE
           /\ UNCHANGED <<removeObjs, component>>
  <2>1. movesFirst'
    BY <1>1, <1>2, <1>3 DEF IInv, Outlived
  <2>2. TypeOK'
    BY <1>1, <1>3 DEF IInv, TypeOK
  <2>3. /\ PoolCounts' /\ CollectionsHold' /\ Linked' /\ Outlived' /\ NoneStopped'
        /\ OneMoveEach' /\ CrashOnlyMovesFirst'
    BY <1>1, <1>3, <2>1
       DEF IInv, PoolCounts, CollectionsHold, Linked, Outlived, NoneStopped, OneMoveEach,
           CrashOnlyMovesFirst
  <2> QED BY <2>2, <2>3 DEF IInv
<1>4. ASSUME NEW stopped \in SUBSET visited,
             NEW owners, owners = {parent[m] : m \in stopped},
             removeObjs' = removeObjs \cup Removed(owners),
             component' = [p \in Player |-> IF p \in owners THEN None ELSE component[p]],
             UNCHANGED crashed
      PROVE  IInv'
  <2>1. owners \subseteq Player
    BY <1>2, <1>4 DEF IInv, Linked
  <2>2. ASSUME NEW m \in Removed(owners)
        PROVE  /\ m \in Move \cap alive /\ parent[m] \in owners
               /\ component[parent[m]] = m
    <3>1. PICK p \in owners : m = component[p] /\ m # None
      BY <2>2 DEF Removed
    <3> QED BY <2>1, <3>1 DEF IInv, Linked, TypeOK
  <2>3. \A p \in owners : component[p] # None => component[p] \in Removed(owners)
    BY DEF Removed
  <2>4. TypeOK'
    BY <1>1, <1>4, <2>2 DEF IInv, TypeOK, Object
  <2>5. /\ PoolCounts' /\ CollectionsHold' /\ Outlived' /\ NoneStopped'
        /\ OneMoveEach' /\ CrashOnlyMovesFirst'
    BY <1>1, <1>4, <2>2
       DEF IInv, PoolCounts, CollectionsHold, Outlived, NoneStopped, OneMoveEach,
           CrashOnlyMovesFirst
  <2>6. Linked'
    <3>1. \A j \in Id : players'[j] # None => players'[j] \in alive' \ removeObjs'
      BY <1>1, <1>4, <2>2, EntityFrameAssumption DEF IInv, Linked, TypeOK
    <3>2. \A j, k \in Id : players'[j] # None /\ players'[j] = players'[k] => j = k
      BY <1>1 DEF IInv, Linked
    <3>3. ASSUME NEW q \in Player, component'[q] # None
          PROVE  /\ q \in alive'
                 /\ component'[q] \in alive' \ removeObjs'
                 /\ parent'[component'[q]] = q
      <4>1. q \notin owners /\ component'[q] = component[q] /\ component[q] # None
        BY <1>4, <3>3
      <4>2. /\ q \in alive /\ component[q] \in alive \ removeObjs
            /\ parent[component[q]] = q
        BY <4>1 DEF IInv, Linked
      <4>3. component[q] \notin Removed(owners)
        BY <2>2, <4>1, <4>2
      <4> QED BY <1>1, <1>4, <4>1, <4>2, <4>3
    <3>4. ASSUME NEW m \in Move \cap alive'
          PROVE  /\ parent'[m] \in Player
                 /\ component'[parent'[m]] = m \/ m \in removeObjs'
      <4>1. /\ m \in alive /\ parent'[m] = parent[m] /\ parent[m] \in Player
            /\ component[parent[m]] = m \/ m \in removeObjs
        BY <1>1, <3>4 DEF IInv, Linked
      <4>2. component[parent[m]] = m /\ parent[m] \in owners => m \in Removed(owners)
        BY <2>3, <3>4, EntityFrameAssumption
      <4> QED BY <1>4, <4>1, <4>2
    <3> QED BY <3>1, <3>2, <3>3, <3>4 DEF Linked
  <2> QED BY <2>4, <2>5, <2>6 DEF IInv
<1> QED BY <1>3, <1>4 DEF MoveSystemUpdate

\* A step that only moves on in the frame after the Swaps.
LEMMA PlaceOnly ==
  ASSUME IInv, UNCHANGED <<movesFirst, pool, alive, collections, links, crashed>>,
         \/ pc' = pc
         \/ pc \in {"messages", "systems"} /\ pc' \in {"systems", "pool"}
  PROVE  IInv'
<1> USE DEF IInv, pool, collections, links
<1>1. TypeOK'
  BY DEF TypeOK
<1>2. PoolCounts' /\ CollectionsHold' /\ Linked' /\ CrashOnlyMovesFirst'
  BY DEF PoolCounts, CollectionsHold, Linked, CrashOnlyMovesFirst
<1>3. Outlived' /\ NoneStopped' /\ OneMoveEach'
  BY DEF Outlived, NoneStopped, OneMoveEach
<1> QED BY <1>1, <1>2, <1>3

LEMMA FrameNext == IInv /\ [Next]_vars => IInv'
<1> SUFFICES ASSUME IInv, [Next]_vars PROVE IInv'
  OBVIOUS
<1>1. CASE PoolUpdate
  BY <1>1, PoolUpdateKeeps
<1>2. CASE SwapFirst
  BY <1>2, SwapFirstKeeps
<1>3. CASE SwapSecond
  BY <1>3, SwapSecondKeeps
<1>4. CASE MessagesDone \/ MoveSystemWaits
  BY <1>4, PlaceOnly DEF MessagesDone, MoveSystemWaits
<1>5. CASE MoveSystemUpdate
  BY <1>5, MoveSystemUpdateKeeps
<1>6. CASE \E i \in Id : HandleSyncPlayer(i)
  BY <1>6, HandleSyncPlayerKeeps
<1>7. CASE \E i \in Id : HandleMove(i)
  BY <1>7, HandleMoveKeeps
<1>8. CASE \E i \in Id : RemovePlayer(i)
  BY <1>8, RemovePlayerKeeps
<1>9. CASE UNCHANGED vars
  <2>1. /\ UNCHANGED <<movesFirst, pool, alive, collections, links, crashed>>
        /\ pc' = pc
    BY <1>9 DEF vars
  <2> QED BY <2>1, PlaceOnly
<1> QED BY <1>1, <1>2, <1>3, <1>4, <1>5, <1>6, <1>7, <1>8, <1>9 DEF Next, FrameStep

THEOREM FrameInvariant == Spec => []IInv
  BY FrameInit, FrameNext, PTL DEF Spec

-----------------------------------------------------------------------------
\* Every variable keeps its shape: collections, indexes and pointers only ever
\* name objects of their class.
THEOREM FrameTypeCorrect == Spec => []TypeOK
<1>1. IInv => TypeOK
  BY DEF IInv
<1> QED BY <1>1, FrameInvariant, PTL

\* DynamicObjectPool::MallocObject never gives out an object that somebody still
\* has: no collection, no index, no Player, and no parent pointer that a handler
\* or MoveSystem could follow.
THEOREM FreeUnused == Spec => []FreeIsUnused
<1>1. IInv => FreeIsUnused
  <2> SUFFICES ASSUME IInv, NEW o \in free PROVE
        /\ o \notin alive \cup objs \cup addObjs \cup removeObjs
        /\ \A i \in Id : players[i] # o
        /\ \A p \in Player : component[p] # o
        /\ pc \in {"messages", "systems"} =>
             \A m \in Move \cap (objs \cup addObjs) : parent[m] # o
    BY DEF FreeIsUnused
  <2>1. o \in Object /\ o \notin alive \cup removes
    BY DEF IInv, PoolCounts
  <2>2. o \notin objs \cup addObjs \cup removeObjs
    BY <2>1 DEF IInv, CollectionsHold
  <2>3. o # None
    BY <2>1, EntityFrameAssumption DEF Object
  <2>4. (\A i \in Id : players[i] # o) /\ (\A p \in Player : component[p] # o)
    BY <2>1, <2>3 DEF IInv, Linked
  <2>5. pc \in {"messages", "systems"} =>
          \A m \in Move \cap (objs \cup addObjs) : parent[m] # o
    BY <2>1 DEF IInv, Outlived, CollectionsHold
  <2> QED BY <2>1, <2>2, <2>4, <2>5
<1> QED BY <1>1, FrameInvariant, PTL

\* ComponentCollections and CacheRefresh never lose an object between them.
THEOREM NothingLost == Spec => []NoneLost
<1>1. IInv => NoneLost
  BY DEF IInv, NoneLost, PoolCounts, CollectionsHold
<1> QED BY <1>1, FrameInvariant, PTL

\* Two MoveComponents never move one Player: a new one comes only after the Swap
\* that took out the one MoveSystem or the player's removal had marked.
THEOREM OneMove == Spec => []OneMoveEach
<1>1. IInv => OneMoveEach
  BY DEF IInv
<1> QED BY <1>1, FrameInvariant, PTL

\* MoveSystem follows a null pointer only if MoveComponents are swapped first.
THEOREM CrashNeedsOrder == Spec => []CrashOnlyMovesFirst
<1>1. IInv => CrashOnlyMovesFirst
  BY DEF IInv
<1> QED BY <1>1, FrameInvariant, PTL
=============================================================================
