----------------------------- MODULE EntityFrame -----------------------------
(***************************************************************************)
(* The frame of one thread, as the entities of that thread live through    *)
(* it: their pool, EntitySystem with a ComponentCollections per class, the *)
(* message handlers that create and remove them, and the systems that run  *)
(* over all components of a class.  The classes are those of a World in a  *)
(* space process: Player, and MoveComponent, which belongs to a Player     *)
(* while it moves and which MoveSystem visits.                             *)
(*                                                                         *)
(* Pools and collections put off what they are told: an object that is     *)
(* removed by a handler goes back in the next frame, and is free in the    *)
(* frame after that.  All maps are keyed by the objects' SNs, which are    *)
(* distinct as long as GenerateSN's ticket does not wrap within its unit   *)
(* of time; they are sets of objects here, and an SN is 0 or not.          *)
(***************************************************************************)
CONSTANTS
  Player,       \* the objects in DynamicObjectPool<Player>
  Move,         \* the objects in DynamicObjectPool<MoveComponent>
  Id,           \* the players' own numbers, in the database
  None

ASSUME EntityFrameAssumption ==
  Player \cap Move = {} /\ None \notin Player \cup Move

VARIABLES
  movesFirst,   \* the hash code of MoveComponent is the smaller one
  pc,           \* where the frame is
  free,         \* DynamicObjectPool::_free of both classes
  adds, inUse, removes, \* DynamicObjectPool::_objInUse: _adds, _objs, _removes
  alive,        \* the objects whose SN is not 0
  addObjs, objs, removeObjs, \* ComponentCollections of both classes
  parent,       \* IComponent::_parent of the MoveComponents
  component,    \* IEntity::_components of the Players: the MoveComponent
  players,      \* PlayerManagerComponent::_players
  crashed       \* a null pointer has been used

pool == <<free, adds, inUse, removes>>
collections == <<addObjs, objs, removeObjs>>
links == <<parent, component, players>>
vars == <<movesFirst, pc, pool, alive, collections, links, crashed>>

Object == Player \cup Move

\* The order of the classes in EntitySystem::_objSystems is the build's choice.
Init ==
  /\ movesFirst \in BOOLEAN
  /\ pc = "pool"
  /\ free = Object
  /\ adds = {} /\ inUse = {} /\ removes = {}
  /\ alive = {}
  /\ addObjs = {} /\ objs = {} /\ removeObjs = {}
  /\ parent = [m \in Move |-> None]
  /\ component = [p \in Player |-> None]
  /\ players = [i \in Id |-> None]
  /\ crashed = FALSE

(***************************************************************************)
(* SystemManager::Update, up to the messages.                              *)
(***************************************************************************)
\* DynamicObjectPool::Update of both classes.
PoolUpdate ==
  /\ pc = "pool" /\ ~crashed
  /\ inUse' = (inUse \cup adds) \ removes
  /\ free' = free \cup ((inUse \cup adds) \cap removes)
  /\ adds' = {} /\ removes' = {}
  /\ pc' = "first"
  /\ UNCHANGED <<movesFirst, alive, collections, links, crashed>>

\* Mutated form: what is to be added is removed in the next frame.
GoneOfOld(class) == objs \cap removeObjs \cap class

\* What the Swap of this class takes out: also what it has just put in.
Gone(class) == (objs \cup addObjs) \cap removeObjs \cap class

\* Mutated form: an entity without a component has one removed all the same.
AnyComponents(gone) == {component[p] : p \in gone \cap Player}

\* Mutated form: the components of an entity are left alone.
NoComponents(gone) == {}

\* IEntity::ComponentBackToPool has its components removed ...
ComponentsOf(gone) == {component[p] : p \in gone \cap Player} \ {None}

\* Mutated form: FreeObject is not called for an entity that has components.
FreeObjectChildless(gone) ==
  removes' = removes \cup {o \in gone : o \in Player => component[o] = None}

\* ... and IComponent::ComponentBackToPool gives the object back, ...
FreeObject(gone) == removes' = removes \cup gone

\* ... after which its SN, its parent and its components are gone.
ComponentBackToPool(gone) ==
  /\ FreeObject(gone)
  /\ alive' = alive \ gone
  /\ parent' = [m \in Move |-> IF m \in gone THEN None ELSE parent[m]]
  /\ component' = [p \in Player |-> IF p \in gone THEN None ELSE component[p]]

\* ComponentCollections::Swap of one class.
Swap(class) ==
  LET gone == Gone(class) IN
    /\ objs' = (objs \cup (addObjs \cap class)) \ gone
    /\ addObjs' = addObjs \ class
    /\ removeObjs' = (removeObjs \ class) \cup ComponentsOf(gone)
    /\ ComponentBackToPool(gone)
    /\ UNCHANGED <<movesFirst, free, adds, inUse, players, crashed>>

\* EntitySystem::Update: the classes in the order of their hash codes.
SwapFirst ==
  /\ pc = "first" /\ pc' = "second"
  /\ Swap(IF movesFirst THEN Move ELSE Player)

SwapSecond ==
  /\ pc = "second" /\ pc' = "messages"
  /\ Swap(IF movesFirst THEN Player ELSE Move)

(***************************************************************************)
(* The World's handlers, any number of them in a frame.                    *)
(***************************************************************************)
\* An object from the pool: it is in use, has an SN, and is to be added to its
\* collection.  (The pool never runs out: it makes 50 more.)
MallocObject(o) ==
  /\ o \in free
  /\ free' = free \ {o}
  /\ adds' = adds \cup {o}
  /\ alive' = alive \cup {o}
  /\ addObjs' = addObjs \cup {o}
  /\ UNCHANGED <<inUse, removes, objs, removeObjs>>

\* A player that is there already is not added again.
HandleSyncPlayer(i) ==
  /\ pc = "messages"
  /\ players[i] = None
  /\ \E p \in Player :
       /\ MallocObject(p)
       /\ players' = [players EXCEPT ![i] = p]
  /\ UNCHANGED <<movesFirst, pc, parent, component, crashed>>

\* A player that moves already only gets other targets.
HandleMove(i) ==
  /\ pc = "messages"
  /\ players[i] # None
  /\ component[players[i]] = None
  /\ \E m \in Move :
       /\ MallocObject(m)
       /\ parent' = [parent EXCEPT ![m] = players[i]]
       /\ component' = [component EXCEPT ![players[i]] = m]
  /\ UNCHANGED <<movesFirst, pc, players, crashed>>

\* Mutated form: the index keeps the player.
PlayerStays(i) == players' = players

\* _players.erase
Erase(i) == players' = [players EXCEPT ![i] = None]

\* HandleG2SRemovePlayer, or HandleNetworkDisconnect of the player or its game.
RemovePlayer(i) ==
  /\ pc = "messages"
  /\ players[i] # None
  /\ removeObjs' = removeObjs \cup {players[i]}
  /\ Erase(i)
  /\ UNCHANGED <<movesFirst, pc, pool, alive, addObjs, objs, parent, component,
                 crashed>>

MessagesDone ==
  /\ pc = "messages" /\ pc' = "systems"
  /\ UNCHANGED <<movesFirst, pool, alive, collections, links, crashed>>

(***************************************************************************)
(* MoveSystem::Update, every half second.                                  *)
(***************************************************************************)
\* Mutated form: the component is taken from the player only.
NothingRemoved(owners) == {}

\* IEntity::RemoveComponent<MoveComponent> of these players.
Removed(owners) == {component[p] : p \in owners} \ {None}

\* A player that has gone back has no PlayerComponentLastMap.
MoveSystemUpdate ==
  /\ pc = "systems" /\ pc' = "pool" /\ ~crashed
  /\ LET visited == objs \cap Move IN
       \/ /\ \E m \in visited : parent[m] \notin alive
          /\ crashed' = TRUE
          /\ UNCHANGED <<removeObjs, component>>
       \/ /\ \A m \in visited : parent[m] \in alive
          /\ \E stopped \in SUBSET visited :
               LET owners == {parent[m] : m \in stopped} IN
                 /\ removeObjs' = removeObjs \cup Removed(owners)
                 /\ component' = [p \in Player |-> IF p \in owners THEN None
                                                                   ELSE component[p]]
          /\ UNCHANGED crashed
  /\ UNCHANGED <<movesFirst, pool, alive, addObjs, objs, parent, players>>

\* Half a second has not passed.
MoveSystemWaits ==
  /\ pc = "systems" /\ pc' = "pool"
  /\ UNCHANGED <<movesFirst, pool, alive, collections, links, crashed>>

FrameStep ==
  \/ PoolUpdate \/ SwapFirst \/ SwapSecond
  \/ MessagesDone \/ MoveSystemUpdate \/ MoveSystemWaits

Next ==
  \/ FrameStep
  \/ \E i \in Id : HandleSyncPlayer(i) \/ HandleMove(i) \/ RemovePlayer(i)

Spec == Init /\ [][Next]_vars

\* The thread runs; there is an end to the messages of each frame.
FairSpec == Spec /\ WF_vars(FrameStep)

(***************************************************************************)
(* Properties.                                                             *)
(***************************************************************************)
\* Every variable keeps its shape.
TypeOK ==
  /\ movesFirst \in BOOLEAN /\ crashed \in BOOLEAN
  /\ pc \in {"pool", "first", "second", "messages", "systems"}
  /\ free \subseteq Object /\ adds \subseteq Object /\ inUse \subseteq Object
  /\ removes \subseteq Object /\ alive \subseteq Object
  /\ addObjs \subseteq Object /\ objs \subseteq Object
  /\ removeObjs \subseteq Object
  /\ parent \in [Move -> Player \cup {None}]
  /\ component \in [Player -> Move \cup {None}]
  /\ players \in [Id -> Player \cup {None}]

\* What MallocObject may give out is used by nobody: it is in no collection, has
\* no SN, no player index and no Player leads to it, and when handlers and
\* systems run no MoveComponent has it for a parent, however removals, swaps and
\* creations follow each other.
FreeIsUnused ==
  \A o \in free :
    /\ o \notin alive \cup objs \cup addObjs \cup removeObjs
    /\ \A i \in Id : players[i] # o
    /\ \A p \in Player : component[p] # o
    /\ pc \in {"messages", "systems"} =>
         \A m \in Move \cap (objs \cup addObjs) : parent[m] # o

\* No object is lost: whatever is not free is in its collection, or has been
\* given back to the pool (ComponentCollections and CacheRefresh agree).
NoneLost ==
  \A o \in Object \ free : (o \in objs \cup addObjs) # (o \in removes)

\* A player is moved by one MoveComponent: a player whose component MoveSystem has
\* removed, and a Player that comes from the pool, get a new one only after the
\* Swap has taken the former one out of the collection.
OneMoveEach ==
  \A m, n \in Move \cap (objs \cup addObjs) : m # n => parent[m] # parent[n]

\* MoveSystem uses a Player that has gone back to the pool only in a build where
\* MoveComponents are swapped before Players: then a player's MoveComponent
\* outlives it by a frame.
CrashOnlyMovesFirst == crashed => movesFirst

\* What is removed becomes free, also if it is removed in the frame it was
\* added in.
RemovedIsFreed ==
  \A o \in Object : o \in removeObjs ~> (o \in free \/ crashed)
=============================================================================
