----------------------------- MODULE SceneWorlds -----------------------------
(***************************************************************************)
(* The scene: SceneManager and SceneWorld (TenEngine-004-scene), Entity    *)
(* and EntityManager (TenEngine-005-entity), WorldManager                  *)
(* (TenEngine-029-world).                                                  *)
(*                                                                         *)
(* Entities and worlds are identified by their addresses, which a later    *)
(* allocation may use again, and four tables refer to them by address: the *)
(* nodes of each world, the world of each node, the entities, and the      *)
(* entities by name.  The scene is one record; every operation of the code *)
(* is an operator from scenes to scenes, so that a handler which calls     *)
(* several of them is one step.  Transforms are values of no structure;    *)
(* the order of siblings, the spatial index and components are left out.   *)
(***************************************************************************)
EXTENDS Integers, Sequences, SequencesExt, FiniteSets

CONSTANTS Node,      \* addresses an Entity can have
          World,     \* addresses a SceneWorld can have
          Name,      \* names of entities
          Value,     \* local transforms
          Null       \* a null pointer, an invalid reference, no name

ASSUME NullAssumption == Null \notin Node \cup World \cup Name \cup Value
ASSUME SceneAssumption == IsFiniteSet(Node) /\ Value # {}

Scene ==
    [ live: SUBSET Node,                     \* allocated and not yet deleted
      parent: [Node -> Node \cup {Null}],    \* m_parent
      children: [Node -> SUBSET Node],       \* m_children
      active: [Node -> BOOLEAN],             \* m_active
      home: [Node -> World \cup {Null}],     \* m_world
      name: [Node -> Name \cup {Null}],      \* m_name
      local: [Node -> Value \cup {Null}],    \* m_localTransform
      entities: SUBSET Node,                 \* EntityManager::m_entities
      byName: [World -> [Name -> Node \cup {Null}]],  \* m_nameToEntity
      worlds: SUBSET World,                  \* SceneManager::m_worlds
      activeWorld: World \cup {Null},
      worldOf: [Node -> World \cup {Null}],  \* m_nodeToWorld
      nodes: [World -> SUBSET Node],         \* SceneWorld::m_allNodes
      roots: [World -> SUBSET Node],         \* m_rootNodesCache
      rootsValid: [World -> BOOLEAN],
      levels: SUBSET World,                  \* WorldManager::m_levels
      currentLevel: World \cup {Null},
      touchedFreed: BOOLEAN ]                \* a deleted entity was dereferenced

NoScene ==
    [ live |-> {}, parent |-> [n \in Node |-> Null], children |-> [n \in Node |-> {}],
      active |-> [n \in Node |-> FALSE], home |-> [n \in Node |-> Null],
      name |-> [n \in Node |-> Null], local |-> [n \in Node |-> Null],
      entities |-> {}, byName |-> [w \in World |-> [m \in Name |-> Null]],
      worlds |-> {}, activeWorld |-> Null, worldOf |-> [n \in Node |-> Null],
      nodes |-> [w \in World |-> {}], roots |-> [w \in World |-> {}],
      rootsValid |-> [w \in World |-> FALSE],
      levels |-> {}, currentLevel |-> Null, touchedFreed |-> FALSE ]

\* A node and those above it.
Above(parent, n) ==
    LET up[m \in Node] == {m} \cup (IF parent[m] = Null THEN {} ELSE up[parent[m]])
    IN  up[n]

-----------------------------------------------------------------------------
(* SceneWorld *)

\* SceneWorld::RegisterNode and UnregisterNode.
AddNode(s, n, w) ==
    IF n \in s.nodes[w] THEN s
    ELSE [s EXCEPT !.nodes[w] = @ \cup {n}, !.rootsValid[w] = FALSE]

RemoveNode(s, n, w) ==
    IF n \notin s.nodes[w] THEN s
    ELSE [s EXCEPT !.nodes[w] = @ \ {n}, !.rootsValid[w] = FALSE]

\* SceneWorld::GetRootNodes: a cache that is not valid is built again, which
\* asks every registered node for its parent.
GetRootNodes(s, w) ==
    IF s.rootsValid[w] THEN s
    ELSE [s EXCEPT !.roots[w] = {n \in s.nodes[w] : s.parent[n] = Null},
                   !.rootsValid[w] = TRUE,
                   !.touchedFreed = @ \/ ~(s.nodes[w] \subseteq s.live)]

\* The nodes SceneWorld::Traverse calls back for: from the cached roots along
\* the children, stopping at nodes that are not active.
Visited(s, w) ==
    {n \in Node : \E r \in s.roots[w] \cap Above(s.parent, n) :
        \A m \in Above(s.parent, n) : m = r \/ m \notin Above(s.parent, r) => s.active[m]}

\* Traverse itself: the roots are fetched, and each is asked whether it is active.
Traverse(s, w) ==
    LET g == GetRootNodes(s, w)
    IN  [g EXCEPT !.touchedFreed = @ \/ ~(g.roots[w] \subseteq s.live)]

-----------------------------------------------------------------------------
(* SceneManager *)

\* FindNodeWorld: the world of the node or of its nearest ancestor that has
\* one, else the active world.
FindNodeWorld(s, n) ==
    LET known == {m \in Above(s.parent, n) : s.worldOf[m] # Null}
        nearest == CHOOSE m \in known : known \subseteq Above(s.parent, m)
    IN  IF known = {} THEN s.activeWorld ELSE s.worldOf[nearest]

\* RegisterNode with and without a world, and UnregisterNode.  A node that is
\* registered elsewhere is not removed there.
RegisterNodeIn(s, n, w) ==
    IF w \notin s.worlds THEN s
    ELSE [AddNode(s, n, w) EXCEPT !.worldOf[n] = w]

RegisterNode(s, n) == RegisterNodeIn(s, n, FindNodeWorld(s, n))

\* Slip: the world keeps the node.
UnregisterNodeMapping(s, n) == [s EXCEPT !.worldOf[n] = Null]

UnregisterNode(s, n) ==
    LET w == s.worldOf[n]
    IN  IF w = Null THEN s
        ELSE [IF w \in s.worlds THEN RemoveNode(s, n, w) ELSE s
                 EXCEPT !.worldOf[n] = Null]

CreateWorld(s, w) ==
    [s EXCEPT !.worlds = @ \cup {w}, !.nodes[w] = {}, !.roots[w] = {},
              !.rootsValid[w] = FALSE,
              !.activeWorld = IF @ = Null THEN w ELSE @]

\* DestroyWorld forgets the nodes that a traversal still finds.
DestroyWorld(s, w) ==
    LET t == Traverse(s, w)
    IN  [t EXCEPT !.worldOf = [n \in Node |-> IF n \in Visited(t, w) THEN Null ELSE @[n]],
                  !.activeWorld = IF @ = w THEN Null ELSE @,
                  !.worlds = @ \ {w},
                  !.nodes[w] = {}, !.roots[w] = {}, !.rootsValid[w] = FALSE]

SetActiveWorld(s, w) == IF w \in s.worlds THEN [s EXCEPT !.activeWorld = w] ELSE s

-----------------------------------------------------------------------------
(* Entity and EntityManager *)

Default == CHOOSE v \in Value : TRUE

\* EntityManager::CreateEntity with Entity::Create, which registers the new
\* node without saying in which world.
CreateEntity(s, n, w, m) ==
    LET born == [s EXCEPT !.live = @ \cup {n}, !.active[n] = TRUE, !.home[n] = w,
                          !.name[n] = m, !.local[n] = Default]
        known == [RegisterNode(born, n) EXCEPT !.entities = @ \cup {n}]
    IN  IF m = Null THEN known ELSE [known EXCEPT !.byName[w][m] = n]

SetParent(s, n, p) ==
    [s EXCEPT !.parent[n] = p,
              !.children = [q \in Node |-> IF q = p THEN @[q] \cup {n} ELSE @[q] \ {n}]]

\* Entity::~Entity.
Free(s, n) ==
    [s EXCEPT !.live = @ \ {n},
              !.children = [q \in Node |-> IF q = n THEN {} ELSE @[q] \ {n}],
              !.parent = [c \in Node |-> IF c = n \/ c \in s.children[n] THEN Null ELSE @[c]],
              !.active[n] = FALSE, !.home[n] = Null, !.name[n] = Null, !.local[n] = Null]

\* Slip: the name stays.
DestroyEntityKeepingName(s, n) == Free([s EXCEPT !.entities = @ \ {n}], n)

\* EntityManager::DestroyEntity, which erases whatever has the entity's name,
\* and deletes without unregistering.
DestroyEntity(s, n) ==
    LET gone == [s EXCEPT !.entities = @ \ {n}]
        w == s.home[n]
        m == s.name[n]
    IN  Free(IF w = Null \/ m = Null THEN gone ELSE [gone EXCEPT !.byName[w][m] = Null], n)

\* Entity::Destroy.
Destroy(s, n) == DestroyEntity(UnregisterNode(s, n), n)

DestroyAll(s, S) ==
    LET order == SetToSeq(S)
        left[i \in 0 .. Len(order)] == IF i = 0 THEN s ELSE Destroy(left[i - 1], order[i])
    IN  left[Len(order)]

-----------------------------------------------------------------------------
(* WorldManager *)

\* A level's description lists its nodes, parents first: a name and the
\* position of the parent, 0 for a root.
Item == [name: Name \cup {Null}, up: Nat]

\* CreateSceneFromDescRecurse with the factory of CreateLevelFromDesc, for the
\* i-th node of desc, which gets the i-th of the addresses at.
BuildNode(s, w, desc, at, i) ==
    LET made == CreateEntity(s, at[i], w, desc[i].name)
    IN  IF desc[i].up = 0 THEN RegisterNodeIn(made, at[i], w)
        ELSE RegisterNode(SetParent(made, at[i], at[desc[i].up]), at[i])

\* WorldManager::CreateLevelFromDesc.
CreateLevel(s, w, desc, at) ==
    LET built[i \in 0 .. Len(desc)] ==
            IF i = 0 THEN CreateWorld(s, w) ELSE BuildNode(built[i - 1], w, desc, at, i)
    IN  [built[Len(desc)] EXCEPT !.levels = @ \cup {w}, !.currentLevel = w]

\* A cached root that has got a parent is collected twice.
CollectedTwice(s, w) == {n \in s.roots[w] : s.parent[n] \in Visited(s, w)}

\* Slip: only the roots are destroyed.
UnloadLevelRoots(s, w) ==
    IF w \notin s.levels THEN s
    ELSE LET t == Traverse(s, w)
             emptied == DestroyAll(t, Visited(t, w) \cap t.roots[w])
         IN  [DestroyWorld(emptied, w) EXCEPT !.levels = @ \ {w},
                 !.currentLevel = IF @ = w THEN Null ELSE @]

\* WorldManager::UnloadLevel: collects what a traversal finds, destroys it, and
\* unloads the scene.
UnloadLevel(s, w) ==
    IF w \notin s.levels THEN s
    ELSE LET t == Traverse(s, w)
             emptied == DestroyAll(t, Visited(t, w))
         IN  [DestroyWorld(emptied, w) EXCEPT !.levels = @ \ {w},
                 !.currentLevel = IF @ = w THEN Null ELSE @,
                 !.touchedFreed = @ \/ CollectedTwice(t, w) # {}]
=============================================================================
