---------------------------- MODULE Editor_proofs ----------------------------
(***************************************************************************)
(* Proofs about the editor's session over a scene (EditorSession and       *)
(* SceneWorlds), for any finite number of entities and any worlds, names,  *)
(* transforms, files and descriptions of levels.                           *)
(*                                                                         *)
(* A scene is Sound when its four tables and its tree agree, and an editor *)
(* is Held to one when its level is loaded, current, and known by its own  *)
(* tables.  Each operation on a scene is first given by what it changes    *)
(* (SetParentIs, RegisterNodeInIs, DestroyEntityIs, ...), then shown to    *)
(* keep a scene sound; the loops of the code, over the items of a          *)
(* description and the entities a traversal has found, are inductions over *)
(* a function of the rounds (LoopRuns).                                    *)
(*                                                                         *)
(* And about the settings the editor keeps (EditorSettings), for any       *)
(* actions, keys, panels and names of layouts: the tables of keys stay in  *)
(* agreement, and what a file was written with is what a new session has.  *)
(***************************************************************************)
EXTENDS EditorSession, EditorSettings, FiniteSetTheorems, SequenceTheorems, WellFoundedInduction, TLAPS

-----------------------------------------------------------------------------
(* The nodes above a node *)

\* A set of nodes that holds the parent of each of its nodes.
Upward(parent, C) == \A k \in C : parent[k] # Null => parent[k] \in C

\* No node is above itself: every set of nodes has one whose parent is not in it.
Grounded(parent) == \A S \in SUBSET Node : S # {} => \E n \in S : parent[n] \notin S

\* The equation by which Above is defined.
IsAbove(parent, f) ==
    f = [m \in Node |-> {m} \cup (IF parent[m] = Null THEN {} ELSE f[parent[m]])]

\* There are such sets, whether or not the parents form a forest: for each node
\* the least upward set that holds it.
LEMMA AboveExists ==
    ASSUME NEW parent \in [Node -> Node \cup {Null}]
    PROVE  \E f : IsAbove(parent, f)
<1> DEFINE least(m) == {k \in Node : \A C \in SUBSET Node : m \in C /\ Upward(parent, C) => k \in C}
           h == [m \in Node |-> least(m)]
<1>1. ASSUME NEW m \in Node PROVE m \in least(m)
  OBVIOUS
<1>2. ASSUME NEW m \in Node, NEW k \in least(m), parent[k] # Null PROVE parent[k] \in least(m)
  <2>1. parent[k] \in Node
    BY <1>2
  <2>2. ASSUME NEW C \in SUBSET Node, m \in C, Upward(parent, C) PROVE parent[k] \in C
    BY <1>2, <2>2 DEF Upward
  <2>. QED BY <2>1, <2>2
<1>3. ASSUME NEW m \in Node
      PROVE  least(m) = {m} \cup (IF parent[m] = Null THEN {} ELSE least(parent[m]))
  <2> DEFINE C == {m} \cup (IF parent[m] = Null THEN {} ELSE least(parent[m]))
  <2>1. C \in SUBSET Node
    OBVIOUS
  <2>2. Upward(parent, C)
    <3> SUFFICES ASSUME NEW k \in C, parent[k] # Null PROVE parent[k] \in C
      BY DEF Upward
    <3>1. CASE k = m
      <4>1. parent[m] \in Node
        BY <3>1
      <4>. QED BY <1>1, <3>1, <4>1
    <3>2. CASE k # m
      <4>1. parent[m] # Null /\ k \in least(parent[m]) /\ parent[m] \in Node
        BY <3>2
      <4>. HIDE DEF least
      <4>2. parent[k] \in least(parent[m])
        BY <1>2, <4>1
      <4>. QED BY <4>1, <4>2
    <3>. QED BY <3>1, <3>2
  <2>3. least(m) \subseteq C
    <3>. HIDE DEF C
    <3>. m \in C
      BY DEF C
    <3>. QED BY <2>1, <2>2
  <2>4. ASSUME NEW k \in C PROVE k \in least(m)
    <3>1. CASE k = m
      BY <1>1, <3>1
    <3>2. CASE k # m
      <4>1. parent[m] # Null /\ k \in least(parent[m]) /\ parent[m] \in Node
        BY <3>2
      <4>2. ASSUME NEW K \in SUBSET Node, m \in K, Upward(parent, K) PROVE k \in K
        <5>1. parent[m] \in K
          BY <4>1, <4>2 DEF Upward
        <5>. QED BY <4>1, <4>2, <5>1
      <4>. QED BY <4>1, <4>2
    <3>. QED BY <3>1, <3>2
  <2>. HIDE DEF least
  <2>5. C \subseteq least(m)
    BY <2>4
  <2>. QED BY <2>3, <2>5
<1>. HIDE DEF least
<1>4. ASSUME NEW m \in Node
      PROVE  h[m] = {m} \cup (IF parent[m] = Null THEN {} ELSE h[parent[m]])
  <2>1. CASE parent[m] = Null
    BY <1>3, <2>1
  <2>2. CASE parent[m] # Null
    <3>1. parent[m] \in Node
      BY <2>2
    <3>. QED BY <1>3, <2>2, <3>1
  <2>. QED BY <2>1, <2>2
<1>5. IsAbove(parent, h)
  <2>1. h = [m \in Node |-> h[m]]
    OBVIOUS
  <2>. HIDE DEF h
  <2>. QED BY <1>4, <2>1 DEF IsAbove
<1>. QED BY <1>5

\* What is above a node: itself, and what is above its parent.
LEMMA AboveStep ==
    ASSUME NEW parent \in [Node -> Node \cup {Null}], NEW n \in Node
    PROVE  Above(parent, n) = {n} \cup (IF parent[n] = Null THEN {} ELSE Above(parent, parent[n]))
<1> DEFINE up == CHOOSE f : IsAbove(parent, f)
<1>1. IsAbove(parent, up)
  BY AboveExists
<1>2. ASSUME NEW m \in Node PROVE Above(parent, m) = up[m]
  BY Zenon DEF Above, IsAbove
<1>. HIDE DEF up
<1>3. up[n] = {n} \cup (IF parent[n] = Null THEN {} ELSE up[parent[n]])
  BY <1>1 DEF IsAbove
<1>4. CASE parent[n] = Null
  BY <1>2, <1>3, <1>4
<1>5. CASE parent[n] # Null
  <2>1. parent[n] \in Node
    BY <1>5
  <2>. QED BY <1>2, <1>3, <1>5, <2>1
<1>. QED BY <1>4, <1>5

\* In a forest it is the least upward set that holds the node.
LEMMA AboveLeast ==
    ASSUME NEW parent \in [Node -> Node \cup {Null}], Grounded(parent),
           NEW C \in SUBSET Node, Upward(parent, C), NEW n \in C
    PROVE  Above(parent, n) \subseteq C
<1> DEFINE Bad == {k \in C : ~(Above(parent, k) \subseteq C)}
<1> SUFFICES ASSUME Bad # {} PROVE FALSE
  OBVIOUS
<1>1. PICK k \in Bad : parent[k] \notin Bad
  <2>. Bad \in SUBSET Node
    OBVIOUS
  <2>. HIDE DEF Bad
  <2>. QED BY DEF Grounded
<1>2. k \in C /\ k \in Node /\ ~(Above(parent, k) \subseteq C)
  OBVIOUS
<1>3. Above(parent, k) = {k} \cup (IF parent[k] = Null THEN {} ELSE Above(parent, parent[k]))
  BY <1>2, AboveStep
<1>4. CASE parent[k] = Null
  BY <1>2, <1>3, <1>4
<1>5. CASE parent[k] # Null
  <2>1. parent[k] \in C
    BY <1>2, <1>5 DEF Upward
  <2>2. Above(parent, parent[k]) \subseteq C
    BY <1>1, <2>1
  <2>. QED BY <1>2, <1>3, <2>2
<1>. QED BY <1>4, <1>5

\* It is an upward set of nodes.
LEMMA AboveUpward ==
    ASSUME NEW parent \in [Node -> Node \cup {Null}], Grounded(parent), NEW n \in Node
    PROVE  /\ n \in Above(parent, n)
           /\ Above(parent, n) \in SUBSET Node
           /\ Upward(parent, Above(parent, n))
<1>1. n \in Above(parent, n)
  BY AboveStep
<1>2. Above(parent, n) \subseteq Node
  BY AboveLeast DEF Upward
<1>3. Upward(parent, Above(parent, n))
  <2> DEFINE Bad == {k \in Node : ~Upward(parent, Above(parent, k))}
  <2> SUFFICES ASSUME Bad # {} PROVE FALSE
    OBVIOUS
  <2>1. PICK k \in Bad : parent[k] \notin Bad
    <3>. Bad \in SUBSET Node
      OBVIOUS
    <3>. HIDE DEF Bad
    <3>. QED BY DEF Grounded
  <2>2. k \in Node /\ ~Upward(parent, Above(parent, k))
    OBVIOUS
  <2>3. Above(parent, k) = {k} \cup (IF parent[k] = Null THEN {} ELSE Above(parent, parent[k]))
    BY <2>2, AboveStep
  <2>4. CASE parent[k] = Null
    BY <2>2, <2>3, <2>4 DEF Upward
  <2>5. CASE parent[k] # Null
    <3>1. parent[k] \in Node
      BY <2>2, <2>5
    <3>2. Upward(parent, Above(parent, parent[k]))
      BY <2>1, <3>1
    <3>3. parent[k] \in Above(parent, parent[k])
      BY <3>1, AboveStep
    <3>. QED BY <2>2, <2>3, <2>5, <3>2, <3>3 DEF Upward
  <2>. QED BY <2>4, <2>5
<1>. QED BY <1>1, <1>2, <1>3

\* Being above is transitive.
LEMMA AboveTransitive ==
    ASSUME NEW parent \in [Node -> Node \cup {Null}], Grounded(parent), NEW n \in Node,
           NEW m \in Above(parent, n)
    PROVE  m \in Node /\ Above(parent, m) \subseteq Above(parent, n)
BY AboveUpward, AboveLeast

\* Of two nodes only one is above the other.
LEMMA AboveAntisymmetric ==
    ASSUME NEW parent \in [Node -> Node \cup {Null}], Grounded(parent), NEW n \in Node,
           NEW m \in Above(parent, n), n \in Above(parent, m)
    PROVE  m = n
<1> SUFFICES ASSUME m # n PROVE FALSE
  OBVIOUS
<1> DEFINE S == {k \in Above(parent, n) : n \in Above(parent, k)}
<1>1. Above(parent, n) \in SUBSET Node /\ n \in Above(parent, n) /\ Upward(parent, Above(parent, n))
  BY AboveUpward
<1>2. PICK k \in S : parent[k] \notin S
  <2>. S \in SUBSET Node /\ S # {}
    BY <1>1
  <2>. HIDE DEF S
  <2>. QED BY DEF Grounded
<1>3. k \in Node /\ k \in Above(parent, n) /\ n \in Above(parent, k)
  BY <1>1
<1>4. Above(parent, k) = {k} \cup (IF parent[k] = Null THEN {} ELSE Above(parent, parent[k]))
  BY <1>3, AboveStep
<1>5. CASE parent[k] = Null
  <2>1. k = n
    BY <1>3, <1>4, <1>5
  <2>. QED BY <1>4, <1>5, <2>1
<1>6. CASE parent[k] # Null
  <2>1. parent[k] \in Above(parent, n) /\ parent[k] \in Node
    BY <1>1, <1>3, <1>6 DEF Upward
  <2>2. n \notin Above(parent, parent[k])
    BY <1>2, <2>1
  <2>3. k = n
    BY <1>3, <1>4, <1>6, <2>2
  <2>4. m \in Above(parent, parent[k])
    BY <1>4, <1>6, <2>3
  <2>. QED BY <2>1, <2>2, <2>4, AboveTransitive
<1>. QED BY <1>5, <1>6

\* Above every node there is one that has no parent.
LEMMA TopExists ==
    ASSUME NEW parent \in [Node -> Node \cup {Null}], Grounded(parent), NEW n \in Node
    PROVE  \E t \in Above(parent, n) : parent[t] = Null
<1>1. Above(parent, n) \in SUBSET Node /\ n \in Above(parent, n) /\ Upward(parent, Above(parent, n))
  BY AboveUpward
<1>2. PICK t \in Above(parent, n) : parent[t] \notin Above(parent, n)
  BY <1>1 DEF Grounded
<1>. QED BY <1>1, <1>2 DEF Upward

-----------------------------------------------------------------------------
(* Scenes *)

\* What is alive has a transform; what is not is neither active nor in a world,
\* and the table of entities holds only what is alive.
Alive(s) ==
    /\ s.entities \subseteq s.live
    /\ \A n \in Node :
          /\ n \in s.live <=> s.local[n] # Null
          /\ n \notin s.live => ~s.active[n] /\ s.worldOf[n] = Null

\* TreeSound, of any scene.
Forest(s) ==
    \A n \in Node :
        /\ s.parent[n] # Null => s.parent[n] \in s.live
        /\ n \notin s.live => s.children[n] = {} /\ s.parent[n] = Null
        /\ \A c \in Node : c \in s.children[n] <=> s.parent[c] = n

\* NamesFindLive, of any scene.
Named(s) ==
    \A w \in World, m \in Name :
        s.byName[w][m] # Null =>
            /\ s.byName[w][m] \in s.live
            /\ s.home[s.byName[w][m]] = w
            /\ s.name[s.byName[w][m]] = m

\* Entities are made for a world, and a child for the world of its parent.
Homed(s) ==
    /\ \A n \in s.live : s.home[n] \in World
    /\ \A n \in Node : s.parent[n] # Null => s.home[s.parent[n]] = s.home[n]

\* A level's world exists, and so does the active world.
Loaded(s) == s.levels \subseteq s.worlds /\ s.activeWorld \in s.worlds \cup {Null}

Sound(s) ==
    s \in Scene /\ Alive(s) /\ Grounded(s.parent) /\ Forest(s) /\ Named(s) /\ Homed(s) /\ Loaded(s)

\* The tables of the world of a level: they hold entities of that level that
\* are alive, and a valid cache holds the roots among them.
Tables(s, w) ==
    /\ w \in s.worlds
    /\ \A n \in s.nodes[w] : n \in s.live /\ s.worldOf[n] = w /\ s.home[n] = w
    /\ s.rootsValid[w] => s.roots[w] = {n \in s.nodes[w] : s.parent[n] = Null}

\* Every active root is an entity of a level, or of w and then in its tables.
Reached(s, w) ==
    \A n \in s.live : s.parent[n] = Null /\ s.active[n] =>
        /\ s.home[n] \in s.levels \cup {w}
        /\ s.home[n] = w => n \in s.nodes[w]

\* The types of the components of a scene.
LEMMA SceneFields ==
    ASSUME NEW s \in Scene
    PROVE  /\ s.live \in SUBSET Node
           /\ s.parent \in [Node -> Node \cup {Null}]
           /\ s.children \in [Node -> SUBSET Node]
           /\ s.active \in [Node -> BOOLEAN]
           /\ s.home \in [Node -> World \cup {Null}]
           /\ s.name \in [Node -> Name \cup {Null}]
           /\ s.local \in [Node -> Value \cup {Null}]
           /\ s.entities \in SUBSET Node
           /\ s.byName \in [World -> [Name -> Node \cup {Null}]]
           /\ s.worlds \in SUBSET World
           /\ s.activeWorld \in World \cup {Null}
           /\ s.worldOf \in [Node -> World \cup {Null}]
           /\ s.nodes \in [World -> SUBSET Node]
           /\ s.roots \in [World -> SUBSET Node]
           /\ s.rootsValid \in [World -> BOOLEAN]
           /\ s.levels \in SUBSET World
           /\ s.currentLevel \in World \cup {Null}
           /\ s.touchedFreed \in BOOLEAN
BY DEF Scene

\* A null pointer is none of the things that can be pointed to.
LEMMA NullIsNothing ==
    Null \notin Node /\ Null \notin World /\ Null \notin Name /\ Null \notin Value
BY NullAssumption

\* The default transform is one.
LEMMA DefaultIsValue == Default \in Value
BY SceneAssumption DEF Default

\* An address that is free has nothing above it and nothing below it.
LEMMA FreeAddress ==
    ASSUME NEW s, Sound(s), NEW n \in Node \ s.live
    PROVE  /\ s.parent[n] = Null
           /\ s.children[n] = {}
           /\ s.worldOf[n] = Null
           /\ \A c \in Node : s.parent[c] # n
           /\ Above(s.parent, n) = {n}
<1>1. s.parent[n] = Null /\ s.children[n] = {} /\ s.worldOf[n] = Null
  BY DEF Sound, Forest, Alive
<1>2. \A c \in Node : s.parent[c] # n
  BY NullIsNothing DEF Sound, Forest
<1>3. Above(s.parent, n) = {n}
  BY <1>1, AboveStep, SceneFields DEF Sound
<1>. QED BY <1>1, <1>2, <1>3

\* A scene t has an entity n more than s, of the name m and for the world w,
\* which is registered in the active world.
Created(s, t, n, w, m) ==
    /\ t \in Scene
    /\ t.live = s.live \cup {n}
    /\ t.parent = s.parent
    /\ t.children = s.children
    /\ t.active = [s.active EXCEPT ![n] = TRUE]
    /\ t.home = [s.home EXCEPT ![n] = w]
    /\ t.name = [s.name EXCEPT ![n] = m]
    /\ t.local = [s.local EXCEPT ![n] = Default]
    /\ t.entities = s.entities \cup {n}
    /\ t.byName = IF m = Null THEN s.byName ELSE [s.byName EXCEPT ![w][m] = n]
    /\ t.worlds = s.worlds
    /\ t.activeWorld = s.activeWorld
    /\ t.worldOf = [s.worldOf EXCEPT ![n] = s.activeWorld]
    /\ t.nodes = [s.nodes EXCEPT ![s.activeWorld] = @ \cup {n}]
    /\ t.roots = s.roots
    /\ t.rootsValid = IF n \in s.nodes[s.activeWorld] THEN s.rootsValid ELSE [s.rootsValid EXCEPT ![s.activeWorld] = FALSE]
    /\ t.levels = s.levels
    /\ t.currentLevel = s.currentLevel
    /\ t.touchedFreed = s.touchedFreed

\* Creating an entity in a sound scene comes to that.
LEMMA CreateEntityIs ==
    ASSUME NEW s, Sound(s), s.activeWorld # Null, NEW n \in Node \ s.live, NEW w \in World,
           NEW m \in Name \cup {Null}
    PROVE  Created(s, CreateEntity(s, n, w, m), n, w, m)
<1> DEFINE a == s.activeWorld
           t == CreateEntity(s, n, w, m)
<1>. s \in Scene /\ a \in s.worlds /\ a \in World
  BY SceneFields DEF Sound, Loaded
<1> DEFINE born == [s EXCEPT !.live = @ \cup {n}, !.active[n] = TRUE, !.home[n] = w,
                          !.name[n] = m, !.local[n] = Default]
           put == AddNode(born, n, a)
           reg == [put EXCEPT !.worldOf[n] = a]
           known == [reg EXCEPT !.entities = @ \cup {n}]
<1>1. FindNodeWorld(born, n) = a
  <2>1. born.parent = s.parent /\ born.worldOf = s.worldOf /\ born.activeWorld = a
    BY DEF Scene
  <2>. HIDE DEF born
  <2>2. {k \in Above(born.parent, n) : born.worldOf[k] # Null} = {}
    BY <2>1, FreeAddress
  <2>. QED BY <2>1, <2>2, Zenon DEF FindNodeWorld
<1>2. RegisterNode(born, n) = reg
  <2>1. born.worlds = s.worlds
    BY DEF Scene
  <2>. HIDE DEF born
  <2>. QED BY <1>1, <2>1 DEF RegisterNode, RegisterNodeIn
<1>3. t = IF m = Null THEN known ELSE [known EXCEPT !.byName[w][m] = n]
  <2> DEFINE made == [RegisterNode(born, n) EXCEPT !.entities = @ \cup {n}]
  <2>1. t = IF m = Null THEN made ELSE [made EXCEPT !.byName[w][m] = n]
    BY Zenon DEF CreateEntity
  <2>2. made = known
    BY <1>2, Zenon
  <2>. HIDE DEF made, known
  <2>. QED BY <2>1, <2>2
<1>4. /\ born \in Scene
      /\ born.nodes = s.nodes /\ born.rootsValid = s.rootsValid /\ born.worldOf = s.worldOf
      /\ born.entities = s.entities /\ born.byName = s.byName
  BY DefaultIsValue DEF Scene
<1>5. /\ put \in Scene
      /\ put.nodes = [s.nodes EXCEPT ![a] = @ \cup {n}]
      /\ put.rootsValid = IF n \in s.nodes[a] THEN s.rootsValid ELSE [s.rootsValid EXCEPT ![a] = FALSE]
      /\ put = [born EXCEPT !.nodes = put.nodes, !.rootsValid = put.rootsValid]
  <2>. HIDE DEF born
  <2>1. CASE n \in s.nodes[a]
    <3>1. put = born
      BY <1>4, <2>1 DEF AddNode
    <3>2. s.nodes = [s.nodes EXCEPT ![a] = @ \cup {n}]
      <4>. s.nodes \in [World -> SUBSET Node]
        BY SceneFields
      <4>. QED BY <2>1
    <3>3. born = [born EXCEPT !.nodes = born.nodes, !.rootsValid = born.rootsValid]
      BY <1>4 DEF Scene
    <3>. HIDE DEF put
    <3>. QED BY <1>4, <2>1, <3>1, <3>2, <3>3
  <2>2. CASE n \notin s.nodes[a]
    <3>1. put = [born EXCEPT !.nodes[a] = @ \cup {n}, !.rootsValid[a] = FALSE]
      BY <1>4, <2>2 DEF AddNode
    <3>. HIDE DEF put
    <3> DEFINE x == [s.nodes EXCEPT ![a] = @ \cup {n}]
               y == [s.rootsValid EXCEPT ![a] = FALSE]
    <3>2. x \in [World -> SUBSET Node] /\ y \in [World -> BOOLEAN]
      BY SceneFields
    <3>3. put = [born EXCEPT !.nodes = x, !.rootsValid = y]
      BY <1>4, <3>1
    <3>. HIDE DEF x, y
    <3>4. put \in Scene /\ put.nodes = x /\ put.rootsValid = y
      BY <1>4, <3>2, <3>3 DEF Scene
    <3>. QED BY <1>4, <2>2, <3>3, <3>4 DEF x, y
  <2>. QED BY <2>1, <2>2
<1>. HIDE DEF put
<1>6. /\ reg \in Scene
      /\ reg.worldOf = [s.worldOf EXCEPT ![n] = a]
      /\ reg.entities = s.entities /\ reg.byName = s.byName
      /\ reg = [born EXCEPT !.nodes = put.nodes, !.rootsValid = put.rootsValid, !.worldOf = reg.worldOf]
  <2>1. put.worldOf = s.worldOf /\ put.entities = s.entities /\ put.byName = s.byName
    <3> DEFINE p == put.nodes
               e == put.rootsValid
    <3>1. put = [born EXCEPT !.nodes = p, !.rootsValid = e]
      BY <1>5
    <3>. HIDE DEF p, e, born
    <3>. QED BY <1>4, <3>1 DEF Scene
  <2>. HIDE DEF born
  <2> DEFINE x == [s.worldOf EXCEPT ![n] = a]
  <2>2. x \in [Node -> World \cup {Null}]
    BY SceneFields
  <2>3. reg = [put EXCEPT !.worldOf = x]
    BY <2>1
  <2>. HIDE DEF x, reg
  <2>4. reg \in Scene /\ reg.worldOf = x /\ reg.entities = s.entities /\ reg.byName = s.byName
    BY <1>5, <2>1, <2>2, <2>3 DEF Scene
  <2>5. reg = [born EXCEPT !.nodes = put.nodes, !.rootsValid = put.rootsValid, !.worldOf = reg.worldOf]
    <3> DEFINE p == put.nodes
               e == put.rootsValid
    <3>1. put = [born EXCEPT !.nodes = p, !.rootsValid = e]
      BY <1>5
    <3>. HIDE DEF p, e
    <3>2. reg = [born EXCEPT !.nodes = p, !.rootsValid = e, !.worldOf = x]
      BY <1>4, <2>3, <3>1 DEF Scene
    <3>. QED BY <2>4, <3>2 DEF p, e
  <2>. QED BY <2>4, <2>5 DEF x
<1>. HIDE DEF reg
<1>7. /\ known \in Scene
      /\ known = [born EXCEPT !.nodes = put.nodes, !.rootsValid = put.rootsValid, !.worldOf = reg.worldOf,
                              !.entities = s.entities \cup {n}]
      /\ known.byName = s.byName
  <2> DEFINE p == put.nodes
             e == put.rootsValid
             r == reg.worldOf
  <2>1. reg = [born EXCEPT !.nodes = p, !.rootsValid = e, !.worldOf = r]
    BY <1>6
  <2>. HIDE DEF born, p, e, r
  <2>2. known \in Scene /\ known.byName = s.byName
    BY <1>6 DEF Scene
  <2>3. known = [born EXCEPT !.nodes = p, !.rootsValid = e, !.worldOf = r,
                             !.entities = s.entities \cup {n}]
    BY <1>4, <1>6, <2>1 DEF Scene
  <2>. QED BY <2>2, <2>3 DEF p, e, r
<1>. HIDE DEF known
<1> DEFINE b == IF m = Null THEN s.byName ELSE [s.byName EXCEPT ![w][m] = n]
           p == put.nodes
           e == put.rootsValid
           r == reg.worldOf
<1>8. b \in [World -> [Name -> Node \cup {Null}]]
  <2>1. s.byName \in [World -> [Name -> Node \cup {Null}]]
    BY SceneFields
  <2>. QED BY <2>1
<1>9. t = [known EXCEPT !.byName = b]
  <2>1. CASE m = Null
    <3>1. known = [known EXCEPT !.byName = known.byName]
      <4>1. known \in Scene
        BY <1>7
      <4>. QED BY <4>1 DEF Scene
    <3>. QED BY <1>3, <1>7, <2>1, <3>1
  <2>2. CASE m # Null
    BY <1>3, <1>7, <2>2
  <2>. QED BY <2>1, <2>2
<1>10. known = [born EXCEPT !.nodes = p, !.rootsValid = e, !.worldOf = r, !.entities = s.entities \cup {n}]
  BY <1>7
<1>11. p = [s.nodes EXCEPT ![a] = @ \cup {n}]
  BY <1>5
<1>12. e = IF n \in s.nodes[a] THEN s.rootsValid ELSE [s.rootsValid EXCEPT ![a] = FALSE]
  BY <1>5
<1>13. r = [s.worldOf EXCEPT ![n] = a]
  BY <1>6
<1>. HIDE DEF p, e, r, b
<1>14. t \in Scene /\ t.byName = b
  <2>1. known \in Scene
    BY <1>7
  <2>. QED BY <1>8, <1>9, <2>1 DEF Scene
<1>15. t.nodes = p /\ t.rootsValid = e /\ t.worldOf = r /\ t.entities = s.entities \cup {n}
  <2>. HIDE DEF born
  <2>. QED BY <1>4, <1>9, <1>10 DEF Scene
<1>16. /\ t.live = born.live /\ t.parent = born.parent /\ t.children = born.children
       /\ t.active = born.active /\ t.home = born.home /\ t.name = born.name /\ t.local = born.local
       /\ t.worlds = born.worlds /\ t.activeWorld = born.activeWorld /\ t.roots = born.roots
       /\ t.levels = born.levels /\ t.currentLevel = born.currentLevel
       /\ t.touchedFreed = born.touchedFreed
  <2>. HIDE DEF born
  <2>. QED BY <1>4, <1>9, <1>10 DEF Scene
<1>17. /\ t.live = s.live \cup {n} /\ t.parent = s.parent /\ t.children = s.children
       /\ t.active = [s.active EXCEPT ![n] = TRUE] /\ t.home = [s.home EXCEPT ![n] = w]
       /\ t.name = [s.name EXCEPT ![n] = m] /\ t.local = [s.local EXCEPT ![n] = Default]
       /\ t.worlds = s.worlds /\ t.activeWorld = s.activeWorld /\ t.roots = s.roots
       /\ t.levels = s.levels /\ t.currentLevel = s.currentLevel
       /\ t.touchedFreed = s.touchedFreed
  BY <1>16 DEF Scene
<1>. HIDE DEF born
<1>. HIDE DEF t
<1>18. Created(s, t, n, w, m)
  BY <1>11, <1>12, <1>13, <1>14, <1>15, <1>17 DEF b, a, Created
<1>. QED BY <1>18 DEF t

\* The same entities, in the same worlds and levels; the tables may differ.
SameEntities(s, t) ==
    /\ t.live = s.live /\ t.active = s.active /\ t.home = s.home /\ t.name = s.name
    /\ t.local = s.local /\ t.entities = s.entities /\ t.byName = s.byName
    /\ t.worlds = s.worlds /\ t.activeWorld = s.activeWorld
    /\ t.levels = s.levels /\ t.currentLevel = s.currentLevel /\ t.touchedFreed = s.touchedFreed

SameTables(s, t) ==
    t.worldOf = s.worldOf /\ t.nodes = s.nodes /\ t.roots = s.roots /\ t.rootsValid = s.rootsValid

\* A scene t in which n has the parent p.
ParentSet(s, t, n, p) ==
    /\ t \in Scene
    /\ SameEntities(s, t)
    /\ SameTables(s, t)
    /\ t.parent = [s.parent EXCEPT ![n] = p]
    /\ \A e \in Node : t.children[e] = IF e = p THEN s.children[e] \cup {n} ELSE s.children[e] \ {n}

\* Setting a parent comes to that.
LEMMA SetParentIs ==
    ASSUME NEW s \in Scene, NEW n \in Node, NEW p \in Node
    PROVE  ParentSet(s, SetParent(s, n, p), n, p)
<1> DEFINE t == SetParent(s, n, p)
           x == [s.parent EXCEPT ![n] = p]
           y == [e \in Node |-> IF e = p THEN s.children[e] \cup {n} ELSE s.children[e] \ {n}]
<1>1. x \in [Node -> Node \cup {Null}] /\ y \in [Node -> SUBSET Node]
  BY SceneFields
<1>2. t = [s EXCEPT !.parent = x, !.children = y]
  BY SceneFields DEF SetParent
<1>3. \A e \in Node : y[e] = IF e = p THEN s.children[e] \cup {n} ELSE s.children[e] \ {n}
  OBVIOUS
<1>. HIDE DEF x, y
<1>4. t \in Scene /\ t.parent = x /\ t.children = y
  BY <1>1, <1>2 DEF Scene
<1>5. SameEntities(s, t) /\ SameTables(s, t)
  BY <1>2 DEF Scene, SameEntities, SameTables
<1>. HIDE DEF t
<1>6. ParentSet(s, t, n, p)
  BY <1>3, <1>4, <1>5 DEF x, ParentSet
<1>. QED BY <1>6 DEF t

\* A scene t in which n is also registered in w.
Tabled(s, t, n, w) ==
    /\ t \in Scene
    /\ SameEntities(s, t)
    /\ t.parent = s.parent /\ t.children = s.children
    /\ t.worldOf = [s.worldOf EXCEPT ![n] = w]
    /\ t.nodes = [s.nodes EXCEPT ![w] = @ \cup {n}]
    /\ t.roots = s.roots
    /\ t.rootsValid = IF n \in s.nodes[w] THEN s.rootsValid ELSE [s.rootsValid EXCEPT ![w] = FALSE]

\* Registering in a world that exists comes to that.
LEMMA RegisterNodeInIs ==
    ASSUME NEW s \in Scene, NEW n \in Node, NEW w \in s.worlds
    PROVE  Tabled(s, RegisterNodeIn(s, n, w), n, w)
<1>. w \in World
  BY SceneFields
<1> DEFINE x == [s.nodes EXCEPT ![w] = @ \cup {n}]
           y == IF n \in s.nodes[w] THEN s.rootsValid ELSE [s.rootsValid EXCEPT ![w] = FALSE]
           z == [s.worldOf EXCEPT ![n] = w]
           put == AddNode(s, n, w)
           t == RegisterNodeIn(s, n, w)
<1>1. x \in [World -> SUBSET Node] /\ y \in [World -> BOOLEAN] /\ z \in [Node -> World \cup {Null}]
  BY SceneFields
<1>2. put = [s EXCEPT !.nodes = x, !.rootsValid = y]
  <2>1. CASE n \in s.nodes[w]
    <3>1. x = s.nodes
      <4>1. s.nodes \in [World -> SUBSET Node] /\ s.nodes[w] \cup {n} = s.nodes[w]
        BY <2>1, SceneFields
      <4>. QED BY <4>1
    <3>2. y = s.rootsValid
      BY <2>1
    <3>3. put = s
      BY <2>1 DEF AddNode
    <3>. HIDE DEF x, y, put
    <3>. QED BY <3>1, <3>2, <3>3 DEF Scene
  <2>2. CASE n \notin s.nodes[w]
    BY <2>2 DEF AddNode
  <2>. QED BY <2>1, <2>2
<1>3. t = [put EXCEPT !.worldOf[n] = w]
  BY DEF RegisterNodeIn
<1>. HIDE DEF x, y, put, t
<1>4. put \in Scene /\ put.worldOf = s.worldOf /\ put.nodes = x /\ put.rootsValid = y
  BY <1>1, <1>2 DEF Scene
<1>5. t = [put EXCEPT !.worldOf = z]
  BY <1>3, <1>4
<1>. HIDE DEF z
<1>6. t = [s EXCEPT !.nodes = x, !.rootsValid = y, !.worldOf = z]
  BY <1>2, <1>5 DEF Scene
<1>7. t \in Scene /\ t.nodes = x /\ t.rootsValid = y /\ t.worldOf = z
  BY <1>1, <1>6 DEF Scene
<1>8. SameEntities(s, t) /\ t.parent = s.parent /\ t.children = s.children /\ t.roots = s.roots
  BY <1>6 DEF Scene, SameEntities
<1>9. Tabled(s, t, n, w)
  BY <1>7, <1>8 DEF x, y, z, Tabled
<1>. QED BY <1>9 DEF t

\* A node that is in a world is found there.
LEMMA FindNodeWorldOwn ==
    ASSUME NEW s \in Scene, Grounded(s.parent), NEW n \in Node, s.worldOf[n] # Null
    PROVE  FindNodeWorld(s, n) = s.worldOf[n]
<1> DEFINE known == {m \in Above(s.parent, n) : s.worldOf[m] # Null}
<1>1. n \in known /\ known \subseteq Above(s.parent, n)
  BY AboveUpward, SceneFields
<1>2. ASSUME NEW m \in known, known \subseteq Above(s.parent, m) PROVE m = n
  BY <1>1, <1>2, AboveAntisymmetric, SceneFields
<1>3. (CHOOSE m \in known : known \subseteq Above(s.parent, m)) = n
  <2>. HIDE DEF known
  <2>. QED BY <1>1, <1>2
<1>4. known # {}
  BY <1>1
<1>. QED BY <1>3, <1>4, Zenon DEF FindNodeWorld

\* A scene t has one entity more than s: n, below p, for the world w.
Born(s, t, n, p, w) ==
    /\ t \in Scene
    /\ t.live = s.live \cup {n} /\ t.entities = s.entities \cup {n}
    /\ t.parent = [s.parent EXCEPT ![n] = p]
    /\ \A e, c \in Node : c \in t.children[e] <=> (c = n /\ e = p) \/ (c # n /\ c \in s.children[e])
    /\ t.active = [s.active EXCEPT ![n] = TRUE]
    /\ t.home = [s.home EXCEPT ![n] = w]
    /\ t.local = [s.local EXCEPT ![n] = Default]
    /\ \E m \in Name \cup {Null} :
          /\ t.name = [s.name EXCEPT ![n] = m]
          /\ t.byName = IF m = Null THEN s.byName ELSE [s.byName EXCEPT ![w][m] = n]
    /\ t.worlds = s.worlds /\ t.activeWorld = s.activeWorld
    /\ t.levels = s.levels /\ t.currentLevel = s.currentLevel /\ t.touchedFreed = s.touchedFreed
    /\ \A k \in Node : k # n => t.worldOf[k] = s.worldOf[k]

\* It is in the tables of w, unless it has a parent.
Entered(s, t, n, p, w) ==
    \/ /\ t.nodes[w] = s.nodes[w] /\ t.roots[w] = s.roots[w] /\ t.rootsValid[w] = s.rootsValid[w]
       /\ p # Null
    \/ /\ t.nodes[w] = s.nodes[w] \cup {n} /\ ~t.rootsValid[w] /\ t.worldOf[n] = w

\* Such a scene is as sound as the one before.
LEMMA BornSound ==
    ASSUME NEW s, Sound(s), NEW n \in Node \ s.live, NEW p \in s.live \cup {Null}, NEW w \in World,
           p # Null => s.home[p] = w, NEW t, Born(s, t, n, p, w)
    PROVE  Sound(t)
<1>. s \in Scene /\ t \in Scene
  BY DEF Sound, Born
<1>1. /\ s.parent \in [Node -> Node \cup {Null}] /\ s.children \in [Node -> SUBSET Node]
      /\ s.home \in [Node -> World \cup {Null}] /\ s.live \in SUBSET Node
      /\ s.active \in [Node -> BOOLEAN] /\ s.local \in [Node -> Value \cup {Null}]
      /\ s.byName \in [World -> [Name -> Node \cup {Null}]] /\ s.name \in [Node -> Name \cup {Null}]
  BY SceneFields
<1>2. n # p /\ n # Null
  BY NullIsNothing
<1>3. s.parent[n] = Null /\ s.children[n] = {} /\ s.worldOf[n] = Null /\ \A c \in Node : s.parent[c] # n
  BY FreeAddress
<1>4. Alive(t)
  <2>1. t.entities \subseteq t.live
    BY DEF Born, Sound, Alive
  <2>2. ASSUME NEW k \in Node
        PROVE  (k \in t.live <=> t.local[k] # Null) /\ (k \notin t.live => ~t.active[k] /\ t.worldOf[k] = Null)
    <3>1. (k \in s.live <=> s.local[k] # Null) /\ (k \notin s.live => ~s.active[k] /\ s.worldOf[k] = Null)
      BY DEF Sound, Alive
    <3>2. t.live = s.live \cup {n} /\ t.local = [s.local EXCEPT ![n] = Default]
      BY DEF Born
    <3>3. k # n => t.worldOf[k] = s.worldOf[k] /\ t.active[k] = s.active[k]
      BY <1>1 DEF Born
    <3>. QED BY <1>1, <3>1, <3>2, <3>3, DefaultIsValue, NullIsNothing
  <2>. QED BY <2>1, <2>2 DEF Alive
<1>5. Grounded(t.parent)
  <2> SUFFICES ASSUME NEW S \in SUBSET Node, S # {} PROVE \E k \in S : t.parent[k] \notin S
    BY DEF Grounded
  <2>1. t.parent = [s.parent EXCEPT ![n] = p]
    BY DEF Born
  <2>2. CASE S \ {n} = {}
    <3>1. S = {n} /\ t.parent[n] = p
      BY <1>1, <2>1, <2>2
    <3>. QED BY <1>2, <3>1
  <2>3. CASE S \ {n} # {}
    <3>1. PICK k \in S \ {n} : s.parent[k] \notin S \ {n}
      BY <2>3 DEF Sound, Grounded
    <3>2. t.parent[k] = s.parent[k] /\ s.parent[k] # n
      BY <1>1, <1>3, <2>1
    <3>. QED BY <3>1, <3>2
  <2>. QED BY <2>2, <2>3
<1>6. Forest(t)
  <2>1. t.live = s.live \cup {n} /\ t.parent = [s.parent EXCEPT ![n] = p]
    BY DEF Born
  <2>2. t.children \in [Node -> SUBSET Node]
    BY SceneFields
  <2>3. ASSUME NEW k \in Node PROVE t.parent[k] # Null => t.parent[k] \in t.live
    BY <1>1, <2>1 DEF Sound, Forest
  <2>4. ASSUME NEW k \in Node, NEW c \in Node PROVE c \in t.children[k] <=> t.parent[c] = k
    <3>1. c \in t.children[k] <=> (c = n /\ k = p) \/ (c # n /\ c \in s.children[k])
      BY DEF Born
    <3>2. c \in s.children[k] <=> s.parent[c] = k
      BY DEF Sound, Forest
    <3>. QED BY <1>1, <2>1, <3>1, <3>2
  <2>5. ASSUME NEW k \in Node, k \notin t.live PROVE t.children[k] = {} /\ t.parent[k] = Null
    <3>1. k # n /\ k # p /\ k \notin s.live
      BY <2>1, <2>5, NullIsNothing
    <3>2. s.children[k] = {} /\ s.parent[k] = Null
      BY <3>1 DEF Sound, Forest
    <3>3. \A c \in Node : c \notin t.children[k]
      BY <3>1, <3>2 DEF Born
    <3>. QED BY <1>1, <2>1, <2>2, <3>1, <3>2, <3>3
  <2>. QED BY <2>3, <2>4, <2>5 DEF Forest
<1>7. Named(t)
  <2>1. PICK m \in Name \cup {Null} :
          /\ t.name = [s.name EXCEPT ![n] = m]
          /\ t.byName = IF m = Null THEN s.byName ELSE [s.byName EXCEPT ![w][m] = n]
    BY DEF Born
  <2>2. t.live = s.live \cup {n} /\ t.home = [s.home EXCEPT ![n] = w]
    BY DEF Born
  <2>3. ASSUME NEW v \in World, NEW l \in Name, t.byName[v][l] # Null
        PROVE  t.byName[v][l] \in t.live /\ t.home[t.byName[v][l]] = v /\ t.name[t.byName[v][l]] = l
    <3>1. CASE m # Null /\ v = w /\ l = m
      <4>1. t.byName[v][l] = n
        BY <1>1, <2>1, <3>1
      <4>. QED BY <1>1, <2>1, <2>2, <3>1, <4>1
    <3>2. CASE ~(m # Null /\ v = w /\ l = m)
      <4>1. t.byName[v][l] = s.byName[v][l]
        BY <1>1, <2>1, <3>2
      <4>2. s.byName[v][l] \in s.live /\ s.home[s.byName[v][l]] = v /\ s.name[s.byName[v][l]] = l
        BY <2>3, <4>1 DEF Sound, Named
      <4>. QED BY <1>1, <2>1, <2>2, <4>1, <4>2
    <3>. QED BY <3>1, <3>2
  <2>. QED BY <2>3 DEF Named
<1>8. Homed(t)
  <2>1. t.live = s.live \cup {n} /\ t.parent = [s.parent EXCEPT ![n] = p] /\ t.home = [s.home EXCEPT ![n] = w]
    BY DEF Born
  <2>2. ASSUME NEW k \in t.live PROVE t.home[k] \in World
    BY <1>1, <2>1 DEF Sound, Homed
  <2>3. ASSUME NEW k \in Node, t.parent[k] # Null PROVE t.home[t.parent[k]] = t.home[k]
    <3>1. CASE k = n
      BY <1>1, <1>2, <2>1, <2>3, <3>1
    <3>2. CASE k # n
      <4>1. t.parent[k] = s.parent[k] /\ s.parent[k] # n /\ s.parent[k] \in Node
        BY <1>1, <1>3, <2>1, <2>3, <3>2
      <4>. QED BY <1>1, <2>1, <2>3, <3>2, <4>1 DEF Sound, Homed
    <3>. QED BY <3>1, <3>2
  <2>. QED BY <2>2, <2>3 DEF Homed
<1>9. Loaded(t)
  BY DEF Born, Sound, Loaded
<1>. QED BY <1>4, <1>5, <1>6, <1>7, <1>8, <1>9 DEF Sound

\* So are its tables, and its roots are as much in reach.
LEMMA EnteredTables ==
    ASSUME NEW s, Sound(s), NEW n \in Node \ s.live, NEW p \in s.live \cup {Null}, NEW w \in World,
           p # Null => s.home[p] = w, NEW t, Born(s, t, n, p, w), Entered(s, t, n, p, w),
           Tables(s, w), Reached(s, w)
    PROVE  Tables(t, w) /\ Reached(t, w)
<1>. s \in Scene /\ t \in Scene
  BY DEF Sound, Born
<1>1. /\ s.parent \in [Node -> Node \cup {Null}] /\ s.active \in [Node -> BOOLEAN]
      /\ s.home \in [Node -> World \cup {Null}] /\ s.live \in SUBSET Node
      /\ s.nodes \in [World -> SUBSET Node]
  BY SceneFields
<1>2. /\ t.live = s.live \cup {n} /\ t.parent = [s.parent EXCEPT ![n] = p]
      /\ t.home = [s.home EXCEPT ![n] = w] /\ t.active = [s.active EXCEPT ![n] = TRUE]
      /\ t.worlds = s.worlds /\ t.levels = s.levels
      /\ \A k \in Node : k # n => t.worldOf[k] = s.worldOf[k]
  BY DEF Born
<1>3. \A k \in s.nodes[w] : k \in Node /\ k \in s.live /\ k # n /\ s.worldOf[k] = w /\ s.home[k] = w
  BY <1>1 DEF Tables
<1>4. ASSUME NEW k \in t.nodes[w] PROVE k \in t.live /\ t.worldOf[k] = w /\ t.home[k] = w
  <2>1. CASE k \in s.nodes[w]
    BY <1>1, <1>2, <1>3, <2>1
  <2>2. CASE k \notin s.nodes[w]
    BY <1>1, <1>2, <1>4, <2>2 DEF Entered
  <2>. QED BY <2>1, <2>2
<1>5. ASSUME t.rootsValid[w] PROVE t.roots[w] = {k \in t.nodes[w] : t.parent[k] = Null}
  <2>1. t.nodes[w] = s.nodes[w] /\ t.roots[w] = s.roots[w] /\ s.rootsValid[w]
    BY <1>5 DEF Entered
  <2>2. \A k \in s.nodes[w] : t.parent[k] = s.parent[k]
    BY <1>1, <1>2, <1>3
  <2>. QED BY <2>1, <2>2 DEF Tables
<1>6. ASSUME NEW k \in t.live, t.parent[k] = Null, t.active[k]
      PROVE  t.home[k] \in t.levels \cup {w} /\ (t.home[k] = w => k \in t.nodes[w])
  <2>1. CASE k = n
    BY <1>1, <1>2, <1>6, <2>1 DEF Entered
  <2>2. CASE k # n
    <3>1. k \in s.live /\ s.parent[k] = Null /\ s.active[k] /\ t.home[k] = s.home[k]
      BY <1>1, <1>2, <1>6, <2>2
    <3>2. s.nodes[w] \subseteq t.nodes[w]
      BY DEF Entered
    <3>. QED BY <1>2, <3>1, <3>2 DEF Reached
  <2>. QED BY <2>1, <2>2
<1>7. w \in t.worlds
  BY <1>2 DEF Tables
<1>. QED BY <1>4, <1>5, <1>6, <1>7 DEF Tables, Reached

\* A scene in which w can get more entities.
Growing(s, w) == Sound(s) /\ Tables(s, w) /\ Reached(s, w) /\ s.activeWorld # Null

\* A scene t that has n in addition, for the world w.
Grown(s, t, n, w) ==
    /\ Growing(t, w)
    /\ t.live = s.live \cup {n}
    /\ t.home = [s.home EXCEPT ![n] = w]
    /\ t.activeWorld = s.activeWorld /\ t.worlds = s.worlds
    /\ t.levels = s.levels /\ t.currentLevel = s.currentLevel /\ t.touchedFreed = s.touchedFreed

\* A growing scene in which an entity is born and entered into the tables still
\* grows.
LEMMA Grows ==
    ASSUME NEW w \in World, NEW s, Growing(s, w), NEW n \in Node \ s.live, NEW p \in s.live \cup {Null},
           p # Null => s.home[p] = w, NEW t, Born(s, t, n, p, w), Entered(s, t, n, p, w)
    PROVE  Grown(s, t, n, w)
<1>1. Sound(t)
  BY BornSound DEF Growing
<1>2. Tables(t, w) /\ Reached(t, w)
  BY EnteredTables DEF Growing
<1>. QED BY <1>1, <1>2 DEF Grown, Growing, Born

\* The new entity has no parent.
LEMMA NewRoot ==
    ASSUME NEW w \in World, NEW s, Sound(s), s.activeWorld # Null, NEW n \in Node \ s.live,
           NEW m \in Name \cup {Null}, NEW t, t = CreateEntity(s, n, w, m)
    PROVE  Born(s, t, n, Null, w)
<1>. s \in Scene
  BY DEF Sound
<1>0. Created(s, t, n, w, m)
  BY CreateEntityIs
<1>1. s.parent \in [Node -> Node \cup {Null}] /\ s.parent[n] = Null /\ s.worldOf \in [Node -> World \cup {Null}]
  BY FreeAddress, SceneFields
<1>2. /\ t \in Scene
      /\ t.live = s.live \cup {n} /\ t.entities = s.entities \cup {n}
      /\ t.active = [s.active EXCEPT ![n] = TRUE]
      /\ t.home = [s.home EXCEPT ![n] = w]
      /\ t.local = [s.local EXCEPT ![n] = Default]
      /\ t.worlds = s.worlds /\ t.activeWorld = s.activeWorld
      /\ t.levels = s.levels /\ t.currentLevel = s.currentLevel /\ t.touchedFreed = s.touchedFreed
  BY Zenon, <1>0 DEF Created
<1>3. t.parent = s.parent /\ t.children = s.children /\ t.worldOf = [s.worldOf EXCEPT ![n] = s.activeWorld]
  BY Zenon, <1>0 DEF Created
<1>4. t.name = [s.name EXCEPT ![n] = m] /\ t.byName = IF m = Null THEN s.byName ELSE [s.byName EXCEPT ![w][m] = n]
  BY Zenon, <1>0 DEF Created
<1>5. \E l \in Name \cup {Null} : t.name = [s.name EXCEPT ![n] = l]
          /\ t.byName = IF l = Null THEN s.byName ELSE [s.byName EXCEPT ![w][l] = n]
  BY <1>4
<1>6. t.parent = [s.parent EXCEPT ![n] = Null]
  BY <1>1, <1>3
<1>7. ASSUME NEW e \in Node, NEW c \in Node
      PROVE  c \in t.children[e] <=> (c = n /\ e = Null) \/ (c # n /\ c \in s.children[e])
  BY <1>1, <1>3, NullIsNothing DEF Sound, Forest
<1>8. \A k \in Node : k # n => t.worldOf[k] = s.worldOf[k]
  BY <1>1, <1>3
<1>. QED BY <1>2, <1>5, <1>6, <1>7, <1>8 DEF Born

\* It gets one.
LEMMA NewChild ==
    ASSUME NEW w \in World, NEW s, Sound(s), NEW n \in Node \ s.live, NEW p \in s.live,
           NEW u, Born(s, u, n, Null, w), NEW t \in Scene, SameEntities(u, t),
           t.parent = [u.parent EXCEPT ![n] = p],
           \A e \in Node : t.children[e] = IF e = p THEN u.children[e] \cup {n} ELSE u.children[e] \ {n},
           \A k \in Node : k # n => t.worldOf[k] = u.worldOf[k]
    PROVE  Born(s, t, n, p, w)
<1>. s \in Scene /\ u \in Scene
  BY DEF Sound, Born
<1>1. s.parent \in [Node -> Node \cup {Null}] /\ p \in Node
  BY SceneFields
<1>2. t.parent = [s.parent EXCEPT ![n] = p]
  BY <1>1 DEF Born
<1>3. ASSUME NEW e \in Node, NEW c \in Node
      PROVE  c \in t.children[e] <=> (c = n /\ e = p) \/ (c # n /\ c \in s.children[e])
  <2>1. c \in u.children[e] <=> (c = n /\ e = Null) \/ (c # n /\ c \in s.children[e])
    BY DEF Born
  <2>2. e # Null
    BY NullIsNothing
  <2>. QED BY <2>1, <2>2
<1>4. \E m \in Name \cup {Null} :
          /\ t.name = [s.name EXCEPT ![n] = m]
          /\ t.byName = IF m = Null THEN s.byName ELSE [s.byName EXCEPT ![w][m] = n]
  <2>1. PICK m \in Name \cup {Null} :
          /\ u.name = [s.name EXCEPT ![n] = m]
          /\ u.byName = IF m = Null THEN s.byName ELSE [s.byName EXCEPT ![w][m] = n]
    BY DEF Born
  <2>2. t.name = u.name /\ t.byName = u.byName
    BY DEF SameEntities
  <2>. QED BY <2>1, <2>2
<1>5. \A k \in Node : k # n => t.worldOf[k] = s.worldOf[k]
  BY DEF Born
<1>6. /\ t.live = s.live \cup {n} /\ t.entities = s.entities \cup {n}
      /\ t.active = [s.active EXCEPT ![n] = TRUE]
      /\ t.home = [s.home EXCEPT ![n] = w]
      /\ t.local = [s.local EXCEPT ![n] = Default]
      /\ t.worlds = s.worlds /\ t.activeWorld = s.activeWorld
      /\ t.levels = s.levels /\ t.currentLevel = s.currentLevel /\ t.touchedFreed = s.touchedFreed
  BY DEF Born, SameEntities
<1>. QED BY <1>2, <1>3, <1>4, <1>5, <1>6 DEF Born

\* Only the tables matter to the rest.
LEMMA BornAlike ==
    ASSUME NEW w, NEW s, NEW n, NEW p, NEW u, Born(s, u, n, p, w),
           NEW t \in Scene, SameEntities(u, t), t.parent = u.parent, t.children = u.children,
           \A k \in Node : k # n => t.worldOf[k] = u.worldOf[k]
    PROVE  Born(s, t, n, p, w)
<1>1. \E m \in Name \cup {Null} :
          /\ t.name = [s.name EXCEPT ![n] = m]
          /\ t.byName = IF m = Null THEN s.byName ELSE [s.byName EXCEPT ![w][m] = n]
  <2>1. t.name = u.name /\ t.byName = u.byName
    BY DEF SameEntities
  <2>. QED BY <2>1 DEF Born
<1>2. /\ t.live = s.live \cup {n} /\ t.entities = s.entities \cup {n}
      /\ t.active = [s.active EXCEPT ![n] = TRUE]
      /\ t.home = [s.home EXCEPT ![n] = w]
      /\ t.local = [s.local EXCEPT ![n] = Default]
      /\ t.worlds = s.worlds /\ t.activeWorld = s.activeWorld
      /\ t.levels = s.levels /\ t.currentLevel = s.currentLevel /\ t.touchedFreed = s.touchedFreed
  BY DEF Born, SameEntities
<1>3. /\ t.parent = [s.parent EXCEPT ![n] = p]
      /\ \A e, c \in Node : c \in t.children[e] <=> (c = n /\ e = p) \/ (c # n /\ c \in s.children[e])
  BY DEF Born
<1>4. \A k \in Node : k # n => t.worldOf[k] = s.worldOf[k]
  BY DEF Born
<1>. QED BY <1>1, <1>2, <1>3, <1>4 DEF Born

\* What CreateEntity does to the tables of w: the entity is in them if w is
\* the active world.
LEMMA NewTables ==
    ASSUME NEW w \in World, NEW s, Growing(s, w), NEW n \in Node \ s.live,
           NEW m \in Name \cup {Null}, NEW t, t = CreateEntity(s, n, w, m)
    PROVE  /\ n \notin s.nodes[w]
           /\ s.activeWorld \in World /\ t.activeWorld = s.activeWorld /\ s.activeWorld \in t.worlds
           /\ t.worldOf[n] = s.activeWorld
           /\ n \in t.nodes[s.activeWorld]
           /\ t.roots = s.roots
           /\ s.activeWorld = w => t.nodes[w] = s.nodes[w] \cup {n} /\ ~t.rootsValid[w]
           /\ s.activeWorld # w => t.nodes[w] = s.nodes[w] /\ t.rootsValid[w] = s.rootsValid[w]
<1> DEFINE a == s.activeWorld
<1>. Sound(s) /\ a # Null /\ s \in Scene
  BY DEF Sound, Growing
<1>0. Created(s, t, n, w, m)
  BY CreateEntityIs
<1>1. /\ s.nodes \in [World -> SUBSET Node] /\ s.rootsValid \in [World -> BOOLEAN]
      /\ s.worldOf \in [Node -> World \cup {Null}] /\ a \in World /\ a \in s.worlds
  BY SceneFields DEF Sound, Loaded
<1>2. /\ t.worlds = s.worlds /\ t.activeWorld = s.activeWorld
      /\ t.worldOf = [s.worldOf EXCEPT ![n] = a]
      /\ t.nodes = [s.nodes EXCEPT ![a] = @ \cup {n}]
      /\ t.roots = s.roots
      /\ t.rootsValid = IF n \in s.nodes[a] THEN s.rootsValid ELSE [s.rootsValid EXCEPT ![a] = FALSE]
  BY Zenon, <1>0 DEF Created
<1>3. n \notin s.nodes[w]
  BY DEF Growing, Tables
<1>. HIDE DEF a
<1>4. t.worldOf[n] = a /\ n \in t.nodes[a]
  BY <1>1, <1>2
<1>5. CASE a = w
  BY <1>1, <1>2, <1>3, <1>4, <1>5 DEF a
<1>6. CASE a # w
  BY <1>1, <1>2, <1>3, <1>4, <1>6 DEF a
<1>. QED BY <1>5, <1>6

\* CreateEmptyEntity, and a pasted node at the top.
LEMMA CreateGrows ==
    ASSUME NEW w \in World, NEW s, Growing(s, w), s.activeWorld = w, NEW n \in Node \ s.live,
           NEW m \in Name \cup {Null}
    PROVE  Grown(s, CreateEntity(s, n, w, m), n, w)
<1> DEFINE t == CreateEntity(s, n, w, m)
<1>1. Born(s, t, n, Null, w)
  BY NewRoot DEF Growing
<1>2. Entered(s, t, n, Null, w)
  BY NewTables DEF Entered
<1>. HIDE DEF t
<1>. QED BY <1>1, <1>2, Grows DEF t

\* A pasted node below another one.
LEMMA CreateBelowGrows ==
    ASSUME NEW w \in World, NEW s, Growing(s, w), s.activeWorld = w, NEW n \in Node \ s.live,
           NEW m \in Name \cup {Null}, NEW p \in s.live, s.home[p] = w
    PROVE  Grown(s, SetParent(CreateEntity(s, n, w, m), n, p), n, w)
<1> DEFINE made == CreateEntity(s, n, w, m)
           t == SetParent(made, n, p)
<1>. p \in Node
  BY SceneFields DEF Growing, Sound
<1>1. Born(s, made, n, Null, w)
  BY NewRoot DEF Growing
<1>2. /\ made.nodes[w] = s.nodes[w] \cup {n} /\ ~made.rootsValid[w] /\ made.worldOf[n] = w
  BY NewTables
<1>. HIDE DEF made
<1>3. /\ t \in Scene /\ SameEntities(made, t) /\ SameTables(made, t)
      /\ t.parent = [made.parent EXCEPT ![n] = p]
      /\ \A e \in Node : t.children[e] = IF e = p THEN made.children[e] \cup {n} ELSE made.children[e] \ {n}
  <2>1. made \in Scene
    BY <1>1 DEF Born
  <2>2. ParentSet(made, t, n, p)
    BY <2>1, SetParentIs
  <2>. QED BY <2>2 DEF ParentSet
<1>. HIDE DEF t
<1>4. Born(s, t, n, p, w)
  BY <1>1, <1>3, NewChild DEF Growing, SameTables
<1>5. Entered(s, t, n, p, w)
  BY <1>2, <1>3 DEF Entered, SameTables
<1>. QED BY <1>4, <1>5, Grows DEF t, made

\* A node of a level that is being built, at the top and below another one.
LEMMA BuildRootGrows ==
    ASSUME NEW w \in World, NEW s, Growing(s, w), NEW n \in Node \ s.live, NEW m \in Name \cup {Null}
    PROVE  Grown(s, RegisterNodeIn(CreateEntity(s, n, w, m), n, w), n, w)
<1> DEFINE made == CreateEntity(s, n, w, m)
           t == RegisterNodeIn(made, n, w)
<1>1. Born(s, made, n, Null, w)
  BY NewRoot DEF Growing
<1>2. /\ n \notin s.nodes[w]
      /\ s.activeWorld = w => made.nodes[w] = s.nodes[w] \cup {n} /\ ~made.rootsValid[w]
      /\ s.activeWorld # w => made.nodes[w] = s.nodes[w] /\ made.rootsValid[w] = s.rootsValid[w]
  BY NewTables
<1>. HIDE DEF made
<1>3. made \in Scene /\ w \in made.worlds
  BY <1>1 DEF Born, Growing, Tables
<1>4. /\ t \in Scene /\ SameEntities(made, t)
      /\ t.parent = made.parent /\ t.children = made.children
      /\ t.worldOf = [made.worldOf EXCEPT ![n] = w]
      /\ t.nodes = [made.nodes EXCEPT ![w] = @ \cup {n}]
      /\ t.rootsValid = IF n \in made.nodes[w] THEN made.rootsValid ELSE [made.rootsValid EXCEPT ![w] = FALSE]
  <2>1. Tabled(made, t, n, w)
    BY <1>3, RegisterNodeInIs
  <2>. QED BY <2>1 DEF Tabled
<1>5. /\ made.nodes \in [World -> SUBSET Node] /\ made.rootsValid \in [World -> BOOLEAN]
      /\ made.worldOf \in [Node -> World \cup {Null}]
  BY <1>3, SceneFields
<1>. HIDE DEF t
<1>6. Entered(s, t, n, Null, w)
  <2>1. t.nodes[w] = s.nodes[w] \cup {n} /\ t.worldOf[n] = w
    BY <1>2, <1>4, <1>5
  <2>2. ~t.rootsValid[w]
    BY <1>2, <1>4, <1>5
  <2>. QED BY <2>1, <2>2 DEF Entered
<1>7. Born(s, t, n, Null, w)
  <2>1. \A k \in Node : k # n => t.worldOf[k] = made.worldOf[k]
    BY <1>4, <1>5
  <2>. QED BY <1>1, <1>4, <2>1, BornAlike
<1>. QED BY <1>6, <1>7, Grows DEF t, made

\* An item of a description below another: made, put below it, registered again.
LEMMA BuildBelowGrows ==
    ASSUME NEW w \in World, NEW s, Growing(s, w), NEW n \in Node \ s.live, NEW m \in Name \cup {Null},
           NEW p \in s.live, s.home[p] = w
    PROVE  Grown(s, RegisterNode(SetParent(CreateEntity(s, n, w, m), n, p), n), n, w)
<1> DEFINE made == CreateEntity(s, n, w, m)
           u == SetParent(made, n, p)
           t == RegisterNode(u, n)
           a == s.activeWorld
<1>. p \in Node
  BY SceneFields DEF Growing, Sound
<1>1. Born(s, made, n, Null, w)
  BY NewRoot DEF Growing
<1>2. /\ a \in World /\ a \in made.worlds /\ made.worldOf[n] = a /\ n \in made.nodes[a] /\ made.roots = s.roots
      /\ a = w => made.nodes[w] = s.nodes[w] \cup {n} /\ ~made.rootsValid[w]
      /\ a # w => made.nodes[w] = s.nodes[w] /\ made.rootsValid[w] = s.rootsValid[w]
  BY NewTables
<1>. HIDE DEF made, a
<1>3. /\ u \in Scene /\ SameEntities(made, u) /\ SameTables(made, u)
      /\ u.parent = [made.parent EXCEPT ![n] = p]
      /\ \A e \in Node : u.children[e] = IF e = p THEN made.children[e] \cup {n} ELSE made.children[e] \ {n}
  <2>1. made \in Scene
    BY <1>1 DEF Born
  <2>2. ParentSet(made, u, n, p)
    BY <2>1, SetParentIs
  <2>. QED BY <2>2 DEF ParentSet
<1>. HIDE DEF u
<1>4. Born(s, u, n, p, w)
  BY <1>1, <1>3, NewChild DEF Growing, SameTables
<1>5. Sound(u)
  BY <1>4, BornSound DEF Growing
<1>6. u.worldOf[n] = a /\ a \in u.worlds
  BY <1>2, <1>3 DEF SameTables, SameEntities
<1>7. t = RegisterNodeIn(u, n, a)
  <2>1. FindNodeWorld(u, n) = a
    BY <1>2, <1>3, <1>5, <1>6, FindNodeWorldOwn, NullIsNothing DEF Sound
  <2>. QED BY <2>1 DEF RegisterNode
<1>8. /\ t \in Scene /\ SameEntities(u, t)
      /\ t.parent = u.parent /\ t.children = u.children
      /\ t.worldOf = [u.worldOf EXCEPT ![n] = a]
      /\ t.nodes = [u.nodes EXCEPT ![a] = @ \cup {n}]
      /\ t.roots = u.roots
      /\ t.rootsValid = IF n \in u.nodes[a] THEN u.rootsValid ELSE [u.rootsValid EXCEPT ![a] = FALSE]
  <2>1. Tabled(u, t, n, a)
    BY <1>3, <1>6, <1>7, RegisterNodeInIs
  <2>. QED BY <2>1 DEF Tabled
<1>. HIDE DEF t
<1>9. /\ u.nodes = made.nodes /\ u.rootsValid = made.rootsValid /\ u.roots = made.roots
      /\ u.nodes \in [World -> SUBSET Node] /\ u.worldOf \in [Node -> World \cup {Null}]
  BY <1>3, SceneFields DEF SameTables
<1>10. t.nodes[w] = made.nodes[w] /\ t.rootsValid = made.rootsValid /\ t.roots = s.roots /\ t.worldOf[n] = a
  <2>1. n \in u.nodes[a]
    BY <1>2, <1>9
  <2>2. t.worldOf[n] = a /\ t.roots = s.roots
    BY <1>2, <1>8, <1>9
  <2>3. t.rootsValid = made.rootsValid
    BY <1>8, <1>9, <2>1
  <2>4. t.nodes[w] = u.nodes[w]
    <3>1. t.nodes = [u.nodes EXCEPT ![a] = u.nodes[a] \cup {n}]
      BY <1>8
    <3>2. u.nodes[a] \cup {n} = u.nodes[a]
      BY <2>1
    <3>. QED BY <1>9, <3>1, <3>2
  <2>. QED BY <1>9, <2>2, <2>3, <2>4
<1>11. Entered(s, t, n, p, w)
  <2>1. CASE a = w
    BY <1>2, <1>10, <2>1 DEF Entered
  <2>2. CASE a # w
    BY <1>2, <1>10, <2>2, NullIsNothing DEF Entered
  <2>. QED BY <2>1, <2>2
<1>12. Born(s, t, n, p, w)
  <2>1. \A k \in Node : k # n => t.worldOf[k] = u.worldOf[k]
    BY <1>8, <1>9
  <2>2. t \in Scene /\ SameEntities(u, t) /\ t.parent = u.parent /\ t.children = u.children
    BY <1>8
  <2>. QED BY <1>4, <2>1, <2>2, BornAlike
<1>. QED BY <1>11, <1>12, Grows DEF t, u, made

-----------------------------------------------------------------------------
(* Loops *)

\* The order of the natural numbers.
SmallerThan == {p \in Nat \X Nat : p[1] < p[2]}

\* Of the natural numbers in a set one is the least.
LEMMA LeastNumber ==
    ASSUME NEW T \in SUBSET Nat, T # {}
    PROVE  \E x \in T : \A y \in T : x <= y
<1>1. IsWellFoundedOn(SmallerThan, Nat)
  BY NatLessThanWellFounded DEF SmallerThan, OpToRel
<1>2. PICK x \in T : \A y \in T : ~(<<y, x>> \in SmallerThan)
  BY <1>1, WFMin
<1>3. \A y, z \in Nat : <<y, z>> \in SmallerThan <=> y < z
  BY DEF SmallerThan
<1>4. \A y \in T : ~(y < x)
  BY <1>2, <1>3
<1>5. \A y \in T : x <= y
  BY <1>4
<1>. QED BY <1>5

\* Induction over the rounds of a loop, for a set of rounds.
LEMMA Rounds ==
    ASSUME NEW n \in Nat, NEW T \in SUBSET (0 .. n), 0 \in T,
           \A i \in 1 .. n : i - 1 \in T => i \in T
    PROVE  T = 0 .. n
<1>1. SUFFICES ASSUME (0 .. n) \ T # {} PROVE FALSE
  OBVIOUS
<1>2. PICK x \in (0 .. n) \ T : \A y \in (0 .. n) \ T : x <= y
  <2>1. (0 .. n) \ T \in SUBSET Nat
    OBVIOUS
  <2>. QED BY <1>1, <2>1, LeastNumber
<1>3. x \in 1 .. n /\ x - 1 \in 0 .. n
  BY <1>2
<1>4. x - 1 \in T
  BY <1>2, <1>3
<1>. QED BY <1>2, <1>3, <1>4

\* f holds what the rounds of a loop make of start, the i-th of them by G[i].
Loops(f, start, G, n) == f[0] = start /\ \A i \in 1 .. n : f[i] = G[i][f[i - 1]]

\* A loop whose rounds are functions on a set has a result.
LEMMA LoopExists ==
    ASSUME NEW n \in Nat, NEW S, NEW start \in S, NEW G \in [1 .. n -> [S -> S]]
    PROVE  \E f \in [0 .. n -> S] : Loops(f, start, G, n)
<1> DEFINE Good(m, f) == f \in [0 .. m -> S] /\ Loops(f, start, G, m)
           T == {m \in 0 .. n : \E f : Good(m, f)}
<1>1. 0 \in T
  <2>1. Good(0, [k \in 0 .. 0 |-> start]) /\ 0 \in 0 .. n
    BY DEF Loops
  <2>. HIDE DEF Good
  <2>. QED BY <2>1, Zenon
<1>2. ASSUME NEW i \in 1 .. n, i - 1 \in T PROVE i \in T
  <2>1. PICK f : Good(i - 1, f)
    BY <1>2
  <2> DEFINE g == [k \in 0 .. i |-> IF k = i THEN G[i][f[i - 1]] ELSE f[k]]
  <2>2. G[i][f[i - 1]] \in S
    BY <2>1
  <2>3. g \in [0 .. i -> S]
    BY <2>1, <2>2
  <2>4. \A k \in 1 .. i : g[k] = G[k][g[k - 1]]
    <3>1. TAKE k \in 1 .. i
    <3>2. CASE k = i
      BY <3>2
    <3>3. CASE k # i
      BY <2>1, <3>3 DEF Loops
    <3>. QED BY <3>2, <3>3
  <2>5. Good(i, g) /\ i \in 0 .. n
    BY <2>1, <2>3, <2>4 DEF Loops
  <2>. HIDE DEF Good, g
  <2>. QED BY <2>5, Zenon
<1>3. T = 0 .. n
  <2>. HIDE DEF T
  <2>1. T \in SUBSET (0 .. n)
    BY DEF T
  <2>. QED BY <1>1, <1>2, <2>1, Rounds
<1>4. n \in T
  BY <1>3
<1>. QED BY <1>4

-----------------------------------------------------------------------------
(* Levels that are built, and nodes that are pasted *)

\* The first i of the new addresses are entities of w, and nothing else is new.
Filled(s, t, addr, i, w) ==
    /\ Growing(t, w)
    /\ t.live = s.live \cup {addr[j] : j \in 1 .. i}
    /\ \A j \in 1 .. i : t.home[addr[j]] = w
    /\ t.activeWorld = s.activeWorld /\ t.worlds = s.worlds
    /\ t.levels = s.levels /\ t.currentLevel = s.currentLevel /\ t.touchedFreed = s.touchedFreed

\* Before the first round nothing is filled.
LEMMA FilledNone ==
    ASSUME NEW w, NEW s, Growing(s, w), NEW addr
    PROVE  Filled(s, s, addr, 0, w)
BY DEF Filled

\* The next address is still free.
LEMMA FilledFree ==
    ASSUME NEW k \in Nat, NEW s, NEW addr \in [1 .. k -> Node \ s.live],
           \A i, j \in 1 .. k : addr[i] = addr[j] => i = j,
           NEW w, NEW i \in 1 .. k, NEW f, Filled(s, f, addr, i - 1, w)
    PROVE  addr[i] \in Node \ f.live
<1>1. f.live = s.live \cup {addr[j] : j \in 1 .. i - 1}
  BY DEF Filled
<1>2. addr[i] \in Node /\ addr[i] \notin s.live
  OBVIOUS
<1>3. \A j \in 1 .. i - 1 : j \in 1 .. k /\ j # i
  OBVIOUS
<1>. QED BY <1>1, <1>2, <1>3

\* A round that adds the next entity fills one more.
LEMMA FilledNext ==
    ASSUME NEW k \in Nat, NEW s, s.live \subseteq Node, NEW addr \in [1 .. k -> Node \ s.live],
           \A i, j \in 1 .. k : addr[i] = addr[j] => i = j,
           NEW w \in World, NEW i \in 1 .. k, NEW f, Filled(s, f, addr, i - 1, w),
           NEW t, Grown(f, t, addr[i], w)
    PROVE  Filled(s, t, addr, i, w)
<1>1. /\ f.live = s.live \cup {addr[j] : j \in 1 .. i - 1}
      /\ \A j \in 1 .. i - 1 : f.home[addr[j]] = w
      /\ f.activeWorld = s.activeWorld /\ f.worlds = s.worlds
      /\ f.levels = s.levels /\ f.currentLevel = s.currentLevel /\ f.touchedFreed = s.touchedFreed
  BY DEF Filled
<1>2. /\ Growing(t, w)
      /\ t.live = f.live \cup {addr[i]}
      /\ t.home = [f.home EXCEPT ![addr[i]] = w]
      /\ t.activeWorld = f.activeWorld /\ t.worlds = f.worlds
      /\ t.levels = f.levels /\ t.currentLevel = f.currentLevel /\ t.touchedFreed = f.touchedFreed
  BY DEF Grown
<1>3. \A j \in 1 .. i : j \in 1 .. k /\ (j # i => j \in 1 .. i - 1)
  OBVIOUS
<1>4. \A j \in 1 .. i - 1 : j \in 1 .. i
  OBVIOUS
<1>5. t.live = s.live \cup {addr[j] : j \in 1 .. i}
  BY <1>1, <1>2, <1>3, <1>4
<1>6. \A j \in 1 .. i : t.home[addr[j]] = w
  <2>1. f.home \in [Node -> World \cup {Null}]
    BY SceneFields DEF Filled, Growing, Sound
  <2>2. \A j \in 1 .. k : addr[j] \in Node
    OBVIOUS
  <2>. QED BY <1>1, <1>2, <1>3, <2>1, <2>2
<1>. QED BY <1>1, <1>2, <1>5, <1>6 DEF Filled

\* The world of a new level.
LEMMA CreateWorldGrowing ==
    ASSUME NEW s, Sound(s), NEW w \in World \ s.worlds, Reached(s, Null)
    PROVE  LET t == CreateWorld(s, w)
           IN  /\ Growing(t, w)
               /\ t.live = s.live /\ t.worlds = s.worlds \cup {w}
               /\ t.levels = s.levels /\ t.currentLevel = s.currentLevel /\ t.touchedFreed = s.touchedFreed
<1> DEFINE t == CreateWorld(s, w)
           x == [s.nodes EXCEPT ![w] = {}]
           y == [s.roots EXCEPT ![w] = {}]
           z == [s.rootsValid EXCEPT ![w] = FALSE]
           a == IF s.activeWorld = Null THEN w ELSE s.activeWorld
<1>. s \in Scene /\ w # Null
  BY NullIsNothing DEF Sound
<1>1. /\ x \in [World -> SUBSET Node] /\ x[w] = {} /\ y \in [World -> SUBSET Node]
      /\ z \in [World -> BOOLEAN] /\ ~z[w]
  BY SceneFields
<1>2. a \in World /\ a # Null /\ a \in s.worlds \cup {w} /\ s.worlds \cup {w} \in SUBSET World
  BY SceneFields, NullIsNothing DEF Sound, Loaded
<1>3. t = [s EXCEPT !.worlds = s.worlds \cup {w}, !.nodes = x, !.roots = y, !.rootsValid = z, !.activeWorld = a]
  BY SceneFields DEF CreateWorld
<1>. HIDE DEF x, y, z, a, t
<1>4. t \in Scene /\ t.worlds = s.worlds \cup {w} /\ t.nodes = x /\ t.rootsValid = z /\ t.activeWorld = a
  BY <1>1, <1>2, <1>3 DEF Scene
<1>5. /\ t.live = s.live /\ t.parent = s.parent /\ t.children = s.children /\ t.active = s.active
      /\ t.home = s.home /\ t.name = s.name /\ t.local = s.local /\ t.entities = s.entities
      /\ t.byName = s.byName /\ t.worldOf = s.worldOf /\ t.levels = s.levels
      /\ t.currentLevel = s.currentLevel /\ t.touchedFreed = s.touchedFreed
  BY <1>3 DEF Scene
<1>6. Sound(t)
  <2>1. Alive(t)
    BY <1>5 DEF Sound, Alive
  <2>2. Grounded(t.parent)
    BY <1>5 DEF Sound
  <2>3. Forest(t)
    BY <1>5 DEF Sound, Forest
  <2>4. Named(t)
    BY <1>5 DEF Sound, Named
  <2>5. Homed(t)
    BY <1>5 DEF Sound, Homed
  <2>6. Loaded(t)
    BY <1>2, <1>4, <1>5 DEF Sound, Loaded
  <2>. QED BY <1>4, <2>1, <2>2, <2>3, <2>4, <2>5, <2>6 DEF Sound
<1>7. Tables(t, w)
  BY <1>1, <1>4 DEF Tables
<1>8. Reached(t, w)
  <2> SUFFICES ASSUME NEW n \in t.live, t.parent[n] = Null, t.active[n]
               PROVE  t.home[n] \in t.levels \cup {w} /\ (t.home[n] = w => n \in t.nodes[w])
    BY DEF Reached
  <2>1. s.home[n] \in World /\ s.home[n] \in s.levels \cup {Null}
    BY <1>5 DEF Reached, Sound, Homed
  <2>2. s.home[n] \in s.levels /\ s.home[n] # w
    BY <2>1, NullIsNothing DEF Sound, Loaded
  <2>. QED BY <1>5, <2>2
<1>. QED BY <1>2, <1>4, <1>5, <1>6, <1>7, <1>8 DEF Growing, t

\* A description lists parents before their children.
Listed(items) == items \in Seq(Item) /\ \A i \in DOMAIN items : items[i].up < i

\* An item of a description, and the address of its parent.
LEMMA ItemAt ==
    ASSUME NEW items, Listed(items), NEW i \in 1 .. Len(items), NEW A, NEW addr \in [1 .. Len(items) -> A]
    PROVE  /\ items[i].name \in Name \cup {Null}
           /\ items[i].up # 0 => items[i].up \in 1 .. i - 1 /\ items[i].up \in 1 .. Len(items)
<1>1. items[i] \in Item /\ items[i].up < i
  BY DEF Listed
<1>. QED BY <1>1 DEF Item

\* One round of CreateSceneFromDescRecurse adds an entity.
LEMMA BuildNodeGrows ==
    ASSUME NEW items, Listed(items), NEW c, c.live \subseteq Node,
           NEW addr \in [1 .. Len(items) -> Node \ c.live],
           \A i, j \in 1 .. Len(items) : addr[i] = addr[j] => i = j,
           NEW w \in World, NEW i \in 1 .. Len(items), NEW f, Filled(c, f, addr, i - 1, w)
    PROVE  Grown(f, BuildNode(f, w, items, addr, i), addr[i], w)
<1> DEFINE n == addr[i]
           m == items[i].name
           p == addr[items[i].up]
<1>0. Len(items) \in Nat
  BY DEF Listed
<1>1. n \in Node \ f.live
  BY <1>0, FilledFree
<1>2. m \in Name \cup {Null}
  BY ItemAt
<1>3. Growing(f, w)
  BY DEF Filled
<1>4. items[i].up # 0 => p \in f.live /\ f.home[p] = w
  BY ItemAt DEF Filled
<1>. HIDE DEF n, m, p
<1>5. CASE items[i].up = 0
  <2>1. Grown(f, RegisterNodeIn(CreateEntity(f, n, w, m), n, w), n, w)
    BY <1>1, <1>2, <1>3, BuildRootGrows
  <2>2. BuildNode(f, w, items, addr, i) = RegisterNodeIn(CreateEntity(f, n, w, m), n, w)
    BY <1>5, Zenon DEF BuildNode, n, m
  <2>. QED BY <2>1, <2>2 DEF n
<1>6. CASE items[i].up # 0
  <2>1. Grown(f, RegisterNode(SetParent(CreateEntity(f, n, w, m), n, p), n), n, w)
    BY <1>1, <1>2, <1>3, <1>4, <1>6, BuildBelowGrows
  <2>2. BuildNode(f, w, items, addr, i) = RegisterNode(SetParent(CreateEntity(f, n, w, m), n, p), n)
    BY <1>6, Zenon DEF BuildNode, n, m, p
  <2>. QED BY <2>1, <2>2 DEF n
<1>. QED BY <1>5, <1>6

\* The loop over the items makes an entity of each.
LEMMA BuildAll ==
    ASSUME NEW items, Listed(items), NEW w \in World, NEW c, Growing(c, w),
           NEW addr \in [1 .. Len(items) -> Node \ c.live],
           \A i, j \in 1 .. Len(items) : addr[i] = addr[j] => i = j
    PROVE  \E f : /\ f = [i \in 0 .. Len(items) |->
                            IF i = 0 THEN c ELSE BuildNode(f[i - 1], w, items, addr, i)]
                  /\ \A i \in 0 .. Len(items) : Filled(c, f[i], addr, i, w)
<1> DEFINE k == Len(items)
           G == [i \in 1 .. k |-> [s \in Scene |->
                    IF BuildNode(s, w, items, addr, i) \in Scene THEN BuildNode(s, w, items, addr, i) ELSE c]]
<1>0. k \in Nat /\ c \in Scene /\ c.live \subseteq Node
  BY SceneFields DEF Listed, Growing, Sound
<1>1. G \in [1 .. k -> [Scene -> Scene]]
  BY <1>0
<1>2. PICK f \in [0 .. k -> Scene] : Loops(f, c, G, k)
  <2>. HIDE DEF G, k
  <2>. QED BY <1>0, <1>1, LoopExists
<1> DEFINE T == {i \in 0 .. k : Filled(c, f[i], addr, i, w)
                                /\ (i # 0 => f[i] = BuildNode(f[i - 1], w, items, addr, i))}
<1>3. 0 \in T
  BY <1>0, <1>2, FilledNone DEF Loops
<1>4. ASSUME NEW i \in 1 .. k, i - 1 \in T PROVE i \in T
  <2>1. Filled(c, f[i - 1], addr, i - 1, w)
    BY <1>4
  <2>2. Grown(f[i - 1], BuildNode(f[i - 1], w, items, addr, i), addr[i], w)
    BY <1>0, <2>1, BuildNodeGrows
  <2>3. BuildNode(f[i - 1], w, items, addr, i) \in Scene
    BY <2>2 DEF Grown, Growing, Sound
  <2>4. f[i] = BuildNode(f[i - 1], w, items, addr, i)
    <3>1. f[i] = G[i][f[i - 1]] /\ f[i - 1] \in Scene
      BY <1>0, <1>2 DEF Loops
    <3>. QED BY <2>3, <3>1
  <2>5. Filled(c, f[i], addr, i, w)
    <3>. HIDE DEF k
    <3>. QED BY <1>0, <2>1, <2>2, <2>4, FilledNext DEF k
  <2>6. i \in 0 .. k /\ i # 0
    BY <1>0
  <2>. QED BY <2>4, <2>5, <2>6
<1>5. T = 0 .. k
  <2>. T \in SUBSET (0 .. k)
    OBVIOUS
  <2>. HIDE DEF T, k
  <2>. QED BY <1>0, <1>3, <1>4, Rounds
<1>6. \A i \in 0 .. k : Filled(c, f[i], addr, i, w)
                        /\ (i # 0 => f[i] = BuildNode(f[i - 1], w, items, addr, i))
  BY <1>5
<1>7. f = [i \in 0 .. k |-> IF i = 0 THEN c ELSE BuildNode(f[i - 1], w, items, addr, i)]
  <2>1. f[0] = c
    BY <1>2 DEF Loops
  <2>2. f = [i \in 0 .. k |-> f[i]]
    BY <1>2
  <2>. HIDE DEF k
  <2>. QED BY <1>6, <2>1, <2>2
<1>. QED BY <1>6, <1>7

\* A world in use becomes a level, the current one.
Opened(s, t, w) ==
    /\ Sound(t) /\ Tables(t, w) /\ Reached(t, w)
    /\ t.levels = s.levels \cup {w} /\ t.currentLevel = w
    /\ t.touchedFreed = s.touchedFreed

\* A world that has been filled becomes a level.
LEMMA BecomesLevel ==
    ASSUME NEW w \in World, NEW s, Growing(s, w),
           NEW t, t = [s EXCEPT !.levels = @ \cup {w}, !.currentLevel = w]
    PROVE  Opened(s, t, w)
<1>. s \in Scene
  BY DEF Growing, Sound
<1>1. t \in Scene /\ t.levels = s.levels \cup {w} /\ t.currentLevel = w
  BY DEF Scene
<1>2. /\ t.live = s.live /\ t.parent = s.parent /\ t.children = s.children /\ t.active = s.active
      /\ t.home = s.home /\ t.name = s.name /\ t.local = s.local /\ t.entities = s.entities
      /\ t.byName = s.byName /\ t.worlds = s.worlds /\ t.activeWorld = s.activeWorld
      /\ t.worldOf = s.worldOf /\ t.nodes = s.nodes /\ t.roots = s.roots
      /\ t.rootsValid = s.rootsValid /\ t.touchedFreed = s.touchedFreed
  BY DEF Scene
<1>3. Tables(t, w)
  BY <1>2 DEF Growing, Tables
<1>4. Reached(t, w)
  BY <1>1, <1>2 DEF Growing, Reached
<1>5. Sound(t)
  BY <1>1, <1>2, <1>3 DEF Growing, Sound, Alive, Forest, Named, Homed, Loaded, Tables
<1>. QED BY <1>1, <1>2, <1>3, <1>4, <1>5 DEF Opened

\* A level that is created is loaded, and the current one.
LEMMA CreateLevelSound ==
    ASSUME NEW items, Listed(items), NEW s, Sound(s), NEW w \in World \ s.worlds, Reached(s, Null),
           NEW addr \in [1 .. Len(items) -> Node \ s.live],
           \A i, j \in 1 .. Len(items) : addr[i] = addr[j] => i = j,
           NEW t, t = CreateLevel(s, w, items, addr)
    PROVE  Opened(s, t, w)
<1> DEFINE c == CreateWorld(s, w)
           Whole(f) == f = [i \in 0 .. Len(items) |->
                              IF i = 0 THEN c ELSE BuildNode(f[i - 1], w, items, addr, i)]
           built == CHOOSE f : Whole(f)
           last == built[Len(items)]
<1>1. /\ Growing(c, w)
      /\ c.live = s.live /\ c.levels = s.levels /\ c.touchedFreed = s.touchedFreed
  BY CreateWorldGrowing
<1>2. t = [last EXCEPT !.levels = @ \cup {w}, !.currentLevel = w]
  BY Zenon DEF CreateLevel
<1>. HIDE DEF c
<1>3. PICK h : Whole(h) /\ \A i \in 0 .. Len(items) : Filled(c, h[i], addr, i, w)
  BY <1>1, BuildAll
<1>4. Whole(built)
  <2>. HIDE DEF Whole
  <2>. QED BY <1>3, Zenon
<1>. HIDE DEF built
<1>5. Filled(c, last, addr, Len(items), w)
  <2> DEFINE k == Len(items)
             T == {i \in 0 .. k : built[i] = h[i]}
  <2>0. k \in Nat
    BY DEF Listed
  <2>1. /\ built[0] = c /\ h[0] = c
        /\ \A i \in 1 .. k : built[i] = BuildNode(built[i - 1], w, items, addr, i)
                           /\ h[i] = BuildNode(h[i - 1], w, items, addr, i)
    <3>1. \A i \in 1 .. k : i \in 0 .. k /\ i # 0
      BY <2>0
    <3>2. 0 \in 0 .. k
      BY <2>0
    <3>. QED BY <1>3, <1>4, <3>1, <3>2
  <2>2. T \in SUBSET (0 .. k) /\ 0 \in T
    BY <2>0, <2>1
  <2>3. ASSUME NEW i \in 1 .. k, i - 1 \in T PROVE i \in T
    BY <2>0, <2>1, <2>3
  <2>4. T = 0 .. k
    <3>. HIDE DEF T, k
    <3>. QED BY <2>0, <2>2, <2>3, Rounds
  <2>5. k \in 0 .. k
    BY <2>0
  <2>6. built[k] = h[k]
    BY <2>4, <2>5
  <2>. QED BY <1>3, <2>5, <2>6
<1>. HIDE DEF last
<1>6. /\ Growing(last, w) /\ last.levels = s.levels /\ last.touchedFreed = s.touchedFreed
  BY <1>1, <1>5 DEF Filled
<1>7. Opened(last, t, w)
  BY <1>2, <1>6, BecomesLevel
<1>. QED BY <1>6, <1>7 DEF Opened


\* What holds of the start of a loop and is kept by its rounds holds of its
\* result: T[i] is the set of what the i-th round may make.
LEMMA LoopKeeps ==
    ASSUME NEW n \in Nat, NEW T, NEW f, f[0] \in T[0],
           \A i \in 1 .. n : f[i - 1] \in T[i - 1] => f[i] \in T[i]
    PROVE  \A i \in 0 .. n : f[i] \in T[i]
<1> DEFINE R == {i \in 0 .. n : f[i] \in T[i]}
<1>1. R \in SUBSET (0 .. n) /\ 0 \in R
  OBVIOUS
<1>2. ASSUME NEW i \in 1 .. n, i - 1 \in R PROVE i \in R
  BY <1>2
<1>3. R = 0 .. n
  <2>. HIDE DEF R
  <2>. QED BY <1>1, <1>2, Rounds
<1>. QED BY <1>3

\* Such a loop has a result.
LEMMA LoopRuns ==
    ASSUME NEW n \in Nat, NEW S, NEW T \in [0 .. n -> SUBSET S], NEW start \in T[0],
           NEW G \in [1 .. n -> [S -> S]], \A i \in 1 .. n : \A s \in T[i - 1] : G[i][s] \in T[i]
    PROVE  \E f \in [0 .. n -> S] : Loops(f, start, G, n) /\ \A i \in 0 .. n : f[i] \in T[i]
<1>1. PICK f \in [0 .. n -> S] : Loops(f, start, G, n)
  BY LoopExists
<1>2. f[0] \in T[0] /\ \A i \in 1 .. n : f[i - 1] \in T[i - 1] => f[i] \in T[i]
  BY <1>1 DEF Loops
<1>3. \A i \in 0 .. n : f[i] \in T[i]
  BY <1>2, LoopKeeps
<1>. QED BY <1>1, <1>3

\* Pasting makes an entity of the level of each item of the clipboard.
LEMMA PasteNodeGrows ==
    ASSUME Listed(clipboard), level \in World, NEW c, c.live \subseteq Node, c.activeWorld = level,
           NEW addr \in [1 .. Len(clipboard) -> Node \ c.live],
           \A i, j \in 1 .. Len(clipboard) : addr[i] = addr[j] => i = j,
           NEW i \in 1 .. Len(clipboard), NEW f, Filled(c, f, addr, i - 1, level)
    PROVE  Grown(f, PasteNode(f, addr, i), addr[i], level)
<1> DEFINE n == addr[i]
           m == clipboard[i].name
           p == addr[clipboard[i].up]
<1>0. Len(clipboard) \in Nat
  BY DEF Listed
<1>1. n \in Node \ f.live
  BY <1>0, FilledFree
<1>2. m \in Name \cup {Null}
  BY ItemAt
<1>3. Growing(f, level) /\ f.activeWorld = level
  BY DEF Filled
<1>4. clipboard[i].up # 0 => p \in f.live /\ f.home[p] = level
  BY ItemAt DEF Filled
<1>. HIDE DEF n, m, p
<1>5. CASE clipboard[i].up = 0
  <2>1. Grown(f, CreateEntity(f, n, level, m), n, level)
    BY <1>1, <1>2, <1>3, CreateGrows
  <2>2. PasteNode(f, addr, i) = CreateEntity(f, n, level, m)
    BY <1>5, Zenon DEF PasteNode, n, m
  <2>. QED BY <2>1, <2>2 DEF n
<1>6. CASE clipboard[i].up # 0
  <2>1. Grown(f, SetParent(CreateEntity(f, n, level, m), n, p), n, level)
    BY <1>1, <1>2, <1>3, <1>4, <1>6, CreateBelowGrows
  <2>2. PasteNode(f, addr, i) = SetParent(CreateEntity(f, n, level, m), n, p)
    BY <1>6, Zenon DEF PasteNode, n, m, p
  <2>. QED BY <2>1, <2>2 DEF n
<1>. QED BY <1>5, <1>6

\* Pasting fills the current level with the items of the clipboard.
LEMMA PastedFills ==
    ASSUME Listed(clipboard), level \in World, NEW c, c = SetActiveWorld(scene, level),
           Growing(c, level), c.activeWorld = level,
           NEW addr \in [1 .. Len(clipboard) -> Node \ c.live],
           \A i, j \in 1 .. Len(clipboard) : addr[i] = addr[j] => i = j
    PROVE  Filled(c, Pasted(addr), addr, Len(clipboard), level)
<1> DEFINE k == Len(clipboard)
           T == [i \in 0 .. k |-> {s \in Scene : Filled(c, s, addr, i, level)}]
           G == [i \in 1 .. k |-> [s \in Scene |->
                    IF PasteNode(s, addr, i) \in Scene THEN PasteNode(s, addr, i) ELSE c]]
           Whole(f) == f = [i \in 0 .. k |-> IF i = 0 THEN c ELSE PasteNode(f[i - 1], addr, i)]
           pasted == CHOOSE f : Whole(f)
<1>0. k \in Nat /\ c \in Scene /\ c.live \subseteq Node
  BY SceneFields DEF Listed, Growing, Sound
<1>1. ASSUME NEW i \in 1 .. k, NEW s \in T[i - 1] PROVE PasteNode(s, addr, i) \in T[i] /\ s \in Scene
  <2>1. i - 1 \in 0 .. k /\ i \in 0 .. k
    BY <1>0
  <2>2. s \in Scene /\ Filled(c, s, addr, i - 1, level)
    BY <2>1
  <2>3. Grown(s, PasteNode(s, addr, i), addr[i], level)
    BY <1>0, <2>2, PasteNodeGrows
  <2>4. PasteNode(s, addr, i) \in Scene
    BY <2>3 DEF Grown, Growing, Sound
  <2>5. Filled(c, PasteNode(s, addr, i), addr, i, level)
    <3>. HIDE DEF k
    <3>. QED BY <1>0, <2>2, <2>3, FilledNext DEF k
  <2>. QED BY <2>1, <2>2, <2>4, <2>5
<1>2. c \in T[0]
  BY <1>0, FilledNone
<1>3. T \in [0 .. k -> SUBSET Scene]
  OBVIOUS
<1>4. \A i \in 1 .. k : \A s \in T[i - 1] : G[i][s] = PasteNode(s, addr, i) /\ G[i][s] \in T[i]
  <2>1. \A i \in 1 .. k : T[i] \subseteq Scene
    BY <1>0
  <2>. HIDE DEF T
  <2>. QED BY <1>1, <2>1
<1>5. \E h : Whole(h)
  <2>1. PICK f \in [0 .. k -> Scene] : Loops(f, c, G, k) /\ \A i \in 0 .. k : f[i] \in T[i]
    <3>1. G \in [1 .. k -> [Scene -> Scene]]
      BY <1>0
    <3>. HIDE DEF T, G, k
    <3>2. k \in Nat /\ \A i \in 1 .. k : \A s \in T[i - 1] : G[i][s] \in T[i]
      BY <1>0, <1>4
    <3>. QED BY ONLY <1>2, <1>3, <3>1, <3>2, LoopRuns
  <2>2. f[0] = c /\ \A i \in 1 .. k : f[i] = PasteNode(f[i - 1], addr, i)
    <3>1. \A i \in 1 .. k : i - 1 \in 0 .. k
      BY <1>0
    <3>. HIDE DEF T, G
    <3>. QED BY <1>4, <2>1, <3>1 DEF Loops
  <2>3. f = [i \in 0 .. k |-> IF i = 0 THEN c ELSE PasteNode(f[i - 1], addr, i)]
    <3>1. f = [i \in 0 .. k |-> f[i]]
      OBVIOUS
    <3>2. \A i \in 0 .. k : i # 0 => i \in 1 .. k
      BY <1>0
    <3>. QED BY <2>2, <3>1, <3>2
  <2>. QED BY <2>3
<1>6. Whole(pasted)
  <2>. HIDE DEF Whole
  <2>. QED BY <1>5, Zenon
<1>7. Pasted(addr) = pasted[k]
  BY Zenon DEF Pasted
<1>. HIDE DEF pasted
<1>8. \A i \in 0 .. k : pasted[i] \in T[i]
  <2>1. pasted[0] = c
    BY <1>0, <1>6
  <2>2. ASSUME NEW i \in 1 .. k PROVE pasted[i] = PasteNode(pasted[i - 1], addr, i)
    <3>1. i \in 0 .. k /\ i # 0
      BY <1>0
    <3>. QED BY <1>6, <3>1
  <2>. HIDE DEF Whole, T, G, k
  <2>3. \A i \in 1 .. k : pasted[i - 1] \in T[i - 1] => pasted[i] \in T[i]
    BY <1>1, <2>2
  <2>4. k \in Nat /\ pasted[0] \in T[0]
    BY <1>0, <1>2, <2>1
  <2>. QED BY <2>3, <2>4, LoopKeeps
<1>9. k \in 0 .. k
  BY <1>0
<1>. QED BY <1>7, <1>8, <1>9

-----------------------------------------------------------------------------
(* Traversals *)

\* The active world is set before entities are made.
LEMMA SetActiveWorldGrowing ==
    ASSUME NEW s, Sound(s), NEW w \in s.levels, Tables(s, w), Reached(s, w)
    PROVE  LET t == SetActiveWorld(s, w)
           IN  /\ Growing(t, w) /\ t.activeWorld = w
               /\ t.live = s.live /\ t.levels = s.levels /\ t.currentLevel = s.currentLevel
               /\ t.touchedFreed = s.touchedFreed
<1> DEFINE t == SetActiveWorld(s, w)
<1>. s \in Scene /\ w \in World /\ w # Null /\ w \in s.worlds
  BY SceneFields, NullIsNothing DEF Sound, Loaded
<1>1. t = [s EXCEPT !.activeWorld = w]
  BY DEF SetActiveWorld
<1>. HIDE DEF t
<1>2. t \in Scene /\ t.activeWorld = w
  BY <1>1 DEF Scene
<1>3. /\ t.live = s.live /\ t.parent = s.parent /\ t.children = s.children /\ t.active = s.active
      /\ t.home = s.home /\ t.name = s.name /\ t.local = s.local /\ t.entities = s.entities
      /\ t.byName = s.byName /\ t.worlds = s.worlds
      /\ t.worldOf = s.worldOf /\ t.nodes = s.nodes /\ t.roots = s.roots
      /\ t.rootsValid = s.rootsValid /\ t.levels = s.levels /\ t.currentLevel = s.currentLevel
      /\ t.touchedFreed = s.touchedFreed
  BY <1>1 DEF Scene
<1>4. Tables(t, w) /\ Reached(t, w)
  BY <1>3 DEF Tables, Reached
<1>5. Sound(t)
  BY <1>2, <1>3 DEF Sound, Alive, Forest, Named, Homed, Loaded
<1>. QED BY <1>2, <1>3, <1>4, <1>5 DEF Growing, t

\* Everything but the caches of the roots is the same.
SameButRoots(s, t) ==
    /\ SameEntities(s, t)
    /\ t.parent = s.parent /\ t.children = s.children
    /\ t.worldOf = s.worldOf /\ t.nodes = s.nodes

\* The tables of w hold no deleted entity.
Usable(s, w) == s.nodes[w] \subseteq s.live /\ (s.rootsValid[w] => s.roots[w] \subseteq s.nodes[w])

\* Then a traversal touches none, and refreshes the cache at most.
LEMMA TraverseIs ==
    ASSUME NEW s \in Scene, NEW w \in World, Usable(s, w),
           NEW t, t = GetRootNodes(s, w) \/ t = Traverse(s, w)
    PROVE  /\ t \in Scene
           /\ SameButRoots(s, t)
           /\ t.rootsValid[w]
           /\ t.roots[w] = IF s.rootsValid[w] THEN s.roots[w] ELSE {n \in s.nodes[w] : s.parent[n] = Null}
<1> DEFINE newRoots == {n \in s.nodes[w] : s.parent[n] = Null}
           g == GetRootNodes(s, w)
           x == IF s.rootsValid[w] THEN s.roots ELSE [s.roots EXCEPT ![w] = newRoots]
           y == [s.rootsValid EXCEPT ![w] = TRUE]
           h == [s EXCEPT !.roots = x, !.rootsValid = y]
<1>1. /\ s.nodes \in [World -> SUBSET Node] /\ s.roots \in [World -> SUBSET Node]
      /\ s.rootsValid \in [World -> BOOLEAN] /\ s.touchedFreed \in BOOLEAN
  BY SceneFields
<1>2. /\ x \in [World -> SUBSET Node] /\ y \in [World -> BOOLEAN] /\ y[w]
      /\ x[w] = IF s.rootsValid[w] THEN s.roots[w] ELSE newRoots
  BY <1>1
<1>3. x[w] \subseteq s.live
  BY <1>2 DEF Usable
<1>4. g = h
  <2>1. CASE s.rootsValid[w]
    <3>1. g = s
      BY <2>1 DEF GetRootNodes
    <3>2. x = s.roots /\ y = s.rootsValid
      BY <1>1, <2>1
    <3>. HIDE DEF x, y, g
    <3>. QED BY <3>1, <3>2 DEF Scene
  <2>2. CASE ~s.rootsValid[w]
    <3>1. g = [s EXCEPT !.roots[w] = newRoots, !.rootsValid[w] = TRUE,
                        !.touchedFreed = @ \/ ~(s.nodes[w] \subseteq s.live)]
      BY <2>2 DEF GetRootNodes
    <3>2. (s.touchedFreed \/ ~(s.nodes[w] \subseteq s.live)) = s.touchedFreed
      BY <1>1 DEF Usable
    <3>3. g = [s EXCEPT !.roots[w] = newRoots, !.rootsValid[w] = TRUE, !.touchedFreed = s.touchedFreed]
      BY <3>1, <3>2
    <3>4. x = [s.roots EXCEPT ![w] = newRoots]
      BY <2>2
    <3>. HIDE DEF x, g, newRoots
    <3>. QED BY <3>3, <3>4 DEF Scene
  <2>. QED BY <2>1, <2>2
<1>. HIDE DEF x, y, g, newRoots
<1>5. /\ h \in Scene /\ h.rootsValid = y /\ h.roots = x /\ SameButRoots(s, h)
  BY <1>2 DEF Scene, SameButRoots, SameEntities
<1>. HIDE DEF h
<1>6. Traverse(s, w) = h
  <2>1. Traverse(s, w) = [h EXCEPT !.touchedFreed = @ \/ ~(h.roots[w] \subseteq s.live)]
    BY <1>4, Zenon DEF Traverse, g
  <2>2. h.touchedFreed = s.touchedFreed
    BY <1>5 DEF SameButRoots, SameEntities
  <2>3. (h.touchedFreed \/ ~(h.roots[w] \subseteq s.live)) = h.touchedFreed
    BY <1>1, <1>3, <1>5, <2>2
  <2>4. Traverse(s, w) = [h EXCEPT !.touchedFreed = h.touchedFreed]
    BY <2>1, <2>3
  <2>5. h \in Scene
    BY <1>5
  <2>. QED BY <2>4, <2>5 DEF Scene
<1>7. t = h
  BY <1>4, <1>6 DEF g
<1>. QED BY <1>2, <1>5, <1>7 DEF newRoots

\* Soundness does not depend on the caches.
LEMMA SameButRootsSound ==
    ASSUME NEW s, Sound(s), NEW t \in Scene, SameButRoots(s, t)
    PROVE  Sound(t) /\ \A w \in World : Reached(s, w) => Reached(t, w)
<1>1. /\ t.live = s.live /\ t.parent = s.parent /\ t.children = s.children /\ t.active = s.active
      /\ t.home = s.home /\ t.name = s.name /\ t.local = s.local /\ t.entities = s.entities
      /\ t.byName = s.byName /\ t.worlds = s.worlds /\ t.activeWorld = s.activeWorld
      /\ t.worldOf = s.worldOf /\ t.nodes = s.nodes /\ t.levels = s.levels
  BY DEF SameButRoots, SameEntities
<1>2. Sound(t)
  BY <1>1 DEF Sound, Alive, Forest, Named, Homed, Loaded
<1>3. \A w \in World : Reached(s, w) => Reached(t, w)
  BY <1>1 DEF Reached
<1>. QED BY <1>2, <1>3

\* A level whose roots are cached.
Traversed(s, w) == Sound(s) /\ Tables(s, w) /\ s.rootsValid[w]

\* Fetching the roots, or traversing, leaves a sound scene with its roots cached.
LEMMA TraverseReady ==
    ASSUME NEW s, Sound(s), NEW w \in World, Tables(s, w), Reached(s, w),
           NEW t, t = GetRootNodes(s, w) \/ t = Traverse(s, w)
    PROVE  Traversed(t, w) /\ SameButRoots(s, t) /\ Reached(t, w)
<1>. s \in Scene /\ s.nodes \in [World -> SUBSET Node]
  BY SceneFields DEF Sound
<1>1. Usable(s, w)
  BY DEF Tables, Usable
<1>2. /\ t \in Scene
      /\ SameButRoots(s, t)
      /\ t.rootsValid[w]
      /\ t.roots[w] = IF s.rootsValid[w] THEN s.roots[w] ELSE {n \in s.nodes[w] : s.parent[n] = Null}
  BY <1>1, TraverseIs
<1>3. Sound(t) /\ Reached(t, w)
  BY <1>2, SameButRootsSound
<1>4. t.roots[w] = {n \in s.nodes[w] : s.parent[n] = Null}
  BY <1>2 DEF Tables
<1>5. Tables(t, w)
  BY <1>2, <1>4 DEF Tables, SameButRoots, SameEntities
<1>. QED BY <1>2, <1>3, <1>5 DEF Traversed

\* Those above an entity are for the same world, and alive with it.
LEMMA AboveHome ==
    ASSUME NEW s, Sound(s), NEW n \in Node
    PROVE  /\ \A m \in Above(s.parent, n) : s.home[m] = s.home[n]
           /\ n \in s.live => Above(s.parent, n) \subseteq s.live
<1>. s \in Scene
  BY DEF Sound
<1>0. s.parent \in [Node -> Node \cup {Null}] /\ Grounded(s.parent) /\ s.live \in SUBSET Node
  BY SceneFields DEF Sound
<1>1. \A m \in Above(s.parent, n) : s.home[m] = s.home[n]
  <2> DEFINE C == {m \in Node : s.home[m] = s.home[n]}
  <2>1. C \in SUBSET Node /\ n \in C
    OBVIOUS
  <2>2. Upward(s.parent, C)
    BY <1>0 DEF Upward, Sound, Homed
  <2>3. Above(s.parent, n) \subseteq C
    <3>. HIDE DEF C
    <3>. QED BY <1>0, <2>1, <2>2, AboveLeast
  <2>. QED BY <2>3
<1>2. n \in s.live => Above(s.parent, n) \subseteq s.live
  <2>1. Upward(s.parent, s.live)
    BY <1>0 DEF Upward, Sound, Forest
  <2>. QED BY <1>0, <2>1, AboveLeast
<1>. QED BY <1>1, <1>2

\* A traversal visits entities of the level that are alive.
LEMMA VisitedLive ==
    ASSUME NEW s, NEW w \in World, Traversed(s, w), NEW n \in Visited(s, w)
    PROVE  n \in s.live /\ s.home[n] = w
<1>. Sound(s) /\ s \in Scene /\ Tables(s, w) /\ n \in Node
  BY DEF Traversed, Sound, Visited
<1>1. PICK r \in s.roots[w] : r \in Above(s.parent, n)
  BY DEF Visited
<1>2. r \in s.nodes[w] /\ r \in s.live /\ s.home[r] = w
  BY <1>1 DEF Traversed, Tables
<1>3. s.home[n] = w
  BY <1>1, <1>2, AboveHome
<1>4. n \in s.live
  <2>1. CASE n \notin s.live
    BY <1>1, <1>2, <2>1, FreeAddress
  <2>. QED BY <2>1
<1>. QED BY <1>3, <1>4

\* It visits the active roots.
LEMMA VisitedRoots ==
    ASSUME NEW s, NEW w \in World, Traversed(s, w), NEW n \in s.nodes[w], s.parent[n] = Null, s.active[n]
    PROVE  n \in Visited(s, w)
<1>. s \in Scene
  BY DEF Traversed, Sound
<1>1. n \in Node /\ s.parent \in [Node -> Node \cup {Null}]
  BY SceneFields
<1>2. Above(s.parent, n) = {n}
  BY <1>1, AboveStep
<1>3. n \in s.roots[w]
  BY DEF Traversed, Tables
<1>. QED BY <1>1, <1>2, <1>3 DEF Visited

\* It visits the active children of what it visits.
LEMMA VisitedChildren ==
    ASSUME NEW s, NEW w \in World, Traversed(s, w), NEW n \in Node,
           s.parent[n] \in Visited(s, w), s.active[n]
    PROVE  n \in Visited(s, w)
<1> DEFINE p == s.parent[n]
<1>. s \in Scene
  BY DEF Traversed, Sound
<1>1. p \in Node /\ s.parent \in [Node -> Node \cup {Null}] /\ s.parent[n] # Null
  BY SceneFields, NullIsNothing DEF Visited
<1>2. Above(s.parent, n) = {n} \cup Above(s.parent, p)
  BY <1>1, AboveStep
<1>3. PICK r \in s.roots[w] \cap Above(s.parent, p) :
        \A m \in Above(s.parent, p) : m = r \/ m \notin Above(s.parent, r) => s.active[m]
  BY DEF Visited
<1>4. \A m \in Above(s.parent, n) : m = r \/ m \notin Above(s.parent, r) => s.active[m]
  BY <1>2, <1>3
<1>. QED BY <1>2, <1>3, <1>4 DEF Visited

-----------------------------------------------------------------------------
(* Entities that are destroyed *)

\* Of t, the entities E are left; its tables of w are usable.
Destroyed(s, t, E, w) ==
    /\ t \in Scene
    /\ t.live = s.live \ E
    /\ t.entities \subseteq s.entities \ E
    /\ \A c \in Node : t.parent[c] = IF c \in E \/ s.parent[c] \in E THEN Null ELSE s.parent[c]
    /\ \A b, c \in Node : c \in t.children[b] <=> c \in s.children[b] /\ c \notin E /\ b \notin E
    /\ \A c \in Node : t.active[c] = IF c \in E THEN FALSE ELSE s.active[c]
    /\ \A c \in Node : t.home[c] = IF c \in E THEN Null ELSE s.home[c]
    /\ \A c \in Node : t.name[c] = IF c \in E THEN Null ELSE s.name[c]
    /\ \A c \in Node : t.local[c] = IF c \in E THEN Null ELSE s.local[c]
    /\ \A c \in Node : t.worldOf[c] = IF c \in E THEN Null ELSE s.worldOf[c]
    /\ \A v \in World, l \in Name : t.byName[v][l] # Null =>
                                       t.byName[v][l] = s.byName[v][l] /\ s.byName[v][l] \notin E
    /\ t.worlds = s.worlds /\ t.activeWorld = s.activeWorld
    /\ t.levels = s.levels /\ t.currentLevel = s.currentLevel /\ t.touchedFreed = s.touchedFreed
    /\ t.nodes[w] \subseteq s.nodes[w] \ E
    /\ t.rootsValid[w] => t.roots[w] \subseteq t.nodes[w]

\* UnregisterNode takes the node out of the world that the mapping names.
Unregistered(s, t, n) ==
    /\ t \in Scene
    /\ SameEntities(s, t)
    /\ t.parent = s.parent /\ t.children = s.children
    /\ t.worldOf = [s.worldOf EXCEPT ![n] = Null]
    /\ t.roots = s.roots
    /\ \A w \in s.worlds : s.worldOf[n] = w \/ n \notin s.nodes[w] =>
          /\ t.nodes[w] = s.nodes[w] \ {n}
          /\ t.rootsValid[w] => s.rootsValid[w] /\ n \notin s.nodes[w]

\* Unregistering comes to that.
LEMMA UnregisterNodeIs ==
    ASSUME NEW s \in Scene, NEW n \in Node
    PROVE  Unregistered(s, UnregisterNode(s, n), n)
<1> DEFINE v == s.worldOf[n]
           t == UnregisterNode(s, n)
           z == [s.worldOf EXCEPT ![n] = Null]
           u == IF v \in s.worlds THEN RemoveNode(s, n, v) ELSE s
           x == IF v \in s.worlds THEN [s.nodes EXCEPT ![v] = @ \ {n}] ELSE s.nodes
           y == IF v \in s.worlds /\ n \in s.nodes[v] THEN [s.rootsValid EXCEPT ![v] = FALSE] ELSE s.rootsValid
<1>0. /\ s.worldOf \in [Node -> World \cup {Null}] /\ s.nodes \in [World -> SUBSET Node]
      /\ s.rootsValid \in [World -> BOOLEAN] /\ s.worlds \in SUBSET World /\ v \in World \cup {Null}
  BY SceneFields
<1>1. x \in [World -> SUBSET Node] /\ y \in [World -> BOOLEAN] /\ z \in [Node -> World \cup {Null}]
  BY <1>0
<1>2. u = [s EXCEPT !.nodes = x, !.rootsValid = y]
  <2>1. CASE v \in s.worlds /\ n \in s.nodes[v]
    BY <2>1 DEF RemoveNode
  <2>2. CASE ~(v \in s.worlds /\ n \in s.nodes[v])
    <3>1. u = s
      BY <2>2 DEF RemoveNode
    <3>2. x = s.nodes
      <4>1. v \in s.worlds => s.nodes[v] \ {n} = s.nodes[v]
        BY <2>2
      <4>. QED BY <1>0, <4>1
    <3>3. y = s.rootsValid
      BY <2>2
    <3>. HIDE DEF x, y, u
    <3>. QED BY <3>1, <3>2, <3>3 DEF Scene
  <2>. QED BY <2>1, <2>2
<1>3. t = [s EXCEPT !.nodes = x, !.rootsValid = y, !.worldOf = z]
  <2>1. CASE v = Null
    <3>1. t = s
      BY <2>1 DEF UnregisterNode
    <3>2. v \notin s.worlds
      BY <1>0, <2>1, NullIsNothing
    <3>3. x = s.nodes /\ y = s.rootsValid
      BY <3>2
    <3>4. z = s.worldOf
      BY <1>0, <2>1
    <3>. HIDE DEF x, y, z, t
    <3>. QED BY <3>1, <3>3, <3>4 DEF Scene
  <2>2. CASE v # Null
    <3>1. t = [u EXCEPT !.worldOf[n] = Null]
      BY <2>2, Zenon DEF UnregisterNode
    <3>. HIDE DEF x, y, u, t
    <3>2. u.worldOf = s.worldOf
      BY <1>1, <1>2 DEF Scene
    <3>3. t = [u EXCEPT !.worldOf = z]
      BY <3>1, <3>2
    <3>. HIDE DEF z
    <3>. QED BY <1>2, <3>3 DEF Scene
  <2>. QED BY <2>1, <2>2
<1>. HIDE DEF x, y, z, t, u
<1>4. t \in Scene /\ t.nodes = x /\ t.rootsValid = y /\ t.worldOf = z
  BY <1>1, <1>3 DEF Scene
<1>5. SameEntities(s, t) /\ t.parent = s.parent /\ t.children = s.children /\ t.roots = s.roots
  BY <1>3 DEF Scene, SameEntities
<1>6. ASSUME NEW w \in s.worlds, s.worldOf[n] = w \/ n \notin s.nodes[w]
      PROVE  t.nodes[w] = s.nodes[w] \ {n} /\ (t.rootsValid[w] => s.rootsValid[w] /\ n \notin s.nodes[w])
  <2>1. CASE v = w
    BY <1>0, <1>4, <2>1 DEF x, y
  <2>2. CASE v # w
    BY <1>0, <1>4, <1>6, <2>2 DEF x, y
  <2>. QED BY <2>1, <2>2
<1>. QED BY <1>4, <1>5, <1>6 DEF Unregistered, z, t

\* DestroyEntity takes the entity from the table, its name from its world, and
\* deletes it.
Deleted(s, t, n) ==
    /\ t \in Scene
    /\ t.live = s.live \ {n} /\ t.entities = s.entities \ {n}
    /\ \A b \in Node : t.children[b] = IF b = n THEN {} ELSE s.children[b] \ {n}
    /\ \A c \in Node : t.parent[c] = IF c = n \/ c \in s.children[n] THEN Null ELSE s.parent[c]
    /\ t.active = [s.active EXCEPT ![n] = FALSE]
    /\ t.home = [s.home EXCEPT ![n] = Null]
    /\ t.name = [s.name EXCEPT ![n] = Null]
    /\ t.local = [s.local EXCEPT ![n] = Null]
    /\ t.byName = IF s.name[n] = Null THEN s.byName ELSE [s.byName EXCEPT ![s.home[n]][s.name[n]] = Null]
    /\ SameTables(s, t)
    /\ t.worlds = s.worlds /\ t.activeWorld = s.activeWorld
    /\ t.levels = s.levels /\ t.currentLevel = s.currentLevel /\ t.touchedFreed = s.touchedFreed

\* Destroying an entity comes to that.
LEMMA DestroyEntityIs ==
    ASSUME NEW s \in Scene, NEW n \in Node, s.home[n] \in World
    PROVE  Deleted(s, DestroyEntity(s, n), n)
<1> DEFINE t == DestroyEntity(s, n)
           v == s.home[n]
           m == s.name[n]
           b == IF m = Null THEN s.byName ELSE [s.byName EXCEPT ![v][m] = Null]
           gone == [s EXCEPT !.entities = @ \ {n}]
           bare == IF v = Null \/ m = Null THEN gone ELSE [gone EXCEPT !.byName[v][m] = Null]
           x == [e \in Node |-> IF e = n THEN {} ELSE s.children[e] \ {n}]
           y == [c \in Node |-> IF c = n \/ c \in s.children[n] THEN Null ELSE s.parent[c]]
           ac == [s.active EXCEPT ![n] = FALSE]
           ho == [s.home EXCEPT ![n] = Null]
           na == [s.name EXCEPT ![n] = Null]
           lo == [s.local EXCEPT ![n] = Null]
<1>0. v # Null
  BY NullIsNothing
<1>1. b \in [World -> [Name -> Node \cup {Null}]]
  <2>1. s.byName \in [World -> [Name -> Node \cup {Null}]]
    BY SceneFields
  <2>. QED BY <2>1
<1>2. /\ x \in [Node -> SUBSET Node] /\ y \in [Node -> Node \cup {Null}] /\ ac \in [Node -> BOOLEAN]
      /\ ho \in [Node -> World \cup {Null}] /\ na \in [Node -> Name \cup {Null}]
      /\ lo \in [Node -> Value \cup {Null}]
  BY SceneFields
<1>3. t = Free(bare, n)
  BY Zenon DEF DestroyEntity
<1>4. bare = [s EXCEPT !.entities = s.entities \ {n}, !.byName = b]
  <2>1. gone.byName = s.byName /\ gone = [s EXCEPT !.entities = s.entities \ {n}]
    BY DEF Scene
  <2>2. CASE m = Null
    <3>1. bare = gone /\ b = gone.byName
      BY <2>1, <2>2
    <3>. HIDE DEF b, gone, bare
    <3>. QED BY <2>1, <3>1 DEF Scene
  <2>3. CASE m # Null
    <3>1. bare = [gone EXCEPT !.byName = b]
      BY <1>0, <2>1, <2>3
    <3>. HIDE DEF b, gone, bare
    <3>. QED BY <2>1, <3>1 DEF Scene
  <2>. QED BY <2>2, <2>3
<1>. HIDE DEF bare, gone
<1>5. /\ bare \in Scene /\ bare.entities = s.entities \ {n} /\ bare.byName = b
  <2>. HIDE DEF b
  <2>. QED BY <1>1, <1>4, SceneFields DEF Scene
<1>6. /\ bare.live = s.live /\ bare.children = s.children /\ bare.parent = s.parent
      /\ bare.active = s.active /\ bare.home = s.home /\ bare.name = s.name /\ bare.local = s.local
      /\ SameTables(s, bare)
      /\ bare.worlds = s.worlds /\ bare.activeWorld = s.activeWorld
      /\ bare.levels = s.levels /\ bare.currentLevel = s.currentLevel
      /\ bare.touchedFreed = s.touchedFreed
  <2>. HIDE DEF b
  <2>. QED BY <1>4 DEF Scene, SameTables
<1>7. t = [bare EXCEPT !.live = s.live \ {n}, !.children = x, !.parent = y, !.active = ac,
                       !.home = ho, !.name = na, !.local = lo]
  <2>1. t = [bare EXCEPT
              !.live = bare.live \ {n},
              !.children = [e \in Node |-> IF e = n THEN {} ELSE bare.children[e] \ {n}],
              !.parent = [c \in Node |-> IF c = n \/ c \in bare.children[n] THEN Null ELSE bare.parent[c]],
              !.active = [bare.active EXCEPT ![n] = FALSE], !.home = [bare.home EXCEPT ![n] = Null],
              !.name = [bare.name EXCEPT ![n] = Null], !.local = [bare.local EXCEPT ![n] = Null]]
    BY ONLY <1>3, ZenonT(30) DEF Free
  <2>. HIDE DEF t, b
  <2>. QED BY <1>6, <2>1, Zenon
<1>8. s.live \ {n} \in SUBSET Node
  BY SceneFields
<1>9. /\ \A e \in Node : x[e] = IF e = n THEN {} ELSE s.children[e] \ {n}
      /\ \A c \in Node : y[c] = IF c = n \/ c \in s.children[n] THEN Null ELSE s.parent[c]
  OBVIOUS
<1>. HIDE DEF x, y, ac, ho, na, lo, b, t
<1>10. /\ t \in Scene /\ t.live = s.live \ {n} /\ t.children = x /\ t.parent = y /\ t.active = ac
       /\ t.home = ho /\ t.name = na /\ t.local = lo
  <2>1. bare \in Scene
    BY <1>5
  <2>. QED BY <1>2, <1>7, <1>8, <2>1 DEF Scene
<1>11. /\ t.entities = bare.entities /\ t.byName = bare.byName /\ SameTables(bare, t)
       /\ t.worlds = bare.worlds /\ t.activeWorld = bare.activeWorld
       /\ t.levels = bare.levels /\ t.currentLevel = bare.currentLevel
       /\ t.touchedFreed = bare.touchedFreed
  <2>1. bare \in Scene
    BY <1>5
  <2>. QED BY <1>7, <2>1 DEF Scene, SameTables
<1>12. SameTables(s, t)
  BY <1>6, <1>11 DEF SameTables
<1>. QED BY <1>5, <1>6, <1>9, <1>10, <1>11, <1>12 DEF Deleted, ac, ho, na, lo, b, t

\* One more entity that is destroyed.
LEMMA DestroyNext ==
    ASSUME NEW s, Sound(s), NEW w \in World, Tables(s, w), NEW E \in SUBSET Node,
           NEW f, Destroyed(s, f, E, w), NEW n \in s.live \ E
    PROVE  Destroyed(s, Destroy(f, n), E \cup {n}, w)
<1> DEFINE u == UnregisterNode(f, n)
           t == DestroyEntity(u, n)
           K == E \cup {n}
<1>. s \in Scene /\ f \in Scene /\ n \in Node
  BY SceneFields DEF Sound, Destroyed
<1>1. t = Destroy(f, n)
  BY Zenon DEF Destroy
<1>2. Unregistered(f, u, n)
  BY UnregisterNodeIs
<1>. HIDE DEF u
<1>3. u \in Scene /\ SameEntities(f, u) /\ u.parent = f.parent /\ u.children = f.children
      /\ u.worldOf = [f.worldOf EXCEPT ![n] = Null] /\ u.roots = f.roots
  BY <1>2 DEF Unregistered
<1>4. f.home[n] = s.home[n] /\ f.name[n] = s.name[n] /\ f.worldOf[n] = s.worldOf[n]
  BY DEF Destroyed
<1>5. u.home[n] = s.home[n] /\ u.home[n] \in World /\ u.name[n] = s.name[n]
  BY <1>3, <1>4 DEF SameEntities, Sound, Homed
<1>6. Deleted(u, t, n)
  BY <1>3, <1>5, DestroyEntityIs
<1>. HIDE DEF t, K
<1>7. t \in Scene
  BY <1>6 DEF Deleted
<1>8. t.live = s.live \ K /\ t.entities \subseteq s.entities \ K
  BY <1>3, <1>6 DEF Deleted, Destroyed, SameEntities, K
<1>9. ASSUME NEW c \in Node
      PROVE  t.parent[c] = IF c \in K \/ s.parent[c] \in K THEN Null ELSE s.parent[c]
  <2>1. f.parent[c] = IF c \in E \/ s.parent[c] \in E THEN Null ELSE s.parent[c]
    BY DEF Destroyed
  <2>2. c \in f.children[n] <=> c \in s.children[n] /\ c \notin E /\ n \notin E
    BY DEF Destroyed
  <2>3. c \in s.children[n] <=> s.parent[c] = n
    BY DEF Sound, Forest
  <2>4. t.parent[c] = IF c = n \/ c \in f.children[n] THEN Null ELSE f.parent[c]
    BY <1>3, <1>6 DEF Deleted
  <2>. QED BY <2>1, <2>2, <2>3, <2>4 DEF K
<1>10. ASSUME NEW b \in Node, NEW c \in Node
       PROVE  c \in t.children[b] <=> c \in s.children[b] /\ c \notin K /\ b \notin K
  <2>1. c \in f.children[b] <=> c \in s.children[b] /\ c \notin E /\ b \notin E
    BY DEF Destroyed
  <2>2. t.children[b] = IF b = n THEN {} ELSE f.children[b] \ {n}
    BY <1>3, <1>6 DEF Deleted
  <2>. QED BY <2>1, <2>2 DEF K
<1>11. ASSUME NEW c \in Node
       PROVE  /\ t.active[c] = IF c \in K THEN FALSE ELSE s.active[c]
              /\ t.home[c] = IF c \in K THEN Null ELSE s.home[c]
              /\ t.name[c] = IF c \in K THEN Null ELSE s.name[c]
              /\ t.local[c] = IF c \in K THEN Null ELSE s.local[c]
  <2>1. /\ f.active \in [Node -> BOOLEAN] /\ f.home \in [Node -> World \cup {Null}]
        /\ f.name \in [Node -> Name \cup {Null}] /\ f.local \in [Node -> Value \cup {Null}]
    BY SceneFields
  <2>2. /\ t.active = [f.active EXCEPT ![n] = FALSE] /\ t.home = [f.home EXCEPT ![n] = Null]
        /\ t.name = [f.name EXCEPT ![n] = Null] /\ t.local = [f.local EXCEPT ![n] = Null]
    BY <1>3, <1>6 DEF Deleted, SameEntities
  <2>3. /\ f.active[c] = IF c \in E THEN FALSE ELSE s.active[c]
        /\ f.home[c] = IF c \in E THEN Null ELSE s.home[c]
        /\ f.name[c] = IF c \in E THEN Null ELSE s.name[c]
        /\ f.local[c] = IF c \in E THEN Null ELSE s.local[c]
    BY DEF Destroyed
  <2>. QED BY <2>1, <2>2, <2>3 DEF K
<1>12. ASSUME NEW c \in Node PROVE t.worldOf[c] = IF c \in K THEN Null ELSE s.worldOf[c]
  <2>1. f.worldOf[c] = IF c \in E THEN Null ELSE s.worldOf[c]
    BY DEF Destroyed
  <2>2. t.worldOf = [f.worldOf EXCEPT ![n] = Null] /\ f.worldOf \in [Node -> World \cup {Null}]
    BY <1>3, <1>6, SceneFields DEF Deleted, SameTables
  <2>. QED BY <2>1, <2>2 DEF K
<1>13. ASSUME NEW v \in World, NEW l \in Name, t.byName[v][l] # Null
       PROVE  t.byName[v][l] = s.byName[v][l] /\ s.byName[v][l] \notin K
  <2>1. t.byName = IF u.name[n] = Null THEN f.byName ELSE [f.byName EXCEPT ![u.home[n]][u.name[n]] = Null]
    BY <1>3, <1>6 DEF Deleted, SameEntities
  <2>2. f.byName \in [World -> [Name -> Node \cup {Null}]] /\ u.name[n] \in Name \cup {Null}
    BY <1>3, SceneFields
  <2>3. t.byName[v][l] = f.byName[v][l] /\ (v # u.home[n] \/ l # u.name[n])
    <3>1. CASE u.name[n] = Null
      BY <2>1, <3>1, NullIsNothing
    <3>2. CASE u.name[n] # Null
      BY <1>5, <1>13, <2>1, <2>2, <3>2
    <3>. QED BY <3>1, <3>2
  <2>4. f.byName[v][l] = s.byName[v][l] /\ s.byName[v][l] \notin E
    BY <1>13, <2>3 DEF Destroyed
  <2>5. s.byName[v][l] # n
    BY <1>5, <1>13, <2>3, <2>4 DEF Sound, Named
  <2>. QED BY <2>3, <2>4, <2>5 DEF K
<1>14. /\ t.worlds = s.worlds /\ t.activeWorld = s.activeWorld
       /\ t.levels = s.levels /\ t.currentLevel = s.currentLevel /\ t.touchedFreed = s.touchedFreed
  BY <1>3, <1>6 DEF Deleted, Destroyed, SameEntities
<1>15. t.nodes[w] \subseteq s.nodes[w] \ K /\ (t.rootsValid[w] => t.roots[w] \subseteq t.nodes[w])
  <2>1. f.nodes[w] \subseteq s.nodes[w] \ E /\ (f.rootsValid[w] => f.roots[w] \subseteq f.nodes[w])
        /\ f.worlds = s.worlds
    BY DEF Destroyed
  <2>2. w \in f.worlds /\ (f.worldOf[n] = w \/ n \notin f.nodes[w])
    BY <1>4, <2>1 DEF Tables
  <2>3. u.nodes[w] = f.nodes[w] \ {n} /\ (u.rootsValid[w] => f.rootsValid[w] /\ n \notin f.nodes[w])
    BY <1>2, <2>2 DEF Unregistered
  <2>4. t.nodes[w] = u.nodes[w] /\ t.roots[w] = f.roots[w] /\ t.rootsValid[w] = u.rootsValid[w]
    BY <1>3, <1>6 DEF Deleted, SameTables
  <2>. QED BY <2>1, <2>3, <2>4 DEF K
<1>16. Destroyed(s, t, K, w)
  BY <1>7, <1>8, <1>9, <1>10, <1>11, <1>12, <1>13, <1>14, <1>15 DEF Destroyed
<1>. QED BY <1>1, <1>16 DEF K

\* SetToSeq enumerates a finite set.
LEMMA Enumerated ==
    ASSUME NEW S, IsFiniteSet(S)
    PROVE  /\ Len(SetToSeq(S)) = Cardinality(S) /\ Cardinality(S) \in Nat
           /\ SetToSeq(S) \in [1 .. Cardinality(S) -> S]
           /\ \A i, j \in 1 .. Cardinality(S) : SetToSeq(S)[i] = SetToSeq(S)[j] => i = j
           /\ {SetToSeq(S)[i] : i \in 1 .. Cardinality(S)} = S
<1> DEFINE k == Cardinality(S)
           order == SetToSeq(S)
<1>1. k \in Nat /\ ExistsBijection(1 .. k, S)
  BY FS_CardinalityType
<1>2. PICK f \in Bijection(1 .. k, S) : TRUE
  BY <1>1 DEF ExistsBijection
<1>3. f \in [1 .. k -> S] /\ IsInjective(f)
  BY <1>2 DEF Bijection, Injection, IsInjective
<1>4. order \in [1 .. k -> S] /\ IsInjective(order)
  BY <1>3 DEF SetToSeq
<1>. HIDE DEF order
<1>5. order \in Injection(1 .. k, S)
  BY <1>4 DEF Injection
<1>6. Cardinality(1 .. k) = k
  BY <1>1, FS_Interval
<1>7. order \in Surjection(1 .. k, S)
  BY <1>5, <1>6, FS_Injection
<1>8. {order[i] : i \in 1 .. k} = S
  BY <1>4, <1>7 DEF Surjection
<1>9. \A i, j \in 1 .. k : order[i] = order[j] => i = j
  BY <1>4 DEF IsInjective
<1>10. Len(order) = k
  BY <1>1, <1>4
<1>. QED BY <1>1, <1>4, <1>8, <1>9, <1>10 DEF order

\* Nothing is destroyed at first.
LEMMA DestroyedNone ==
    ASSUME NEW s, Sound(s), NEW w \in World, Tables(s, w)
    PROVE  Destroyed(s, s, {}, w)
<1>. s \in Scene
  BY DEF Sound
<1>1. s.rootsValid[w] => s.roots[w] \subseteq s.nodes[w]
  BY DEF Tables
<1>2. s.entities \subseteq s.entities \ {} /\ s.live = s.live \ {} /\ s.nodes[w] \subseteq s.nodes[w] \ {}
  BY DEF Sound, Alive
<1>. QED BY <1>1, <1>2 DEF Destroyed

\* A set of entities is destroyed one after another.
LEMMA DestroyAllIs ==
    ASSUME NEW s, Sound(s), NEW w \in World, Tables(s, w), NEW S \in SUBSET s.live
    PROVE  Destroyed(s, DestroyAll(s, S), S, w)
<1> DEFINE order == SetToSeq(S)
           k == Len(order)
           D(i) == {order[j] : j \in 1 .. i}
           T == [i \in 0 .. k |-> {f \in Scene : Destroyed(s, f, D(i), w)}]
           G == [i \in 1 .. k |-> [f \in Scene |->
                    IF Destroy(f, order[i]) \in Scene THEN Destroy(f, order[i]) ELSE s]]
           Whole(f) == f = [i \in 0 .. k |-> IF i = 0 THEN s ELSE Destroy(f[i - 1], order[i])]
           left == CHOOSE f : Whole(f)
<1>0. s \in Scene /\ s.live \in SUBSET Node
  BY SceneFields DEF Sound
<1>1. /\ k \in Nat /\ order \in [1 .. k -> S] /\ D(k) = S
      /\ \A i, j \in 1 .. k : order[i] = order[j] => i = j
  <2>1. IsFiniteSet(S)
    BY <1>0, SceneAssumption, FS_Subset
  <2>. HIDE DEF order
  <2>. QED BY <2>1, Enumerated DEF order
<1>. HIDE DEF order
<1>2. ASSUME NEW i \in 1 .. k, NEW f \in T[i - 1] PROVE Destroy(f, order[i]) \in T[i] /\ f \in Scene
  <2>1. i - 1 \in 0 .. k /\ i \in 0 .. k
    BY <1>1
  <2>2. f \in Scene /\ Destroyed(s, f, D(i - 1), w)
    BY <2>1
  <2>3. D(i - 1) \in SUBSET Node
    BY <1>0, <1>1
  <2>4. order[i] \in s.live \ D(i - 1)
    <3>1. \A j \in 1 .. i - 1 : j \in 1 .. k /\ j # i
      BY <1>1
    <3>. QED BY <1>0, <1>1, <3>1
  <2>5. D(i - 1) \cup {order[i]} = D(i)
    <3>1. \A j \in 1 .. i : j # i => j \in 1 .. i - 1
      BY <1>1
    <3>2. \A j \in 1 .. i - 1 : j \in 1 .. i
      BY <1>1
    <3>. QED BY <1>1, <3>1, <3>2
  <2>6. Destroyed(s, Destroy(f, order[i]), D(i), w)
    <3>. HIDE DEF D
    <3>1. Destroyed(s, Destroy(f, order[i]), D(i - 1) \cup {order[i]}, w)
      BY ONLY Sound(s), w \in World, Tables(s, w), <2>2, <2>3, <2>4, DestroyNext
    <3>. QED BY <2>5, <3>1
  <2>7. Destroy(f, order[i]) \in Scene
    BY <2>6 DEF Destroyed
  <2>. QED BY <2>1, <2>2, <2>6, <2>7
<1>3. s \in T[0]
  <2>1. D(0) = {}
    OBVIOUS
  <2>2. Destroyed(s, s, D(0), w)
    BY <2>1, DestroyedNone
  <2>. QED BY <1>0, <1>1, <2>2
<1>4. T \in [0 .. k -> SUBSET Scene]
  OBVIOUS
<1>5. \A i \in 1 .. k : \A f \in T[i - 1] : G[i][f] = Destroy(f, order[i]) /\ G[i][f] \in T[i]
  <2>1. \A i \in 1 .. k : T[i] \subseteq Scene
    BY <1>1
  <2>. HIDE DEF T
  <2>. QED BY <1>2, <2>1
<1>6. \E h : Whole(h)
  <2>1. PICK f \in [0 .. k -> Scene] : Loops(f, s, G, k) /\ \A i \in 0 .. k : f[i] \in T[i]
    <3>1. G \in [1 .. k -> [Scene -> Scene]]
      BY <1>0
    <3>. HIDE DEF T, G, k
    <3>2. k \in Nat /\ \A i \in 1 .. k : \A f \in T[i - 1] : G[i][f] \in T[i]
      BY <1>1, <1>5
    <3>. QED BY ONLY <1>3, <1>4, <3>1, <3>2, LoopRuns
  <2>2. f[0] = s /\ \A i \in 1 .. k : f[i] = Destroy(f[i - 1], order[i])
    <3>1. \A i \in 1 .. k : i - 1 \in 0 .. k
      BY <1>1
    <3>. HIDE DEF T, G
    <3>. QED BY <1>5, <2>1, <3>1 DEF Loops
  <2>3. f = [i \in 0 .. k |-> IF i = 0 THEN s ELSE Destroy(f[i - 1], order[i])]
    <3>1. f = [i \in 0 .. k |-> f[i]]
      OBVIOUS
    <3>2. \A i \in 0 .. k : i # 0 => i \in 1 .. k
      BY <1>1
    <3>. QED BY <2>2, <3>1, <3>2
  <2>. QED BY <2>3
<1>7. Whole(left)
  <2>. HIDE DEF Whole
  <2>. QED BY <1>6, Zenon
<1>8. DestroyAll(s, S) = left[k]
  BY Zenon DEF DestroyAll, order
<1>. HIDE DEF left
<1>9. \A i \in 0 .. k : left[i] \in T[i]
  <2>1. left[0] = s
    BY <1>1, <1>7
  <2>2. ASSUME NEW i \in 1 .. k PROVE left[i] = Destroy(left[i - 1], order[i])
    <3>1. i \in 0 .. k /\ i # 0
      BY <1>1
    <3>. QED BY <1>7, <3>1
  <2>. HIDE DEF Whole, T, G, k
  <2>3. \A i \in 1 .. k : left[i - 1] \in T[i - 1] => left[i] \in T[i]
    BY <1>2, <2>2
  <2>4. k \in Nat /\ left[0] \in T[0]
    BY <1>1, <1>3, <2>1
  <2>. QED BY ONLY <2>3, <2>4, LoopKeeps
<1>10. k \in 0 .. k
  BY <1>1
<1>. QED BY <1>1, <1>8, <1>9, <1>10

-----------------------------------------------------------------------------
(* Levels that are unloaded *)

\* What is left is sound, if what is destroyed was alive.
LEMMA DestroyedSound ==
    ASSUME NEW s, Sound(s), NEW w \in World, NEW E \in SUBSET s.live, NEW t, Destroyed(s, t, E, w)
    PROVE  Sound(t)
<1>. s \in Scene /\ t \in Scene /\ E \in SUBSET Node
  BY SceneFields DEF Sound, Destroyed
<1>0. \A c \in Node : s.parent[c] \in Node \cup {Null} /\ t.parent[c] \in Node \cup {Null}
  BY SceneFields
<1>1. t.live = s.live \ E /\ \A c \in Node : t.parent[c] = IF c \in E \/ s.parent[c] \in E THEN Null ELSE s.parent[c]
  BY DEF Destroyed
<1>2. Alive(t)
  BY DEF Destroyed, Sound, Alive
<1>3. Grounded(t.parent)
  <2> SUFFICES ASSUME NEW S \in SUBSET Node, S # {} PROVE \E k \in S : t.parent[k] \notin S
    BY DEF Grounded
  <2>1. PICK k \in S : s.parent[k] \notin S
    BY DEF Sound, Grounded
  <2>. QED BY <1>1, <2>1, NullIsNothing
<1>4. Forest(t)
  <2>1. ASSUME NEW n \in Node PROVE t.parent[n] # Null => t.parent[n] \in t.live
    BY <1>1 DEF Sound, Forest
  <2>2. ASSUME NEW n \in Node, NEW c \in Node PROVE c \in t.children[n] <=> t.parent[c] = n
    <3>1. c \in t.children[n] <=> c \in s.children[n] /\ c \notin E /\ n \notin E
      BY DEF Destroyed
    <3>2. c \in s.children[n] <=> s.parent[c] = n
      BY DEF Sound, Forest
    <3>. QED BY <1>1, <3>1, <3>2, NullIsNothing
  <2>3. ASSUME NEW n \in Node, n \notin t.live PROVE t.children[n] = {} /\ t.parent[n] = Null
    <3>1. \A c \in Node : c \notin t.children[n]
      BY <1>1, <2>3 DEF Destroyed, Sound, Forest
    <3>2. t.children[n] \in SUBSET Node
      BY SceneFields
    <3>3. t.parent[n] = Null
      BY <1>1, <2>3 DEF Sound, Forest
    <3>. QED BY <3>1, <3>2, <3>3
  <2>. QED BY <2>1, <2>2, <2>3 DEF Forest
<1>5. Named(t)
  <2> SUFFICES ASSUME NEW v \in World, NEW l \in Name, t.byName[v][l] # Null
               PROVE  t.byName[v][l] \in t.live /\ t.home[t.byName[v][l]] = v /\ t.name[t.byName[v][l]] = l
    BY DEF Named
  <2>1. t.byName[v][l] = s.byName[v][l] /\ s.byName[v][l] \notin E
    BY DEF Destroyed
  <2>2. s.byName[v][l] \in s.live /\ s.home[s.byName[v][l]] = v /\ s.name[s.byName[v][l]] = l
    BY <2>1 DEF Sound, Named
  <2>3. s.live \in SUBSET Node
    BY SceneFields
  <2>. QED BY <2>1, <2>2, <2>3 DEF Destroyed
<1>6. Homed(t)
  <2>1. s.live \in SUBSET Node
    BY SceneFields
  <2>2. \A n \in t.live : t.home[n] \in World
    BY <2>1 DEF Destroyed, Sound, Homed
  <2>3. ASSUME NEW n \in Node, t.parent[n] # Null PROVE t.home[t.parent[n]] = t.home[n]
    <3>1. n \notin E /\ s.parent[n] \notin E /\ t.parent[n] = s.parent[n] /\ s.parent[n] \in Node
      BY <1>0, <1>1, <2>3
    <3>. QED BY <2>3, <3>1 DEF Destroyed, Sound, Homed
  <2>. QED BY <2>2, <2>3 DEF Homed
<1>7. Loaded(t)
  BY DEF Destroyed, Sound, Loaded
<1>. QED BY <1>2, <1>3, <1>4, <1>5, <1>6, <1>7 DEF Sound

\* A world that is destroyed takes nothing of the entities with it.
Quit(s, t, w) ==
    /\ t \in Scene
    /\ t.live = s.live /\ t.parent = s.parent /\ t.children = s.children /\ t.active = s.active
    /\ t.home = s.home /\ t.name = s.name /\ t.local = s.local
    /\ t.entities = s.entities /\ t.byName = s.byName
    /\ \A n \in Node : t.worldOf[n] \in {Null, s.worldOf[n]}
    /\ t.worlds = s.worlds \ {w}
    /\ t.activeWorld = IF s.activeWorld = w THEN Null ELSE s.activeWorld
    /\ t.levels = s.levels /\ t.currentLevel = s.currentLevel /\ t.touchedFreed = s.touchedFreed

\* Destroying a world comes to that.
LEMMA DestroyWorldIs ==
    ASSUME NEW s \in Scene, NEW w \in World, Usable(s, w)
    PROVE  Quit(s, DestroyWorld(s, w), w)
<1> DEFINE u == Traverse(s, w)
           t == DestroyWorld(s, w)
           wo == [n \in Node |-> IF n \in Visited(u, w) THEN Null ELSE u.worldOf[n]]
           aw == IF u.activeWorld = w THEN Null ELSE u.activeWorld
           no == [u.nodes EXCEPT ![w] = {}]
           ro == [u.roots EXCEPT ![w] = {}]
           rv == [u.rootsValid EXCEPT ![w] = FALSE]
<1>1. u \in Scene /\ SameButRoots(s, u)
  BY TraverseIs
<1>2. t = [u EXCEPT !.worldOf = wo, !.activeWorld = aw, !.worlds = u.worlds \ {w},
                    !.nodes = no, !.roots = ro, !.rootsValid = rv]
  BY Zenon DEF DestroyWorld
<1>. HIDE DEF u, t
<1>3. /\ wo \in [Node -> World \cup {Null}] /\ aw \in World \cup {Null} /\ u.worlds \ {w} \in SUBSET World
      /\ no \in [World -> SUBSET Node] /\ ro \in [World -> SUBSET Node] /\ rv \in [World -> BOOLEAN]
  BY <1>1, SceneFields
<1>4. \A n \in Node : wo[n] \in {Null, u.worldOf[n]}
  OBVIOUS
<1>. HIDE DEF wo, no, ro, rv, aw
<1>5. t \in Scene /\ t.worldOf = wo /\ t.activeWorld = aw /\ t.worlds = u.worlds \ {w}
  <2>1. u \in Scene
    BY <1>1
  <2>. QED BY <1>2, <1>3, <2>1 DEF Scene
<1>6. /\ t.live = u.live /\ t.parent = u.parent /\ t.children = u.children /\ t.active = u.active
      /\ t.home = u.home /\ t.name = u.name /\ t.local = u.local
      /\ t.entities = u.entities /\ t.byName = u.byName
      /\ t.levels = u.levels /\ t.currentLevel = u.currentLevel /\ t.touchedFreed = u.touchedFreed
  <2>1. u \in Scene
    BY <1>1
  <2>. QED BY <1>2, <2>1 DEF Scene
<1>7. /\ u.live = s.live /\ u.parent = s.parent /\ u.children = s.children /\ u.active = s.active
      /\ u.home = s.home /\ u.name = s.name /\ u.local = s.local
      /\ u.entities = s.entities /\ u.byName = s.byName
      /\ u.worldOf = s.worldOf /\ u.worlds = s.worlds /\ u.activeWorld = s.activeWorld
      /\ u.levels = s.levels /\ u.currentLevel = s.currentLevel /\ u.touchedFreed = s.touchedFreed
  BY <1>1 DEF SameButRoots, SameEntities
<1>. QED BY <1>4, <1>5, <1>6, <1>7 DEF Quit, t, aw

\* What a level leaves behind when it is unloaded: a sound scene, in which no
\* active root is of a level that is not loaded.
LEMMA UnloadLevelSound ==
    ASSUME NEW s, Sound(s), NEW w \in s.levels, Tables(s, w), Reached(s, w)
    PROVE  LET t == UnloadLevel(s, w)
           IN  Sound(t) /\ Reached(t, Null) /\ t.touchedFreed = s.touchedFreed
<1> DEFINE u == Traverse(s, w)
           E == Visited(u, w)
           e == DestroyAll(u, E)
           d == DestroyWorld(e, w)
           lv == d.levels \ {w}
           cl == IF d.currentLevel = w THEN Null ELSE d.currentLevel
           tf == d.touchedFreed \/ CollectedTwice(u, w) # {}
           t == UnloadLevel(s, w)
<1>. s \in Scene /\ w \in World /\ w # Null
  BY SceneFields, NullIsNothing DEF Sound
<1>1. Traversed(u, w) /\ SameButRoots(s, u) /\ Reached(u, w)
  BY TraverseReady
<1>2. t = [d EXCEPT !.levels = lv, !.currentLevel = cl, !.touchedFreed = tf]
  BY Zenon DEF UnloadLevel
<1>. HIDE DEF u
<1>3. Sound(u) /\ Tables(u, w) /\ u \in Scene
  BY <1>1 DEF Traversed, Sound
<1>4. E \in SUBSET u.live
  BY <1>1, VisitedLive
<1>. HIDE DEF E
<1>5. Destroyed(u, e, E, w)
  BY <1>3, <1>4, DestroyAllIs
<1>. HIDE DEF e
<1>6. Sound(e) /\ e \in Scene
  BY <1>3, <1>4, <1>5, DestroyedSound DEF Destroyed
<1>7. Usable(e, w)
  BY <1>3, <1>5 DEF Destroyed, Usable, Tables
<1>8. Quit(e, d, w)
  BY <1>6, <1>7, DestroyWorldIs
<1>. HIDE DEF d
<1>9. CollectedTwice(u, w) = {}
  <2>1. u.roots[w] = {n \in u.nodes[w] : u.parent[n] = Null}
    BY <1>1 DEF Traversed, Tables
  <2>. QED BY <2>1, NullIsNothing DEF CollectedTwice, Visited
<1>10. d \in Scene /\ d.levels = s.levels /\ d.touchedFreed = s.touchedFreed
  BY <1>1, <1>5, <1>8 DEF Quit, Destroyed, SameButRoots, SameEntities
<1>11. lv \in SUBSET World /\ cl \in World \cup {Null} /\ tf = s.touchedFreed /\ tf \in BOOLEAN
  BY <1>9, <1>10, SceneFields
<1>. HIDE DEF lv, cl, tf, t
<1>12. t \in Scene /\ t.levels = lv /\ t.touchedFreed = tf
  <2>1. d \in Scene
    BY <1>10
  <2>. QED BY <1>2, <1>11, <2>1 DEF Scene
<1>13. /\ t.live = d.live /\ t.parent = d.parent /\ t.children = d.children /\ t.active = d.active
       /\ t.home = d.home /\ t.name = d.name /\ t.local = d.local
       /\ t.entities = d.entities /\ t.byName = d.byName /\ t.worldOf = d.worldOf
       /\ t.worlds = d.worlds /\ t.activeWorld = d.activeWorld
  <2>1. d \in Scene
    BY <1>10
  <2>. QED BY <1>2, <2>1 DEF Scene
<1>14. /\ d.live = e.live /\ d.parent = e.parent /\ d.children = e.children /\ d.active = e.active
       /\ d.home = e.home /\ d.name = e.name /\ d.local = e.local
       /\ d.entities = e.entities /\ d.byName = e.byName
       /\ \A n \in Node : d.worldOf[n] \in {Null, e.worldOf[n]}
       /\ d.worlds = e.worlds \ {w} /\ d.levels = e.levels
       /\ d.activeWorld = IF e.activeWorld = w THEN Null ELSE e.activeWorld
  BY <1>8 DEF Quit
<1>15. Sound(t)
  <2>1. Alive(t)
    BY <1>6, <1>13, <1>14 DEF Sound, Alive
  <2>2. Grounded(t.parent) /\ Forest(t) /\ Named(t) /\ Homed(t)
    BY <1>6, <1>13, <1>14 DEF Sound, Forest, Named, Homed
  <2>3. Loaded(t)
    BY <1>6, <1>12, <1>13, <1>14 DEF Sound, Loaded, lv
  <2>. QED BY <1>12, <2>1, <2>2, <2>3 DEF Sound
<1>16. Reached(t, Null)
  <2> SUFFICES ASSUME NEW n \in t.live, t.parent[n] = Null, t.active[n]
               PROVE  t.home[n] \in t.levels /\ t.home[n] # Null
    BY DEF Reached
  <2>0. n \in Node /\ e.live \in SUBSET Node /\ u.parent[n] \in Node \cup {Null}
    <3>1. t.live \in SUBSET Node /\ e.live \in SUBSET Node /\ u.parent \in [Node -> Node \cup {Null}]
      BY <1>3, <1>6, <1>12, SceneFields
    <3>. QED BY <3>1
  <2>1. n \in e.live /\ e.parent[n] = Null /\ e.active[n] /\ t.home[n] = e.home[n]
    BY <1>13, <1>14
  <2>2. n \in u.live /\ n \notin E /\ u.active[n] /\ e.home[n] = u.home[n]
    BY <1>5, <2>0, <2>1 DEF Destroyed
  <2>3. u.parent[n] \notin E
    BY <1>1, <2>0, <2>2, VisitedChildren DEF E
  <2>4. u.parent[n] = Null
    BY <1>5, <2>0, <2>1, <2>2, <2>3 DEF Destroyed
  <2>5. u.home[n] \in u.levels \cup {w} /\ (u.home[n] = w => n \in u.nodes[w]) /\ u.home[n] \in World
    BY <1>1, <1>3, <2>2, <2>4 DEF Reached, Sound, Homed
  <2>6. n \notin u.nodes[w]
    BY <1>1, <2>2, <2>4, VisitedRoots DEF E
  <2>7. u.levels = s.levels
    BY <1>1 DEF SameButRoots, SameEntities
  <2>. QED BY <1>10, <1>12, <2>1, <2>2, <2>5, <2>6, <2>7, NullIsNothing DEF lv
<1>. QED BY <1>11, <1>12, <1>15, <1>16 DEF t

-----------------------------------------------------------------------------
(* The session *)

\* The scene of a session that shows the level of the handle l, or none.
Held(s, l) ==
    /\ Sound(s)
    /\ ~s.touchedFreed
    /\ Reached(s, l)
    /\ l # Null => l \in s.levels /\ s.currentLevel = l /\ Tables(s, l)

\* While play is under way the snapshot is the one that was taken when it began.
BeganHeld == began # Null => play # "Stopped" /\ began = snapshot /\ level # Null /\ hasCamera

\* The inductive invariant.
SessionIInv == SessionTypeOK /\ Held(scene, level) /\ Listed(clipboard) /\ BeganHeld

\* Whatever level is shown, the active roots are of levels that are loaded.
LEMMA HeldReached ==
    ASSUME NEW s, NEW l, Held(s, l)
    PROVE  Reached(s, Null)
<1> SUFFICES ASSUME NEW n \in s.live, s.parent[n] = Null, s.active[n]
             PROVE  s.home[n] \in s.levels /\ s.home[n] # Null
  BY DEF Reached
<1>1. s.home[n] \in World /\ s.home[n] \in s.levels \cup {l}
  BY DEF Held, Sound, Homed, Reached
<1>. QED BY <1>1, NullIsNothing DEF Held

\* Another level is shown.
LEMMA ShowHolds ==
    ASSUME SessionTypeOK, Held(scene, level), NEW items, Listed(items), Show(items)
    PROVE  level' \in World /\ Held(scene', level') /\ began' = Null
<1>1. PICK w \in World \ scene.worlds, addr \in Addresses(Len(items)) :
        scene' = CreateLevel(scene, w, items, addr) /\ level' = w
  BY DEF Show
<1>2. Reached(scene, Null)
  BY HeldReached
<1>3. /\ addr \in [1 .. Len(items) -> Node \ scene.live]
      /\ \A i, j \in 1 .. Len(items) : addr[i] = addr[j] => i = j
  BY <1>1 DEF Addresses
<1>4. Opened(scene, scene', w)
  BY <1>1, <1>2, <1>3, CreateLevelSound DEF Held
<1>5. Held(scene', w)
  BY <1>4 DEF Opened, Held
<1>. QED BY <1>1, <1>5 DEF Show

\* The level that is shown is traversed, or its roots are asked for.
LEMMA TraverseHolds ==
    ASSUME NEW s, NEW l \in World, Held(s, l), NEW t, t = GetRootNodes(s, l) \/ t = Traverse(s, l)
    PROVE  Held(t, l) /\ Traversed(t, l) /\ t.local = s.local
<1>1. Traversed(t, l) /\ SameButRoots(s, t) /\ Reached(t, l)
  BY TraverseReady, NullIsNothing DEF Held
<1>. QED BY <1>1, NullIsNothing DEF Held, Traversed, SameButRoots, SameEntities

\* It is unloaded.
LEMMA UnloadHolds ==
    ASSUME NEW s, NEW l, Held(s, l)
    PROVE  Held(IF l = Null THEN s ELSE UnloadLevel(s, l), Null)
<1>1. CASE l = Null
  BY <1>1
<1>2. CASE l # Null
  <2>1. LET t == UnloadLevel(s, l)
        IN  Sound(t) /\ Reached(t, Null) /\ t.touchedFreed = s.touchedFreed
    BY <1>2, UnloadLevelSound DEF Held
  <2>. QED BY <1>2, <2>1 DEF Held
<1>. QED BY <1>1, <1>2

\* Entities are made in it.
LEMMA FillHolds ==
    ASSUME NEW s, NEW l \in World, Held(s, l), NEW t, Growing(t, l),
           t.levels = s.levels, t.currentLevel = s.currentLevel, t.touchedFreed = s.touchedFreed
    PROVE  Held(t, l)
BY NullIsNothing DEF Held, Growing

\* The menu makes an entity in the level that is shown.
LEMMA CreateEmptyEntityHolds ==
    ASSUME SessionTypeOK, Held(scene, level), CreateEmptyEntity
    PROVE  Held(scene', level)
<1> DEFINE c == SetActiveWorld(scene, level)
<1>0. scene \in Scene /\ level \in World /\ level \in scene.levels /\ level # Null /\ MenuName \in Name
  BY SessionAssumption, NullIsNothing, SceneFields DEF SessionTypeOK, CreateEmptyEntity
<1>1. PICK n \in Node \ scene.live : scene' = CreateEntity(c, n, level, MenuName)
  BY DEF CreateEmptyEntity
<1>2. /\ Growing(c, level) /\ c.activeWorld = level /\ c.live = scene.live
      /\ c.levels = scene.levels /\ c.currentLevel = scene.currentLevel
      /\ c.touchedFreed = scene.touchedFreed
  BY <1>0, SetActiveWorldGrowing DEF Held
<1>. HIDE DEF c
<1>3. Grown(c, CreateEntity(c, n, level, MenuName), n, level)
  BY <1>0, <1>1, <1>2, CreateGrows
<1>. QED BY <1>0, <1>1, <1>2, <1>3, FillHolds DEF Grown

\* Pasting keeps the level held.
LEMMA OnPasteHolds ==
    ASSUME SessionTypeOK, Held(scene, level), Listed(clipboard), OnPaste
    PROVE  Held(scene', level)
<1> DEFINE c == SetActiveWorld(scene, level)
<1>0. scene \in Scene /\ level \in World /\ level \in scene.levels /\ level # Null
  BY NullIsNothing, SceneFields DEF SessionTypeOK, OnPaste
<1>1. PICK addr \in Addresses(Len(clipboard)) : scene' = Pasted(addr)
  BY DEF OnPaste
<1>2. /\ Growing(c, level) /\ c.activeWorld = level /\ c.live = scene.live
      /\ c.levels = scene.levels /\ c.currentLevel = scene.currentLevel
      /\ c.touchedFreed = scene.touchedFreed
  BY <1>0, SetActiveWorldGrowing DEF Held
<1>3. /\ addr \in [1 .. Len(clipboard) -> Node \ c.live]
      /\ \A i, j \in 1 .. Len(clipboard) : addr[i] = addr[j] => i = j
  <2>. HIDE DEF c
  <2>. QED BY <1>1, <1>2 DEF Addresses
<1>4. Filled(c, Pasted(addr), addr, Len(clipboard), level)
  BY <1>0, <1>2, <1>3, PastedFills
<1>. HIDE DEF c
<1>. QED BY <1>0, <1>1, <1>2, <1>4, FillHolds DEF Filled

\* Transforms are changed, of entities that have one.
LEMMA LocalHolds ==
    ASSUME NEW s, NEW l, Held(s, l), NEW x \in [Node -> Value \cup {Null}],
           \A n \in Node : x[n] = Null <=> s.local[n] = Null,
           NEW t, t = [s EXCEPT !.local = x]
    PROVE  Held(t, l) /\ t.local = x /\ Visited(t, l) = Visited(s, l)
<1>. s \in Scene
  BY DEF Held, Sound
<1>1. t \in Scene /\ t.local = x
  BY DEF Scene
<1>2. /\ t.live = s.live /\ t.parent = s.parent /\ t.children = s.children /\ t.active = s.active
      /\ t.home = s.home /\ t.name = s.name /\ t.entities = s.entities
      /\ t.byName = s.byName /\ t.worlds = s.worlds /\ t.activeWorld = s.activeWorld
      /\ t.worldOf = s.worldOf /\ t.nodes = s.nodes /\ t.roots = s.roots
      /\ t.rootsValid = s.rootsValid /\ t.levels = s.levels /\ t.currentLevel = s.currentLevel
      /\ t.touchedFreed = s.touchedFreed
  BY DEF Scene
<1>3. Sound(t)
  <2>1. Alive(t)
    BY <1>1, <1>2 DEF Held, Sound, Alive
  <2>. QED BY <1>1, <1>2, <2>1 DEF Held, Sound, Forest, Named, Homed, Loaded
<1>4. Reached(t, l) /\ (l # Null => Tables(t, l))
  BY <1>2 DEF Held, Reached, Tables
<1>5. Visited(t, l) = Visited(s, l)
  BY <1>2 DEF Visited
<1>. QED BY <1>1, <1>2, <1>3, <1>4, <1>5 DEF Held

\* The property panel keeps the level held.
LEMMA DrawTransformHolds ==
    ASSUME SessionTypeOK, Held(scene, level), NEW n \in Node, NEW v \in Value, DrawTransform(n, v)
    PROVE  Held(scene', level)
<1> DEFINE x == [scene.local EXCEPT ![n] = v]
<1>1. scene \in Scene /\ scene.local \in [Node -> Value \cup {Null}] /\ n \in scene.live
  BY SceneFields DEF SessionTypeOK, Held, Sound, Alive, DrawTransform
<1>2. scene.local[n] # Null /\ v # Null
  BY <1>1, NullIsNothing DEF Held, Sound, Alive
<1>3. x \in [Node -> Value \cup {Null}] /\ \A k \in Node : x[k] = Null <=> scene.local[k] = Null
  BY <1>1, <1>2
<1>4. scene' = [scene EXCEPT !.local = x]
  BY DEF DrawTransform
<1>. HIDE DEF x
<1>. QED BY <1>3, <1>4, LocalHolds

\* An entity of the level is enabled or disabled.
LEMMA SetEnabledHolds ==
    ASSUME SessionTypeOK, Held(scene, level), NEW n \in Node, NEW b \in BOOLEAN, SetEnabled(n, b)
    PROVE  Held(scene', level)
<1> DEFINE s == scene
           t == scene'
           x == [s.active EXCEPT ![n] = b]
<1>. s \in Scene /\ level \in World /\ level # Null
  BY DEF SessionTypeOK, SetEnabled
<1>0. /\ s.active \in [Node -> BOOLEAN] /\ s.nodes \in [World -> SUBSET Node]
      /\ s.parent \in [Node -> Node \cup {Null}]
  BY SceneFields
<1>1. x \in [Node -> BOOLEAN] /\ \A k \in Node : k # n => x[k] = s.active[k]
  BY <1>0
<1>2. t = [s EXCEPT !.active = x]
  BY DEF SetEnabled
<1>3. PICK r \in Above(s.parent, n) : r \in s.nodes[level]
  BY DEF SetEnabled
<1>. HIDE DEF x, s, t
<1>4. t \in Scene /\ t.active = x
  BY <1>1, <1>2 DEF Scene
<1>5. /\ t.live = s.live /\ t.parent = s.parent /\ t.children = s.children /\ t.local = s.local
      /\ t.home = s.home /\ t.name = s.name /\ t.entities = s.entities
      /\ t.byName = s.byName /\ t.worlds = s.worlds /\ t.activeWorld = s.activeWorld
      /\ t.worldOf = s.worldOf /\ t.nodes = s.nodes /\ t.roots = s.roots
      /\ t.rootsValid = s.rootsValid /\ t.levels = s.levels /\ t.currentLevel = s.currentLevel
      /\ t.touchedFreed = s.touchedFreed
  BY <1>2 DEF Scene
<1>6. Sound(s) /\ Tables(s, level) /\ Reached(s, level)
  BY DEF Held, s
<1>7. r \in s.live /\ s.home[r] = level
  BY <1>3, <1>6 DEF Tables
<1>8. n \in s.live
  <2>1. CASE n \notin s.live
    BY <1>3, <1>6, <1>7, <2>1, FreeAddress
  <2>. QED BY <2>1
<1>9. s.parent[n] = Null => n \in s.nodes[level] /\ s.home[n] = level
  <2>1. s.parent[n] = Null => Above(s.parent, n) = {n}
    BY <1>0, AboveStep
  <2>. QED BY <1>3, <1>7, <2>1
<1>10. Sound(t)
  <2>1. Alive(t)
    BY <1>1, <1>4, <1>5, <1>6, <1>8 DEF Sound, Alive
  <2>. QED BY <1>4, <1>5, <1>6, <2>1 DEF Sound, Forest, Named, Homed, Loaded
<1>11. Tables(t, level)
  BY <1>5, <1>6 DEF Tables
<1>12. Reached(t, level)
  <2> SUFFICES ASSUME NEW k \in t.live, t.parent[k] = Null, t.active[k]
               PROVE  t.home[k] \in t.levels \cup {level} /\ (t.home[k] = level => k \in t.nodes[level])
    BY DEF Reached
  <2>0. k \in Node
    BY <1>4, SceneFields
  <2>1. CASE k = n
    BY <1>5, <1>9, <2>1
  <2>2. CASE k # n
    BY <1>1, <1>4, <1>5, <1>6, <2>0, <2>2 DEF Reached
  <2>. QED BY <2>1, <2>2
<1>. QED BY <1>5, <1>10, <1>11, <1>12 DEF Held, s, t

\* What is copied lists parents before their children.
LEMMA DescribedListed ==
    ASSUME scene \in Scene, Sound(scene), NEW tops \in SUBSET Node, NEW o \in OrdersOf(Exported(tops))
    PROVE  Listed(Described(o))
<1> DEFINE C == Exported(tops)
           k == Cardinality(C)
           parent == scene.parent
           Precedes(i, j) == o[j] = <<o[i][1], parent[o[i][2]]>>
<1>0. /\ parent \in [Node -> Node \cup {Null}] /\ Grounded(parent)
      /\ scene.name \in [Node -> Name \cup {Null}]
  BY SceneFields DEF Sound
<1>1. IsFiniteSet(C) /\ C \subseteq tops \X Node
  <2>1. IsFiniteSet(tops)
    BY SceneAssumption, FS_Subset
  <2>2. IsFiniteSet(tops \X Node)
    BY <2>1, SceneAssumption, FS_Product
  <2>3. C \in SUBSET (tops \X Node)
    BY DEF Exported
  <2>. HIDE DEF C
  <2>. QED BY <2>2, <2>3, FS_Subset
<1>2. k \in Nat
  <2>. HIDE DEF C
  <2>. QED BY <1>1, FS_CardinalityType
<1>3. /\ o \in [1 .. k -> C] /\ DOMAIN o = 1 .. k
      /\ \A i, j \in 1 .. k : o[i] = o[j] => i = j
      /\ \A i, j \in 1 .. k : Precedes(i, j) => j < i
  BY DEF OrdersOf
<1>4. \A c \in C : \E j \in 1 .. k : o[j] = c
  <2>. HIDE DEF C
  <2>1. o \in Injection(1 .. k, C)
    BY <1>3 DEF Injection, IsInjective
  <2>2. Cardinality(1 .. k) = k
    BY <1>2, FS_Interval
  <2>3. o \in Surjection(1 .. k, C)
    BY <1>1, <2>1, <2>2, FS_Injection
  <2>. QED BY <1>3, <2>3 DEF Surjection
<1>5. ASSUME NEW i \in 1 .. k
      PROVE  /\ Described(o)[i] \in Item
             /\ Described(o)[i].up < i
  <2> DEFINE a == o[i][1]
             c == o[i][2]
             up == IF c = a THEN 0 ELSE CHOOSE j \in DOMAIN o : o[j] = <<o[i][1], parent[o[i][2]]>>
  <2>1. a \in tops /\ c \in Node /\ a \in Node /\ a \in Above(parent, c)
    BY <1>3 DEF Exported
  <2>2. Described(o)[i] = [name |-> scene.name[c], up |-> up]
    BY <1>3 DEF Described
  <2>3. up \in Nat /\ up < i
    <3>1. CASE c = a
      BY <1>2, <3>1
    <3>2. CASE c # a
      <4>1. Above(parent, c) = {c} \cup (IF parent[c] = Null THEN {} ELSE Above(parent, parent[c]))
        BY <1>0, <2>1, AboveStep
      <4>2. parent[c] \in Node /\ a \in Above(parent, parent[c])
        BY <1>0, <2>1, <3>2, <4>1
      <4>3. <<a, parent[c]>> \in C
        BY <2>1, <4>2 DEF Exported
      <4>4. \E j \in DOMAIN o : o[j] = <<o[i][1], parent[o[i][2]]>>
        BY <1>3, <1>4, <4>3
      <4>5. up \in 1 .. k /\ Precedes(i, up)
        BY <1>3, <3>2, <4>4
      <4>. HIDE DEF up, Precedes
      <4>. QED BY <1>2, <1>3, <4>5
    <3>. QED BY <3>1, <3>2
  <2>. HIDE DEF up
  <2>4. scene.name[c] \in Name \cup {Null}
    BY <1>0, <2>1
  <2>. QED BY <2>2, <2>3, <2>4 DEF Item
<1>6. DOMAIN Described(o) = 1 .. k /\ Described(o) = [i \in 1 .. k |-> Described(o)[i]]
  BY <1>3 DEF Described
<1>7. Described(o) \in Seq(Item)
  <2>1. Described(o) \in [1 .. k -> Item]
    BY <1>5, <1>6
  <2>. QED BY <1>2, <2>1
<1>. QED BY <1>5, <1>6, <1>7 DEF Listed

\* A scene that is held has its type.
LEMMA HeldTyped ==
    ASSUME NEW s, NEW l, Held(s, l)
    PROVE  s \in Scene /\ \A n \in Node : n \in s.live <=> s.local[n] # Null
BY DEF Held, Sound, Alive

\* Restoring keeps the level held and puts back what the snapshot has of the
\* entities that a traversal finds.
LEMMA RestoredHolds ==
    ASSUME NEW s, level \in World, Held(s, level), NEW snap \in [Node -> Value \cup {Null}]
    PROVE  /\ Held(Restored(s, snap), level)
           /\ \A n \in Visited(Restored(s, snap), level) :
                 snap[n] # Null => Restored(s, snap).local[n] = snap[n]
<1> DEFINE t == Traverse(s, level)
           r == Restored(s, snap)
           x == [k \in Node |-> IF k \in Visited(t, level) /\ snap[k] # Null THEN snap[k] ELSE t.local[k]]
<1>1. Held(t, level) /\ Traversed(t, level)
  BY TraverseHolds
<1>2. t \in Scene /\ t.local \in [Node -> Value \cup {Null}]
  BY <1>1, HeldTyped, SceneFields
<1>3. r = [t EXCEPT !.local = x]
  BY <1>2 DEF Restored, Scene
<1>4. ASSUME NEW k \in Visited(t, level) PROVE k \in Node /\ t.local[k] # Null
  <2>1. k \in t.live
    BY <1>1, VisitedLive
  <2>2. k \in Node
    BY DEF Visited
  <2>. QED BY <1>1, <2>1, <2>2, HeldTyped
<1>. HIDE DEF t, r
<1>5. x \in [Node -> Value \cup {Null}] /\ \A k \in Node : x[k] = Null <=> t.local[k] = Null
  BY <1>2, <1>4
<1>6. \A k \in Visited(t, level) : snap[k] # Null => x[k] = snap[k]
  BY <1>4
<1>. HIDE DEF x
<1>7. Held(r, level) /\ r.local = x /\ Visited(r, level) = Visited(t, level)
  BY <1>1, <1>3, <1>5, LocalHolds
<1>. QED BY <1>6, <1>7 DEF r

\* A snapshot is taken, or none when there is no level.
LEMMA SnapshotHolds ==
    ASSUME SessionTypeOK, Held(scene, level), SavePlayModeSnapshot
    PROVE  /\ Held(scene', level)
           /\ snapshot' \in [Node -> Value \cup {Null}]
           /\ hasCamera' \in BOOLEAN
           /\ level # Null => hasCamera'
<1>1. CASE level = Null
  BY <1>1 DEF SavePlayModeSnapshot, NoSnapshot
<1>2. CASE level # Null
  <2>1. scene' = Traverse(scene, level) /\ level \in World
    BY <1>2 DEF SavePlayModeSnapshot, SessionTypeOK
  <2>2. Held(scene', level)
    BY <2>1, TraverseHolds
  <2>3. scene.local \in [Node -> Value \cup {Null}]
    BY SceneFields DEF SessionTypeOK
  <2>. QED BY <1>2, <2>2, <2>3 DEF SavePlayModeSnapshot
<1>. QED BY <1>1, <1>2

\* Initially nothing exists.
LEMMA SessionInitHolds == SessionInit => SessionIInv
<1> SUFFICES ASSUME SessionInit PROVE SessionIInv
  OBVIOUS
<1>1. NoScene \in Scene
  BY DEF NoScene, Scene
<1>2. Grounded(NoScene.parent)
  BY NullIsNothing DEF NoScene, Grounded
<1>3. Sound(NoScene)
  <2>1. Alive(NoScene) /\ Loaded(NoScene) /\ Homed(NoScene)
    BY DEF NoScene, Alive, Loaded, Homed
  <2>2. Forest(NoScene)
    BY NullIsNothing DEF NoScene, Forest
  <2>3. Named(NoScene)
    BY DEF NoScene, Named
  <2>. QED BY <1>1, <1>2, <2>1, <2>2, <2>3 DEF Sound
<1>4. Held(scene, level)
  BY <1>3 DEF SessionInit, Held, Reached, NoScene
<1>5. Listed(clipboard)
  BY DEF SessionInit, Listed
<1>6. SessionTypeOK
  <2>1. scene \in Scene /\ \A n \in Node : n \in scene.live <=> scene.local[n] # Null
    BY <1>4, HeldTyped
  <2>2. clipboard \in Seq(Item)
    BY <1>5 DEF Listed
  <2>3. snapshot \in [Node -> Value \cup {Null}]
    BY DEF SessionInit, NoSnapshot
  <2>. QED BY <2>1, <2>2, <2>3 DEF SessionInit, SessionTypeOK
<1>. QED BY <1>4, <1>5, <1>6 DEF SessionIInv, BeganHeld, SessionInit

\* The handlers that show a level, or leave it.
LEMMA ModalsHold ==
    ASSUME SessionIInv, UNCHANGED uses, Modals \/ OnLevelLoaded \/ OnLevelLoadFailed
    PROVE  SessionIInv'
<1>. SessionTypeOK /\ Held(scene, level) /\ Listed(clipboard) /\ BeganHeld
  BY DEF SessionIInv
<1>1. ASSUME NEW p \in LevelPath, OnNewScene(p) PROVE SessionIInv'
  <2>1. Listed(<< >>)
    BY DEF Listed
  <2>2. level' \in World /\ Held(scene', level') /\ began' = Null
    BY <1>1, <2>1, ShowHolds DEF OnNewScene
  <2>3. SessionTypeOK'
    BY <1>1, <2>2, HeldTyped DEF OnNewScene, SessionTypeOK
  <2>. QED BY <1>1, <2>2, <2>3 DEF OnNewScene, SessionIInv, BeganHeld, Listed
<1>2. ASSUME NEW p \in LevelPath, OpenLevel(p) PROVE SessionIInv'
  BY <1>2 DEF OpenLevel, playing, SessionIInv, SessionTypeOK, BeganHeld, Listed
<1>3. ASSUME NEW p \in LevelPath, DeleteLevelFile(p) PROVE SessionIInv'
  <2>1. Held(scene', Null)
    BY <1>3, UnloadHolds DEF DeleteLevelFile
  <2>2. SessionTypeOK'
    BY <1>3, <2>1, HeldTyped DEF DeleteLevelFile, SessionTypeOK
  <2>. QED BY <1>3, <2>1, <2>2 DEF DeleteLevelFile, SessionIInv, BeganHeld, Listed
<1>4. ASSUME OnLevelLoaded PROVE SessionIInv'
  <2>1. PICK items \in Desc : Show(items)
    BY <1>4 DEF OnLevelLoaded
  <2>2. Listed(items)
    BY DescAssumption DEF Listed
  <2>3. level' \in World /\ Held(scene', level') /\ began' = Null
    BY <2>1, <2>2, ShowHolds
  <2>4. SessionTypeOK'
    BY <1>4, <2>3, HeldTyped DEF OnLevelLoaded, SessionTypeOK
  <2>. QED BY <1>4, <2>3, <2>4 DEF OnLevelLoaded, SessionIInv, BeganHeld, Listed
<1>5. ASSUME OnLevelLoadFailed PROVE SessionIInv'
  BY <1>5 DEF OnLevelLoadFailed, playing, SessionIInv, SessionTypeOK, BeganHeld, Listed
<1>. QED BY <1>1, <1>2, <1>3, <1>4, <1>5 DEF Modals

\* The handlers that change the scene and nothing else of the session.
LEMMA SceneChanges ==
    ASSUME SessionIInv, UNCHANGED <<uses, session, playing>>, Held(scene', level)
    PROVE  SessionIInv'
<1>1. SessionTypeOK'
  BY HeldTyped DEF session, playing, SessionIInv, SessionTypeOK
<1>. QED BY <1>1 DEF session, playing, SessionIInv, BeganHeld, Listed

\* The panels, the menu, and whoever disables an entity.
LEMMA PanelsHold ==
    ASSUME SessionIInv, UNCHANGED uses,
           Panels \/ OnMenuItemClicked \/ \E n \in Node, b \in BOOLEAN : SetEnabled(n, b)
    PROVE  SessionIInv'
<1>. SessionTypeOK /\ Held(scene, level) /\ Listed(clipboard) /\ BeganHeld
  BY DEF SessionIInv
<1>1. ASSUME OnDraw PROVE SessionIInv'
  <2>1. level \in World /\ scene' = Traverse(scene, level) /\ UNCHANGED <<session, playing>>
    BY <1>1 DEF OnDraw, SessionTypeOK
  <2>2. Held(scene', level)
    BY <2>1, TraverseHolds
  <2>. QED BY <2>1, <2>2, SceneChanges
<1>2. ASSUME NEW n \in Node, OnNodeClicked(n) PROVE SessionIInv'
  <2>1. selection' \in SUBSET Node
    BY <1>2 DEF OnNodeClicked, SessionTypeOK
  <2>. QED BY <1>2, <2>1 DEF OnNodeClicked, playing, SessionIInv, SessionTypeOK, BeganHeld, Listed
<1>3. ASSUME OnCopy PROVE SessionIInv'
  <2> DEFINE tops == {n \in selection \cap scene.entities : scene.parent[n] \notin selection}
  <2>1. PICK o \in OrdersOf(Exported(tops)) : clipboard' = Described(o)
    BY <1>3 DEF OnCopy
  <2>2. tops \in SUBSET Node /\ Sound(scene) /\ scene \in Scene
    BY DEF SessionTypeOK, Held
  <2>. HIDE DEF tops
  <2>3. Listed(clipboard')
    BY <2>1, <2>2, DescribedListed
  <2>4. SessionTypeOK'
    BY <1>3, <2>3 DEF OnCopy, playing, SessionTypeOK, Listed
  <2>. QED BY <1>3, <2>3, <2>4 DEF OnCopy, playing, SessionIInv, BeganHeld
<1>4. ASSUME OnPaste PROVE SessionIInv'
  <2>1. Held(scene', level)
    BY <1>4, OnPasteHolds
  <2>. QED BY <1>4, <2>1, SceneChanges DEF OnPaste
<1>5. ASSUME NEW n \in Node, NEW v \in Value, DrawTransform(n, v) PROVE SessionIInv'
  <2>1. Held(scene', level)
    BY <1>5, DrawTransformHolds
  <2>. QED BY <1>5, <2>1, SceneChanges DEF DrawTransform
<1>6. ASSUME OnSave PROVE SessionIInv'
  <2>1. level \in World /\ scene' = GetRootNodes(scene, level)
    BY <1>6 DEF OnSave, SessionTypeOK
  <2>2. Held(scene', level)
    BY <2>1, TraverseHolds
  <2>3. path' \in LevelPath \cup {Null}
    BY <1>6, SessionAssumption DEF OnSave, SessionTypeOK
  <2>4. SessionTypeOK'
    BY <1>6, <2>2, <2>3, HeldTyped DEF OnSave, playing, SessionTypeOK
  <2>. QED BY <1>6, <2>2, <2>4 DEF OnSave, playing, SessionIInv, BeganHeld, Listed
<1>7. ASSUME CreateEmptyEntity PROVE SessionIInv'
  <2>1. Held(scene', level)
    BY <1>7, CreateEmptyEntityHolds
  <2>. QED BY <1>7, <2>1, SceneChanges DEF CreateEmptyEntity
<1>8. ASSUME NEW n \in Node, NEW b \in BOOLEAN, SetEnabled(n, b) PROVE SessionIInv'
  <2>1. Held(scene', level)
    BY <1>8, SetEnabledHolds
  <2>. QED BY <1>8, <2>1, SceneChanges DEF SetEnabled
<1>. QED BY <1>1, <1>2, <1>3, <1>4, <1>5, <1>6, <1>7, <1>8 DEF Panels, OnMenuItemClicked

\* Play mode.
LEMMA PlayModeHolds ==
    ASSUME SessionIInv, UNCHANGED uses, PlayMode
    PROVE  SessionIInv'
<1>. SessionTypeOK /\ Held(scene, level) /\ Listed(clipboard) /\ BeganHeld
  BY DEF SessionIInv
<1>1. CASE EnterPlayMode
  <2>1. /\ Held(scene', level)
        /\ snapshot' \in [Node -> Value \cup {Null}]
        /\ hasCamera' \in BOOLEAN
        /\ level # Null => hasCamera'
    BY <1>1, SnapshotHolds DEF EnterPlayMode
  <2>2. SessionTypeOK'
    BY <1>1, <2>1, HeldTyped DEF EnterPlayMode, session, SessionTypeOK
  <2>3. BeganHeld'
    BY <1>1, <2>1 DEF EnterPlayMode, session, BeganHeld
  <2>. QED BY <1>1, <2>1, <2>2, <2>3 DEF EnterPlayMode, session, SessionIInv, Listed
<1>2. CASE PausePlayMode
  BY <1>2 DEF PausePlayMode, session, SessionIInv, SessionTypeOK, BeganHeld, Listed
<1>3. CASE StopPlayMode
  <2>1. /\ Held(scene', level)
        /\ snapshot' \in [Node -> Value \cup {Null}]
        /\ hasCamera' \in BOOLEAN
    <3>1. CASE UNCHANGED <<scene, snapshot, hasCamera>>
      BY <3>1 DEF SessionTypeOK
    <3>2. CASE ~ UNCHANGED <<scene, snapshot, hasCamera>>
      <4>1. /\ scene' = Restored(scene, snapshot) /\ level # Null
            /\ snapshot' = NoSnapshot /\ ~hasCamera'
            /\ hasCamera' \in BOOLEAN
        BY <1>3, <3>2 DEF StopPlayMode, RestorePlayModeSnapshot
      <4>2. level \in World /\ snapshot \in [Node -> Value \cup {Null}]
        BY <4>1 DEF SessionTypeOK
      <4>. QED BY <4>1, <4>2, RestoredHolds DEF NoSnapshot
    <3>. QED BY <3>1, <3>2
  <2>2. SessionTypeOK'
    BY <1>3, <2>1, HeldTyped DEF StopPlayMode, session, SessionTypeOK
  <2>. QED BY <1>3, <2>1, <2>2 DEF StopPlayMode, session, SessionIInv, BeganHeld, Listed
<1>4. CASE StepFrame
  <2>1. /\ Held(scene', level)
        /\ snapshot' \in [Node -> Value \cup {Null}]
        /\ hasCamera' \in BOOLEAN
    <3>1. CASE play = "Paused"
      BY <1>4, <3>1 DEF StepFrame, SessionTypeOK
    <3>2. CASE play # "Paused" /\ level = Null
      BY <1>4, <3>2, SnapshotHolds DEF StepFrame
    <3>3. CASE play # "Paused" /\ level # Null
      <4>1. level \in World /\ scene' = Traverse(scene, level)
        BY <1>4, <3>3 DEF StepFrame, SessionTypeOK
      <4>2. Held(scene', level)
        BY <4>1, TraverseHolds
      <4>. QED BY <1>4, <3>3, <4>2 DEF StepFrame, NoSnapshot
    <3>. QED BY <3>1, <3>2, <3>3
  <2>2. SessionTypeOK'
    BY <1>4, <2>1, HeldTyped DEF StepFrame, session, SessionTypeOK
  <2>3. BeganHeld'
    BY <1>4 DEF StepFrame, session, SessionTypeOK, BeganHeld
  <2>. QED BY <1>4, <2>1, <2>2, <2>3 DEF StepFrame, session, SessionIInv, Listed
<1>. QED BY <1>1, <1>2, <1>3, <1>4 DEF PlayMode

\* Every step keeps the invariant.
LEMMA SessionNextHolds == SessionIInv /\ [SessionNext]_sessionVars => SessionIInv'
<1> SUFFICES ASSUME SessionIInv, [SessionNext]_sessionVars PROVE SessionIInv'
  OBVIOUS
<1>1. CASE SessionNext
  BY <1>1, ModalsHold, PanelsHold, PlayModeHolds DEF SessionNext
<1>2. CASE UNCHANGED sessionVars
  BY <1>2 DEF sessionVars, session, playing, SessionIInv, SessionTypeOK, BeganHeld, Listed
<1>. QED BY <1>1, <1>2

\* The scene and what the session keeps of it agree in every reachable state.
THEOREM SessionInvariant == SessionSpec => []SessionIInv
<1>1. SessionInit => SessionIInv
  BY SessionInitHolds
<1>2. SessionIInv /\ [SessionNext]_sessionVars => SessionIInv'
  BY SessionNextHolds
<1>. QED BY <1>1, <1>2, PTL DEF SessionSpec

\* The entities form a forest over live entities, a look-up by name finds live
\* ones only, and the editor's handle is that of the current, loaded level.
THEOREM SessionSceneSound == SessionSpec => []SceneSound
<1>1. SessionIInv => SceneSound
  <2> SUFFICES ASSUME SessionIInv PROVE SceneSound
    OBVIOUS
  <2>1. SessionTypeOK /\ Held(scene, level) /\ Sound(scene)
    BY DEF SessionIInv, Held
  <2>2. TreeSound
    BY <2>1 DEF Sound, Forest, TreeSound
  <2>3. NamesFindLive
    BY <2>1 DEF Sound, Named, NamesFindLive
  <2>4. HandleIsLoaded
    BY <2>1 DEF Held, Sound, Loaded, HandleIsLoaded
  <2>. QED BY <2>1, <2>2, <2>3, <2>4 DEF SceneSound
<1>. QED BY <1>1, SessionInvariant, PTL

\* No handler of the session dereferences an entity that has been deleted.
THEOREM SessionNeverTouchesFreed == SessionSpec => []NeverTouchesFreed
<1>1. SessionIInv => NeverTouchesFreed
  BY DEF SessionIInv, Held, NeverTouchesFreed
<1>. QED BY <1>1, SessionInvariant, PTL

\* Of a level that is unloaded no entity is left but those that the traversal
\* passed by.
THEOREM SessionUnloadLeavesNothing == SessionSpec => []UnloadLeavesNothing
<1>1. SessionIInv => UnloadLeavesNothing
  <2> SUFFICES ASSUME SessionIInv, NEW n \in scene.live, scene.home[n] \notin scene.levels,
                      \A m \in Above(scene.parent, n) : scene.active[m]
               PROVE  FALSE
    BY DEF UnloadLeavesNothing
  <2>1. Sound(scene) /\ scene \in Scene /\ Reached(scene, Null)
    BY HeldReached DEF SessionIInv, Held, Sound
  <2>2. /\ scene.parent \in [Node -> Node \cup {Null}] /\ Grounded(scene.parent)
        /\ n \in Node /\ scene.home[n] \in World
    BY <2>1, SceneFields DEF Sound, Homed
  <2>3. PICK t \in Above(scene.parent, n) : scene.parent[t] = Null
    BY <2>2, TopExists
  <2>4. t \in scene.live /\ scene.home[t] = scene.home[n]
    BY <2>1, <2>2, AboveHome
  <2>5. scene.home[t] \in scene.levels \cup {Null}
    BY <2>1, <2>3, <2>4 DEF Reached
  <2>. QED BY <2>2, <2>4, <2>5, NullIsNothing
<1>. QED BY <1>1, SessionInvariant, PTL

\* Stopping puts back every transform that was there when play began.
THEOREM SessionStopRestores == SessionSpec => StopRestores
<1>1. SessionIInv /\ [SessionNext]_sessionVars =>
        [ (play # "Stopped" /\ play' = "Stopped" /\ began # Null)
          => \A n \in Visited(scene', level) : began[n] # Null => scene'.local[n] = began[n] ]_sessionVars
  <2> SUFFICES ASSUME SessionIInv, SessionNext, play # "Stopped", play' = "Stopped", began # Null,
                      NEW n \in Visited(scene', level), began[n] # Null
               PROVE  scene'.local[n] = began[n]
    OBVIOUS
  <2>1. StopPlayMode
    <3>1. CASE Modals \/ OnLevelLoaded \/ OnLevelLoadFailed
      BY <3>1 DEF Modals, OnNewScene, OpenLevel, DeleteLevelFile, OnLevelLoaded, OnLevelLoadFailed, playing
    <3>2. CASE Panels \/ OnMenuItemClicked
      BY <3>2 DEF Panels, OnMenuItemClicked, OnSave, CreateEmptyEntity, OnDraw, OnNodeClicked,
                  OnCopy, OnPaste, DrawTransform, playing
    <3>3. CASE \E k \in Node, b \in BOOLEAN : SetEnabled(k, b)
      BY <3>3 DEF SetEnabled, playing
    <3>4. CASE PlayMode
      BY <3>4 DEF PlayMode, EnterPlayMode, PausePlayMode, StepFrame
    <3>. QED BY <3>1, <3>2, <3>3, <3>4 DEF SessionNext
  <2>2. SessionTypeOK /\ Held(scene, level) /\ began = snapshot /\ level # Null /\ hasCamera
    BY DEF SessionIInv, BeganHeld
  <2>3. level \in World /\ snapshot \in [Node -> Value \cup {Null}]
    BY <2>2 DEF SessionTypeOK
  <2>4. scene' = Restored(scene, snapshot)
    BY <2>1, <2>2 DEF StopPlayMode, RestorePlayModeSnapshot
  <2>. QED BY <2>2, <2>3, <2>4, RestoredHolds
<1>. QED BY <1>1, SessionInvariant, PTL DEF SessionSpec, StopRestores

-----------------------------------------------------------------------------
(* The editor's settings: bindings of keys *)

Binding == KeyCombo \cup {NoKey}

\* The bindings of some actions.
SomeBindings == UNION {[S -> Binding] : S \in SUBSET Action}

KeyTable == [current : SomeBindings,
             lookup : UNION {[S -> Action] : S \in SUBSET KeyCombo},
             shared : SUBSET KeyCombo]

\* The two tables agree, but for combinations that two actions have had.
Agreeing(k) ==
    /\ \A c \in DOMAIN k.lookup :
          k.lookup[c] \in DOMAIN k.current /\ k.current[k.lookup[c]] = c
    /\ \A a \in DOMAIN k.current :
          k.current[a] \in KeyCombo \ k.shared
          => k.current[a] \in DOMAIN k.lookup /\ k.lookup[k.current[a]] = a
    /\ Shared(k.current) \subseteq k.shared

HeldTable == {k \in KeyTable : Agreeing(k)}

\* The file is what the last session that saved had, which a new one has again.
KeyFileHeld ==
    /\ bindingsFile # NoFile => bindingsFile \in SomeBindings /\ saved.keys = bindingsFile
    /\ fresh = "keys" => \A a \in DOMAIN saved.keys : keys.current[a] = saved.keys[a]

-----------------------------------------------------------------------------
(* Layouts *)

LayoutName == CustomLayout \cup {"Default", "2D", "3D", "Wide"}
Viewport == {"Single", "Quad", "TwoHorizontal", "TwoVertical"}
PanelState == [visible : BOOLEAN, docked : BOOLEAN, rect : LayoutName \cup {NoRect, "moved"}]
Layout == [name : LayoutName, isBuiltin : BOOLEAN, viewport : Viewport,
           panels : [Panel -> PanelState]]
Showing == [current : LayoutName, viewport : Viewport, panels : [Panel -> PanelState]]

\* The layouts built in come first, and the others are custom.
LayoutsHeld(ls) ==
    /\ ls \in Seq(Layout) /\ Len(ls) >= 4
    /\ \A i \in 1 .. 4 : ls[i] = BuiltinLayouts[i]
    /\ \A i \in 5 .. Len(ls) : ~ls[i].isBuiltin

\* What SaveToFile writes of a layout, and of all that are custom.
Line(l) == [name |-> l.name, viewport |-> l.viewport,
            visible |-> [p \in DOMAIN l.panels |-> l.panels[p].visible]]
Lines(ls) == [i \in 1 .. Len(ls) - 4 |-> Line(ls[i + 4])]

LayoutFileHeld ==
    /\ layoutFile # NoFile =>
          /\ layoutFile = [shown |-> saved.layouts.shown, custom |-> Lines(saved.layouts.layouts)]
          /\ saved.layouts.shown \in Showing /\ LayoutsHeld(saved.layouts.layouts)
    /\ fresh = "layouts" =>
          /\ shown = saved.layouts.shown
          /\ \A name \in CustomLayout : Known(layouts, name) = Known(saved.layouts.layouts, name)

-----------------------------------------------------------------------------
(* Preferences *)

PrefBindings == UNION {[S -> {"Ctrl+Z", "F1"}] : S \in SUBSET (KeyOfPref \cup {"undo"})}
Tool == [name : Seq(Word), path : Seq(Word), arguments : Seq(Word)]
Prefs == [values : [Pref -> Number], bindings : PrefBindings, tools : Seq(Tool)]

\* An action with a default is always bound.
PrefsHeld(p) == p \in Prefs /\ "undo" \in DOMAIN p.bindings

\* What is written of preferences.
TextOf(p) ==
    [values |-> [q \in Written |-> Printed(q, p.values[q])], bindings |-> p.bindings,
     lines |-> [i \in DOMAIN p.tools |-> LineOf(p.tools[i])]]

\* Preferences are what the file can tell of those that were saved.
Told(p) ==
    /\ \A q \in Written : p.values[q] = Printed(q, saved.prefs.values[q])
    /\ p.bindings = saved.prefs.bindings
    /\ Len(p.tools) = Len(saved.prefs.tools)
    /\ \A i \in DOMAIN saved.prefs.tools :
          Tellable(saved.prefs.tools[i]) => p.tools[i] = saved.prefs.tools[i]

PrefsFileHeld ==
    /\ prefsFile # NoFile =>
          /\ PrefsHeld(saved.prefs)
          /\ prefsFile = TextOf(saved.prefs)
    /\ fresh = "prefs" => Told(prefs)

-----------------------------------------------------------------------------
(* The inductive invariant: each object by itself, and what was saved. *)

KeysPart == keys \in HeldTable /\ rebinding \in Action \cup {NoAction} /\ KeyFileHeld
LayoutsPart == LayoutsHeld(layouts) /\ shown \in Showing /\ LayoutFileHeld
PrefsPart == PrefsHeld(prefs) /\ PrefsFileHeld

Object == {"keys", "layouts", "prefs"}

SettingsIInv ==
    /\ KeysPart /\ LayoutsPart /\ PrefsPart
    /\ DOMAIN saved = Object /\ saved = [object \in Object |-> saved[object]]

\* The fields of a table.
LEMMA TableFields ==
    ASSUME NEW k \in KeyTable
    PROVE  /\ DOMAIN k.current \subseteq Action /\ k.current \in [DOMAIN k.current -> Binding]
           /\ DOMAIN k.lookup \subseteq KeyCombo /\ k.lookup \in [DOMAIN k.lookup -> Action]
           /\ k.shared \subseteq KeyCombo
           /\ k = [current |-> k.current, lookup |-> k.lookup, shared |-> k.shared]
<1>1. k.current \in SomeBindings /\ k.lookup \in UNION {[S -> Action] : S \in SUBSET KeyCombo}
  BY DEF KeyTable
<1>2. PICK S \in SUBSET Action : k.current \in [S -> Binding]
  BY <1>1 DEF SomeBindings
<1>3. PICK U \in SUBSET KeyCombo : k.lookup \in [U -> Action]
  BY <1>1
<1>. QED BY <1>2, <1>3 DEF KeyTable

\* And conversely.
LEMMA TableMade ==
    ASSUME NEW current, NEW lookup, NEW shared \in SUBSET KeyCombo,
           DOMAIN current \subseteq Action, current \in [DOMAIN current -> Binding],
           DOMAIN lookup \subseteq KeyCombo, lookup \in [DOMAIN lookup -> Action]
    PROVE  [current |-> current, lookup |-> lookup, shared |-> shared] \in KeyTable
<1>1. current \in SomeBindings
  BY DEF SomeBindings
<1>2. lookup \in UNION {[S -> Action] : S \in SUBSET KeyCombo}
  OBVIOUS
<1>. QED BY <1>1, <1>2 DEF KeyTable

\* Binding an action to a combination, in the table of combinations.
LEMMA BoundTable ==
    ASSUME NEW lookup, DOMAIN lookup \subseteq KeyCombo, lookup \in [DOMAIN lookup -> Action],
           NEW combo \in Binding, NEW action \in Action
    PROVE  LET t == Bound(lookup, combo, action)
           IN  /\ DOMAIN t \subseteq KeyCombo /\ t \in [DOMAIN t -> Action]
               /\ \A c \in DOMAIN t :
                     \/ c = combo /\ t[c] = action
                     \/ c # combo /\ c \in DOMAIN lookup /\ t[c] = lookup[c]
               /\ \A c \in DOMAIN lookup \ {combo} : c \in DOMAIN t /\ t[c] = lookup[c]
               /\ combo \in KeyCombo => combo \in DOMAIN t /\ t[combo] = action
<1>1. CASE combo = NoKey
  BY <1>1, SettingsAssumption DEF Bound
<1>2. CASE combo # NoKey
  BY <1>2 DEF Bound, With, Binding
<1>. QED BY <1>1, <1>2

\* Binding an action keeps tables that agree, and changes the binding of no other.
LEMMA SetBindingKeeps ==
    ASSUME NEW k \in HeldTable, NEW action \in Action, NEW combo \in Binding
    PROVE  LET t == SetBindingIn(k, action, combo)
           IN  /\ t \in HeldTable /\ DOMAIN t.current = DOMAIN k.current
               /\ \A a \in DOMAIN k.current : t.current[a] = IF a = action THEN combo ELSE k.current[a]
<1>1. CASE action \notin Registered(k)
  BY <1>1 DEF SetBindingIn, Registered
<1>2. CASE action \in Registered(k)
  <2> DEFINE current == [k.current EXCEPT ![action] = combo]
             erased == Erase(k.lookup, k.current[action])
             lookup == Bound(erased, combo, action)
             shared == k.shared \cup Shared(current)
             t == [current |-> current, lookup |-> lookup, shared |-> shared]
  <2>1. SetBindingIn(k, action, combo) = t
    BY <1>2 DEF SetBindingIn
  <2>2. k \in KeyTable /\ Agreeing(k) /\ action \in DOMAIN k.current
    BY <1>2 DEF HeldTable, Registered
  <2>3. /\ DOMAIN k.current \subseteq Action /\ k.current \in [DOMAIN k.current -> Binding]
        /\ DOMAIN k.lookup \subseteq KeyCombo /\ k.lookup \in [DOMAIN k.lookup -> Action]
        /\ k.shared \subseteq KeyCombo
    BY <2>2, TableFields
  <2>4. /\ DOMAIN erased = DOMAIN k.lookup \ {k.current[action]}
        /\ \A c \in DOMAIN erased : erased[c] = k.lookup[c]
        /\ erased = [c \in DOMAIN erased |-> erased[c]]
    BY DEF Erase, Restrict
  <2>5. DOMAIN erased \subseteq KeyCombo /\ erased \in [DOMAIN erased -> Action]
    <3>1. \A c \in DOMAIN erased : erased[c] \in Action
      BY <2>3, <2>4
    <3>. HIDE DEF erased
    <3>. QED BY <2>3, <2>4, <3>1
  <2>6. /\ DOMAIN current = DOMAIN k.current /\ current \in [DOMAIN current -> Binding]
        /\ \A a \in DOMAIN current : current[a] = IF a = action THEN combo ELSE k.current[a]
    BY <2>2, <2>3
  <2>7. /\ DOMAIN lookup \subseteq KeyCombo /\ lookup \in [DOMAIN lookup -> Action]
        /\ \A c \in DOMAIN lookup :
                     \/ c = combo /\ lookup[c] = action
                     \/ c # combo /\ c \in DOMAIN erased /\ lookup[c] = erased[c]
        /\ \A c \in DOMAIN erased \ {combo} : c \in DOMAIN lookup /\ lookup[c] = erased[c]
        /\ combo \in KeyCombo => combo \in DOMAIN lookup /\ lookup[combo] = action
    <3>. HIDE DEF erased
    <3>. QED BY <2>5, BoundTable
  <2>. HIDE DEF erased, lookup, current
  <2>8. shared \in SUBSET KeyCombo /\ Shared(current) \subseteq shared
    BY <2>3 DEF Shared
  <2>9. t \in KeyTable
    <3>. HIDE DEF shared
    <3>. QED BY <2>3, <2>6, <2>7, <2>8, TableMade
  <2>10. ASSUME NEW c \in DOMAIN lookup
         PROVE  lookup[c] \in DOMAIN current /\ current[lookup[c]] = c
    <3>1. CASE c = combo
      BY <2>2, <2>6, <2>7, <3>1
    <3>2. CASE c # combo
      <4>1. c \in DOMAIN k.lookup /\ c # k.current[action] /\ lookup[c] = k.lookup[c]
        BY <2>4, <2>7, <3>2
      <4>2. k.lookup[c] \in DOMAIN k.current /\ k.current[k.lookup[c]] = c
        BY <2>2, <4>1 DEF Agreeing
      <4>. QED BY <2>6, <4>1, <4>2
    <3>. QED BY <3>1, <3>2
  <2>11. ASSUME NEW a \in DOMAIN current, current[a] \in KeyCombo \ shared
         PROVE  current[a] \in DOMAIN lookup /\ lookup[current[a]] = a
    <3>1. CASE a = action
      BY <2>2, <2>6, <2>7, <2>11, <3>1
    <3>2. CASE a # action
      <4> DEFINE c == current[a]
      <4>1. a \in DOMAIN k.current /\ c = k.current[a] /\ c \in KeyCombo \ k.shared
        BY <2>6, <2>11, <3>2
      <4>2. c \in DOMAIN k.lookup /\ k.lookup[c] = a /\ Shared(k.current) \subseteq k.shared
        BY <2>2, <4>1 DEF Agreeing
      <4>3. c # combo
        <5>1. current[action] = combo /\ action \in DOMAIN current
          BY <2>2, <2>6
        <5>2. c = combo => c \in Shared(current)
          BY <3>2, <4>1, <5>1 DEF Shared
        <5>. QED BY <2>11, <5>2
      <4>4. c # k.current[action]
        <5>1. c = k.current[action] => c \in Shared(k.current)
          BY <2>2, <3>2, <4>1 DEF Shared
        <5>. QED BY <4>1, <4>2, <5>1
      <4>. HIDE DEF c
      <4>5. c \in DOMAIN lookup /\ lookup[c] = a
        BY <2>4, <2>7, <4>2, <4>3, <4>4
      <4>. QED BY <4>5 DEF c
    <3>. QED BY <3>1, <3>2
  <2>12. Agreeing(t)
    <3>. HIDE DEF shared
    <3>. QED BY <2>8, <2>10, <2>11 DEF Agreeing
  <2>. QED BY <2>1, <2>6, <2>9, <2>12 DEF HeldTable
<1>. QED BY <1>1, <1>2

\* Registering an action keeps tables that agree, and no binding changes.
LEMMA RegisterKeeps ==
    ASSUME NEW k \in HeldTable, NEW action \in Action
    PROVE  LET t == RegisterActionIn(k, action)
           IN  t \in HeldTable /\ DOMAIN t.current = DOMAIN k.current \cup {action}
<1>1. CASE action \in Registered(k)
  BY <1>1 DEF RegisterActionIn, Registered
<1>2. CASE action \notin Registered(k)
  <2> DEFINE combo == DefaultBinding[action]
             current == With(k.current, action, combo)
             lookup == Bound(k.lookup, combo, action)
             shared == k.shared \cup Shared(current)
             t == [current |-> current, lookup |-> lookup, shared |-> shared]
  <2>1. RegisterActionIn(k, action) = t
    BY <1>2 DEF RegisterActionIn
  <2>2. k \in KeyTable /\ Agreeing(k) /\ action \notin DOMAIN k.current
    BY <1>2 DEF HeldTable, Registered
  <2>3. /\ DOMAIN k.current \subseteq Action /\ k.current \in [DOMAIN k.current -> Binding]
        /\ DOMAIN k.lookup \subseteq KeyCombo /\ k.lookup \in [DOMAIN k.lookup -> Action]
        /\ k.shared \subseteq KeyCombo
    BY <2>2, TableFields
  <2>4. combo \in Binding
    BY SettingsAssumption DEF Action, Binding
  <2>5. /\ DOMAIN current = DOMAIN k.current \cup {action}
        /\ current \in [DOMAIN current -> Binding]
        /\ current[action] = combo /\ \A a \in DOMAIN k.current : current[a] = k.current[a]
    <3>. HIDE DEF combo
    <3>. QED BY <2>2, <2>3, <2>4 DEF With
  <2>6. /\ DOMAIN lookup \subseteq KeyCombo /\ lookup \in [DOMAIN lookup -> Action]
        /\ \A c \in DOMAIN lookup :
                     \/ c = combo /\ lookup[c] = action
                     \/ c # combo /\ c \in DOMAIN k.lookup /\ lookup[c] = k.lookup[c]
        /\ \A c \in DOMAIN k.lookup \ {combo} : c \in DOMAIN lookup /\ lookup[c] = k.lookup[c]
        /\ combo \in KeyCombo => combo \in DOMAIN lookup /\ lookup[combo] = action
    <3>. HIDE DEF combo
    <3>. QED BY <2>3, <2>4, BoundTable
  <2>. HIDE DEF combo, lookup, current
  <2>7. shared \in SUBSET KeyCombo /\ Shared(current) \subseteq shared
    BY <2>3 DEF Shared
  <2>8. t \in KeyTable
    <3>. HIDE DEF shared
    <3>. QED BY <2>3, <2>5, <2>6, <2>7, TableMade
  <2>9. ASSUME NEW c \in DOMAIN lookup
        PROVE  lookup[c] \in DOMAIN current /\ current[lookup[c]] = c
    <3>1. CASE c = combo
      BY <2>5, <2>6, <3>1
    <3>2. CASE c # combo
      BY <2>2, <2>5, <2>6, <3>2 DEF Agreeing
    <3>. QED BY <3>1, <3>2
  <2>10. ASSUME NEW a \in DOMAIN current, current[a] \in KeyCombo \ shared
         PROVE  current[a] \in DOMAIN lookup /\ lookup[current[a]] = a
    <3>1. CASE a = action
      BY <2>5, <2>6, <2>10, <3>1
    <3>2. CASE a # action
      <4> DEFINE c == current[a]
      <4>1. a \in DOMAIN k.current /\ c = k.current[a] /\ c \in KeyCombo \ k.shared
        BY <2>5, <2>10, <3>2
      <4>2. c \in DOMAIN k.lookup /\ k.lookup[c] = a
        BY <2>2, <4>1 DEF Agreeing
      <4>3. c # combo
        <5>1. c = combo => c \in Shared(current)
          BY <2>5, <3>2, <4>1 DEF Shared
        <5>. QED BY <2>10, <5>1
      <4>. HIDE DEF c
      <4>4. c \in DOMAIN lookup /\ lookup[c] = a
        BY <2>6, <4>2, <4>3
      <4>. QED BY <4>4 DEF c
    <3>. QED BY <3>1, <3>2
  <2>11. Agreeing(t)
    <3>. HIDE DEF shared
    <3>. QED BY <2>7, <2>9, <2>10 DEF Agreeing
  <2>. QED BY <2>1, <2>5, <2>8, <2>11 DEF HeldTable
<1>. QED BY <1>1, <1>2

\* So does taking one away.
LEMMA UnregisterKeeps ==
    ASSUME keys \in HeldTable, NEW action \in Registered(keys), UnregisterAction(action)
    PROVE  keys' \in HeldTable
<1> DEFINE current == Restrict(keys.current, DOMAIN keys.current \ {action})
           lookup == Erase(keys.lookup, keys.current[action])
<1>1. keys \in KeyTable /\ Agreeing(keys) /\ action \in DOMAIN keys.current
  BY DEF HeldTable, Registered
<1>2. /\ DOMAIN keys.current \subseteq Action /\ keys.current \in [DOMAIN keys.current -> Binding]
      /\ DOMAIN keys.lookup \subseteq KeyCombo /\ keys.lookup \in [DOMAIN keys.lookup -> Action]
      /\ keys.shared \subseteq KeyCombo
      /\ keys = [current |-> keys.current, lookup |-> keys.lookup, shared |-> keys.shared]
  BY <1>1, TableFields
<1>3. keys' = [current |-> current, lookup |-> lookup, shared |-> keys.shared]
  BY <1>2 DEF UnregisterAction, SetKeys
<1>4. /\ DOMAIN current = DOMAIN keys.current \ {action}
      /\ \A a \in DOMAIN current : current[a] = keys.current[a]
      /\ current = [a \in DOMAIN current |-> current[a]]
  BY DEF Restrict
<1>5. /\ DOMAIN lookup = DOMAIN keys.lookup \ {keys.current[action]}
      /\ \A c \in DOMAIN lookup : lookup[c] = keys.lookup[c]
      /\ lookup = [c \in DOMAIN lookup |-> lookup[c]]
  BY DEF Restrict, Erase
<1>. HIDE DEF current, lookup
<1>6. current \in [DOMAIN current -> Binding]
  <2>1. \A a \in DOMAIN current : current[a] \in Binding
    BY <1>2, <1>4
  <2>. QED BY <1>4, <2>1
<1>7. lookup \in [DOMAIN lookup -> Action]
  <2>1. \A c \in DOMAIN lookup : lookup[c] \in Action
    BY <1>2, <1>5
  <2>. QED BY <1>5, <2>1
<1>8. keys' \in KeyTable
  BY <1>2, <1>3, <1>4, <1>5, <1>6, <1>7, TableMade
<1>9. Shared(current) \subseteq keys.shared
  <2>1. Shared(current) \subseteq Shared(keys.current)
    BY <1>4 DEF Shared
  <2>. QED BY <1>1, <2>1 DEF Agreeing
<1>10. ASSUME NEW c \in DOMAIN lookup
       PROVE  lookup[c] \in DOMAIN current /\ current[lookup[c]] = c
  <2>1. c \in DOMAIN keys.lookup /\ c # keys.current[action] /\ lookup[c] = keys.lookup[c]
    BY <1>5
  <2>2. keys.lookup[c] \in DOMAIN keys.current /\ keys.current[keys.lookup[c]] = c
    BY <1>1, <2>1 DEF Agreeing
  <2>. QED BY <1>4, <2>1, <2>2
<1>11. ASSUME NEW a \in DOMAIN current, current[a] \in KeyCombo \ keys.shared
       PROVE  current[a] \in DOMAIN lookup /\ lookup[current[a]] = a
  <2> DEFINE c == current[a]
  <2>1. a \in DOMAIN keys.current /\ c = keys.current[a] /\ a # action
    BY <1>4
  <2>2. c \in DOMAIN keys.lookup /\ keys.lookup[c] = a /\ Shared(keys.current) \subseteq keys.shared
    BY <1>1, <1>11, <2>1 DEF Agreeing
  <2>3. c # keys.current[action]
    <3>1. c = keys.current[action] => c \in Shared(keys.current)
      BY <1>1, <1>11, <2>1 DEF Shared
    <3>. QED BY <1>11, <2>2, <3>1
  <2>. QED BY <1>5, <2>2, <2>3
<1>12. Agreeing(keys')
  BY <1>3, <1>9, <1>10, <1>11 DEF Agreeing
<1>. QED BY <1>8, <1>12 DEF HeldTable

-----------------------------------------------------------------------------
(* Loops over the actions *)

\* Actions are in the list at some place.
LEMMA Placed ==
    /\ \A i \in 1 .. Len(ActionIds) : ActionIds[i] \in Action
    /\ \A a \in Action : \E i \in 1 .. Len(ActionIds) : ActionIds[i] = a
<1>1. DOMAIN ActionIds = 1 .. Len(ActionIds)
  BY SettingsAssumption
<1>. QED BY <1>1 DEF Action, Range

\* Nothing is registered at first.
LEMMA NoKeysHeld == NoKeys \in HeldTable /\ DOMAIN NoKeys.current = {}
<1> DEFINE none == <<>>
<1>1. DOMAIN none = {} /\ none \in [DOMAIN none -> Binding] /\ none \in [DOMAIN none -> Action]
  OBVIOUS
<1>2. NoKeys = [current |-> none, lookup |-> none, shared |-> {}]
  BY DEF NoKeys
<1>. HIDE DEF none
<1>3. NoKeys \in KeyTable
  BY <1>1, <1>2, TableMade
<1>4. Shared(none) = {}
  BY <1>1 DEF Shared
<1>5. Agreeing(NoKeys)
  BY <1>1, <1>2, <1>4 DEF Agreeing
<1>. QED BY <1>1, <1>2, <1>3, <1>5 DEF HeldTable

\* All actions are registered at the start.
LEMMA AllRegisteredHolds ==
    AllRegistered \in HeldTable /\ DOMAIN AllRegistered.current = Action
<1> DEFINE n == Len(ActionIds)
           T == [i \in 0 .. n |-> {s \in HeldTable : \A j \in 1 .. i : ActionIds[j] \in DOMAIN s.current}]
           G == [i \in 1 .. n |-> [s \in HeldTable |-> RegisterActionIn(s, ActionIds[i])]]
           Whole(f) == f = [i \in 0 .. n |-> IF i = 0 THEN NoKeys
                                             ELSE RegisterActionIn(f[i - 1], ActionIds[i])]
           after == CHOOSE f : Whole(f)
<1>0. n \in Nat /\ n \in 0 .. n /\ 0 \in 0 .. n
  BY SettingsAssumption
<1>1. NoKeys \in HeldTable
  BY NoKeysHeld
<1>2. AllRegistered = after[n]
  BY Zenon DEF AllRegistered, EachAction
<1>3. \A i \in 1 .. n : i \in 0 .. n /\ i # 0 /\ i - 1 \in 0 .. n
  BY <1>0
<1>4. \A i \in 0 .. n : i # 0 => i \in 1 .. n
  BY <1>0
<1>5. ASSUME NEW i \in 1 .. n, NEW s \in T[i - 1] PROVE RegisterActionIn(s, ActionIds[i]) \in T[i]
  <2>1. ActionIds[i] \in Action /\ s \in HeldTable /\ i - 1 \in 0 .. n /\ i \in 0 .. n
    BY <1>3, Placed
  <2>2. \A j \in 1 .. i - 1 : ActionIds[j] \in DOMAIN s.current
    BY <2>1
  <2> DEFINE t == RegisterActionIn(s, ActionIds[i])
  <2>3. t \in HeldTable /\ DOMAIN t.current = DOMAIN s.current \cup {ActionIds[i]}
    BY <2>1, RegisterKeeps
  <2>. HIDE DEF t
  <2>4. \A j \in 1 .. i : ActionIds[j] \in DOMAIN t.current
    <3>1. \A j \in 1 .. i : j = i \/ j \in 1 .. i - 1
      BY <1>0
    <3>. QED BY <2>2, <2>3, <3>1
  <2>5. t \in T[i]
    BY <2>1, <2>3, <2>4
  <2>. QED BY <2>5 DEF t
<1>6. ASSUME NEW i \in 1 .. n, NEW s \in HeldTable PROVE RegisterActionIn(s, ActionIds[i]) \in HeldTable
  BY Placed, RegisterKeeps
<1>7. G \in [1 .. n -> [HeldTable -> HeldTable]]
  BY <1>6
<1>. HIDE DEF n
<1>8. \E f : Whole(f)
  <2>1. PICK f \in [0 .. n -> HeldTable] : Loops(f, NoKeys, G, n)
    <3>. HIDE DEF G
    <3>. QED BY <1>0, <1>1, <1>7, LoopExists
  <2>2. f = [i \in 0 .. n |-> f[i]]
    OBVIOUS
  <2>3. \A i \in 1 .. n : f[i - 1] \in HeldTable
    BY <1>3
  <2>4. Whole(f)
    BY <1>4, <2>1, <2>2, <2>3 DEF Loops
  <2>. QED BY <2>4
<1>9. Whole(after)
  <2>. HIDE DEF Whole
  <2>. QED BY <1>8, Zenon
<1>. HIDE DEF after
<1>10. after[n] \in T[n]
  <2>1. after[0] \in T[0]
    BY <1>0, <1>1, <1>9
  <2>2. \A i \in 1 .. n : after[i] = RegisterActionIn(after[i - 1], ActionIds[i])
    BY <1>3, <1>9
  <2>. HIDE DEF T, Whole
  <2>3. \A i \in 1 .. n : after[i - 1] \in T[i - 1] => after[i] \in T[i]
    BY <1>5, <2>2
  <2>4. \A i \in 0 .. n : after[i] \in T[i]
    BY <1>0, <2>1, <2>3, LoopKeeps
  <2>. QED BY <1>0, <2>4
<1>11. after[n] \in HeldTable /\ \A j \in 1 .. n : ActionIds[j] \in DOMAIN after[n].current
  BY <1>0, <1>10
<1>12. Action \subseteq DOMAIN after[n].current
  BY <1>11, Placed DEF n
<1>13. DOMAIN after[n].current \subseteq Action
  BY <1>11, TableFields DEF HeldTable
<1>. QED BY <1>2, <1>11, <1>12, <1>13

\* Resetting all bindings keeps tables that agree.
LEMMA ResetAllHolds ==
    ASSUME NEW k \in HeldTable
    PROVE  EachAction(k, LAMBDA j, a : SetBindingIn(j, a, DefaultBinding[a])) \in HeldTable
<1> DEFINE n == Len(ActionIds)
           T == [i \in 0 .. n |-> HeldTable]
           G == [i \in 1 .. n |-> [s \in HeldTable |-> SetBindingIn(s, ActionIds[i], DefaultBinding[ActionIds[i]])]]
           Whole(f) == f = [i \in 0 .. n |-> IF i = 0 THEN k
                                             ELSE SetBindingIn(f[i - 1], ActionIds[i], DefaultBinding[ActionIds[i]])]
           after == CHOOSE f : Whole(f)
<1>0. n \in Nat /\ n \in 0 .. n /\ 0 \in 0 .. n
  BY SettingsAssumption
<1>1. k \in HeldTable
  OBVIOUS
<1>2. EachAction(k, LAMBDA j, a : SetBindingIn(j, a, DefaultBinding[a])) = after[n]
  BY Zenon DEF EachAction
<1>3. \A i \in 1 .. n : i \in 0 .. n /\ i # 0 /\ i - 1 \in 0 .. n
  BY <1>0
<1>4. \A i \in 0 .. n : i # 0 => i \in 1 .. n
  BY <1>0
<1>5. ASSUME NEW i \in 1 .. n, NEW s \in T[i - 1] PROVE SetBindingIn(s, ActionIds[i], DefaultBinding[ActionIds[i]]) \in T[i]
  <2>1. ActionIds[i] \in Action /\ s \in HeldTable /\ i - 1 \in 0 .. n /\ i \in 0 .. n
    BY <1>3, Placed
  <2>2. DefaultBinding[ActionIds[i]] \in Binding
    BY <2>1, SettingsAssumption DEF Action, Binding
  <2>. QED BY <2>1, <2>2, SetBindingKeeps
<1>6. ASSUME NEW i \in 1 .. n, NEW s \in HeldTable PROVE SetBindingIn(s, ActionIds[i], DefaultBinding[ActionIds[i]]) \in HeldTable
  <2>1. ActionIds[i] \in Action /\ DefaultBinding[ActionIds[i]] \in Binding
    BY Placed, SettingsAssumption DEF Action, Binding
  <2>. QED BY <2>1, SetBindingKeeps
<1>7. G \in [1 .. n -> [HeldTable -> HeldTable]]
  BY <1>6
<1>. HIDE DEF n
<1>8. \E f : Whole(f)
  <2>1. PICK f \in [0 .. n -> HeldTable] : Loops(f, k, G, n)
    <3>. HIDE DEF G
    <3>. QED BY <1>0, <1>1, <1>7, LoopExists
  <2>2. f = [i \in 0 .. n |-> f[i]]
    OBVIOUS
  <2>3. \A i \in 1 .. n : f[i - 1] \in HeldTable
    BY <1>3
  <2>4. Whole(f)
    BY <1>4, <2>1, <2>2, <2>3 DEF Loops
  <2>. QED BY <2>4
<1>9. Whole(after)
  <2>. HIDE DEF Whole
  <2>. QED BY <1>8, Zenon
<1>. HIDE DEF after
<1>10. after[n] \in T[n]
  <2>1. after[0] \in T[0]
    BY <1>0, <1>1, <1>9
  <2>2. \A i \in 1 .. n : after[i] = SetBindingIn(after[i - 1], ActionIds[i], DefaultBinding[ActionIds[i]])
    BY <1>3, <1>9
  <2>. HIDE DEF T, Whole
  <2>3. \A i \in 1 .. n : after[i - 1] \in T[i - 1] => after[i] \in T[i]
    BY <1>5, <2>2
  <2>4. \A i \in 0 .. n : after[i] \in T[i]
    BY <1>0, <2>1, <2>3, LoopKeeps
  <2>. QED BY <1>0, <2>4
<1>. QED BY <1>0, <1>2, <1>10

\* Loading the file gives each action registered the combination of its line.
LEMMA LoadedHolds ==
    ASSUME bindingsFile # NoFile => bindingsFile \in SomeBindings, NEW k \in HeldTable
    PROVE  /\ LoadedBindings(k) \in HeldTable
           /\ bindingsFile # NoFile =>
                 \A a \in DOMAIN bindingsFile \cap DOMAIN k.current :
                    LoadedBindings(k).current[a] = bindingsFile[a]
<1>1. CASE bindingsFile = NoFile
  BY <1>1 DEF LoadedBindings
<1>2. CASE bindingsFile # NoFile
  <2> DEFINE Read(j, a) == IF a \in DOMAIN bindingsFile
                           THEN SetBindingIn(j, a, bindingsFile[a]) ELSE j
             n == Len(ActionIds)
             T == [i \in 0 .. n |-> {s \in HeldTable : 
                      /\ DOMAIN s.current = DOMAIN k.current
                      /\ \A j \in 1 .. i : ActionIds[j] \in DOMAIN bindingsFile \cap DOMAIN k.current
                            => s.current[ActionIds[j]] = bindingsFile[ActionIds[j]]}]
             G == [i \in 1 .. n |-> [s \in HeldTable |-> Read(s, ActionIds[i])]]
             Whole(f) == f = [i \in 0 .. n |-> IF i = 0 THEN k
                                               ELSE Read(f[i - 1], ActionIds[i])]
             after == CHOOSE f : Whole(f)
  <2>0. n \in Nat /\ n \in 0 .. n /\ 0 \in 0 .. n
    BY SettingsAssumption
  <2>1. k \in HeldTable /\ k \in T[0]
    BY <2>0
  <2>14. \A a \in DOMAIN bindingsFile : bindingsFile[a] \in Binding
    BY <1>2 DEF SomeBindings
  <2>2. LoadedBindings(k) = after[n]
    BY <1>2, Zenon DEF LoadedBindings, EachAction
  <2>3. \A i \in 1 .. n : i \in 0 .. n /\ i # 0 /\ i - 1 \in 0 .. n
    BY <2>0
  <2>4. \A i \in 0 .. n : i # 0 => i \in 1 .. n
    BY <2>0
  <2>5. ASSUME NEW i \in 1 .. n, NEW s \in T[i - 1] PROVE Read(s, ActionIds[i]) \in T[i]
    <3>1. ActionIds[i] \in Action /\ s \in HeldTable /\ i - 1 \in 0 .. n /\ i \in 0 .. n
      BY <2>3, Placed
    <3>2. /\ DOMAIN s.current = DOMAIN k.current
          /\ \A j \in 1 .. i - 1 : ActionIds[j] \in DOMAIN bindingsFile \cap DOMAIN k.current
                                   => s.current[ActionIds[j]] = bindingsFile[ActionIds[j]]
      BY <3>1
    <3> DEFINE t == Read(s, ActionIds[i])
               b == ActionIds[i]
    <3>3. /\ t \in HeldTable /\ DOMAIN t.current = DOMAIN k.current
          /\ \A a \in DOMAIN k.current :
                t.current[a] = IF a = b /\ b \in DOMAIN bindingsFile THEN bindingsFile[b]
                               ELSE s.current[a]
      <4>1. CASE b \in DOMAIN bindingsFile
        <5>1. t = SetBindingIn(s, b, bindingsFile[b]) /\ bindingsFile[b] \in Binding
          BY <4>1, <2>14
        <5>. HIDE DEF t, b, Read
        <5>2. b \in Action /\ s \in HeldTable
          BY <3>1 DEF b
        <5>. QED BY <3>2, <4>1, <5>1, <5>2, SetBindingKeeps
      <4>2. CASE b \notin DOMAIN bindingsFile
        BY <3>1, <3>2, <4>2
      <4>. QED BY <4>1, <4>2
    <3>. HIDE DEF t
    <3>4. ASSUME NEW j \in 1 .. i, ActionIds[j] \in DOMAIN bindingsFile \cap DOMAIN k.current
          PROVE  t.current[ActionIds[j]] = bindingsFile[ActionIds[j]]
      <4>1. j = i \/ j \in 1 .. i - 1
        BY <2>0
      <4>. QED BY <3>2, <3>3, <3>4, <4>1
    <3>5. t \in T[i]
      BY <3>1, <3>3, <3>4
    <3>. QED BY <3>5 DEF t
  <2>6. ASSUME NEW i \in 1 .. n, NEW s \in HeldTable PROVE Read(s, ActionIds[i]) \in HeldTable
    <3>1. ActionIds[i] \in Action
      BY Placed
    <3>2. ActionIds[i] \in DOMAIN bindingsFile => bindingsFile[ActionIds[i]] \in Binding
      BY <2>14
    <3>. QED BY <3>1, <3>2, SetBindingKeeps
  <2>7. G \in [1 .. n -> [HeldTable -> HeldTable]]
    BY <2>6
  <2>. HIDE DEF n
  <2>8. \E f : Whole(f)
    <3>1. PICK f \in [0 .. n -> HeldTable] : Loops(f, k, G, n)
      <4>. HIDE DEF G
      <4>. QED BY <2>0, <2>1, <2>7, LoopExists
    <3>2. f = [i \in 0 .. n |-> f[i]]
      OBVIOUS
    <3>3. \A i \in 1 .. n : f[i - 1] \in HeldTable
      BY <2>3
    <3>4. Whole(f)
      BY <2>4, <3>1, <3>2, <3>3 DEF Loops
    <3>. QED BY <3>4
  <2>9. Whole(after)
    <3>. HIDE DEF Whole
    <3>. QED BY <2>8, Zenon
  <2>. HIDE DEF after
  <2>10. after[n] \in T[n]
    <3>1. after[0] \in T[0]
      BY <2>0, <2>1, <2>9
    <3>2. \A i \in 1 .. n : after[i] = Read(after[i - 1], ActionIds[i])
      BY <2>3, <2>9
    <3>. HIDE DEF T, Whole
    <3>3. \A i \in 1 .. n : after[i - 1] \in T[i - 1] => after[i] \in T[i]
      BY <2>5, <3>2
    <3>4. \A i \in 0 .. n : after[i] \in T[i]
      BY <2>0, <3>1, <3>3, LoopKeeps
    <3>. QED BY <2>0, <3>4
  <2>11. /\ after[n] \in HeldTable
         /\ \A j \in 1 .. n : ActionIds[j] \in DOMAIN bindingsFile \cap DOMAIN k.current
                  => after[n].current[ActionIds[j]] = bindingsFile[ActionIds[j]]
    BY <2>0, <2>10
  <2>12. \A a \in DOMAIN k.current : \E j \in 1 .. n : ActionIds[j] = a
    BY Placed, TableFields DEF HeldTable, n
  <2>. QED BY <2>2, <2>11, <2>12
<1>. QED BY <1>1, <1>2

-----------------------------------------------------------------------------
(* Layouts *)

\* The first of some places.
LEMMA FirstOfHolds ==
    ASSUME NEW S \in SUBSET Nat
    PROVE  /\ S = {} => FirstOf(S) = 0
           /\ S # {} => FirstOf(S) \in S /\ \A j \in S : FirstOf(S) <= j
<1>1. S # {} => \E i \in S : \A j \in S : i <= j
  BY LeastNumber
<1>. QED BY <1>1 DEF FirstOf

\* Where a layout of a name is found.
LEMMA FindHolds ==
    ASSUME NEW S, NEW ls \in Seq(S), NEW name
    PROVE  /\ Find(ls, name) = 0 => \A i \in 1 .. Len(ls) : ls[i].name # name
           /\ Find(ls, name) # 0 =>
                 /\ Find(ls, name) \in 1 .. Len(ls) /\ ls[Find(ls, name)].name = name
                 /\ \A i \in 1 .. Len(ls) : ls[i].name = name => Find(ls, name) <= i
<1> DEFINE P == {i \in DOMAIN ls : ls[i].name = name}
<1>1. DOMAIN ls = 1 .. Len(ls) /\ P \in SUBSET Nat /\ 0 \notin P
  OBVIOUS
<1>2. Find(ls, name) = FirstOf(P)
  BY DEF Find
<1>3. \A i \in 1 .. Len(ls) : ls[i].name = name => i \in P
  BY <1>1
<1>4. \A i \in P : i \in 1 .. Len(ls) /\ ls[i].name = name
  BY <1>1
<1>. HIDE DEF P
<1>5. CASE P = {}
  BY <1>1, <1>2, <1>3, <1>5, FirstOfHolds
<1>6. CASE P # {}
  <2>1. FirstOf(P) \in P /\ \A j \in P : FirstOf(P) <= j
    BY <1>1, <1>6, FirstOfHolds
  <2>. QED BY <1>1, <1>2, <1>3, <1>4, <2>1
<1>. QED BY <1>5, <1>6

\* The layouts that are built in.
LEMMA BuiltinHolds ==
    /\ BuiltinLayouts \in Seq(Layout) /\ Len(BuiltinLayouts) = 4
    /\ DOMAIN BuiltinLayouts = 1 .. 4
    /\ \A i \in 1 .. 4 : BuiltinLayouts[i].isBuiltin
    /\ \A i, j \in 1 .. 4 : BuiltinLayouts[i].name = BuiltinLayouts[j].name => i = j
<1>1. ASSUME NEW name \in LayoutName, NEW v \in Viewport, NEW visible
      PROVE  Builtin(name, v, visible) \in Layout /\ Builtin(name, v, visible).isBuiltin
             /\ Builtin(name, v, visible).name = name
  <2> DEFINE panels == [p \in Panel |-> [visible |-> p \in visible, docked |-> TRUE,
                                         rect |-> IF p \in visible THEN name ELSE NoRect]]
  <2>1. Builtin(name, v, visible) = [name |-> name, isBuiltin |-> TRUE, viewport |-> v,
                                     panels |-> panels]
    BY DEF Builtin
  <2>2. ASSUME NEW p \in Panel
        PROVE  [visible |-> p \in visible, docked |-> TRUE,
                rect |-> IF p \in visible THEN name ELSE NoRect] \in PanelState
    <3>1. (p \in visible) \in BOOLEAN /\ TRUE \in BOOLEAN
      OBVIOUS
    <3>2. (IF p \in visible THEN name ELSE NoRect) \in LayoutName \cup {NoRect, "moved"}
      OBVIOUS
    <3>. QED BY ONLY <3>1, <3>2, Zenon DEF PanelState
  <2>3. panels \in [Panel -> PanelState]
    BY <2>2
  <2>. HIDE DEF panels
  <2>. QED BY <2>1, <2>3 DEF Layout
<1> DEFINE all == {"SceneView", "Properties", "Resources", "Console"}
           few == {"SceneView", "Properties", "Console"}
           more == {"SceneView", "Properties", "Resources", "Console", "Profiler"}
           a == Builtin("Default", "Single", all)
           b == Builtin("2D", "Single", few)
           c == Builtin("3D", "Quad", all)
           d == Builtin("Wide", "TwoHorizontal", more)
<1>2. BuiltinLayouts = <<a, b, c, d>>
  BY DEF BuiltinLayouts
<1>3. /\ a \in Layout /\ b \in Layout /\ c \in Layout /\ d \in Layout
      /\ a.isBuiltin /\ b.isBuiltin /\ c.isBuiltin /\ d.isBuiltin
      /\ a.name = "Default" /\ b.name = "2D" /\ c.name = "3D" /\ d.name = "Wide"
  <2>. HIDE DEF all, few, more
  <2>. QED BY <1>1 DEF LayoutName, Viewport
<1>. HIDE DEF a, b, c, d
<1>4. \A i \in 1 .. 4 : i = 1 \/ i = 2 \/ i = 3 \/ i = 4
  OBVIOUS
<1>. QED BY <1>2, <1>3, <1>4

\* Each of them is the first of its name.
LEMMA BuiltinFound ==
    ASSUME NEW ls, LayoutsHeld(ls)
    PROVE  \A i \in DOMAIN BuiltinLayouts :
              ls[i] = BuiltinLayouts[i] /\ Find(ls, ls[i].name) = i
<1> SUFFICES ASSUME NEW i \in 1 .. 4 PROVE ls[i] = BuiltinLayouts[i] /\ Find(ls, ls[i].name) = i
  BY BuiltinHolds
<1>1. ls \in Seq(Layout) /\ Len(ls) \in Nat /\ Len(ls) >= 4 /\ \A j \in 1 .. 4 : ls[j] = BuiltinLayouts[j]
  BY DEF LayoutsHeld
<1> DEFINE k == Find(ls, ls[i].name)
<1>2. k \in 1 .. Len(ls) /\ ls[k].name = ls[i].name /\ k <= i
  BY <1>1, FindHolds
<1>. HIDE DEF k
<1>3. k \in 1 .. 4
  BY <1>1, <1>2
<1>4. k = i
  BY <1>1, <1>2, <1>3, BuiltinHolds
<1>. QED BY <1>1, <1>4 DEF k

\* A custom layout may be added.
LEMMA CustomAdded ==
    ASSUME NEW ls, LayoutsHeld(ls), NEW l \in Layout, ~l.isBuiltin
    PROVE  LayoutsHeld(Append(ls, l))
<1>1. ls \in Seq(Layout) /\ Len(ls) \in Nat /\ Len(ls) >= 4
  BY DEF LayoutsHeld
<1>2. /\ Append(ls, l) \in Seq(Layout) /\ Len(Append(ls, l)) = Len(ls) + 1
      /\ \A i \in 1 .. Len(ls) : Append(ls, l)[i] = ls[i]
      /\ Append(ls, l)[Len(ls) + 1] = l
  BY <1>1, AppendProperties
<1>. QED BY <1>1, <1>2 DEF LayoutsHeld

\* It may replace another that is custom.
LEMMA CustomReplaced ==
    ASSUME NEW ls, LayoutsHeld(ls), NEW l \in Layout, ~l.isBuiltin,
           NEW i \in 1 .. Len(ls), ~ls[i].isBuiltin
    PROVE  LayoutsHeld([ls EXCEPT ![i] = l])
<1>1. ls \in Seq(Layout) /\ Len(ls) \in Nat /\ Len(ls) >= 4
  BY DEF LayoutsHeld
<1>2. i \notin 1 .. 4
  BY BuiltinHolds DEF LayoutsHeld
<1> DEFINE t == [ls EXCEPT ![i] = l]
<1>3. t \in Seq(Layout) /\ Len(t) = Len(ls) /\ \A j \in 1 .. Len(ls) : t[j] = IF j = i THEN l ELSE ls[j]
  BY <1>1, ExceptSeq
<1>. HIDE DEF t
<1>4. LayoutsHeld(t)
  BY <1>1, <1>2, <1>3 DEF LayoutsHeld
<1>. QED BY <1>4 DEF t

\* Only a custom layout is removed.
LEMMA CustomRemoved ==
    ASSUME NEW ls, LayoutsHeld(ls), NEW name
    PROVE  LayoutsHeld(WithoutLayout(ls, name))
<1> DEFINE P == {j \in DOMAIN ls : ls[j].name = name /\ ~ls[j].isBuiltin}
           i == FirstOf(P)
<1>1. /\ ls \in Seq(Layout) /\ Len(ls) \in Nat /\ Len(ls) >= 4 /\ DOMAIN ls = 1 .. Len(ls)
      /\ P \in SUBSET Nat /\ 0 \notin P
  BY DEF LayoutsHeld
<1>2. WithoutLayout(ls, name) = IF i = 0 THEN ls ELSE RemoveAt(ls, i)
  BY DEF WithoutLayout
<1>3. CASE P = {}
  <2>1. i = 0
    BY <1>1, <1>3, FirstOfHolds
  <2>. QED BY <1>2, <2>1
<1>4. CASE P # {}
  <2>1. i \in P
    <3>. HIDE DEF P
    <3>. QED BY <1>1, <1>4, FirstOfHolds
  <2>2. i \in 5 .. Len(ls)
    <3>1. i \in 1 .. Len(ls) /\ ~ls[i].isBuiltin
      BY <1>1, <2>1
    <3>. HIDE DEF i
    <3>2. i \notin 1 .. 4
      BY <3>1, BuiltinHolds DEF LayoutsHeld
    <3>. QED BY <1>1, <3>1, <3>2
  <2>. HIDE DEF i, P
  <2> DEFINE front == SubSeq(ls, 1, i - 1)
             back == SubSeq(ls, i + 1, Len(ls))
             t == front \o back
  <2>3. RemoveAt(ls, i) = t
    BY DEF RemoveAt
  <2>4. /\ front \in Seq(Layout) /\ Len(front) = i - 1
        /\ \A j \in 1 .. i - 1 : front[j] = ls[j]
    BY <1>1, <2>2, SubSeqProperties
  <2>5. /\ back \in Seq(Layout) /\ Len(back) = Len(ls) - i
        /\ \A j \in 1 .. Len(ls) - i : back[j] = ls[i + j]
    <3> DEFINE m == i + 1
    <3>1. m \in Int /\ Len(ls) \in Int /\ \A j \in m .. Len(ls) : ls[j] \in Layout
      BY <1>1, <2>2
    <3>. HIDE DEF m
    <3>2. /\ SubSeq(ls, m, Len(ls)) \in Seq(Layout)
          /\ Len(SubSeq(ls, m, Len(ls))) = IF m <= Len(ls) THEN Len(ls) - m + 1 ELSE 0
          /\ \A j \in 1 .. Len(ls) - m + 1 : SubSeq(ls, m, Len(ls))[j] = ls[m + j - 1]
      BY <3>1, SubSeqProperties
    <3>3. (IF m <= Len(ls) THEN Len(ls) - m + 1 ELSE 0) = Len(ls) - i
      <4>1. Len(ls) \in Nat /\ i \in Nat /\ i <= Len(ls) /\ m = i + 1
        BY <1>1, <2>2 DEF m
      <4>2. CASE i = Len(ls)
        BY <4>1, <4>2
      <4>3. CASE i # Len(ls)
        BY <4>1, <4>3
      <4>. QED BY <4>2, <4>3
    <3>5. Len(ls) - m + 1 = Len(ls) - i
      BY <1>1, <2>2 DEF m
    <3>4. ASSUME NEW j \in 1 .. Len(ls) - i PROVE m + j - 1 = i + j
      BY <1>1, <2>2 DEF m
    <3>. QED BY <3>2, <3>3, <3>4, <3>5 DEF m
  <2>. HIDE DEF front, back
  <2>6. /\ t \in Seq(Layout) /\ Len(t) = Len(ls) - 1
        /\ \A j \in 1 .. Len(ls) - 1 : t[j] = IF j < i THEN ls[j] ELSE ls[j + 1]
    <3>1. t \in Seq(Layout) /\ Len(t) = Len(front) + Len(back)
      BY <2>4, <2>5, ConcatProperties
    <3>2. ASSUME NEW j \in 1 .. Len(ls) - 1 PROVE t[j] = IF j < i THEN ls[j] ELSE ls[j + 1]
      <4>1. CASE j < i
        <5>1. j \in 1 .. Len(front) /\ j \in 1 .. i - 1
          BY <1>1, <2>2, <2>4, <4>1
        <5>2. t[j] = front[j]
          BY <2>4, <2>5, <5>1, ConcatProperties
        <5>. QED BY <2>4, <4>1, <5>1, <5>2
      <4>2. CASE ~(j < i)
        <5>1. j \in Len(front) + 1 .. Len(front) + Len(back) /\ j - (i - 1) \in 1 .. Len(ls) - i
          BY <1>1, <2>2, <2>4, <2>5, <4>2
        <5>2. t[j] = back[j - (i - 1)]
          BY <2>4, <2>5, <5>1
        <5>3. i + (j - (i - 1)) = j + 1
          BY <1>1, <2>2
        <5>. QED BY <2>5, <4>2, <5>1, <5>2, <5>3
      <4>. QED BY <4>1, <4>2
    <3>. QED BY <1>1, <2>2, <2>4, <2>5, <3>1, <3>2
  <2>. HIDE DEF t
  <2>7. LayoutsHeld(t)
    <3>1. Len(t) >= 4
      BY <1>1, <2>2, <2>6
    <3>2. \A j \in 1 .. 4 : t[j] = BuiltinLayouts[j]
      BY <1>1, <2>2, <2>6 DEF LayoutsHeld
    <3>3. ASSUME NEW j \in 5 .. Len(t) PROVE ~t[j].isBuiltin
      <4>1. j \in 5 .. Len(ls) /\ j + 1 \in 5 .. Len(ls) /\ j \in 1 .. Len(ls) - 1
        BY <1>1, <2>6
      <4>. QED BY <2>6, <4>1 DEF LayoutsHeld
    <3>. QED BY <2>6, <3>1, <3>2, <3>3 DEF LayoutsHeld
  <2>8. i # 0
    BY <2>2
  <2>. QED BY <1>2, <2>3, <2>7, <2>8 DEF i
<1>. QED BY <1>3, <1>4

\* What LoadFromFile reads of a file finds what was found when it was written.
LEMMA ReadAsWritten ==
    ASSUME NEW ls, LayoutsHeld(ls)
    PROVE  LET read == [i \in DOMAIN Lines(ls) |-> ReadLayout(Lines(ls)[i])]
               ms == BuiltinLayouts \o read
           IN  /\ read \in Seq(Layout) /\ \A i \in DOMAIN read : ~read[i].isBuiltin
               /\ \A name : Known(ms, name) = Known(ls, name)
<1> DEFINE n == Len(ls) - 4
           read == [i \in DOMAIN Lines(ls) |-> ReadLayout(Lines(ls)[i])]
           ms == BuiltinLayouts \o read
           Visible(l) == [p \in DOMAIN l.panels |-> l.panels[p].visible]
<1>1. /\ ls \in Seq(Layout) /\ Len(ls) \in Nat /\ Len(ls) >= 4 /\ n \in Nat /\ Len(ls) = n + 4
      /\ \A i \in 1 .. 4 : ls[i] = BuiltinLayouts[i]
  BY DEF LayoutsHeld
<1>. HIDE DEF n
<1>2. DOMAIN Lines(ls) = 1 .. n /\ \A i \in 1 .. n : Lines(ls)[i] = Line(ls[i + 4])
  BY DEF Lines, n
<1>3. ASSUME NEW l \in Layout
      PROVE  LET r == ReadLayout(Line(l))
             IN  /\ r \in Layout /\ ~r.isBuiltin /\ r.name = l.name /\ r.viewport = l.viewport
                 /\ Visible(r) = Visible(l)
  <2>1. l.name \in LayoutName /\ l.viewport \in Viewport /\ l.panels \in [Panel -> PanelState]
    BY DEF Layout
  <2> DEFINE ps == [p \in Panel |-> [visible |-> l.panels[p].visible, docked |-> TRUE,
                                      rect |-> NoRect]]
  <2>2. Line(l) = [name |-> l.name, viewport |-> l.viewport,
                   visible |-> [p \in Panel |-> l.panels[p].visible]]
    BY <2>1 DEF Line
  <2>3. ReadLayout(Line(l)) = [name |-> l.name, isBuiltin |-> FALSE, viewport |-> l.viewport,
                               panels |-> ps]
    <3> DEFINE v == [p \in Panel |-> l.panels[p].visible]
    <3>1. [p \in DOMAIN v |-> [visible |-> v[p], docked |-> TRUE, rect |-> NoRect]] = ps
      OBVIOUS
    <3>2. Line(l) = [name |-> l.name, viewport |-> l.viewport, visible |-> v]
      BY <2>2
    <3>. HIDE DEF ps, v
    <3> DEFINE line == Line(l)
    <3>3. line.visible = v /\ line.name = l.name /\ line.viewport = l.viewport
      BY <3>2
    <3>. HIDE DEF line
    <3>4. [p \in DOMAIN line.visible |-> [visible |-> line.visible[p], docked |-> TRUE,
                                          rect |-> NoRect]] = ps
      BY ONLY <3>1, <3>3
    <3>5. ReadLayout(line) = [name |-> line.name, isBuiltin |-> FALSE, viewport |-> line.viewport,
              panels |-> [p \in DOMAIN line.visible |->
                             [visible |-> line.visible[p], docked |-> TRUE, rect |-> NoRect]]]
      BY ONLY DEF ReadLayout, Custom
    <3>. QED BY ONLY <3>3, <3>4, <3>5 DEF line
  <2>4. ps \in [Panel -> PanelState]
    <3>1. \A p \in Panel : l.panels[p].visible \in BOOLEAN
      BY <2>1 DEF PanelState
    <3>2. NoRect \in LayoutName \cup {NoRect, "moved"} /\ TRUE \in BOOLEAN
      OBVIOUS
    <3>3. ASSUME NEW p \in Panel
          PROVE  [visible |-> l.panels[p].visible, docked |-> TRUE, rect |-> NoRect] \in PanelState
      BY ONLY <3>1, <3>2, Zenon DEF PanelState
    <3>. QED BY <3>3
  <2>5. [p \in DOMAIN ps |-> ps[p].visible] = Visible(l)
    BY <2>1
  <2>. HIDE DEF ps
  <2>. QED BY <2>1, <2>3, <2>4, <2>5 DEF Layout
<1>. HIDE DEF Visible
<1>4. /\ read \in Seq(Layout) /\ Len(read) = n /\ DOMAIN read = 1 .. n
      /\ \A i \in 1 .. n : read[i] = ReadLayout(Line(ls[i + 4]))
  <2>1. read = [i \in 1 .. n |-> ReadLayout(Line(ls[i + 4]))]
    BY <1>2
  <2>2. \A i \in 1 .. n : ls[i + 4] \in Layout
    BY <1>1
  <2>. HIDE DEF read
  <2>3. \A i \in 1 .. n : read[i] \in Layout
    BY <1>3, <2>1, <2>2
  <2>4. read \in Seq(Layout)
    BY <1>1, <2>1, <2>3, IsASeq
  <2>. QED BY <1>1, <2>1, <2>4
<1>. HIDE DEF read
<1>5. /\ ms \in Seq(Layout) /\ Len(ms) = Len(ls)
      /\ \A i \in 1 .. 4 : ms[i] = BuiltinLayouts[i]
      /\ \A i \in 5 .. Len(ls) : ms[i] = read[i - 4]
  <2>1. BuiltinLayouts \in Seq(Layout) /\ Len(BuiltinLayouts) = 4
    BY BuiltinHolds
  <2>2. /\ ms \in Seq(Layout) /\ Len(ms) = Len(BuiltinLayouts) + Len(read)
        /\ \A i \in 1 .. Len(BuiltinLayouts) + Len(read) :
              ms[i] = IF i <= Len(BuiltinLayouts) THEN BuiltinLayouts[i]
                      ELSE read[i - Len(BuiltinLayouts)]
    BY ONLY <1>4, <2>1, ConcatProperties
  <2>3. Len(ms) = 4 + n /\ \A i \in 1 .. 4 + n :
              ms[i] = IF i <= 4 THEN BuiltinLayouts[i] ELSE read[i - 4]
    BY <1>4, <2>1, <2>2
  <2>. HIDE DEF ms
  <2>. QED BY <1>1, <2>2, <2>3
<1>. HIDE DEF ms
<1>6. ASSUME NEW i \in 1 .. Len(ls)
      PROVE  /\ ms[i].name = ls[i].name /\ ms[i].viewport = ls[i].viewport
             /\ Visible(ms[i]) = Visible(ls[i])
  <2>1. CASE i \in 1 .. 4
    BY <1>1, <1>5, <2>1
  <2>2. CASE i \in 5 .. Len(ls)
    <3>1. i - 4 \in 1 .. n /\ (i - 4) + 4 = i /\ ls[i] \in Layout
      BY <1>1, <2>2
    <3>2. ms[i] = ReadLayout(Line(ls[i]))
      BY <1>4, <1>5, <2>2, <3>1
    <3>. QED BY <1>3, <3>1, <3>2
  <2>. QED BY <1>1, <2>1, <2>2
<1>7. \A name : Known(ms, name) = Known(ls, name)
  <2> SUFFICES ASSUME NEW name PROVE Known(ms, name) = Known(ls, name)
    OBVIOUS
  <2>1. {i \in DOMAIN ms : ms[i].name = name} = {i \in DOMAIN ls : ls[i].name = name}
    <3>1. DOMAIN ms = 1 .. Len(ls) /\ DOMAIN ls = 1 .. Len(ls)
      BY <1>1, <1>5
    <3>. QED BY <1>6, <3>1
  <2>2. Find(ms, name) = Find(ls, name)
    BY <2>1 DEF Find
  <2> DEFINE k == Find(ls, name)
  <2>3. k # 0 => k \in 1 .. Len(ls)
    BY <1>1, FindHolds
  <2>. HIDE DEF k
  <2>4. /\ Known(ms, name) = IF k = 0 THEN NoFile ELSE [viewport |-> ms[k].viewport, visible |-> Visible(ms[k])]
        /\ Known(ls, name) = IF k = 0 THEN NoFile ELSE [viewport |-> ls[k].viewport, visible |-> Visible(ls[k])]
    BY <2>2 DEF Known, Visible, k
  <2>. QED BY <1>6, <2>3, <2>4
<1>8. \A i \in DOMAIN read : ~read[i].isBuiltin
  BY <1>1, <1>3, <1>4
<1>. QED BY <1>4, <1>7, <1>8 DEF read, ms

-----------------------------------------------------------------------------
(* Preferences *)

\* Sets of bindings.
LEMMA PrefBindingsAre ==
    ASSUME NEW b
    PROVE  b \in PrefBindings
           <=> /\ DOMAIN b \subseteq KeyOfPref \cup {"undo"} /\ b = [a \in DOMAIN b |-> b[a]]
               /\ \A a \in DOMAIN b : b[a] \in {"Ctrl+Z", "F1"}
<1>1. b \in PrefBindings <=> \E S \in SUBSET (KeyOfPref \cup {"undo"}) : b \in [S -> {"Ctrl+Z", "F1"}]
  BY DEF PrefBindings
<1>. QED BY <1>1

\* The tools of other names are tools.
LEMMA OtherToolsAre ==
    ASSUME NEW name, prefs.tools \in Seq(Tool)
    PROVE  OtherTools(name) \in Seq(Tool)
<1> DEFINE n == Len(prefs.tools)
           Round(t, i) == IF prefs.tools[i].name = name THEN t ELSE Append(t, prefs.tools[i])
           T == [i \in 0 .. n |-> Seq(Tool)]
           G == [i \in 1 .. n |-> [t \in Seq(Tool) |-> Round(t, i)]]
           Whole(f) == f = [i \in 0 .. n |-> IF i = 0 THEN <<>>
                                             ELSE IF prefs.tools[i].name = name THEN f[i - 1]
                                             ELSE Append(f[i - 1], prefs.tools[i])]
           kept == CHOOSE f : Whole(f)
<1>0. n \in Nat /\ n \in 0 .. n /\ 0 \in 0 .. n
  OBVIOUS
<1>1. OtherTools(name) = kept[n]
  BY Zenon DEF OtherTools
<1>2. \A i \in 1 .. n : prefs.tools[i] \in Tool
  OBVIOUS
<1>3. \A i \in 1 .. n : i \in 0 .. n /\ i # 0 /\ i - 1 \in 0 .. n
  BY <1>0
<1>4. \A i \in 0 .. n : i # 0 => i \in 1 .. n
  BY <1>0
<1>5. ASSUME NEW i \in 1 .. n, NEW t \in Seq(Tool) PROVE Round(t, i) \in Seq(Tool)
  BY <1>2, AppendProperties
<1>. HIDE DEF n
<1>6. \E f : Whole(f)
  <2>1. G \in [1 .. n -> [Seq(Tool) -> Seq(Tool)]]
    <3>. HIDE DEF Round
    <3>. QED BY <1>5
  <2>2. << >> \in Seq(Tool)
    OBVIOUS
  <2>3. PICK f \in [0 .. n -> Seq(Tool)] : Loops(f, << >>, G, n)
    <3>. HIDE DEF G
    <3>. QED BY <1>0, <2>1, <2>2, LoopExists
  <2>4. f = [i \in 0 .. n |-> f[i]]
    OBVIOUS
  <2>5. \A i \in 1 .. n : f[i - 1] \in Seq(Tool)
    BY <1>3
  <2>6. \A i \in 1 .. n : f[i] = Round(f[i - 1], i)
    <3>. HIDE DEF Round
    <3>. QED BY <2>3, <2>5 DEF Loops
  <2>7. f[0] = << >>
    BY <2>3 DEF Loops
  <2>8. Whole(f)
    BY ONLY <1>4, <2>4, <2>6, <2>7
  <2>. QED BY <2>8
<1>7. Whole(kept)
  <2>. HIDE DEF Whole
  <2>. QED BY <1>6, Zenon
<1>. HIDE DEF kept
<1>8. kept[0] = << >> /\ \A i \in 1 .. n : kept[i] = Round(kept[i - 1], i)
  BY <1>0, <1>3, <1>7
<1>9. kept[0] \in T[0] /\ \A i \in 1 .. n : kept[i - 1] \in T[i - 1] => kept[i] \in T[i]
  <2>1. << >> \in Seq(Tool)
    OBVIOUS
  <2>. HIDE DEF Round, Whole
  <2>2. \A i \in 1 .. n : kept[i - 1] \in Seq(Tool) => kept[i] \in Seq(Tool)
    BY <1>5, <1>8
  <2>3. T[0] = Seq(Tool) /\ \A i \in 1 .. n : T[i - 1] = Seq(Tool) /\ T[i] = Seq(Tool)
    BY <1>0, <1>3
  <2>. HIDE DEF T
  <2>. QED BY <1>8, <2>1, <2>2, <2>3
<1>10. \A i \in 0 .. n : kept[i] \in T[i]
  <2>. HIDE DEF T, Whole, Round
  <2>. QED BY <1>0, <1>9, LoopKeeps
<1>. QED BY <1>0, <1>1, <1>10

\* The defaults.
LEMMA DefaultsHeld ==
    /\ DefaultPrefs = [values |-> DefaultValues, bindings |-> DefaultKeys, tools |-> << >>]
    /\ DefaultValues \in [Pref -> Number]
    /\ DefaultKeys \in PrefBindings /\ DOMAIN DefaultKeys = {"undo"}
    /\ PrefsHeld(DefaultPrefs)
<1>1. DefaultValues \in [Pref -> Number]
  BY DEF DefaultValues, Number
<1>2. DOMAIN DefaultKeys = {"undo"} /\ DefaultKeys \in PrefBindings
  BY PrefBindingsAre DEF DefaultKeys
<1>3. << >> \in Seq(Tool)
  OBVIOUS
<1>. QED BY <1>1, <1>2, <1>3 DEF PrefsHeld, Prefs, DefaultPrefs

\* Preferences of which one field changes.
LEMMA PrefsChanged ==
    ASSUME NEW p, PrefsHeld(p)
    PROVE  /\ p = [values |-> p.values, bindings |-> p.bindings, tools |-> p.tools]
           /\ p.values \in [Pref -> Number] /\ p.bindings \in PrefBindings /\ p.tools \in Seq(Tool)
           /\ "undo" \in DOMAIN p.bindings
           /\ \A v \in [Pref -> Number] : PrefsHeld([p EXCEPT !.values = v])
           /\ \A b \in PrefBindings : "undo" \in DOMAIN b => PrefsHeld([p EXCEPT !.bindings = b])
           /\ \A t \in Seq(Tool) : PrefsHeld([p EXCEPT !.tools = t])
<1>1. /\ p = [values |-> p.values, bindings |-> p.bindings, tools |-> p.tools]
      /\ p.values \in [Pref -> Number] /\ p.bindings \in PrefBindings /\ p.tools \in Seq(Tool)
      /\ "undo" \in DOMAIN p.bindings
  BY DEF PrefsHeld, Prefs
<1>2. \A v, b, t : v \in [Pref -> Number] /\ b \in PrefBindings /\ t \in Seq(Tool) /\ "undo" \in DOMAIN b
                   => PrefsHeld([values |-> v, bindings |-> b, tools |-> t])
  BY DEF PrefsHeld, Prefs
<1>3. /\ \A v : [p EXCEPT !.values = v] = [values |-> v, bindings |-> p.bindings, tools |-> p.tools]
      /\ \A b : [p EXCEPT !.bindings = b] = [values |-> p.values, bindings |-> b, tools |-> p.tools]
      /\ \A t : [p EXCEPT !.tools = t] = [values |-> p.values, bindings |-> p.bindings, tools |-> t]
  BY <1>1
<1>. QED BY <1>1, <1>2, <1>3

\* Binding an action keeps preferences as they should be.
LEMMA BindingsWith ==
    ASSUME NEW b \in PrefBindings, "undo" \in DOMAIN b, NEW a \in KeyOfPref \cup {"undo"},
           NEW k \in {"Ctrl+Z", "F1"}
    PROVE  With(b, a, k) \in PrefBindings /\ "undo" \in DOMAIN With(b, a, k)
<1> DEFINE c == With(b, a, k)
<1>1. DOMAIN c = DOMAIN b \cup {a} /\ \A z \in DOMAIN c : c[z] = IF z = a THEN k ELSE b[z]
  BY DEF With
<1>2. c = [z \in DOMAIN c |-> c[z]]
  BY DEF With
<1>. HIDE DEF c
<1>3. DOMAIN b \subseteq KeyOfPref \cup {"undo"} /\ \A z \in DOMAIN b : b[z] \in {"Ctrl+Z", "F1"}
  BY PrefBindingsAre
<1>4. c \in PrefBindings
  <2>1. DOMAIN c \subseteq KeyOfPref \cup {"undo"}
    BY <1>1, <1>3
  <2>2. \A z \in DOMAIN c : c[z] \in {"Ctrl+Z", "F1"}
    BY <1>1, <1>3
  <2>. QED BY <1>2, <2>1, <2>2, PrefBindingsAre
<1>. QED BY <1>1, <1>4 DEF c

\* The place of a mark is the first that holds it, or none does.
LEMMA MarkIs ==
    ASSUME NEW text \in Seq(Word), NEW mark
    PROVE  /\ Mark(text, mark) \in 0 .. Len(text)
           /\ \A i \in 1 .. Len(text) : text[i] = mark =>
                 /\ Mark(text, mark) \in 1 .. i /\ text[Mark(text, mark)] = mark
<1> DEFINE S == {i \in DOMAIN text : text[i] = mark}
<1>1. Mark(text, mark) = FirstOf(S) /\ DOMAIN text = 1 .. Len(text) /\ Len(text) \in Nat
  BY DEF Mark
<1>2. ASSUME S # {} PROVE FirstOf(S) \in S /\ \A j \in S : FirstOf(S) <= j
  <2>1. S \in SUBSET Nat
    BY <1>1
  <2>2. \E l \in S : \A j \in S : l <= j
    <3>. HIDE DEF S
    <3>. QED BY <1>2, <2>1, LeastNumber
  <2>. HIDE DEF S
  <2>. QED BY <1>2, <2>2 DEF FirstOf
<1>3. S = {} => FirstOf(S) = 0
  BY DEF FirstOf
<1> DEFINE m == FirstOf(S)
<1>4. \A i \in 1 .. Len(text) : text[i] = mark => i \in S
  BY <1>1
<1>5. \A i \in S : i \in 1 .. Len(text) /\ text[i] = mark
  BY <1>1
<1>. HIDE DEF S
<1>6. S # {} => m \in S /\ \A j \in S : m <= j
  BY <1>2
<1>. HIDE DEF m
<1>7. m \in 0 .. Len(text)
  BY <1>1, <1>3, <1>5, <1>6 DEF m
<1>8. \A i \in 1 .. Len(text) : text[i] = mark => m \in 1 .. i /\ text[m] = mark
  BY <1>4, <1>5, <1>6
<1>. QED BY <1>1, <1>7, <1>8 DEF m

\* Parts of a text are texts.
LEMMA PartsAre ==
    ASSUME NEW text \in Seq(Word), NEW mark
    PROVE  Before(text, mark) \in Seq(Word) /\ After(text, mark) \in Seq(Word)
<1> DEFINE m == Mark(text, mark)
<1>1. m \in 0 .. Len(text)
  BY MarkIs
<1>2. Before(text, mark) = SubSeq(text, 1, m - 1) /\ After(text, mark) = SubSeq(text, m + 1, Len(text))
  BY DEF Before, After
<1>. HIDE DEF m
<1>. QED BY <1>1, <1>2, SubSeqProperties

\* A text that goes on after a mark is taken apart there, if the mark is not in
\* what comes before.
LEMMA Apart ==
    ASSUME NEW head \in Seq(Word), NEW tail \in Seq(Word), NEW mark \in Word,
           mark \notin Range(head)
    PROVE  /\ Before(head \o <<mark>> \o tail, mark) = head
           /\ After(head \o <<mark>> \o tail, mark) = tail
<1> DEFINE text == head \o <<mark>> \o tail
           m == Mark(text, mark)
           n == Len(head)
<1>1. /\ text \in Seq(Word) /\ n \in Nat /\ Len(tail) \in Nat /\ Len(text) = n + 1 + Len(tail)
      /\ \A i \in 1 .. n : text[i] = head[i]
      /\ text[n + 1] = mark /\ \A i \in 1 .. Len(tail) : text[n + 1 + i] = tail[i]
  OBVIOUS
<1>. HIDE DEF text
<1>2. m \in 1 .. n + 1 /\ text[m] = mark
  <2>1. n + 1 \in 1 .. Len(text)
    BY <1>1
  <2>. HIDE DEF n
  <2>. QED BY <1>1, <2>1, MarkIs
<1>3. Before(text, mark) = SubSeq(text, 1, m - 1) /\ After(text, mark) = SubSeq(text, m + 1, Len(text))
  BY DEF Before, After
<1>. HIDE DEF m, n
<1>4. m = n + 1
  <2>1. ASSUME m \in 1 .. n PROVE FALSE
    <3>1. m \in DOMAIN head /\ head[m] = mark
      BY <1>1, <1>2, <2>1 DEF n
    <3>. QED BY <3>1 DEF Range
  <2>. QED BY <1>1, <1>2, <2>1
<1>5. SubSeq(text, 1, n) = head
  BY <1>1 DEF n
<1>6. SubSeq(text, n + 2, Len(text)) = tail
  BY <1>1
<1>7. m - 1 = n /\ m + 1 = n + 2
  BY <1>1, <1>4
<1>. QED BY <1>3, <1>5, <1>6, <1>7 DEF text

\* A line is read as some tool, and as the one it was written for if it can tell.
LEMMA LineTells ==
    ASSUME NEW tool \in Tool
    PROVE  /\ ToolIn(LineOf(tool)) \in Tool
           /\ Tellable(tool) => ToolIn(LineOf(tool)) = tool
<1> DEFINE rest == tool.path \o <<Comma>> \o tool.arguments
           line == LineOf(tool)
           value == After(line, Equals)
<1>0. Equals \in Word /\ Comma \in Word
  BY SettingsAssumption
<1>1. /\ tool.name \in Seq(Word) /\ tool.path \in Seq(Word) /\ tool.arguments \in Seq(Word)
      /\ tool = [name |-> tool.name, path |-> tool.path, arguments |-> tool.arguments]
  BY DEF Tool
<1>2. rest \in Seq(Word) /\ line \in Seq(Word) /\ line = tool.name \o <<Equals>> \o rest
  <2>1. <<Equals>> \in Seq(Word) /\ <<Comma>> \in Seq(Word)
    BY <1>0
  <2>2. /\ tool.name \o <<Equals>> \in Seq(Word) /\ tool.path \o <<Comma>> \in Seq(Word)
        /\ rest \in Seq(Word)
    BY <1>1, <2>1, ConcatProperties
  <2>3. line = ((tool.name \o <<Equals>>) \o tool.path) \o <<Comma>> \o tool.arguments
    BY DEF LineOf
  <2>4. line = (tool.name \o <<Equals>>) \o rest
    <3> DEFINE a == tool.name \o <<Equals>>
               b == <<Comma>> \o tool.arguments
    <3>1. a \in Seq(Word) /\ b \in Seq(Word) /\ tool.path \in Seq(Word)
      BY <1>1, <2>1, <2>2, ConcatProperties
    <3>. HIDE DEF a
    <3>2. line = (a \o tool.path) \o b
      <4>1. a \o tool.path \in Seq(Word)
        BY <3>1, ConcatProperties
      <4>2. line = ((a \o tool.path) \o <<Comma>>) \o tool.arguments
        BY <2>3 DEF a
      <4>. HIDE DEF line
      <4>. QED BY <1>1, <2>1, <4>1, <4>2, ConcatAssociative
    <3>3. rest = tool.path \o b
      BY <1>1, <2>1, ConcatAssociative
    <3>. HIDE DEF b, rest, line
    <3> DEFINE c == tool.path
    <3>4. c \in Seq(Word)
      BY <3>1
    <3>. HIDE DEF c
    <3>5. (a \o c) \o b = a \o (c \o b)
      BY <3>1, <3>4, ConcatAssociative
    <3>. QED BY <3>2, <3>3, <3>5 DEF a, c
  <2>. QED BY <2>2, <2>4, ConcatProperties
<1>3. ToolIn(line) = [name |-> Before(line, Equals), path |-> Before(value, Comma), arguments |-> After(value, Comma)]
  BY DEF ToolIn, ToolOf
<1>. HIDE DEF line
<1>4. Before(line, Equals) \in Seq(Word) /\ value \in Seq(Word)
  BY <1>2, PartsAre
<1>5. Before(value, Comma) \in Seq(Word) /\ After(value, Comma) \in Seq(Word)
  <2>. HIDE DEF value
  <2>. QED BY <1>4, PartsAre
<1>6. ASSUME Tellable(tool) PROVE ToolIn(line) = tool
  <2>1. Equals \notin Range(tool.name) /\ Comma \notin Range(tool.path)
    BY <1>6 DEF Tellable
  <2>2. Before(line, Equals) = tool.name /\ value = rest
    <3>. HIDE DEF rest
    <3>. QED BY <1>0, <1>1, <1>2, <2>1, Apart
  <2>3. Before(rest, Comma) = tool.path /\ After(rest, Comma) = tool.arguments
    BY <1>0, <1>1, <2>1, Apart
  <2>. HIDE DEF rest, value
  <2>. QED BY <1>1, <1>3, <2>2, <2>3
<1>7. ToolIn(line) \in Tool
  BY <1>3, <1>4, <1>5 DEF Tool
<1>. QED BY <1>6, <1>7 DEF line

\* What is read over the preferences there are: what the file tells of values and
\* bindings, and its tools after theirs.
LEMMA ReadPrefsHolds ==
    ASSUME prefsFile # NoFile, PrefsFileHeld, NEW p, PrefsHeld(p)
    PROVE  PrefsHeld(ReadPrefs(p)) /\ (p = DefaultPrefs => Told(ReadPrefs(p)))
<1> DEFINE s == saved.prefs
           w == [q \in Written |-> Printed(q, s.values[q])]
           v == Over(w, p.values)
           b == Over(s.bindings, p.bindings)
           r == [i \in DOMAIN s.tools |-> ToolIn(LineOf(s.tools[i]))]
           t == p.tools \o r
<1>1. PrefsHeld(s) /\ prefsFile = TextOf(s)
  BY DEF PrefsFileHeld
<1>. HIDE DEF s
<1>2. /\ s.values \in [Pref -> Number] /\ s.bindings \in PrefBindings /\ s.tools \in Seq(Tool)
      /\ "undo" \in DOMAIN s.bindings
  BY <1>1, PrefsChanged
<1>3. /\ p.values \in [Pref -> Number] /\ p.bindings \in PrefBindings /\ p.tools \in Seq(Tool)
      /\ "undo" \in DOMAIN p.bindings
  BY PrefsChanged
<1>4. /\ prefsFile.values = w /\ prefsFile.bindings = s.bindings
      /\ prefsFile.lines = [i \in DOMAIN s.tools |-> LineOf(s.tools[i])]
  BY <1>1 DEF TextOf
<1>5. ReadPrefs(p) = [values |-> v, bindings |-> b, tools |-> t]
  BY <1>4 DEF ReadPrefs, ReadTools
<1>6. Written \subseteq Pref /\ \A q \in Written : w[q] = Printed(q, s.values[q]) /\ w[q] \in Number
  BY <1>2, SettingsAssumption DEF Written, Printed
<1>7. /\ v \in [Pref -> Number] /\ \A q \in Written : v[q] = Printed(q, s.values[q])
  <2>1. DOMAIN v = Pref /\ v = [q \in Pref |-> IF q \in Written THEN w[q] ELSE p.values[q]]
    BY <1>2, <1>3, <1>6 DEF Over
  <2>. HIDE DEF v, w
  <2>. QED BY <1>2, <1>3, <1>6, <2>1
<1>8. /\ DOMAIN b = DOMAIN s.bindings \cup DOMAIN p.bindings /\ b = [a \in DOMAIN b |-> b[a]]
      /\ \A a \in DOMAIN b : b[a] = IF a \in DOMAIN s.bindings THEN s.bindings[a] ELSE p.bindings[a]
  BY DEF Over
<1>9. /\ r \in Seq(Tool) /\ Len(r) = Len(s.tools) /\ DOMAIN r = DOMAIN s.tools
      /\ \A i \in DOMAIN s.tools : Tellable(s.tools[i]) => r[i] = s.tools[i]
  <2>1. \A i \in 1 .. Len(s.tools) : s.tools[i] \in Tool
    BY <1>2
  <2>2. \A i \in 1 .. Len(s.tools) : ToolIn(LineOf(s.tools[i])) \in Tool
                                  /\ (Tellable(s.tools[i]) => ToolIn(LineOf(s.tools[i])) = s.tools[i])
    BY <2>1, LineTells
  <2>3. DOMAIN s.tools = 1 .. Len(s.tools) /\ Len(s.tools) \in Nat
    BY <1>2
  <2>. QED BY <2>2, <2>3
<1>. HIDE DEF r
<1>10. t \in Seq(Tool)
  BY <1>3, <1>9, ConcatProperties
<1>. HIDE DEF v, b, t, w
<1>11. b \in PrefBindings
  <2>1. DOMAIN b \subseteq KeyOfPref \cup {"undo"}
    BY <1>2, <1>3, <1>8, PrefBindingsAre
  <2>2. \A a \in DOMAIN b : b[a] \in {"Ctrl+Z", "F1"}
    BY <1>2, <1>3, <1>8, PrefBindingsAre
  <2>. QED BY <1>8, <2>1, <2>2, PrefBindingsAre
<1>12. PrefsHeld(ReadPrefs(p))
  BY <1>3, <1>5, <1>7, <1>8, <1>10, <1>11 DEF PrefsHeld, Prefs
<1>13. ASSUME p = DefaultPrefs PROVE Told(ReadPrefs(p))
  <2>1. DOMAIN p.bindings = {"undo"} /\ p.tools = << >>
    BY <1>13, DefaultsHeld
  <2>2. b = s.bindings
    <3>1. DOMAIN b = DOMAIN s.bindings /\ \A a \in DOMAIN b : b[a] = s.bindings[a]
      BY <1>2, <1>8, <2>1
    <3>2. s.bindings = [a \in DOMAIN s.bindings |-> s.bindings[a]]
      BY <1>2, PrefBindingsAre
    <3>. QED BY <1>8, <3>1, <3>2
  <2>3. t = r
    BY <1>9, <2>1, ConcatEmptySeq DEF t
  <2>. QED BY <1>5, <1>7, <1>9, <2>2, <2>3 DEF Told, s
<1>. QED BY <1>12, <1>13

\* A call of another object leaves the preferences and what was saved of them alone.
LEMMA PrefsKept ==
    ASSUME PrefsPart, UNCHANGED prefVars, saved'.prefs = saved.prefs, fresh' # "prefs"
    PROVE  PrefsPart'
  BY DEF PrefsPart, PrefsFileHeld, Told, prefVars

\* So it does with the layouts.
LEMMA LayoutsKept ==
    ASSUME LayoutsPart, UNCHANGED layoutVars, saved'.layouts = saved.layouts, fresh' # "layouts"
    PROVE  LayoutsPart'
  BY DEF LayoutsPart, LayoutFileHeld, layoutVars

\* And with the bindings of keys.
LEMMA KeysKept ==
    ASSUME KeysPart, UNCHANGED keyVars, saved'.keys = saved.keys, fresh' # "keys"
    PROVE  KeysPart'
  BY DEF KeysPart, KeyFileHeld, keyVars

\* Saving changes what was saved of one object.
LEMMA SaveIs ==
    ASSUME DOMAIN saved = Object, saved = [object \in Object |-> saved[object]],
           NEW object \in Object, NEW what, Save(object, what)
    PROVE  /\ fresh' = "none" /\ DOMAIN saved' = Object /\ saved' = [o \in Object |-> saved'[o]]
           /\ saved'[object] = what /\ \A o \in Object \ {object} : saved'[o] = saved[o]
  BY DEF Save, Call

\* Each call keeps the preferences, and what their file says.
LEMMA PrefsStep ==
    ASSUME SettingsIInv, PrefNext
    PROVE  SettingsIInv'
<1>1. /\ PrefsHeld(prefs) /\ PrefsFileHeld /\ KeysPart /\ LayoutsPart
      /\ DOMAIN saved = Object /\ saved = [object \in Object |-> saved[object]]
  BY DEF SettingsIInv, PrefsPart
<1>2. /\ prefs.values \in [Pref -> Number] /\ prefs.bindings \in PrefBindings
      /\ prefs.tools \in Seq(Tool) /\ "undo" \in DOMAIN prefs.bindings
      /\ prefs = [values |-> prefs.values, bindings |-> prefs.bindings, tools |-> prefs.tools]
  BY <1>1, PrefsChanged
<1>3. ASSUME PrefCall, UNCHANGED prefsFile, PrefsHeld(prefs') PROVE SettingsIInv'
  <2>1. fresh' = "none" /\ UNCHANGED <<keyVars, layoutVars, saved>>
    BY <1>3 DEF PrefCall, Call
  <2>2. KeysPart' /\ LayoutsPart'
    BY <1>1, <2>1, KeysKept, LayoutsKept
  <2>3. PrefsPart'
    BY <1>1, <1>3, <2>1 DEF PrefsPart, PrefsFileHeld
  <2>. QED BY <1>1, <2>1, <2>2, <2>3 DEF SettingsIInv
<1>4. CASE \E v \in Number : SetFontSize(v)
  <2>1. PICK v \in Number : SetFontSize(v)
    BY <1>4
  <2> DEFINE w == [prefs.values EXCEPT !["fontSize"] = Clamp(v)]
  <2>2. Clamp(v) \in Number
    BY DEF Clamp, Number
  <2>3. w \in [Pref -> Number]
    <3>1. "fontSize" \in Pref
      BY DEF Pref
    <3>. QED BY <1>2, <2>2, <3>1
  <2>4. prefs' = [prefs EXCEPT !.values = w]
    BY <1>2, <2>1 DEF SetFontSize
  <2>. HIDE DEF w
  <2>5. PrefsHeld(prefs')
    BY <1>1, <2>3, <2>4, PrefsChanged
  <2>. QED BY <1>3, <2>1, <2>5 DEF SetFontSize
<1>5. CASE \E v \in Number, p \in Pref : SetPreferences(p, v)
  <2>1. PICK v \in Number, p \in Pref : SetPreferences(p, v)
    BY <1>5
  <2> DEFINE w == [prefs.values EXCEPT ![p] = v]
  <2>2. w \in [Pref -> Number]
    BY <1>2
  <2>3. prefs' = [prefs EXCEPT !.values = w]
    BY <1>2, <2>1 DEF SetPreferences
  <2>. HIDE DEF w
  <2>4. PrefsHeld(prefs')
    BY <1>1, <2>2, <2>3, PrefsChanged
  <2>. QED BY <1>3, <2>1, <2>4 DEF SetPreferences
<1>6. CASE \E a \in KeyOfPref : SetKeyBinding(a, "F1")
  <2>1. PICK a \in KeyOfPref : SetKeyBinding(a, "F1")
    BY <1>6
  <2> DEFINE b == With(prefs.bindings, a, "F1")
  <2>2. b \in PrefBindings /\ "undo" \in DOMAIN b
    BY <1>2, BindingsWith
  <2>3. prefs' = [prefs EXCEPT !.bindings = b]
    BY <2>1 DEF SetKeyBinding
  <2>. HIDE DEF b
  <2>4. PrefsHeld(prefs')
    BY <1>1, <2>2, <2>3, PrefsChanged
  <2>. QED BY <1>3, <2>1, <2>4 DEF SetKeyBinding
<1>7. CASE \E a \in KeyOfPref : ResetKeyBinding(a)
  <2>1. PICK a \in KeyOfPref : ResetKeyBinding(a)
    BY <1>7
  <2> DEFINE b == IF a \in DOMAIN DefaultKeys THEN With(prefs.bindings, a, DefaultKeys[a])
                  ELSE Restrict(prefs.bindings, DOMAIN prefs.bindings \ {a})
  <2>2. b \in PrefBindings /\ "undo" \in DOMAIN b
    <3>1. CASE a \in DOMAIN DefaultKeys
      <4>1. DefaultKeys[a] \in {"Ctrl+Z", "F1"}
        BY <3>1, DefaultsHeld, PrefBindingsAre
      <4>. QED BY <1>2, <3>1, <4>1, BindingsWith
    <3>2. CASE a \notin DOMAIN DefaultKeys
      <4> DEFINE r == Restrict(prefs.bindings, DOMAIN prefs.bindings \ {a})
      <4>1. /\ DOMAIN r = DOMAIN prefs.bindings \ {a} /\ r = [z \in DOMAIN r |-> r[z]]
            /\ \A z \in DOMAIN r : r[z] = prefs.bindings[z]
        BY DEF Restrict
      <4>. HIDE DEF r
      <4>2. DOMAIN r \subseteq KeyOfPref \cup {"undo"} /\ \A z \in DOMAIN r : r[z] \in {"Ctrl+Z", "F1"}
        BY <1>2, <4>1, PrefBindingsAre
      <4>3. r \in PrefBindings /\ "undo" \in DOMAIN r
        BY <1>2, <3>2, <4>1, <4>2, PrefBindingsAre, DefaultsHeld
      <4>. QED BY <3>2, <4>3 DEF r
    <3>. QED BY <3>1, <3>2
  <2>3. prefs' = [prefs EXCEPT !.bindings = b]
    BY <2>1 DEF ResetKeyBinding
  <2>. HIDE DEF b
  <2>4. PrefsHeld(prefs')
    BY <1>1, <2>2, <2>3, PrefsChanged
  <2>. QED BY <1>3, <2>1, <2>4 DEF ResetKeyBinding
<1>8. CASE ResetAllKeyBindings
  <2>1. PrefsHeld(prefs')
    BY <1>1, <1>8, PrefsChanged, DefaultsHeld DEF ResetAllKeyBindings
  <2>. QED BY <1>3, <1>8, <2>1 DEF ResetAllKeyBindings
<1>9. CASE ResetToDefaults
  <2>1. prefs' = [DefaultPrefs EXCEPT !.bindings = prefs.bindings]
    BY <1>9 DEF ResetToDefaults
  <2>2. PrefsHeld(prefs')
    BY <1>2, <2>1, PrefsChanged, DefaultsHeld
  <2>. QED BY <1>3, <1>9, <2>2 DEF ResetToDefaults
<1>10. CASE \E name, file, arguments \in ToolText :
               AddExternalTool([name |-> name, path |-> file, arguments |-> arguments])
  <2>1. PICK name \in ToolText, file \in ToolText, arguments \in ToolText :
            AddExternalTool([name |-> name, path |-> file, arguments |-> arguments])
    BY <1>10
  <2> DEFINE tool == [name |-> name, path |-> file, arguments |-> arguments]
             t == Append(OtherTools(tool.name), tool)
  <2>2. t \in Seq(Tool)
    <3>1. tool \in Tool
      BY SettingsAssumption DEF Tool
    <3>2. OtherTools(tool.name) \in Seq(Tool)
      BY <1>2, OtherToolsAre
    <3>. QED BY <3>1, <3>2, AppendProperties
  <2>3. prefs' = [prefs EXCEPT !.tools = t]
    BY <2>1 DEF AddExternalTool
  <2>. HIDE DEF t
  <2>4. PrefsHeld(prefs')
    BY <1>1, <2>2, <2>3, PrefsChanged
  <2>. QED BY <1>3, <2>1, <2>4 DEF AddExternalTool
<1>11. CASE \E name \in ToolText : RemoveExternalTool(name)
  <2>1. PICK name \in ToolText : RemoveExternalTool(name)
    BY <1>11
  <2>2. OtherTools(name) \in Seq(Tool) /\ prefs' = [prefs EXCEPT !.tools = OtherTools(name)]
    BY <1>2, <2>1, OtherToolsAre DEF RemoveExternalTool
  <2>3. PrefsHeld(prefs')
    BY <1>1, <2>2, PrefsChanged
  <2>. QED BY <1>3, <2>1, <2>3 DEF RemoveExternalTool
<1>12. CASE SavePreferences
  <2>1. /\ Save("prefs", prefs) /\ UNCHANGED <<prefs, keyVars, layoutVars>>
        /\ prefsFile' = TextOf(prefs)
    BY <1>12 DEF SavePreferences, TextOf
  <2>2. /\ fresh' = "none" /\ DOMAIN saved' = Object /\ saved' = [o \in Object |-> saved'[o]]
        /\ saved'.prefs = prefs /\ saved'.keys = saved.keys /\ saved'.layouts = saved.layouts
    <3>1. "prefs" \in Object /\ "keys" \in Object \ {"prefs"} /\ "layouts" \in Object \ {"prefs"}
      BY DEF Object
    <3>. QED BY <1>1, <2>1, <3>1, SaveIs
  <2>3. KeysPart' /\ LayoutsPart'
    BY <1>1, <2>1, <2>2, KeysKept, LayoutsKept
  <2>4. PrefsPart'
    <3>1. PrefsFileHeld'
      BY <1>1, <2>1, <2>2 DEF PrefsFileHeld, PrefsHeld
    <3>. QED BY <1>1, <2>1, <3>1 DEF PrefsPart, PrefsHeld
  <2>. QED BY <2>2, <2>3, <2>4 DEF SettingsIInv
<1>13. CASE LoadPreferences
  <2>1. PrefsHeld(prefs')
    BY <1>1, <1>13, ReadPrefsHolds DEF LoadPreferences
  <2>. QED BY <1>3, <1>13, <2>1 DEF LoadPreferences
<1>14. CASE PrefSession
  <2>1. /\ prefsFile # NoFile /\ prefs' = ReadPrefs(DefaultPrefs) /\ fresh' = "prefs"
        /\ UNCHANGED <<prefsFile, saved, keyVars, layoutVars>>
    BY <1>14 DEF PrefSession, NewSession
  <2>2. PrefsHeld(prefs') /\ Told(prefs')
    BY <1>1, <2>1, DefaultsHeld, ReadPrefsHolds
  <2>3. PrefsPart'
    BY <1>1, <2>1, <2>2 DEF PrefsPart, PrefsFileHeld, Told, PrefsHeld
  <2>4. KeysPart' /\ LayoutsPart'
    BY <1>1, <2>1, KeysKept, LayoutsKept
  <2>. QED BY <1>1, <2>1, <2>3, <2>4 DEF SettingsIInv
<1>. QED BY <1>4, <1>5, <1>6, <1>7, <1>8, <1>9, <1>10, <1>11, <1>12, <1>13, <1>14 DEF PrefNext

\* What is shown, by its fields.
LEMMA ShowingIs ==
    /\ \A s \in Showing : /\ s.current \in LayoutName /\ s.viewport \in Viewport
                          /\ s.panels \in [Panel -> PanelState]
                          /\ s = [current |-> s.current, viewport |-> s.viewport, panels |-> s.panels]
    /\ \A c \in LayoutName, v \in Viewport, ps \in [Panel -> PanelState] :
          [current |-> c, viewport |-> v, panels |-> ps] \in Showing
  BY DEF Showing

\* Panels of one layout over those of another are the former's.
LEMMA PanelsOver ==
    ASSUME NEW ps \in [Panel -> PanelState], NEW qs \in [Panel -> PanelState]
    PROVE  Over(ps, qs) = ps
  BY DEF Over

\* A session begins with the first layout that is built in.
LEMMA DefaultShownIs == DefaultShown \in Showing
<1> DEFINE l == BuiltinLayouts[1]
           none == <<>>
<1>1. l \in Layout
  <2>1. BuiltinLayouts \in Seq(Layout) /\ Len(BuiltinLayouts) = 4
    BY BuiltinHolds
  <2>. QED BY ONLY <2>1
<1>. HIDE DEF l
<1>2. l.name \in LayoutName /\ l.viewport \in Viewport /\ l.panels \in [Panel -> PanelState]
  BY <1>1 DEF Layout
<1>3. Over(l.panels, none) = l.panels
  <2>1. DOMAIN none = {}
    OBVIOUS
  <2>. HIDE DEF none
  <2>. QED BY <1>2, <2>1 DEF Over
<1>4. DefaultShown = [current |-> l.name, viewport |-> l.viewport, panels |-> Over(l.panels, none)]
  BY DEF DefaultShown, Applied, l
<1>. HIDE DEF none
<1>. QED BY <1>2, <1>3, <1>4, ShowingIs

\* What the file gives a session.
LEMMA ReadFileHolds ==
    ASSUME layoutFile # NoFile, LayoutFileHeld, NEW ls, LayoutsHeld(ls), NEW s \in Showing,
           ReadFile(ls, s)
    PROVE  /\ LayoutsHeld(layouts') /\ shown' \in Showing /\ shown' = saved.layouts.shown
           /\ ls = BuiltinLayouts =>
                 \A name : Known(layouts', name) = Known(saved.layouts.layouts, name)
<1> DEFINE ms == saved.layouts.layouts
           was == saved.layouts.shown
           read == [i \in DOMAIN Lines(ms) |-> ReadLayout(Lines(ms)[i])]
<1>1. layoutFile = [shown |-> was, custom |-> Lines(ms)] /\ was \in Showing /\ LayoutsHeld(ms)
  BY DEF LayoutFileHeld
<1>2. /\ layouts' = ls \o read
      /\ shown' = [was EXCEPT !.panels = Over(@, s.panels)]
  BY <1>1 DEF ReadFile
<1>. HIDE DEF ms, was
<1>3. /\ read \in Seq(Layout) /\ \A i \in DOMAIN read : ~read[i].isBuiltin
      /\ \A name : Known(BuiltinLayouts \o read, name) = Known(ms, name)
  BY <1>1, ReadAsWritten
<1>. HIDE DEF read
<1>4. shown' = was
  <2>1. was.panels \in [Panel -> PanelState] /\ s.panels \in [Panel -> PanelState]
    BY <1>1, ShowingIs
  <2>2. Over(was.panels, s.panels) = was.panels
    BY <2>1, PanelsOver
  <2>3. was = [current |-> was.current, viewport |-> was.viewport, panels |-> was.panels]
    BY <1>1, ShowingIs
  <2>. QED BY <1>2, <2>2, <2>3
<1>5. LayoutsHeld(layouts')
  <2> DEFINE t == ls \o read
  <2>1. ls \in Seq(Layout) /\ Len(ls) \in Nat /\ Len(ls) >= 4 /\ Len(read) \in Nat
    BY <1>3 DEF LayoutsHeld
  <2>2. /\ t \in Seq(Layout) /\ Len(t) = Len(ls) + Len(read)
        /\ \A i \in 1 .. Len(ls) + Len(read) : t[i] = IF i <= Len(ls) THEN ls[i] ELSE read[i - Len(ls)]
    BY ONLY <1>3, <2>1, ConcatProperties
  <2>. HIDE DEF t
  <2>3. \A i \in 1 .. 4 : t[i] = BuiltinLayouts[i]
    <3>1. \A i \in 1 .. 4 : i \in 1 .. Len(ls) + Len(read) /\ i <= Len(ls)
      BY <2>1
    <3>. QED BY <2>2, <3>1 DEF LayoutsHeld
  <2>4. ASSUME NEW i \in 5 .. Len(t) PROVE ~t[i].isBuiltin
    <3>1. CASE i <= Len(ls)
      <4>1. i \in 1 .. Len(ls) + Len(read) /\ i \in 5 .. Len(ls)
        BY <2>1, <2>2, <3>1
      <4>. QED BY <2>2, <3>1, <4>1 DEF LayoutsHeld
    <3>2. CASE ~(i <= Len(ls))
      <4>1. i \in 1 .. Len(ls) + Len(read) /\ i - Len(ls) \in 1 .. Len(read)
        BY <2>1, <2>2, <3>2
      <4>2. DOMAIN read = 1 .. Len(read)
        BY <1>3
      <4>. QED BY <1>3, <2>2, <3>2, <4>1, <4>2
    <3>. QED BY <3>1, <3>2
  <2>5. LayoutsHeld(t)
    BY <2>1, <2>2, <2>3, <2>4 DEF LayoutsHeld
  <2>. QED BY <1>2, <2>5 DEF t
<1>. QED BY <1>1, <1>2, <1>3, <1>4, <1>5 DEF ms, was

\* A layout made of what is shown, or copied under a name.
LEMMA LayoutIs ==
    /\ \A l \in Layout : /\ l.name \in LayoutName /\ l.viewport \in Viewport
                         /\ l.panels \in [Panel -> PanelState]
                         /\ l = [name |-> l.name, isBuiltin |-> l.isBuiltin,
                                 viewport |-> l.viewport, panels |-> l.panels]
    /\ \A n \in LayoutName, v \in Viewport, ps \in [Panel -> PanelState] :
          [name |-> n, isBuiltin |-> FALSE, viewport |-> v, panels |-> ps] \in Layout
  BY DEF Layout

\* Each call keeps the layouts, and what their file says.
LEMMA LayoutsStep ==
    ASSUME SettingsIInv, LayoutNext
    PROVE  SettingsIInv'
<1>1. /\ LayoutsHeld(layouts) /\ shown \in Showing /\ LayoutFileHeld /\ KeysPart /\ PrefsPart
      /\ DOMAIN saved = Object /\ saved = [object \in Object |-> saved[object]]
  BY DEF SettingsIInv, LayoutsPart
<1>2. /\ shown.current \in LayoutName /\ shown.viewport \in Viewport
      /\ shown.panels \in [Panel -> PanelState]
      /\ shown = [current |-> shown.current, viewport |-> shown.viewport, panels |-> shown.panels]
  BY <1>1, ShowingIs
<1>3. ASSUME LayoutCall, UNCHANGED layoutFile, LayoutsHeld(layouts'), shown' \in Showing
      PROVE  SettingsIInv'
  <2>1. fresh' = "none" /\ UNCHANGED <<keyVars, prefVars, saved>>
    BY <1>3 DEF LayoutCall, Call
  <2>2. KeysPart' /\ PrefsPart'
    BY <1>1, <2>1, KeysKept, PrefsKept
  <2>3. LayoutsPart'
    BY <1>1, <1>3, <2>1 DEF LayoutsPart, LayoutFileHeld
  <2>. QED BY <1>1, <2>1, <2>2, <2>3 DEF SettingsIInv
<1> DEFINE Names == CustomLayout \cup {"Default", "3D"}
<1>4. Names \subseteq LayoutName
  BY DEF LayoutName
<1>5. CASE \E name \in Names : ApplyLayout(name)
  <2>1. PICK name \in Names : ApplyLayout(name)
    BY <1>5
  <2> DEFINE l == layouts[Find(layouts, name)]
  <2>2. l \in Layout
    BY <1>1, <2>1, FindHolds DEF ApplyLayout, LayoutsHeld
  <2>3. shown' = Applied(shown, l)
    BY <2>1 DEF ApplyLayout
  <2>. HIDE DEF l
  <2>4. shown' = [current |-> l.name, viewport |-> l.viewport, panels |-> l.panels]
    BY <1>2, <2>2, <2>3, LayoutIs, PanelsOver DEF Applied
  <2>5. shown' \in Showing
    BY <2>2, <2>4, LayoutIs, ShowingIs
  <2>. QED BY <1>1, <1>3, <2>1, <2>5 DEF ApplyLayout
<1>6. CASE \E name \in Names : SaveCurrentLayoutAs(name)
  <2>1. PICK name \in Names : SaveCurrentLayoutAs(name)
    BY <1>6
  <2> DEFINE i == Find(layouts, name)
             l == [name |-> name, isBuiltin |-> FALSE, viewport |-> shown.viewport,
                   panels |-> shown.panels]
  <2>2. l \in Layout /\ ~l.isBuiltin
    BY <1>2, <1>4, LayoutIs
  <2>3. i # 0 => i \in 1 .. Len(layouts) /\ ~layouts[i].isBuiltin
    BY <1>1, <2>1, FindHolds DEF SaveCurrentLayoutAs, LayoutsHeld
  <2>4. /\ layouts' = IF i = 0 THEN Append(layouts, l) ELSE [layouts EXCEPT ![i] = l]
        /\ shown' = [shown EXCEPT !.current = name]
    BY <2>1 DEF SaveCurrentLayoutAs, Custom
  <2>. HIDE DEF i, l
  <2>5. LayoutsHeld(layouts')
    BY <1>1, <2>2, <2>3, <2>4, CustomAdded, CustomReplaced
  <2>6. shown' = [current |-> name, viewport |-> shown.viewport, panels |-> shown.panels]
    BY <1>2, <2>4
  <2>7. shown' \in Showing
    BY <1>2, <1>4, <2>6, ShowingIs
  <2>. QED BY <1>3, <2>1, <2>5, <2>7 DEF SaveCurrentLayoutAs
<1>7. CASE \E name \in Names : RemoveLayout(name)
  <2>1. PICK name \in Names : RemoveLayout(name)
    BY <1>7
  <2>2. LayoutsHeld(layouts') /\ shown' = shown
    BY <1>1, <2>1, CustomRemoved DEF RemoveLayout
  <2>. QED BY <1>1, <1>3, <2>1, <2>2 DEF RemoveLayout
<1>8. CASE \E name \in CustomLayout \cup {"3D"}, i \in DOMAIN layouts : AddLayout(name, i)
  <2>1. PICK name \in CustomLayout \cup {"3D"}, i \in DOMAIN layouts : AddLayout(name, i)
    BY <1>8
  <2> DEFINE l == Custom(name, layouts[i].viewport, layouts[i].panels)
  <2>2. l \in Layout /\ ~l.isBuiltin
    <3>1. layouts[i] \in Layout
      BY <1>1 DEF LayoutsHeld
    <3>2. layouts[i].viewport \in Viewport /\ layouts[i].panels \in [Panel -> PanelState]
      BY <3>1, LayoutIs
    <3>3. name \in LayoutName
      BY <2>1, <1>4
    <3>. QED BY <3>2, <3>3, LayoutIs DEF Custom
  <2>3. layouts' = Append(WithoutLayout(layouts, name), l) /\ shown' = shown
    BY <2>1 DEF AddLayout
  <2>. HIDE DEF l
  <2>4. LayoutsHeld(layouts')
    BY <1>1, <2>2, <2>3, CustomRemoved, CustomAdded
  <2>. QED BY <1>1, <1>3, <2>1, <2>3, <2>4 DEF AddLayout
<1>9. CASE \E p \in Panel : ChangePanel(p)
  <2>1. PICK p \in Panel : ChangePanel(p)
    BY <1>9
  <2>2. ASSUME NEW q \in PanelState, shown' = [shown EXCEPT !.panels[p] = q] PROVE shown' \in Showing
    <3> DEFINE ps == [shown.panels EXCEPT ![p] = q]
    <3>1. ps \in [Panel -> PanelState]
      BY <1>2, <2>2
    <3>2. shown' = [current |-> shown.current, viewport |-> shown.viewport, panels |-> ps]
      BY <1>2, <2>2
    <3>. HIDE DEF ps
    <3>. QED BY <1>2, <3>1, <3>2, ShowingIs
  <2> DEFINE q == shown.panels[p]
  <2>3. /\ q.visible \in BOOLEAN /\ q.docked \in BOOLEAN
        /\ q.rect \in LayoutName \cup {NoRect, "moved"} /\ q \in PanelState
    BY <1>2 DEF PanelState
  <2>4. /\ [q EXCEPT !.visible = ~@] \in PanelState
        /\ [q EXCEPT !.docked = ~@] \in PanelState
        /\ [q EXCEPT !.rect = "moved"] \in PanelState
    <3>. HIDE DEF q
    <3>1. (~q.visible) \in BOOLEAN /\ (~q.docked) \in BOOLEAN
      OBVIOUS
    <3>. QED BY <2>3, <3>1 DEF PanelState
  <2>5. \/ shown' = [shown EXCEPT !.panels[p] = [q EXCEPT !.visible = ~@]]
        \/ shown' = [shown EXCEPT !.panels[p] = [q EXCEPT !.docked = ~@]]
        \/ shown' = [shown EXCEPT !.panels[p] = [q EXCEPT !.rect = "moved"]]
    BY <1>2, <2>1 DEF ChangePanel
  <2>. HIDE DEF q
  <2>6. shown' \in Showing
    BY <2>2, <2>4, <2>5
  <2>. QED BY <1>1, <1>3, <2>1, <2>6 DEF ChangePanel
<1>10. CASE \E v \in {"Single", "TwoVertical"} : SetViewportLayout(v)
  <2>1. PICK v \in {"Single", "TwoVertical"} : SetViewportLayout(v)
    BY <1>10
  <2>2. shown' = [current |-> shown.current, viewport |-> v, panels |-> shown.panels]
    BY <1>2, <2>1 DEF SetViewportLayout
  <2>3. shown' \in Showing
    BY <1>2, <2>2, ShowingIs DEF Viewport
  <2>. QED BY <1>1, <1>3, <2>1, <2>3 DEF SetViewportLayout
<1>11. CASE SaveToFile
  <2> DEFINE what == [shown |-> shown, layouts |-> layouts]
  <2>1. Save("layouts", what) /\ UNCHANGED <<layouts, shown, keyVars, prefVars>>
    BY <1>11 DEF SaveToFile
  <2>2. layoutFile' = [shown |-> shown, custom |-> Lines(layouts)]
    <3>1. Len(BuiltinLayouts) = 4
      BY BuiltinHolds
    <3>. QED BY <1>11, <3>1 DEF SaveToFile, Lines, Line
  <2>3. /\ fresh' = "none" /\ DOMAIN saved' = Object /\ saved' = [o \in Object |-> saved'[o]]
        /\ saved'.layouts = what /\ saved'.keys = saved.keys /\ saved'.prefs = saved.prefs
    <3>1. "layouts" \in Object /\ "keys" \in Object \ {"layouts"} /\ "prefs" \in Object \ {"layouts"}
      BY DEF Object
    <3>. HIDE DEF what
    <3>. QED BY <1>1, <2>1, <3>1, SaveIs
  <2>4. KeysPart' /\ PrefsPart'
    BY <1>1, <2>1, <2>3, KeysKept, PrefsKept
  <2>5. LayoutsPart'
    BY <1>1, <2>1, <2>2, <2>3 DEF LayoutsPart, LayoutFileHeld
  <2>. QED BY <2>3, <2>4, <2>5 DEF SettingsIInv
<1>12. CASE LoadFromFile
  <2>1. LayoutsHeld(layouts') /\ shown' \in Showing
    BY <1>1, <1>12, ReadFileHolds DEF LoadFromFile
  <2>. QED BY <1>3, <1>12, <2>1 DEF LoadFromFile, ReadFile
<1>13. CASE LayoutSession
  <2>1. /\ layoutFile # NoFile /\ ReadFile(BuiltinLayouts, DefaultShown) /\ fresh' = "layouts"
        /\ UNCHANGED <<layoutFile, saved, keyVars, prefVars>>
    BY <1>13 DEF LayoutSession, NewSession, ReadFile
  <2>2. LayoutsHeld(BuiltinLayouts)
    BY BuiltinHolds DEF LayoutsHeld
  <2>3. /\ LayoutsHeld(layouts') /\ shown' \in Showing /\ shown' = saved.layouts.shown
        /\ \A name : Known(layouts', name) = Known(saved.layouts.layouts, name)
    BY <1>1, <2>1, <2>2, DefaultShownIs, ReadFileHolds
  <2>4. LayoutsPart'
    BY <1>1, <2>1, <2>3 DEF LayoutsPart, LayoutFileHeld
  <2>5. KeysPart' /\ PrefsPart'
    BY <1>1, <2>1, KeysKept, PrefsKept
  <2>. QED BY <1>1, <2>1, <2>4, <2>5 DEF SettingsIInv
<1>. QED BY <1>5, <1>6, <1>7, <1>8, <1>9, <1>10, <1>11, <1>12, <1>13 DEF LayoutNext

\* Each call keeps the bindings of keys, and what their file says.
LEMMA KeysStep ==
    ASSUME SettingsIInv, KeyNext
    PROVE  SettingsIInv'
<1>1. /\ keys \in HeldTable /\ rebinding \in Action \cup {NoAction} /\ KeyFileHeld
      /\ LayoutsPart /\ PrefsPart
      /\ DOMAIN saved = Object /\ saved = [object \in Object |-> saved[object]]
  BY DEF SettingsIInv, KeysPart
<1>2. keys \in KeyTable /\ DOMAIN keys.current \subseteq Action
  BY <1>1, TableFields DEF HeldTable
<1>3. ASSUME KeyCall, UNCHANGED bindingsFile, keys' \in HeldTable,
             rebinding' \in Action \cup {NoAction}
      PROVE  SettingsIInv'
  <2>1. fresh' = "none" /\ UNCHANGED <<layoutVars, prefVars, saved>>
    BY <1>3 DEF KeyCall, Call
  <2>2. LayoutsPart' /\ PrefsPart'
    BY <1>1, <2>1, LayoutsKept, PrefsKept
  <2>3. KeysPart'
    BY <1>1, <1>3, <2>1 DEF KeysPart, KeyFileHeld
  <2>. QED BY <1>1, <2>1, <2>2, <2>3 DEF SettingsIInv
<1>4. \A a \in Action : DefaultBinding[a] \in Binding
  BY SettingsAssumption DEF Action, Binding
<1>5. ASSUME NEW a \in Action, NEW c \in Binding, SetBinding(a, c) PROVE SettingsIInv'
  <2>1. keys' \in HeldTable
    BY <1>1, <1>5, SetBindingKeeps DEF SetBinding, SetKeys
  <2>. QED BY <1>1, <1>3, <1>5, <2>1 DEF SetBinding, SetKeys
<1>6. CASE \E a \in Action : RegisterAction(a)
  <2>1. PICK a \in Action : RegisterAction(a)
    BY <1>6
  <2>2. keys' \in HeldTable
    BY <1>1, <2>1, RegisterKeeps DEF RegisterAction, SetKeys
  <2>. QED BY <1>1, <1>3, <2>1, <2>2 DEF RegisterAction, SetKeys
<1>7. CASE \E a \in Action : UnregisterAction(a)
  <2>1. PICK a \in Action : UnregisterAction(a)
    BY <1>7
  <2>2. a \in Registered(keys)
    BY <2>1 DEF UnregisterAction
  <2>3. keys' \in HeldTable
    BY <1>1, <2>1, <2>2, UnregisterKeeps
  <2>. QED BY <1>1, <1>3, <2>1, <2>3 DEF UnregisterAction, SetKeys
<1>8. CASE \E a \in Action : ResetBinding(a)
  BY <1>4, <1>5, <1>8 DEF ResetBinding
<1>9. CASE \E a \in Action, c \in KeyCombo \cup {NoKey} : SetBinding(a, c)
  BY <1>5, <1>9 DEF Binding
<1>10. CASE \E a \in Action : StartRebind(a)
  BY <1>1, <1>3, <1>10 DEF StartRebind
<1>11. CASE \E c \in KeyCombo : RebindTo(c)
  <2>1. PICK c \in KeyCombo : RebindTo(c)
    BY <1>11
  <2>2. rebinding \in Action /\ c \in Binding
    BY <1>2, <2>1 DEF RebindTo, Registered, Binding
  <2>3. keys' \in HeldTable
    BY <1>1, <2>1, <2>2, SetBindingKeeps DEF RebindTo, SetKeys
  <2>. QED BY <1>1, <1>3, <2>1, <2>3 DEF RebindTo, SetKeys
<1>12. CASE ResetAllBindings
  <2>1. keys' \in HeldTable
    BY <1>1, <1>12, ResetAllHolds DEF ResetAllBindings, SetKeys
  <2>. QED BY <1>1, <1>3, <1>12, <2>1 DEF ResetAllBindings, SetKeys
<1>13. CASE CancelRebind
  BY <1>1, <1>3, <1>13 DEF CancelRebind
<1>14. CASE SaveBindings
  <2> DEFINE what == keys.current
  <2>1. /\ Save("keys", what) /\ bindingsFile' = what
        /\ UNCHANGED <<keys, rebinding, layoutVars, prefVars>>
    BY <1>14 DEF SaveBindings
  <2>2. what \in SomeBindings
    BY <1>2 DEF KeyTable
  <2>3. /\ fresh' = "none" /\ DOMAIN saved' = Object /\ saved' = [o \in Object |-> saved'[o]]
        /\ saved'.keys = what /\ saved'.layouts = saved.layouts /\ saved'.prefs = saved.prefs
    <3>1. "keys" \in Object /\ "layouts" \in Object \ {"keys"} /\ "prefs" \in Object \ {"keys"}
      BY DEF Object
    <3>. HIDE DEF what
    <3>. QED BY <1>1, <2>1, <3>1, SaveIs
  <2>4. LayoutsPart' /\ PrefsPart'
    BY <1>1, <2>1, <2>3, LayoutsKept, PrefsKept
  <2>5. KeysPart'
    BY <1>1, <2>1, <2>2, <2>3 DEF KeysPart, KeyFileHeld
  <2>. QED BY <2>3, <2>4, <2>5 DEF SettingsIInv
<1>15. CASE LoadBindings
  <2>1. keys' \in HeldTable
    BY <1>1, <1>15, LoadedHolds DEF LoadBindings, SetKeys, KeyFileHeld
  <2>. QED BY <1>1, <1>3, <1>15, <2>1 DEF LoadBindings, SetKeys
<1>16. CASE KeySession
  <2>1. /\ bindingsFile # NoFile /\ keys' = LoadedBindings(AllRegistered) /\ rebinding' = NoAction
        /\ fresh' = "keys" /\ UNCHANGED <<bindingsFile, saved, layoutVars, prefVars>>
    BY <1>16 DEF KeySession, SetKeys, NewSession
  <2>2. bindingsFile \in SomeBindings /\ saved.keys = bindingsFile
    BY <1>1, <2>1 DEF KeyFileHeld
  <2>3. AllRegistered \in HeldTable /\ DOMAIN AllRegistered.current = Action
    BY AllRegisteredHolds
  <2>4. /\ keys' \in HeldTable
        /\ \A a \in DOMAIN bindingsFile \cap Action : keys'.current[a] = bindingsFile[a]
    BY <2>1, <2>2, <2>3, LoadedHolds
  <2>5. DOMAIN bindingsFile \subseteq Action
    BY <2>2 DEF SomeBindings
  <2>6. KeysPart'
    BY <2>1, <2>2, <2>4, <2>5 DEF KeysPart, KeyFileHeld
  <2>7. LayoutsPart' /\ PrefsPart'
    BY <1>1, <2>1, LayoutsKept, PrefsKept
  <2>. QED BY <1>1, <2>1, <2>6, <2>7 DEF SettingsIInv
<1>. QED BY <1>6, <1>7, <1>8, <1>9, <1>10, <1>11, <1>12, <1>13, <1>14, <1>15, <1>16 DEF KeyNext

\* The invariant holds of the first session, and every call keeps it.
THEOREM SettingsInvariant == SettingsSpec => []SettingsIInv
<1>1. SettingsInit => SettingsIInv
  <2> SUFFICES ASSUME SettingsInit PROVE SettingsIInv
    OBVIOUS
  <2>1. KeysPart
    BY AllRegisteredHolds DEF SettingsInit, KeyInit, KeysPart, KeyFileHeld
  <2>2. LayoutsPart
    <3>1. LayoutsHeld(BuiltinLayouts)
      BY BuiltinHolds DEF LayoutsHeld
    <3>. QED BY <3>1, DefaultShownIs DEF SettingsInit, LayoutInit, LayoutsPart, LayoutFileHeld
  <2>3. PrefsPart
    BY DefaultsHeld DEF SettingsInit, PrefInit, PrefsPart, PrefsFileHeld
  <2>. QED BY <2>1, <2>2, <2>3 DEF SettingsIInv, SettingsInit, Object
<1>2. SettingsIInv /\ [SettingsNext]_settingsVars => SettingsIInv'
  <2> SUFFICES ASSUME SettingsIInv, [SettingsNext]_settingsVars PROVE SettingsIInv'
    OBVIOUS
  <2>1. CASE SettingsNext
    BY <2>1, KeysStep, LayoutsStep, PrefsStep DEF SettingsNext
  <2>2. CASE UNCHANGED settingsVars
    BY <2>2 DEF settingsVars, keyVars, layoutVars, prefVars, countVars, SettingsIInv,
                KeysPart, LayoutsPart, PrefsPart, KeyFileHeld, LayoutFileHeld, PrefsFileHeld, Told
  <2>. QED BY <2>1, <2>2
<1>. QED BY <1>1, <1>2, PTL DEF SettingsSpec

\* The table of combinations names registered actions only, each under its own
\* combination, and one that no two actions had at a time runs its action.
THEOREM SettingsKeysDispatch == SettingsSpec => []KeysDispatch
<1>1. SettingsIInv => KeysDispatch
  <2> SUFFICES ASSUME SettingsIInv PROVE KeysDispatch
    OBVIOUS
  <2>1. Agreeing(keys)
    BY DEF SettingsIInv, KeysPart, HeldTable
  <2>2. \A c \in DOMAIN keys.lookup :
           keys.lookup[c] \in Registered(keys) /\ keys.current[keys.lookup[c]] = c
    BY <2>1 DEF Agreeing, Registered
  <2>3. \A a \in Registered(keys) :
           keys.current[a] \in KeyCombo \ keys.shared => Dispatched(keys.current[a]) = a
    BY <2>1 DEF Agreeing, Registered, Dispatched
  <2>. QED BY <2>2, <2>3 DEF KeysDispatch
<1>. QED BY <1>1, SettingsInvariant, PTL

\* A session that loads a file has what the one that wrote it had, and what is
\* built in stays as it is.
THEOREM SettingsAllSurvive == SettingsSpec => []SettingsSurvive
<1>1. SettingsIInv => SettingsSurvive
  <2> SUFFICES ASSUME SettingsIInv PROVE SettingsSurvive
    OBVIOUS
  <2>1. LayoutsHeld(layouts) /\ KeyFileHeld /\ LayoutFileHeld /\ PrefsFileHeld
    BY DEF SettingsIInv, KeysPart, LayoutsPart, PrefsPart
  <2>2. \A i \in DOMAIN BuiltinLayouts :
           layouts[i] = BuiltinLayouts[i] /\ Find(layouts, layouts[i].name) = i
    BY <2>1, BuiltinFound
  <2>. QED BY <2>1, <2>2 DEF SettingsSurvive, KeyFileHeld, LayoutFileHeld, PrefsFileHeld, Told, Printed
<1>. QED BY <1>1, SettingsInvariant, PTL
=============================================================================
