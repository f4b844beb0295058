---------------------------- MODULE SpatialIndex ----------------------------
(***************************************************************************)
(* The spatial index of static nodes (TenEngine-004-scene):                *)
(* StaticNodeManager over an Octree, a Quadtree or nothing, and the        *)
(* searches of SpatialQuery.                                               *)
(*                                                                         *)
(* A box is an interval for each axis.  A cell of a tree is named by the   *)
(* path to it, a sequence of octants; an octant is the set of the axes on  *)
(* which it is the upper half, so a Quadtree is an Octree that divides two *)
(* axes only.  Coordinates are integers and Bounds has a power of two as   *)
(* its sides, so that halves are exact as they are for small floats.       *)
(*                                                                         *)
(* A node is filed by the centre of its box, whatever the size of the box, *)
(* and a tree is never joined again.  The owner of a node reports a new    *)
(* box with UpdateNode, as StaticNodeManager.h asks; nodes form no         *)
(* hierarchy here.  The order of the nodes of a leaf and the counter       *)
(* m_nodeCount, which nothing but tests reads, are left out.               *)
(***************************************************************************)
EXTENDS Integers, Sequences, SequencesExt, FiniteSets

CONSTANTS Body,             \* addresses of nodes
          Box,              \* boxes nodes can have
          NoBox,            \* HasAABB is false
          Bounds,           \* of the world
          IndexTypes,       \* the SpatialIndexTypes to try
          MaxTreeDepth,     \* m_maxDepth
          MaxPerLeaf,       \* m_maxNodesPerLeaf
          NaN               \* zero times infinity

VARIABLES indexType,
          aabb,             \* box of each node
          active,           \* nodes with IsActive
          managed,          \* m_nodes and m_nodeSet
          moved,            \* m_dirtyNodes
          split,            \* cells that are no leaf
          filed             \* leaves that hold each node

indexVars == <<indexType, aabb, active, managed, moved, split, filed>>

-----------------------------------------------------------------------------
(* Geometry *)

Axis == {"x", "y", "z"}

Low(box, d) == box[d][1]
High(box, d) == box[d][2]

AABBIntersects(a, b) ==
    \A d \in Axis : ~(High(a, d) < Low(b, d) \/ Low(a, d) > High(b, d))

AABBContains(inner, outer) ==
    \A d \in Axis : Low(inner, d) >= Low(outer, d) /\ High(inner, d) <= High(outer, d)

\* A plane is [normal, d]; its positive vertex is the corner farthest along the normal.
FrustumIntersectsAABB(planes, box) ==
    \A p \in planes :
        LET along(d) == p.normal[d] * (IF p.normal[d] > 0 THEN High(box, d) ELSE Low(box, d))
        IN  along("x") + along("y") + along("z") + p.d >= 0

\* Floats beyond the coordinates: FLT_MAX, and the infinity that a division by
\* zero gives.  NaN loses every comparison, so that std::max and std::min return
\* their first argument.
FltMax == 1000
Infinity == 1001

\* k times the inverse of a direction's coordinate, which is -1, 0 or 1.
TimesInverse(k, dir) ==
    IF dir # 0 THEN k * dir
    ELSE IF k = 0 THEN NaN ELSE IF k > 0 THEN Infinity ELSE -Infinity

StdMax(a, b) == IF b = NaN THEN a ELSE IF a < b THEN b ELSE a
StdMin(a, b) == IF b = NaN THEN a ELSE IF b < a THEN b ELSE a

\* Slip: the ends of a slab are not swapped for a ray that runs backwards.
SlabUnswapped(ray, box, d) ==
    <<TimesInverse(Low(box, d) - ray.origin[d], ray.direction[d]),
      TimesInverse(High(box, d) - ray.origin[d], ray.direction[d])>>

\* Where the ray is between the two planes of the box on axis d.
Slab(ray, box, d) ==
    LET ends == <<TimesInverse(Low(box, d) - ray.origin[d], ray.direction[d]),
                  TimesInverse(High(box, d) - ray.origin[d], ray.direction[d])>>
    IN  IF ray.direction[d] < 0 THEN <<ends[2], ends[1]>> ELSE ends

\* RayIntersectsAABB: the distance, or FltMax for no hit.
RayDistance(ray, box) ==
    LET narrow(t, d) == <<StdMax(t[1], Slab(ray, box, d)[1]),
                          StdMin(t[2], Slab(ray, box, d)[2])>>
        through == narrow(narrow(narrow(<<0, FltMax>>, "x"), "y"), "z")
    IN  IF through[2] < through[1] THEN FltMax ELSE through[1]

\* DistanceToAABB, squared.
DistanceToAABB(point, box) ==
    LET gap(d) == IF point[d] < Low(box, d) THEN Low(box, d) - point[d]
                  ELSE IF point[d] > High(box, d) THEN point[d] - High(box, d)
                  ELSE 0
    IN  gap("x") * gap("x") + gap("y") * gap("y") + gap("z") * gap("z")

-----------------------------------------------------------------------------
(* Octree and Quadtree *)

Divided == IF indexType = "Octree" THEN Axis ELSE {"x", "y"}

Middle(box, d) == (Low(box, d) + High(box, d)) \div 2

\* GetOctant and GetQuadrant of a box's centre.
GetOctant(cell, box) ==
    {d \in Divided : Low(box, d) + High(box, d) >= Low(cell, d) + High(cell, d)}

\* GetOctantBounds and GetQuadrantBounds.
GetOctantBounds(parent, octant) ==
    [d \in Axis |-> IF d \notin Divided THEN parent[d]
                    ELSE IF d \in octant THEN <<Middle(parent, d), High(parent, d)>>
                    ELSE <<Low(parent, d), Middle(parent, d)>>]

CellBounds(path) ==
    LET cell[i \in 0 .. Len(path)] ==
            IF i = 0 THEN Bounds ELSE GetOctantBounds(cell[i - 1], path[i])
    IN  cell[Len(path)]

\* The tree: [split, filed].
EmptyTree == [split |-> {}, filed |-> [n \in Body |-> {}]]

Held(tree, leaf) == {n \in Body : leaf \in tree.filed[n]}

\* SplitNode files the nodes of the leaf one level down, and no further.
SplitNode(tree, leaf) ==
    [split |-> tree.split \cup {leaf},
     filed |-> [n \in Body |->
        IF leaf \in tree.filed[n]
        THEN (tree.filed[n] \ {leaf}) \cup {Append(leaf, GetOctant(CellBounds(leaf), aabb[n]))}
        ELSE tree.filed[n]]]

\* The leaf that InsertRecursive ends at: the way down by the centre of the box.
LeafFor(tree, box) ==
    LET way[depth \in 0 .. MaxTreeDepth] ==
            IF depth = 0 THEN <<>>
            ELSE IF way[depth - 1] \notin tree.split THEN way[depth - 1]
            ELSE Append(way[depth - 1], GetOctant(CellBounds(way[depth - 1]), box))
    IN  way[MaxTreeDepth]

Ancestors(path) == {SubSeq(path, 1, i) : i \in 0 .. Len(path)}

\* Insert drops a node whose box misses a cell on the way.
InsertNode(tree, n) ==
    IF aabb[n] = NoBox THEN tree
    ELSE LET leaf == LeafFor(tree, aabb[n])
             with == [tree EXCEPT !.filed[n] = @ \cup {leaf}]
         IN  IF \E p \in Ancestors(leaf) : ~AABBIntersects(CellBounds(p), aabb[n]) THEN tree
             ELSE IF Cardinality(Held(with, leaf)) > MaxPerLeaf /\ Len(leaf) < MaxTreeDepth
                  THEN SplitNode(with, leaf)
                  ELSE with

\* Slip: looks only where the node's box is now.
RemoveByBox(tree, n) ==
    IF aabb[n] = NoBox THEN tree ELSE [tree EXCEPT !.filed[n] = @ \ {LeafFor(tree, aabb[n])}]

\* Remove looks into every leaf.
RemoveFrom(tree, n) == [tree EXCEPT !.filed[n] = {}]

Refile(tree, n) == InsertNode(RemoveFrom(tree, n), n)

Tree == [split |-> split, filed |-> filed]

\* The tree after the nodes were filed again, one after the other.
Refiled(order) ==
    LET tree[i \in 0 .. Len(order)] ==
            IF i = 0 THEN Tree ELSE Refile(tree[i - 1], order[i])
    IN  tree[Len(order)]

SetTree(tree) == split' = tree.split /\ filed' = tree.filed

\* The cells that lead to a node.
Cells == UNION {Ancestors(leaf) : leaf \in UNION {filed[n] : n \in Body}}

Asked == {n \in active : aabb[n] # NoBox}

\* A search goes down the cells that meet the query and, of the nodes it finds
\* there, reports those that match it.
Search(meeting, matching) ==
    {n \in matching : \E leaf \in filed[n] : Ancestors(leaf) \subseteq meeting}

-----------------------------------------------------------------------------
(* StaticNodeManager *)

IndexInit ==
    /\ indexType \in IndexTypes
    /\ aabb = [n \in Body |-> NoBox]
    /\ active = Body
    /\ managed = {} /\ moved = {}
    /\ split = EmptyTree.split /\ filed = EmptyTree.filed

HasIndex == indexType # "None"

AddNode(n) ==
    /\ n \notin managed
    /\ managed' = managed \cup {n}
    /\ SetTree(IF HasIndex THEN InsertNode(Tree, n) ELSE Tree)
    /\ UNCHANGED <<indexType, aabb, active, moved>>

RemoveNode(n) ==
    /\ n \in managed
    /\ managed' = managed \ {n}
    /\ moved' = moved \ {n}
    /\ SetTree(RemoveFrom(Tree, n))
    /\ UNCHANGED <<indexType, aabb, active>>

\* A node gets a box, or another one, and its owner calls UpdateNode.
UpdateNode(n, box) ==
    /\ aabb[n] # box
    /\ aabb' = [aabb EXCEPT ![n] = box]
    /\ moved' = IF n \in managed THEN moved \cup {n} ELSE moved
    /\ UNCHANGED <<indexType, active, managed, split, filed>>

SetActive(n) ==
    /\ active' = IF n \in active THEN active \ {n} ELSE active \cup {n}
    /\ UNCHANGED <<indexType, aabb, managed, moved, split, filed>>

ClearNodes ==
    /\ managed' = {} /\ moved' = {}
    /\ SetTree(EmptyTree)
    /\ UNCHANGED <<indexType, aabb, active>>

\* The moved nodes are filed again in the order of an unordered_set, those
\* without a box are skipped.
RebuildIndex ==
    /\ HasIndex /\ moved # {}
    /\ \E order \in SetToSeqs({n \in moved : aabb[n] # NoBox}) :
           SetTree(Refiled(order))
    /\ moved' = {}
    /\ UNCHANGED <<indexType, aabb, active, managed>>

IndexNext ==
    \/ \E n \in Body : AddNode(n) \/ RemoveNode(n) \/ SetActive(n)
    \/ \E n \in Body, box \in Box : UpdateNode(n, box)
    \/ ClearNodes
    \/ RebuildIndex

SpatialSpec == IndexInit /\ [][IndexNext]_indexVars

-----------------------------------------------------------------------------
(* Queries *)

\* Traverse, with a test for a box: what is searched without an index, and
\* what SpatialQuery searches in a world.
Traversed == {n \in managed \cap active : aabb[n] # NoBox}

\* The last test of a Quadtree ignores z.
QueryAABB(query) ==
    IF ~HasIndex THEN {n \in Traversed : AABBIntersects(aabb[n], query)}
    ELSE Search({p \in Cells : AABBIntersects(CellBounds(p), query)},
                {n \in Asked : \A d \in Divided : ~(\/ High(aabb[n], d) < Low(query, d)
                                                    \/ Low(aabb[n], d) > High(query, d))})

\* Without an index, every node is reported.
QueryFrustum(planes) ==
    IF ~HasIndex THEN Traversed
    ELSE Search({p \in Cells : FrustumIntersectsAABB(planes, CellBounds(p))},
                {n \in Asked : FrustumIntersectsAABB(planes, aabb[n])})

QueryContained(query) == {n \in Traversed : AABBContains(aabb[n], query)}

\* SpatialQuery::QueryFrustum, which uses no index.
LinearFrustum(planes) == {n \in Traversed : FrustumIntersectsAABB(planes, aabb[n])}

\* The nodes Raycast and FindNearest can return, one of those that tie.
Closest(distance, limit) ==
    {n \in Traversed : /\ distance[n] < limit
                       /\ \A q \in Traversed : distance[n] <= distance[q]}

Raycast(ray) == Closest([n \in Traversed |-> RayDistance(ray, aabb[n])], FltMax)

FindNearest(point) == Closest([n \in Traversed |-> DistanceToAABB(point, aabb[n])], FltMax)
-----------------------------------------------------------------------------
(* What the queries are good for *)

CONSTANTS QueryBoxes, QueryFrusta, Rays,    \* what to ask
          MaxReach                          \* bound: how far a ray is followed

Interval == Int \X Int

\* What Box, Bounds and the questions are made of.  Coordinates are far below
\* FLT_MAX, and the boxes are within reach of the rays.
ASSUME SpatialAssumption ==
    /\ IsFiniteSet(Body) /\ MaxTreeDepth \in Nat /\ NaN \notin Int
    /\ IndexTypes \subseteq {"Octree", "Quadtree", "None"}
    /\ \A d \in Axis :
        /\ Bounds[d] \in Interval
        /\ \A box \in Box : box[d] \in Interval /\ Low(box, d) <= High(box, d)
        /\ \A q \in QueryBoxes : q[d] \in Interval
        /\ \A planes \in QueryFrusta : \A p \in planes : p.normal[d] \in Int /\ p.d \in Int
    /\ MaxReach \in Nat /\ MaxReach < FltMax
    /\ \A ray \in Rays :
        /\ \A d \in Axis : ray.origin[d] \in Int /\ ray.direction[d] \in -1 .. 1
        /\ \A box \in Box :
            /\ \A d \in Axis : {Low(box, d) - ray.origin[d], High(box, d) - ray.origin[d]}
                                 \subseteq -MaxReach .. MaxReach
            /\ DistanceToAABB(ray.origin, box) < FltMax

IndexTypeOK ==
    /\ aabb \in [Body -> Box \cup {NoBox}]
    /\ active \subseteq Body /\ moved \subseteq managed /\ managed \subseteq Body
    /\ \A n \in Body : Cardinality(filed[n]) <= 1

\* The centre of a box is in the box q, in the frustum planes; coordinates doubled.
CentreIn(box, q) ==
    \A d \in Axis : /\ Low(box, d) + High(box, d) >= 2 * Low(q, d)
                    /\ Low(box, d) + High(box, d) <= 2 * High(q, d)

CentreInFrustum(box, planes) ==
    \A p \in planes :
        LET along(d) == p.normal[d] * (Low(box, d) + High(box, d))
        IN  along("x") + along("y") + along("z") + 2 * p.d >= 0

\* The nodes whose box was reported by a RebuildIndex and begins within the world.
Settled == {n \in Traversed \ moved : CentreIn(aabb[n], Bounds)}

\* The index may miss a node that only reaches into the query with its rim, but
\* it never reports a node that was removed or that the query does not touch,
\* and it reports every settled node whose centre is in the query, wherever
\* splits, moves and removals of others have left it.
QueriesExact ==
    /\ IndexTypeOK
    /\ \A q \in QueryBoxes :
        /\ QueryAABB(q) \subseteq managed
        /\ indexType # "Quadtree" =>
               \A n \in QueryAABB(q) : AABBIntersects(aabb[n], q)
        /\ \A n \in Settled : CentreIn(aabb[n], q) => n \in QueryAABB(q)
        /\ QueryContained(q) \cap Settled \subseteq QueryAABB(q)
    /\ \A planes \in QueryFrusta :
        /\ HasIndex => QueryFrustum(planes) \subseteq LinearFrustum(planes)
        /\ \A n \in Settled : CentreInFrustum(aabb[n], planes) => n \in QueryFrustum(planes)

\* The steps of a ray that are inside a box.
Inside(ray, box) ==
    {t \in 0 .. MaxReach :
        \A d \in Axis : /\ ray.origin[d] + t * ray.direction[d] >= Low(box, d)
                        /\ ray.origin[d] + t * ray.direction[d] <= High(box, d)}

\* The slab method, with its divisions by zero and the NaNs they give for a ray
\* that runs along a side of a box, hits what the ray passes through, where it
\* enters it; and no node is nearer to the origin of a ray than what
\* FindNearest returns.
RaysExact ==
    \A ray \in Rays :
        LET entry(n) == LET at == Inside(ray, aabb[n]) IN CHOOSE t \in at : \A u \in at : t <= u
            hit == {n \in Traversed : Inside(ray, aabb[n]) # {}}
            length == Cardinality({d \in Axis : ray.direction[d] # 0})
        IN  /\ Raycast(ray) = {n \in hit : \A q \in hit : entry(n) <= entry(q)}
            /\ \A n \in FindNearest(ray.origin), q \in hit :
                   DistanceToAABB(ray.origin, aabb[n]) <= entry(q) * entry(q) * length
            /\ FindNearest(ray.origin) = {} => Traversed = {}

\* Neither search of static nodes is misled: by the index, or by a ray's arithmetic.
SearchesExact == QueriesExact /\ RaysExact
=============================================================================
