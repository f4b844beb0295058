---------------------------- MODULE Units_proofs ----------------------------
(***************************************************************************)
(* Proofs about FrameGraph, for any resources and any number of passes and *)
(* of declarations, repeated ones included, and about ResourceCache, for   *)
(* any number of files, instances and references.                          *)
(*                                                                         *)
(* The frame graph: inDegree counts the edges that come from passes not    *)
(* yet sorted, so the stack holds exactly the passes that wait for none of *)
(* those.  What has been sorted is therefore ordered, and what is left at  *)
(* the end waits in circles.  Links follow since the loop over the passes  *)
(* gives each the handle of a source that has taken its own.               *)
(*                                                                         *)
(* The cache counts exactly as long as no two loads of one file can        *)
(* overlap without noticing each other: a file whose GUID is its key in    *)
(* the cache is loaded by one client only.                                 *)
(***************************************************************************)
EXTENDS FrameGraph, ResourceCache, FiniteSetTheorems, SequenceTheorems,
        WellFoundedInduction, TLAPS

-----------------------------------------------------------------------------
(* FrameGraph: the invariant *)

Pass == DOMAIN passes
Sorted == Range(sortedIndices)

\* Edges into j of passes that are not sorted yet.
Waits(j) == UNION {{i} \X Edges(i, j) : i \in Pass \ Sorted}

\* The types of all but the attachments.
SortTypeOK ==
    /\ passes \in Seq(PassData)
    /\ at \in {"declare", "sort", "execute"}
    /\ inDegree \in [Pass -> Nat]
    /\ stack \in Seq(Pass)
    /\ sortedIndices \in Seq(Pass)
    /\ executed \in Seq(Pass)

Counted == at = "sort" => \A j \in Pass : inDegree[j] = Cardinality(Waits(j))

Ready == at = "sort" => /\ Range(stack) = {j \in Pass \ Sorted : inDegree[j] = 0}
                        /\ IsInjective(stack)

Ordered == at # "declare" =>
              /\ IsInjective(sortedIndices)
              /\ \A k \in DOMAIN sortedIndices, i \in Pass :
                    Edges(i, sortedIndices[k]) # {} =>
                       \E l \in 1 .. k - 1 : sortedIndices[l] = i

WellFounded == at # "declare" =>
                  \A B \in SUBSET Sorted :
                     B # {} => \E j \in B : \A i \in B : Edges(i, j) = {}

Complete == at = "execute" => \A j \in Pass \ Sorted : \E i \in Pass \ Sorted : Edges(i, j) # {}

Executed == /\ at # "execute" => executed = <<>>
            /\ at = "execute" => /\ Len(executed) <= Len(sortedIndices)
                                 /\ \A k \in DOMAIN executed : executed[k] = sortedIndices[k]

GraphIInv == SortTypeOK /\ Counted /\ Ready /\ Ordered /\ WellFounded /\ Complete /\ Executed

-----------------------------------------------------------------------------
(* Sequences and edges *)

\* Append adds one element, at the end.
LEMMA Appended ==
  ASSUME NEW S, NEW f \in Seq(S), NEW e \in S
  PROVE  /\ Append(f, e) \in Seq(S)
         /\ Len(Append(f, e)) = Len(f) + 1
         /\ DOMAIN Append(f, e) = 1 .. Len(f) + 1
         /\ DOMAIN f = 1 .. Len(f) /\ Len(f) \in Nat
         /\ \A i \in 1 .. Len(f) : Append(f, e)[i] = f[i]
         /\ Append(f, e)[Len(f) + 1] = e
         /\ Range(Append(f, e)) = Range(f) \cup {e}
<1>. PICK g \in Seq(S) : g = Append(f, e)  BY AppendProperties
<1>1. /\ Len(g) = Len(f) + 1
      /\ \A i \in 1 .. Len(f) : g[i] = f[i]
      /\ g[Len(f) + 1] = e
  BY AppendProperties
<1>2. DOMAIN f = 1 .. Len(f) /\ DOMAIN g = 1 .. Len(f) + 1 /\ Len(f) \in Nat
  BY <1>1
<1>3. Range(g) = Range(f) \cup {e}
  BY <1>1, <1>2, SMT DEF Range
<1>. QED  BY <1>1, <1>2, <1>3

\* The elements of a sequence over S are in S, those of the empty one none.
LEMMA Ranges ==
  /\ \A S : \A f \in Seq(S) : Range(f) \subseteq S
  /\ Range(<<>>) = {}
  BY DEF Range

\* A sequence whose end is replaced by another.
LEMMA EndReplaced ==
  ASSUME NEW S, NEW f \in Seq(S), NEW g \in Seq(S), NEW m \in Nat, m <= Len(f),
         NEW h, h = SubSeq(f, 1, m) \o g
  PROVE  /\ h \in Seq(S)
         /\ DOMAIN h = 1 .. m + Len(g)
         /\ \A k \in 1 .. m : h[k] = f[k]
         /\ \A k \in m + 1 .. m + Len(g) : h[k] = g[k - m]
<1>. DEFINE e == SubSeq(f, 1, m)
<1>1. e \in Seq(S) /\ Len(e) = m /\ \A k \in 1 .. m : e[k] = f[k]
  <2>1. \A k \in 1 .. m : f[k] \in S
    OBVIOUS
  <2>. QED  BY <2>1, SubSeqProperties
<1>. HIDE DEF e
<1>2. /\ e \o g \in Seq(S) /\ Len(e \o g) = m + Len(g)
      /\ \A k \in 1 .. m + Len(g) : (e \o g)[k] = IF k <= m THEN e[k] ELSE g[k - m]
  BY <1>1, ConcatProperties
<1>3. h = e \o g
  BY DEF e
<1>. QED  BY <1>1, <1>2, <1>3

\* There are finitely many passes and edges, and none from a pass to itself.
LEMMA EdgesFinite ==
  ASSUME SortTypeOK
  PROVE  /\ IsFiniteSet(Pass)
         /\ Pass = 1 .. Len(passes) /\ Len(passes) \in Nat
         /\ \A i, j \in Pass : IsFiniteSet(Edges(i, j)) /\ Cardinality(Edges(i, j)) \in Nat
         /\ \A i, j \in Pass : Edges(i, j) # {} <=> Feeds(i, j)
         /\ \A i \in Pass : Edges(i, i) = {}
<1>1. Pass = 1 .. Len(passes) /\ Len(passes) \in Nat
  BY DEF SortTypeOK, Pass
<1>2. IsFiniteSet(Pass)
  BY <1>1, FS_Interval
<1>3. \A i, j \in Pass : IsFiniteSet(Edges(i, j)) /\ Cardinality(Edges(i, j)) \in Nat
  <2>. SUFFICES ASSUME NEW i \in Pass, NEW j \in Pass
                PROVE  IsFiniteSet(Edges(i, j)) /\ Cardinality(Edges(i, j)) \in Nat
    OBVIOUS
  <2>. DEFINE W == passes[i].writeResources
              R == passes[j].readResources
  <2>1. W \in Seq(Resource) /\ R \in Seq(Resource)
    <3>1. passes[i] \in PassData /\ passes[j] \in PassData
      BY <1>1 DEF SortTypeOK
    <3>. QED  BY <3>1 DEF PassData
  <2>2. IsFiniteSet(DOMAIN W) /\ IsFiniteSet(DOMAIN R)
    <3>. SUFFICES ASSUME NEW f \in Seq(Resource) PROVE IsFiniteSet(DOMAIN f)
      BY <2>1
    <3>. QED  BY FS_Interval, DOMAIN f = 1 .. Len(f), Len(f) \in Nat, 1 \in Int, Len(f) \in Int
  <2>3. IsFiniteSet((DOMAIN W) \X (DOMAIN R))
    BY <2>2, FS_Product
  <2>4. Edges(i, j) \in SUBSET ((DOMAIN W) \X (DOMAIN R))
    BY DEF Edges
  <2>. QED  BY <2>3, <2>4, FS_Subset, FS_CardinalityType
<1>4. \A i, j \in Pass : Edges(i, j) # {} <=> Feeds(i, j)
  <2>. SUFFICES ASSUME NEW i \in Pass, NEW j \in Pass
                PROVE  Edges(i, j) # {} <=> Feeds(i, j)
    OBVIOUS
  <2>. DEFINE W == passes[i].writeResources
              R == passes[j].readResources
  <2>1. ASSUME NEW e \in Edges(i, j) PROVE Feeds(i, j)
    <3>1. /\ i # j /\ e[1] \in DOMAIN W /\ e[2] \in DOMAIN R
          /\ W[e[1]] = R[e[2]]
      BY DEF Edges
    <3>2. W[e[1]] \in Range(W) /\ R[e[2]] \in Range(R)
      BY <3>1 DEF Range
    <3>. QED  BY <3>1, <3>2 DEF Feeds
  <2>2. ASSUME Feeds(i, j) PROVE Edges(i, j) # {}
    <3>1. PICK r \in Range(W) : r \in Range(R) /\ i # j
      BY <2>2 DEF Feeds
    <3>2. PICK k \in DOMAIN W : W[k] = r
      BY <3>1 DEF Range
    <3>3. PICK l \in DOMAIN R : R[l] = r
      BY <3>1 DEF Range
    <3>4. <<k, l>> \in (DOMAIN W) \X (DOMAIN R)
      BY <3>2, <3>3
    <3>5. <<k, l>> \in Edges(i, j)
      BY <3>1, <3>2, <3>3, <3>4 DEF Edges
    <3>. QED  BY <3>5
  <2>. QED  BY <2>1, <2>2
<1>5. \A i \in Pass : Edges(i, i) = {}
  BY DEF Edges
<1>. QED  BY <1>1, <1>2, <1>3, <1>4, <1>5

\* The edges a pass waits for are finitely many; none of them means that each
\* pass that feeds it has been sorted.
LEMMA WaitsFor ==
  ASSUME SortTypeOK, NEW j \in Pass
  PROVE  /\ IsFiniteSet(Waits(j)) /\ Cardinality(Waits(j)) \in Nat
         /\ \A i \in Pass \ Sorted : {i} \X Edges(i, j) \subseteq Waits(j)
         /\ Cardinality(Waits(j)) = 0 <=> \A i \in Pass \ Sorted : Edges(i, j) = {}
<1>. DEFINE E(i) == {i} \X Edges(i, j)
            T == {E(i) : i \in Pass \ Sorted}
<1>1. IsFiniteSet(T)
  <2>1. IsFiniteSet(Pass \ Sorted)
    BY EdgesFinite, FS_Difference
  <2>. DEFINE f == [i \in Pass \ Sorted |-> E(i)]
  <2>2. f \in Surjection(Pass \ Sorted, T)
    BY Zenon DEF Surjection
  <2>. QED  BY <2>1, <2>2, FS_Surjection
<1>2. \A t \in T : IsFiniteSet(t)
  <2>1. \A i \in Pass : IsFiniteSet({i}) /\ IsFiniteSet(Edges(i, j))
    BY EdgesFinite, FS_Singleton
  <2>2. \A i \in Pass : IsFiniteSet(E(i))
    BY <2>1, FS_Product
  <2>. QED  BY <2>2
<1>3. Waits(j) = UNION T
  BY DEF Waits
<1>4. IsFiniteSet(Waits(j))
  BY <1>1, <1>2, <1>3, FS_UNION
<1>5. Waits(j) = {} <=> \A i \in Pass \ Sorted : Edges(i, j) = {}
  <2>1. \A i \in Pass \ Sorted : Edges(i, j) = {} <=> E(i) = {}
    <3>1. \A i \in Pass \ Sorted : \A e \in Edges(i, j) : <<i, e>> \in E(i)
      OBVIOUS
    <3>2. \A i \in Pass \ Sorted : Edges(i, j) = {} => E(i) = {}
      OBVIOUS
    <3>. QED  BY <3>1, <3>2
  <2>. QED  BY <1>3, <2>1
<1>. QED  BY <1>3, <1>4, <1>5, FS_EmptySet, FS_CardinalityType

-----------------------------------------------------------------------------
(* Kahn's step *)

\* The popped pass was not sorted before; all that feed it were.
LEMMA PopReady ==
  ASSUME GraphIInv, SortStep, NEW u, u = stack[Len(stack)]
  PROVE  /\ u \in Pass \ Sorted
         /\ Len(stack) \in Nat \ {0} /\ stack \in Seq(Pass)
         /\ inDegree[u] = 0
         /\ \A i \in Pass \ Sorted : Edges(i, u) = {}
         /\ sortedIndices' = Append(sortedIndices, u)
         /\ Sorted' = Sorted \cup {u} /\ Pass' = Pass /\ at' = "sort"
         /\ \A i, j : Edges(i, j)' = Edges(i, j)
<1>1. Len(stack) \in Nat \ {0} /\ stack \in Seq(Pass) /\ DOMAIN stack = 1 .. Len(stack)
  BY DEF GraphIInv, SortTypeOK, SortStep
<1>2. u \in Range(stack)
  BY <1>1 DEF Range
<1>3. u \in Pass \ Sorted /\ inDegree[u] = 0
  BY <1>2 DEF GraphIInv, Ready, SortStep
<1>4. \A i \in Pass \ Sorted : Edges(i, u) = {}
  BY <1>3, WaitsFor DEF GraphIInv, Counted, SortStep
<1>5. sortedIndices' = Append(sortedIndices, u) /\ passes' = passes /\ at' = "sort"
  BY DEF SortStep, declared
<1>6. Sorted' = Sorted \cup {u}
  BY <1>3, <1>5, Appended DEF GraphIInv, SortTypeOK, Sorted
<1>. QED  BY <1>1, <1>3, <1>4, <1>5, <1>6 DEF Pass, Edges

\* inDegree goes on counting what is left.
LEMMA PopCounts ==
  ASSUME GraphIInv, SortStep, NEW u, u = stack[Len(stack)], NEW j \in Pass
  PROVE  /\ inDegree'[j] = inDegree[j] - Cardinality(Edges(u, j))
         /\ inDegree'[j] = Cardinality(Waits(j)')
         /\ inDegree'[j] \in Nat
         /\ Edges(u, j) # {} => inDegree[j] # 0
<1>. DEFINE D == {u} \X Edges(u, j)
<1>1. /\ u \in Pass \ Sorted /\ Sorted' = Sorted \cup {u} /\ Pass' = Pass
      /\ \A i \in Pass : Edges(i, j)' = Edges(i, j)
  BY PopReady
<1>2. inDegree'[j] = inDegree[j] - Cardinality(Edges(u, j))
  BY DEF SortStep, Pass
<1>3. IsFiniteSet(Waits(j)) /\ D \subseteq Waits(j) /\ inDegree[j] = Cardinality(Waits(j))
      /\ Cardinality(Waits(j)) \in Nat
  BY <1>1, WaitsFor DEF GraphIInv, Counted, SortStep
<1>4. Waits(j)' = Waits(j) \ D
  <2>1. Waits(j)' = UNION {{i} \X Edges(i, j) : i \in Pass \ (Sorted \cup {u})}
    BY <1>1 DEF Waits
  <2>. QED  BY <2>1, <1>1 DEF Waits
<1>5. Cardinality(D) = Cardinality(Edges(u, j)) /\ Cardinality(Edges(u, j)) \in Nat
  <2>1. IsFiniteSet({u}) /\ Cardinality({u}) = 1
    BY FS_Singleton
  <2>2. IsFiniteSet(Edges(u, j)) /\ Cardinality(Edges(u, j)) \in Nat
    BY <1>1, EdgesFinite DEF GraphIInv
  <2>3. Cardinality(D) = 1 * Cardinality(Edges(u, j))
    BY <2>1, <2>2, FS_Product
  <2>. QED  BY <2>2, <2>3
<1>6. IsFiniteSet(Waits(j)') /\ Cardinality(Waits(j)') = Cardinality(Waits(j)) - Cardinality(D)
  <2>1. Waits(j) \cap D = D
    BY <1>3
  <2>. HIDE DEF D
  <2>2. /\ IsFiniteSet(Waits(j) \ D)
        /\ Cardinality(Waits(j) \ D) = Cardinality(Waits(j)) - Cardinality(Waits(j) \cap D)
    BY <1>3, FS_Difference
  <2>. QED  BY <1>4, <2>1, <2>2
<1>7. Cardinality(Waits(j)') \in Nat
  BY <1>6, FS_CardinalityType
<1>8. Edges(u, j) # {} => inDegree[j] # 0
  BY <1>1, <1>3, WaitsFor DEF GraphIInv
<1>. QED  BY <1>2, <1>3, <1>5, <1>6, <1>7, <1>8

\* The stack goes on holding the passes that wait for none, each once.
LEMMA PopKeepsReady ==
  ASSUME GraphIInv, SortStep
  PROVE  Ready' /\ stack' \in Seq(Pass)
<1>. DEFINE n == Len(stack)
            u == stack[n]
            front == SubSeq(stack, 1, n - 1)
            R == {v \in Pass : Edges(u, v) # {} /\ inDegree'[v] = 0}
<1>1. /\ u \in Pass \ Sorted /\ n \in Nat \ {0} /\ stack \in Seq(Pass)
      /\ Sorted' = Sorted \cup {u} /\ Pass' = Pass /\ DOMAIN stack = 1 .. n
  BY PopReady
<1>2. PICK ready \in Orders(R) : stack' = front \o ready
  <2>. DEFINE left == [v \in DOMAIN passes |-> inDegree[v] - Cardinality(Edges(u, v))]
  <2>1. inDegree' = left
    BY DEF SortStep
  <2>2. \E ready \in Orders({v \in DOMAIN passes : Edges(u, v) # {} /\ left[v] = 0}) :
           stack' = front \o ready
    BY DEF SortStep
  <2>. QED  BY <2>1, <2>2 DEF Pass
<1>3. /\ IsFiniteSet(R) /\ R \subseteq Pass
      /\ ready \in Seq(R) /\ ready \in Seq(Pass) /\ IsInjective(ready)
      /\ Range(ready) = R /\ DOMAIN ready = 1 .. Len(ready) /\ Len(ready) \in Nat
  <2>1. IsFiniteSet(R)
    BY EdgesFinite, FS_Subset, R \in SUBSET Pass DEF GraphIInv
  <2>2. Cardinality(R) \in Nat /\ ready \in [1 .. Cardinality(R) -> R] /\ IsInjective(ready)
    BY <2>1, FS_CardinalityType DEF Orders
  <2>3. Range(ready) = R
    <3>1. Range(ready) \in SUBSET R
      BY <2>2 DEF Range
    <3>2. ready \in Surjection(1 .. Cardinality(R), Range(ready))
      BY <2>2 DEF Range, Surjection
    <3>3. ready \in Injection(1 .. Cardinality(R), Range(ready))
      BY <2>2, <3>2 DEF Injection, Surjection
    <3>4. IsFiniteSet(1 .. Cardinality(R)) /\ Cardinality(1 .. Cardinality(R)) = Cardinality(R)
      BY <2>2, FS_Interval
    <3>5. Cardinality(Range(ready)) = Cardinality(R)
      BY <3>2, <3>3, <3>4, FS_Surjection
    <3>. QED  BY <2>1, <3>1, <3>5, FS_Subset
  <2>. HIDE DEF R
  <2>4. ready \in Seq(R) /\ DOMAIN ready = 1 .. Len(ready) /\ Len(ready) \in Nat
    BY <2>2
  <2>5. R \subseteq Pass
    BY DEF R
  <2>6. ready \in Seq(Pass)
    BY <2>4, <2>5
  <2>. QED  BY <2>1, <2>2, <2>3, <2>4, <2>5, <2>6
<1>5. /\ stack' \in Seq(Pass)
      /\ DOMAIN stack' = 1 .. n - 1 + Len(ready)
      /\ \A k \in 1 .. n - 1 : stack'[k] = stack[k]
      /\ \A k \in n .. n - 1 + Len(ready) : stack'[k] = ready[k - (n - 1)]
  <2>. DEFINE m == n - 1
  <2>1. m \in Nat /\ m <= Len(stack) /\ m + 1 = n
    BY <1>1
  <2>2. stack \in Seq(Pass) /\ ready \in Seq(Pass) /\ stack' = SubSeq(stack, 1, m) \o ready
    BY <1>1, <1>2, <1>3
  <2>. HIDE DEF m, n, R, u
  <2>3. /\ stack' \in Seq(Pass)
        /\ DOMAIN stack' = 1 .. m + Len(ready)
        /\ \A k \in 1 .. m : stack'[k] = stack[k]
        /\ \A k \in m + 1 .. m + Len(ready) : stack'[k] = ready[k - m]
    BY <2>1, <2>2, EndReplaced
  <2>. QED  BY <2>1, <2>3 DEF m
<1>6. IsInjective(stack) /\ Range(stack) = {j \in Pass \ Sorted : inDegree[j] = 0}
  BY DEF GraphIInv, Ready, SortStep
<1>7. \A k \in 1 .. n - 1 : /\ stack[k] # u /\ stack[k] \in Pass \ Sorted
                            /\ inDegree[stack[k]] = 0
  <2>1. \A k \in 1 .. n - 1 : stack[k] \in Range(stack)
    BY <1>1 DEF Range
  <2>2. \A k \in 1 .. n - 1 : stack[k] # u
    BY <1>1, <1>6 DEF IsInjective
  <2>. QED  BY <1>6, <2>1, <2>2
<1>8. \A v \in R : v \notin Sorted /\ v # u /\ inDegree[v] # 0
  <2>. SUFFICES ASSUME NEW v \in R PROVE v \notin Sorted /\ v # u /\ inDegree[v] # 0
    OBVIOUS
  <2>1. Edges(u, v) # {} /\ v \in Pass
    OBVIOUS
  <2>2. v # u
    BY <1>1, <2>1, EdgesFinite DEF GraphIInv
  <2>3. v \notin Sorted
    <3>. SUFFICES ASSUME v \in Sorted PROVE FALSE  OBVIOUS
    <3>1. PICK k \in DOMAIN sortedIndices : sortedIndices[k] = v
      BY DEF Sorted, Range
    <3>2. PICK l \in 1 .. k - 1 : sortedIndices[l] = u
      BY <1>1, <2>1, <3>1 DEF GraphIInv, Ordered, SortStep
    <3>3. l \in DOMAIN sortedIndices
      BY <3>1 DEF GraphIInv, SortTypeOK
    <3>. QED  BY <1>1, <3>2, <3>3 DEF Sorted, Range
  <2>4. inDegree[v] # 0
    BY <2>1, PopCounts
  <2>. QED  BY <2>2, <2>3, <2>4
<1>9. IsInjective(stack')
  <2>. SUFFICES ASSUME NEW k \in DOMAIN stack', NEW l \in DOMAIN stack', stack'[k] = stack'[l]
                PROVE  k = l
    BY DEF IsInjective
  <2>1. \A m \in n .. n - 1 + Len(ready) : m - (n - 1) \in DOMAIN ready /\ stack'[m] \in R
    <3>1. \A m \in n .. n - 1 + Len(ready) : m - (n - 1) \in DOMAIN ready
      BY <1>1, <1>3
    <3>. QED  BY <1>3, <1>5, <3>1 DEF Range
  <2>2. CASE k \in 1 .. n - 1 /\ l \in 1 .. n - 1
    BY SMTT(30), <1>1, <1>5, <1>6, <2>2 DEF IsInjective
  <2>3. CASE k \in n .. n - 1 + Len(ready) /\ l \in n .. n - 1 + Len(ready)
    <3>1. ready[k - (n - 1)] = ready[l - (n - 1)]
      BY <1>5, <2>3
    <3>2. k - (n - 1) = l - (n - 1)
      BY <1>3, <2>1, <2>3, <3>1 DEF IsInjective
    <3>. QED  BY <1>1, <2>3, <3>2
  <2>4. CASE k \in 1 .. n - 1 /\ l \in n .. n - 1 + Len(ready)
    BY <1>5, <1>7, <1>8, <2>1, <2>4
  <2>5. CASE l \in 1 .. n - 1 /\ k \in n .. n - 1 + Len(ready)
    BY <1>5, <1>7, <1>8, <2>1, <2>5
  <2>. QED  BY <1>1, <1>3, <1>5, <2>2, <2>3, <2>4, <2>5
<1>10. Range(stack') = {stack[k] : k \in 1 .. n - 1} \cup R
  <2>1. ASSUME NEW x \in Range(stack') PROVE x \in {stack[k] : k \in 1 .. n - 1} \cup R
    <3>1. PICK k \in DOMAIN stack' : stack'[k] = x
      BY DEF Range
    <3>2. CASE k \in 1 .. n - 1
      BY <1>5, <3>1, <3>2
    <3>3. CASE k \in n .. n - 1 + Len(ready)
      <4>1. k - (n - 1) \in DOMAIN ready /\ x = ready[k - (n - 1)]
        <5>1. n \in Nat /\ k \in n .. n - 1 + Len(ready) /\ Len(ready) \in Nat
          BY <1>1, <1>3, <3>3
        <5>2. k - (n - 1) \in 1 .. Len(ready)
          BY <5>1
        <5>. QED  BY <1>3, <1>5, <3>1, <3>3, <5>2
      <4>. QED  BY <1>3, <4>1 DEF Range
    <3>. QED  BY <1>1, <1>3, <1>5, <3>1, <3>2, <3>3
  <2>2. ASSUME NEW k \in 1 .. n - 1 PROVE stack[k] \in Range(stack')
    <3>1. k \in DOMAIN stack' /\ stack'[k] = stack[k]
      BY <1>1, <1>3, <1>5
    <3>. QED  BY <3>1 DEF Range
  <2>3. ASSUME NEW x \in R PROVE x \in Range(stack')
    <3>1. PICK m \in DOMAIN ready : ready[m] = x
      BY <1>3 DEF Range
    <3>2. m + (n - 1) \in n .. n - 1 + Len(ready) /\ (m + (n - 1)) - (n - 1) = m
      BY <1>1, <1>3, <3>1
    <3>3. stack'[m + (n - 1)] = x /\ m + (n - 1) \in DOMAIN stack'
      BY <1>1, <1>3, <1>5, <3>1, <3>2
    <3>. QED  BY <3>3 DEF Range
  <2>. QED  BY <2>1, <2>2, <2>3
<1>11. Range(stack') = {j \in Pass \ (Sorted \cup {u}) : inDegree'[j] = 0}
  <2>1. ASSUME NEW k \in 1 .. n - 1 PROVE inDegree'[stack[k]] = 0
    <3>. DEFINE x == stack[k]
    <3>1. x \in Pass /\ inDegree[x] = 0
      BY <1>7
    <3>2. inDegree'[x] = inDegree[x] - Cardinality(Edges(u, x)) /\ Edges(u, x) = {}
      BY <3>1, PopCounts
    <3>. QED  BY <3>1, <3>2, FS_EmptySet
  <2>2. ASSUME NEW j \in Pass \ (Sorted \cup {u}), inDegree'[j] = 0, Edges(u, j) = {}
        PROVE  j \in {stack[k] : k \in 1 .. n - 1}
    <3>1. inDegree[j] = 0
      <4>1. inDegree'[j] = inDegree[j] - Cardinality(Edges(u, j)) /\ Cardinality(Edges(u, j)) = 0
        BY <2>2, PopCounts, FS_EmptySet
      <4>2. inDegree[j] \in Nat
        BY DEF GraphIInv, SortTypeOK
      <4>. QED  BY <2>2, <4>1, <4>2
    <3>2. PICK k \in DOMAIN stack : stack[k] = j
      BY <1>6, <3>1 DEF Range
    <3>. QED  BY <1>1, <3>2
  <2>. QED  BY <1>7, <1>8, <1>10, <2>1, <2>2
<1>. QED  BY <1>1, <1>5, <1>9, <1>11 DEF Ready

\* What has been sorted stays ordered, and without circles.
LEMMA PopKeepsOrder ==
  ASSUME GraphIInv, SortStep
  PROVE  Ordered' /\ WellFounded' /\ sortedIndices' \in Seq(Pass)
<1>. DEFINE u == stack[Len(stack)]
            n == Len(sortedIndices)
<1>1. /\ u \in Pass \ Sorted /\ Sorted' = Sorted \cup {u} /\ Pass' = Pass /\ at = "sort"
      /\ sortedIndices' = Append(sortedIndices, u)
      /\ \A i \in Pass \ Sorted : Edges(i, u) = {}
      /\ \A i, j : Edges(i, j)' = Edges(i, j)
  BY PopReady DEF SortStep
<1>2. sortedIndices \in Seq(Pass) /\ Sorted \subseteq Pass
  BY Ranges DEF GraphIInv, SortTypeOK, Sorted
<1>3. /\ sortedIndices' \in Seq(Pass) /\ n \in Nat /\ DOMAIN sortedIndices = 1 .. n
      /\ DOMAIN sortedIndices' = 1 .. n + 1
      /\ \A k \in 1 .. n : sortedIndices'[k] = sortedIndices[k]
      /\ sortedIndices'[n + 1] = u
  BY <1>1, <1>2, Appended
<1>4. /\ IsInjective(sortedIndices)
      /\ \A k \in 1 .. n, i \in Pass :
            Edges(i, sortedIndices[k]) # {} => \E l \in 1 .. k - 1 : sortedIndices[l] = i
  BY <1>1, <1>3 DEF GraphIInv, Ordered
<1>5. \A k \in 1 .. n : sortedIndices[k] \in Sorted
  BY <1>3 DEF Sorted, Range
<1>6. IsInjective(sortedIndices')
  <2>. SUFFICES ASSUME NEW k \in 1 .. n + 1, NEW l \in 1 .. n + 1,
                       sortedIndices'[k] = sortedIndices'[l]
                PROVE  k = l
    BY <1>3 DEF IsInjective
  <2>1. CASE k \in 1 .. n /\ l \in 1 .. n
    BY <1>3, <1>4, <2>1 DEF IsInjective
  <2>2. CASE k = n + 1 \/ l = n + 1
    BY <1>1, <1>3, <1>5, <2>2
  <2>. QED  BY <1>3, <2>1, <2>2
<1>7. ASSUME NEW k \in 1 .. n + 1, NEW i \in Pass, Edges(i, sortedIndices'[k]) # {}
      PROVE  \E l \in 1 .. k - 1 : sortedIndices'[l] = i
  <2>1. CASE k \in 1 .. n
    <3>1. PICK l \in 1 .. k - 1 : sortedIndices[l] = i
      BY <1>3, <1>4, <1>7, <2>1
    <3>2. l \in 1 .. n
      BY <1>3, <2>1
    <3>. QED  BY <1>3, <3>1, <3>2
  <2>2. CASE k = n + 1
    <3>1. i \in Sorted
      BY <1>1, <1>3, <1>7, <2>2
    <3>2. PICK l \in 1 .. n : sortedIndices[l] = i
      BY <1>3, <3>1 DEF Sorted, Range
    <3>. QED  BY <1>3, <2>2, <3>2
  <2>. QED  BY <1>3, <2>1, <2>2
<1>8. Ordered'
  BY <1>1, <1>3, <1>6, <1>7 DEF Ordered
<1>9. WellFounded'
  <2>. SUFFICES ASSUME NEW B \in SUBSET (Sorted \cup {u}), B # {}
                PROVE  \E j \in B : \A i \in B : Edges(i, j) = {}
    BY <1>1 DEF WellFounded
  <2>1. CASE B = {u}
    BY <1>1, <2>1
  <2>2. CASE B # {u}
    <3>1. B \ {u} \in SUBSET Sorted /\ B \ {u} # {}
      BY <2>2
    <3>2. PICK j \in B \ {u} : \A i \in B \ {u} : Edges(i, j) = {}
      BY <1>1, <3>1, Zenon DEF GraphIInv, WellFounded
    <3>3. Edges(u, j) = {}
      <4>. SUFFICES ASSUME Edges(u, j) # {} PROVE FALSE  OBVIOUS
      <4>1. PICK k \in 1 .. n : sortedIndices[k] = j
        BY <1>3, <3>1 DEF Sorted, Range
      <4>2. PICK l \in 1 .. k - 1 : sortedIndices[l] = u
        BY <1>1, <1>4, <4>1
      <4>3. l \in 1 .. n
        BY <1>3
      <4>. QED  BY <1>1, <1>5, <4>2, <4>3
    <3>. QED  BY <3>2, <3>3
  <2>. QED  BY <2>1, <2>2
<1>. QED  BY <1>3, <1>8, <1>9

\* Kahn's step keeps the invariant.
LEMMA PopKeeps ==
  ASSUME GraphIInv, SortStep
  PROVE  GraphIInv'
<1>1. /\ at = "sort" /\ at' = "sort" /\ passes' = passes /\ executed' = executed
      /\ Pass' = Pass
  BY DEF SortStep, declared, Pass
<1>2. inDegree' \in [Pass -> Nat] /\ Counted'
  <2>. DEFINE left == [v \in DOMAIN passes |->
                        inDegree[v] - Cardinality(Edges(stack[Len(stack)], v))]
  <2>1. inDegree' = left
    BY DEF SortStep
  <2>2. \A j \in Pass : inDegree'[j] \in Nat /\ inDegree'[j] = Cardinality(Waits(j)')
    BY PopCounts
  <2>3. inDegree' \in [Pass -> Nat]
    BY <2>1, <2>2 DEF Pass
  <2>4. Counted'
    BY <1>1, <2>2 DEF Counted
  <2>. QED  BY <2>3, <2>4
<1>3. SortTypeOK'
  BY <1>1, <1>2, PopKeepsReady, PopKeepsOrder DEF GraphIInv, SortTypeOK
<1>4. Complete' /\ Executed'
  BY <1>1 DEF GraphIInv, Complete, Executed
<1>. QED  BY <1>2, <1>3, <1>4, PopKeepsReady, PopKeepsOrder DEF GraphIInv

-----------------------------------------------------------------------------
(* The other steps *)

\* Between frames only types matter.
LEMMA Declaring ==
  ASSUME SortTypeOK', at' = "declare", executed' = <<>>
  PROVE  GraphIInv'
  BY DEF GraphIInv, Counted, Ready, Ordered, WellFounded, Complete, Executed

\* One element of a sequence is changed.
LEMMA Replaced ==
  ASSUME NEW S, NEW s \in Seq(S), NEW n \in DOMAIN s, NEW q \in S
  PROVE  [s EXCEPT ![n] = q] \in Seq(S) /\ Len([s EXCEPT ![n] = q]) = Len(s)
<1>. DEFINE z == [s EXCEPT ![n] = q]
            m == Len(s)
<1>1. m \in Nat /\ s \in [1 .. m -> S]
  OBVIOUS
<1>. HIDE DEF m
<1>2. z \in [1 .. m -> S]
  BY <1>1
<1>. HIDE DEF z
<1>3. z \in Seq(S) /\ Len(z) = m
  BY <1>1, <1>2
<1>. QED  BY <1>3 DEF z, m

\* What has declared a use is still a pass.
LEMMA DeclaredPass ==
  ASSUME NEW p \in PassData, NEW r \in Resource
  PROVE  /\ [p EXCEPT !.readResources = Append(@, r)] \in PassData
         /\ [p EXCEPT !.writeResources = Append(@, r)] \in PassData
<1>1. p.readResources \in Seq(Resource) /\ p.writeResources \in Seq(Resource)
  BY DEF PassData
<1>2. Append(p.readResources, r) \in Seq(Resource) /\ Append(p.writeResources, r) \in Seq(Resource)
  BY <1>1
<1>. QED  BY <1>2 DEF PassData

\* A builder changes a pass, not how many there are.
LEMMA BuilderKeeps ==
  ASSUME GraphIInv, Building, passes' \in Seq(PassData), Len(passes') = Len(passes)
  PROVE  GraphIInv'
<1>1. Pass' = Pass
  BY DEF GraphIInv, SortTypeOK, Pass
<1>2. SortTypeOK' /\ at' = "declare" /\ executed' = <<>>
  BY <1>1 DEF GraphIInv, SortTypeOK, Executed, Building
<1>. QED  BY <1>2, Declaring

\* A new pass.
LEMMA AddPassKeeps ==
  ASSUME GraphIInv, AddPass
  PROVE  GraphIInv'
<1>1. [readResources |-> <<>>, writeResources |-> <<>>] \in PassData
  BY DEF PassData
<1>2. passes' \in Seq(PassData) /\ Pass \subseteq Pass'
  BY <1>1, Appended DEF GraphIInv, SortTypeOK, AddPass, Pass
<1>3. /\ at = "declare" /\ at' = "declare" /\ executed' = <<>>
      /\ stack' = stack /\ sortedIndices' = sortedIndices
      /\ inDegree' = [i \in Pass' |-> 0]
  BY DEF AddPass, GraphIInv, Executed, Pass
<1>4. stack \in Seq(Pass') /\ sortedIndices \in Seq(Pass')
  BY <1>2 DEF GraphIInv, SortTypeOK
<1>5. SortTypeOK'
  BY <1>2, <1>3, <1>4 DEF SortTypeOK
<1>. QED  BY <1>3, <1>5, Declaring

\* A compilation starts with nothing sorted and the passes that nobody feeds.
LEMMA BeginCompileKeeps ==
  ASSUME GraphIInv, BeginCompile
  PROVE  GraphIInv'
<1>. DEFINE Z == {j \in Pass : InDegree(j) = 0}
<1>1. /\ passes' = passes /\ at' = "sort" /\ sortedIndices' = <<>> /\ executed' = <<>>
      /\ Pass' = Pass /\ Sorted' = {} /\ at = "declare"
      /\ \A i, j : Edges(i, j)' = Edges(i, j)
  BY Ranges DEF BeginCompile, GraphIInv, Executed, Pass, Sorted, Edges
<1>2. \A j \in Pass : Waits(j)' = InEdges(j)
  BY <1>1 DEF Waits, InEdges, Pass
<1>3. inDegree' = [j \in Pass |-> InDegree(j)]
  BY DEF BeginCompile, Pass
<1>4. SortTypeOK' /\ Counted' /\ Ready'
  <2>1. stack' \in Ascending(Z)
    BY DEF BeginCompile, Pass
  <2>2. IsFiniteSet(Z) /\ Cardinality(Z) \in Nat
    BY EdgesFinite, FS_Subset, FS_CardinalityType, Z \in SUBSET Pass DEF GraphIInv
  <2>3. stack' \in [1 .. Cardinality(Z) -> Z] /\ IsInjective(stack')
    BY <2>1 DEF Ascending, Orders
  <2>4. Range(stack') = Z
    <3>. HIDE DEF Z
    <3>1. Range(stack') \in SUBSET Z
      BY <2>3 DEF Range
    <3>2. /\ stack' \in Surjection(1 .. Cardinality(Z), Range(stack'))
          /\ stack' \in Injection(1 .. Cardinality(Z), Range(stack'))
      BY <2>3 DEF Range, Surjection, Injection
    <3>3. IsFiniteSet(1 .. Cardinality(Z)) /\ Cardinality(1 .. Cardinality(Z)) = Cardinality(Z)
      BY <2>2, FS_Interval
    <3>4. Cardinality(Range(stack')) = Cardinality(Z)
      BY <3>2, <3>3, FS_Surjection
    <3>. QED  BY <2>2, <3>1, <3>4, FS_Subset
  <2>5. stack' \in Seq(Pass)
    <3>1. Z \subseteq Pass
      OBVIOUS
    <3>. HIDE DEF Z
    <3>. DEFINE n == Cardinality(Z)
    <3>2. n \in Nat /\ stack' \in [1 .. n -> Z]
      BY <2>2, <2>3
    <3>. HIDE DEF n
    <3>3. stack' \in Seq(Z)
      BY <3>2
    <3>. QED  BY <3>1, <3>3
  <2>6. \A j \in Pass : inDegree'[j] = Cardinality(Waits(j)')
    BY <1>2, <1>3 DEF InDegree
  <2>7. SortTypeOK'
    <3>0. passes' \in Seq(PassData) /\ at' \in {"declare", "sort", "execute"}
          /\ sortedIndices' \in Seq(Pass') /\ executed' \in Seq(Pass') /\ stack' \in Seq(Pass')
      BY <1>1, <2>5 DEF GraphIInv, SortTypeOK
    <3>1. \A j \in Pass : IsFiniteSet(Waits(j)') /\ Cardinality(Waits(j)') \in Nat
      <4>. SUFFICES ASSUME NEW j \in Pass PROVE IsFiniteSet(InEdges(j))
        BY <1>2, FS_CardinalityType
      <4>. DEFINE E(i) == {i} \X Edges(i, j)
                  f == [i \in Pass |-> E(i)]
                  T == {E(i) : i \in Pass}
      <4>1. IsFiniteSet(Pass)
        BY EdgesFinite DEF GraphIInv
      <4>2. f \in Surjection(Pass, T)
        BY Zenon DEF Surjection
      <4>3. IsFiniteSet(T)
        BY <4>1, <4>2, FS_Surjection
      <4>4. \A i \in Pass : IsFiniteSet({i}) /\ IsFiniteSet(Edges(i, j))
        BY EdgesFinite, FS_Singleton DEF GraphIInv
      <4>5. \A t \in T : IsFiniteSet(t)
        <5>1. \A i \in Pass : IsFiniteSet(E(i))
          BY <4>4, FS_Product
        <5>. QED  BY <5>1, Zenon
      <4>6. InEdges(j) = UNION T
        BY DEF InEdges, Pass
      <4>. QED  BY <4>3, <4>5, <4>6, FS_UNION
    <3>2. inDegree' \in [Pass' -> Nat]
      BY <1>1, <1>3, <2>6, <3>1
    <3>. QED  BY <3>0, <3>2 DEF SortTypeOK
  <2>8. Counted'
    BY <1>1, <2>6 DEF Counted
  <2>9. Ready'
    <3>1. Z = {j \in Pass' \ Sorted' : inDegree'[j] = 0}
      BY <1>1, <1>3
    <3>. QED  BY <2>3, <2>4, <3>1 DEF Ready
  <2>. QED  BY <2>7, <2>8, <2>9
<1>5. Ordered' /\ WellFounded' /\ Complete' /\ Executed'
  BY <1>1 DEF Ordered, WellFounded, Complete, Executed, IsInjective
<1>. QED  BY <1>4, <1>5 DEF GraphIInv

\* When nothing is ready, what is left waits for something that is left.
LEMMA EndCompileKeeps ==
  ASSUME GraphIInv, EndCompile
  PROVE  GraphIInv'
<1>1. /\ passes' = passes /\ at = "sort" /\ at' = "execute" /\ stack = <<>> /\ executed = <<>>
      /\ UNCHANGED <<inDegree, stack, sortedIndices, executed>>
      /\ Pass' = Pass /\ Sorted' = Sorted
      /\ \A i, j : Edges(i, j)' = Edges(i, j)
  BY DEF EndCompile, GraphIInv, Executed, declared, Pass, Sorted, Edges
<1>2. \A j \in Pass \ Sorted : \E i \in Pass \ Sorted : Edges(i, j) # {}
  <2>. SUFFICES ASSUME NEW j \in Pass \ Sorted PROVE \E i \in Pass \ Sorted : Edges(i, j) # {}
    OBVIOUS
  <2>1. Range(stack) = {}
    BY <1>1, Ranges
  <2>2. inDegree[j] # 0
    BY <1>1, <2>1 DEF GraphIInv, Ready
  <2>. QED  BY <1>1, <2>2, WaitsFor DEF GraphIInv, Counted
<1>3. Complete'
  BY <1>1, <1>2 DEF Complete
<1>4. Executed'
  BY <1>1 DEF Executed, GraphIInv, SortTypeOK
<1>5. Ordered'
  BY <1>1, Zenon DEF GraphIInv, Ordered, IsInjective
<1>6. WellFounded'
  BY <1>1, Zenon DEF GraphIInv, WellFounded
<1>7. Counted' /\ Ready'
  BY <1>1 DEF Counted, Ready
<1>8. SortTypeOK'
  BY <1>1, Zenon DEF GraphIInv, SortTypeOK
<1>. QED  BY <1>3, <1>4, <1>5, <1>6, <1>7, <1>8 DEF GraphIInv

\* Passes are executed in the order of the sort.
LEMMA ExecutePassKeeps ==
  ASSUME GraphIInv, ExecutePass
  PROVE  GraphIInv'
<1>. DEFINE n == Len(executed)
            u == sortedIndices[n + 1]
<1>1. /\ passes' = passes /\ at = "execute" /\ at' = "execute"
      /\ UNCHANGED <<inDegree, stack, sortedIndices>>
      /\ Pass' = Pass /\ Sorted' = Sorted
      /\ \A i, j : Edges(i, j)' = Edges(i, j)
      /\ n < Len(sortedIndices) /\ executed' = Append(executed, u)
  BY DEF ExecutePass, declared, Pass, Sorted, Edges
<1>2. executed \in Seq(Pass) /\ sortedIndices \in Seq(Pass) /\ n \in Nat /\ u \in Pass
  BY <1>1 DEF GraphIInv, SortTypeOK
<1>3. /\ executed' \in Seq(Pass) /\ Len(executed') = n + 1 /\ DOMAIN executed' = 1 .. n + 1
      /\ DOMAIN executed = 1 .. n
      /\ \A k \in 1 .. n : executed'[k] = executed[k]
      /\ executed'[n + 1] = u
  BY <1>1, <1>2, Appended
<1>4. Executed'
  <2>1. \A k \in 1 .. n : executed[k] = sortedIndices[k]
    BY <1>1, <1>3 DEF GraphIInv, Executed
  <2>2. \A k \in 1 .. n + 1 : executed'[k] = sortedIndices[k]
    BY <1>2, <1>3, <2>1
  <2>3. n + 1 <= Len(sortedIndices)
    BY <1>1, <1>2
  <2>. QED  BY <1>1, <1>3, <2>2, <2>3 DEF Executed
<1>5. SortTypeOK'
  BY <1>1, <1>3 DEF GraphIInv, SortTypeOK
<1>6. Ordered'
  BY <1>1, Zenon DEF GraphIInv, Ordered, IsInjective
<1>7. WellFounded' /\ Complete'
  BY <1>1, Zenon DEF GraphIInv, WellFounded, Complete
<1>8. Counted' /\ Ready'
  BY <1>1 DEF Counted, Ready
<1>. QED  BY <1>4, <1>5, <1>6, <1>7, <1>8 DEF GraphIInv

\* The end of a frame.
LEMMA EndFrameKeeps ==
  ASSUME GraphIInv, EndFrame
  PROVE  GraphIInv'
<1>1. SortTypeOK' /\ at' = "declare" /\ executed' = <<>>
  BY DEF EndFrame, GraphIInv, SortTypeOK, Pass, declared
<1>. QED  BY <1>1, Declaring

-----------------------------------------------------------------------------

\* The invariant holds in every reachable state: inDegree is exact and the stack
\* holds what is ready, throughout every compilation of every graph.
THEOREM GraphInvariant == GraphSpec => []GraphIInv
<1>1. GraphInit => GraphIInv
  <2>. SUFFICES ASSUME GraphInit PROVE GraphIInv  OBVIOUS
  <2>1. SortTypeOK /\ at = "declare" /\ executed = <<>>
    BY DEF GraphInit, SortTypeOK, Pass
  <2>. QED  BY <2>1 DEF GraphIInv, Counted, Ready, Ordered, WellFounded, Complete, Executed
<1>2. GraphIInv /\ [GraphNext]_graphVars => GraphIInv'
  <2>. SUFFICES ASSUME GraphIInv, [GraphNext]_graphVars PROVE GraphIInv'  OBVIOUS
  <2>0. DOMAIN passes = 1 .. Len(passes) /\ Len(passes) \in Nat /\ passes \in Seq(PassData)
    BY DEF GraphIInv, SortTypeOK
  <2>1. CASE AddPass
    BY <2>1, AddPassKeeps
  <2>2. ASSUME NEW r \in Resource, DeclareRead(r) PROVE GraphIInv'
    <3>1. Building /\ passes # <<>>
      BY <2>2 DEF DeclareRead, Building
    <3>. DEFINE p == passes[Len(passes)]
                q == [p EXCEPT !.readResources = Append(@, r)]
    <3>0. Len(passes) \in DOMAIN passes /\ p \in PassData
      BY <2>0, <3>1
    <3>2. q \in PassData
      BY <3>0, DeclaredPass
    <3>3. passes' = [passes EXCEPT ![Len(passes)] = q]
      BY <2>2 DEF DeclareRead
    <3>. HIDE DEF q
    <3>4. passes' \in Seq(PassData) /\ Len(passes') = Len(passes)
      BY <2>0, <3>0, <3>2, <3>3, Replaced
    <3>. QED  BY <3>1, <3>4, BuilderKeeps
  <2>3. ASSUME NEW r \in Resource, DeclareWrite(r) PROVE GraphIInv'
    <3>1. Building /\ passes # <<>>
      BY <2>3 DEF DeclareWrite, Building
    <3>. DEFINE p == passes[Len(passes)]
                q == [p EXCEPT !.writeResources = Append(@, r)]
    <3>0. Len(passes) \in DOMAIN passes /\ p \in PassData
      BY <2>0, <3>1
    <3>2. q \in PassData
      BY <3>0, DeclaredPass
    <3>3. passes' = [passes EXCEPT ![Len(passes)] = q]
      BY <2>3 DEF DeclareWrite
    <3>. HIDE DEF q
    <3>4. passes' \in Seq(PassData) /\ Len(passes') = Len(passes)
      BY <2>0, <3>0, <3>2, <3>3, Replaced
    <3>. QED  BY <3>1, <3>4, BuilderKeeps
  <2>4. ASSUME NEW r \in Resource, NEW source \in 0 .. MaxPasses, AddColorAttachment(r, source)
        PROVE  GraphIInv'
    BY <2>0, <2>4, BuilderKeeps DEF AddColorAttachment
  <2>5. CASE BeginCompile
    BY <2>5, BeginCompileKeeps
  <2>6. CASE SortStep
    BY <2>6, PopKeeps
  <2>7. CASE EndCompile
    BY <2>7, EndCompileKeeps
  <2>8. CASE ExecutePass
    BY <2>8, ExecutePassKeeps
  <2>9. CASE EndFrame
    BY <2>9, EndFrameKeeps
  <2>10. CASE UNCHANGED graphVars
    <3>1. /\ passes' = passes /\ at' = at /\ inDegree' = inDegree /\ stack' = stack
          /\ sortedIndices' = sortedIndices /\ executed' = executed
      BY <2>10 DEF graphVars, declared
    <3>2. Pass' = Pass /\ Sorted' = Sorted /\ (\A i, j : Edges(i, j)' = Edges(i, j))
      BY <3>1 DEF Pass, Sorted, Edges
    <3>3. \A j : Waits(j)' = Waits(j)
      BY <3>2 DEF Waits
    <3>4. SortTypeOK' /\ Counted' /\ Ready'
      BY <3>1, <3>2, <3>3 DEF GraphIInv, SortTypeOK, Counted, Ready
    <3>5. Ordered' /\ Executed'
      BY <3>1, <3>2 DEF GraphIInv, Ordered, Executed, IsInjective
    <3>6. WellFounded'
      BY <3>1, <3>2 DEF GraphIInv, WellFounded
    <3>7. Complete'
      BY <3>1, <3>2 DEF GraphIInv, Complete
    <3>. QED  BY <3>4, <3>5, <3>6, <3>7 DEF GraphIInv
  <2>. QED
    BY <2>1, <2>2, <2>3, <2>4, <2>5, <2>6, <2>7, <2>8, <2>9, <2>10 DEF GraphNext
<1>. QED  BY <1>1, <1>2, PTL DEF GraphSpec

\* Every pass runs after all that write what it reads, and once, in every frame
\* of every graph (FrameGraphImpl::Compile, PipelineContext::ExecutePasses).
THEOREM PassesInOrder == GraphSpec => []WritersFirst
<1>1. GraphIInv => WritersFirst
  <2>. SUFFICES ASSUME GraphIInv, NEW k \in DOMAIN executed, NEW l \in DOMAIN executed, k < l
                PROVE  executed[k] # executed[l] /\ ~Feeds(executed[l], executed[k])
    BY DEF WritersFirst
  <2>1. at = "execute"
    BY DEF GraphIInv, Executed
  <2>2. /\ executed \in Seq(Pass) /\ sortedIndices \in Seq(Pass)
        /\ Len(executed) <= Len(sortedIndices)
        /\ \A m \in DOMAIN executed : executed[m] = sortedIndices[m]
    BY <2>1 DEF GraphIInv, SortTypeOK, Executed
  <2>3. /\ k \in DOMAIN sortedIndices /\ l \in DOMAIN sortedIndices /\ k \in Nat /\ l \in Nat
        /\ executed[k] \in Pass /\ executed[l] \in Pass
    BY <2>2
  <2>4. IsInjective(sortedIndices)
    BY <2>1 DEF GraphIInv, Ordered
  <2>5. sortedIndices[k] # sortedIndices[l]
    BY <2>3, <2>4 DEF IsInjective
  <2>6. ASSUME Feeds(executed[l], executed[k]) PROVE FALSE
    <3>1. Edges(executed[l], sortedIndices[k]) # {}
      BY <2>2, <2>3, <2>6, EdgesFinite DEF GraphIInv
    <3>2. PICK m \in 1 .. k - 1 : sortedIndices[m] = executed[l]
      BY <2>1, <2>3, <3>1 DEF GraphIInv, Ordered
    <3>3. m \in DOMAIN sortedIndices /\ m # l
      BY <2>2, <2>3
    <3>. QED  BY <2>2, <2>3, <2>4, <3>2, <3>3 DEF IsInjective
  <2>. QED  BY <2>2, <2>5, <2>6
<1>. QED  BY <1>1, GraphInvariant, PTL

\* Compile leaves out exactly the passes on a cycle or behind one, in every graph.
THEOREM LeavesOutOnlyCycles == GraphSpec => [](at = "execute" => SortedExactly)
<1>1. GraphIInv => (at = "execute" => SortedExactly)
  <2>. SUFFICES ASSUME GraphIInv, at = "execute" PROVE SortedExactly  OBVIOUS
  <2>. DEFINE C == {B \in SUBSET Pass : WaitInCircles(B)}
  <2>1. Sorted \subseteq Pass
    BY Ranges DEF GraphIInv, SortTypeOK, Sorted
  <2>2. Pass \ Sorted \in C
    <3>1. \A j \in Pass \ Sorted : \E i \in Pass \ Sorted : Feeds(i, j)
      BY EdgesFinite DEF GraphIInv, Complete
    <3>. QED  BY <3>1 DEF WaitInCircles
  <2>3. ASSUME NEW B \in C PROVE B \cap Sorted = {}
    <3>. SUFFICES ASSUME B \cap Sorted # {} PROVE FALSE  OBVIOUS
    <3>1. B \cap Sorted \in SUBSET Sorted
      OBVIOUS
    <3>2. PICK j \in B \cap Sorted : \A i \in B \cap Sorted : Edges(i, j) = {}
      BY <3>1, Zenon DEF GraphIInv, WellFounded
    <3>3. PICK i \in B : Feeds(i, j)
      BY <2>3 DEF WaitInCircles
    <3>4. i \in Pass /\ j \in Pass /\ Edges(i, j) # {}
      BY <2>1, <2>3, <3>3, EdgesFinite DEF GraphIInv
    <3>5. PICK k \in DOMAIN sortedIndices : sortedIndices[k] = j
      BY DEF Sorted, Range
    <3>6. PICK l \in 1 .. k - 1 : sortedIndices[l] = i
      BY <3>4, <3>5 DEF GraphIInv, Ordered
    <3>7. l \in DOMAIN sortedIndices
      BY <3>5 DEF GraphIInv, SortTypeOK
    <3>8. i \in Sorted
      BY <3>6, <3>7 DEF Sorted, Range
    <3>. QED  BY <3>2, <3>4, <3>8
  <2>4. UNION C = Pass \ Sorted
    BY <2>2, <2>3
  <2>5. Sorted = Pass \ UNION C
    BY <2>1, <2>4
  <2>. QED  BY <2>5 DEF SortedExactly, Pass, Sorted
<1>. QED  BY <1>1, GraphInvariant, PTL

-----------------------------------------------------------------------------
(* FrameGraph: the links *)

\* Of the natural numbers in a set one is the least.
InOrder == {p \in Nat \X Nat : p[1] < p[2]}

LEMMA LeastNumber ==
  ASSUME NEW T \in SUBSET Nat, T # {}
  PROVE  \E x \in T : \A y \in T : x <= y
<1>1. IsWellFoundedOn(InOrder, Nat)
  BY NatLessThanWellFounded DEF InOrder, OpToRel
<1>2. PICK x \in T : \A y \in T : ~(<<y, x>> \in InOrder)
  BY <1>1, WFMin
<1>3. \A y, z \in Nat : <<y, z>> \in InOrder <=> y < z
  BY DEF InOrder
<1>4. \A y \in T : ~(y < x)
  BY <1>2, <1>3
<1>5. \A y \in T : x <= y
  BY <1>4
<1>. QED  BY <1>5

\* The passes in their order: what a pass has when all before it have it, all have.
LEMMA PassesInTurn ==
  ASSUME SortTypeOK, NEW T \in SUBSET Pass,
         \A i \in Pass : (\A p \in Pass : p < i => p \in T) => i \in T
  PROVE  T = Pass
<1>1. SUFFICES ASSUME Pass \ T # {} PROVE FALSE  OBVIOUS
<1>2. Pass \ T \in SUBSET Nat
  BY EdgesFinite
<1>3. PICK x \in Pass \ T : \A y \in Pass \ T : x <= y
  BY <1>1, <1>2, LeastNumber
<1>4. \A p \in Pass : p < x => p \in T
  BY <1>2, <1>3, EdgesFinite
<1>. QED  BY <1>3, <1>4

Source(i) == attachments[i].sourcePassIndex

\* A pass without an attachment has no source, and links follow once compiled.
AttachmentsSound ==
    /\ attachments \in [Pass -> PassAttachmentDesc]
    /\ \A i \in Pass : ~HasAttachment(i) => Source(i) = 0
    /\ at # "declare" => LinksFollow

\* One turn of the loop over the passes.
Turn(handle, p) ==
    IF ~IsLinked(p) THEN attachments[p].handle
    ELSE IF Source(p) < p THEN handle[Source(p)] ELSE attachments[Source(p)].handle

\* The first m turns.
Turns(handle, m) == DOMAIN handle = 1 .. m /\ \A p \in 1 .. m : handle[p] = Turn(handle, p)

\* The loop has a result.
LEMMA LoopEnds ==
  ASSUME SortTypeOK, AttachmentsSound, NEW m \in Nat, m <= Len(passes)
  PROVE  \E handle : Turns(handle, m)
<1>1. Pass = 1 .. Len(passes) /\ Len(passes) \in Nat
  BY EdgesFinite
<1>2. \A p \in Pass : Source(p) \in Nat /\ (IsLinked(p) => Source(p) \in Pass)
  BY GraphBounds DEF AttachmentsSound, PassAttachmentDesc, Source, IsLinked, Pass
<1>. DEFINE T == {i \in Pass : \E handle : Turns(handle, i)}
<1>3. ASSUME NEW i \in Pass, \A p \in Pass : p < i => p \in T PROVE i \in T
  <2>1. PICK f : Turns(f, i - 1)
    <3>1. CASE i = 1
      <4>. DEFINE g == [p \in 1 .. 0 |-> NoHandle]
      <4>1. Turns(g, 0)
        BY DEF Turns
      <4>. HIDE DEF g
      <4>. QED  BY <3>1, <4>1
    <3>2. CASE i # 1
      <4>1. i - 1 \in Pass /\ i - 1 < i
        BY <1>1, <3>2
      <4>. QED  BY <1>3, <4>1
    <3>. QED  BY <3>1, <3>2
  <2>. DEFINE g == [p \in 1 .. i |-> IF p = i THEN Turn(f, i) ELSE f[p]]
  <2>2. i \in 1 .. i /\ \A p \in 1 .. i - 1 : p \in 1 .. i /\ p # i /\ p \in Pass
    BY <1>1
  <2>3. \A p \in 1 .. i : p \in Pass /\ p <= i /\ (p # i => p \in 1 .. i - 1)
    BY <1>1
  <2>4. DOMAIN g = 1 .. i /\ g[i] = Turn(f, i) /\ \A p \in 1 .. i - 1 : g[p] = f[p]
    BY <2>2
  <2>. HIDE DEF g
  <2>5. \A p \in 1 .. i : Turn(g, p) = Turn(f, p)
    <3>1. TAKE p \in 1 .. i
    <3>2. IsLinked(p) /\ Source(p) < p => Source(p) \in 1 .. i - 1
      BY <1>1, <1>2, <2>3
    <3>3. IsLinked(p) /\ Source(p) < p => g[Source(p)] = f[Source(p)]
      BY <2>4, <3>2
    <3>. QED  BY <3>3 DEF Turn
  <2>6. Turns(g, i)
    BY <2>1, <2>3, <2>4, <2>5 DEF Turns
  <2>. QED  BY <2>6
<1>4. T = Pass
  <2>. HIDE DEF T
  <2>1. T \in SUBSET Pass
    BY DEF T
  <2>. QED  BY <1>3, <2>1, PassesInTurn
<1>5. CASE m = 0
  <2>. DEFINE g == [p \in 1 .. 0 |-> NoHandle]
  <2>1. Turns(g, 0)
    BY DEF Turns
  <2>. HIDE DEF g
  <2>. QED  BY <1>5, <2>1
<1>6. CASE m # 0
  BY <1>1, <1>4, <1>6
<1>. QED  BY <1>5, <1>6

\* What the loop gives a pass, in terms of what it gave the ones before.
LEMMA LinkedStep ==
  ASSUME SortTypeOK, AttachmentsSound
  PROVE  \A i \in Pass :
            Linked(i) = IF ~IsLinked(i) THEN attachments[i].handle
                        ELSE IF Source(i) < i THEN Linked(Source(i)) ELSE attachments[Source(i)].handle
<1>1. Pass = 1 .. Len(passes) /\ Len(passes) \in Nat
  BY EdgesFinite
<1>2. \A p \in Pass : IsLinked(p) => Source(p) \in Pass
  BY DEF Source, IsLinked, Pass
<1>. DEFINE Whole(f) == f = [p \in DOMAIN passes |->
                 IF ~IsLinked(p) THEN attachments[p].handle
                 ELSE IF attachments[p].sourcePassIndex < p THEN f[attachments[p].sourcePassIndex]
                      ELSE attachments[attachments[p].sourcePassIndex].handle]
<1>3. PICK f : Turns(f, Len(passes))
  BY <1>1, LoopEnds
<1>. DEFINE h == [p \in Pass |-> f[p]]
<1>4. Whole(h)
  <2>1. \A p \in Pass : h[p] = Turn(f, p)
    BY <1>1, <1>3 DEF Turns
  <2>2. \A p \in Pass : Turn(f, p) = Turn(h, p)
    BY <1>2 DEF Turn
  <2>. QED  BY <2>1, <2>2 DEF Pass, Turn, Source
<1>. DEFINE handle == CHOOSE g : Whole(g)
<1>. HIDE DEF Whole, h
<1>5. Whole(handle)
  BY <1>4, Zenon
<1>6. \A i : Linked(i) = handle[i]
  BY Zenon DEF Linked, Whole
<1>. HIDE DEF handle
<1>7. \A i \in Pass : handle[i] = Turn(handle, i)
  BY <1>5 DEF Whole, Turn, Source, Pass
<1>. QED  BY <1>6, <1>7 DEF Turn

\* A pass draws after linking exactly if it drew before.
LEMMA LinkedTyped ==
  ASSUME SortTypeOK, AttachmentsSound
  PROVE  \A i \in Pass : /\ Linked(i) \in Resource \cup {NoHandle}
                         /\ Linked(i) # NoHandle <=> HasAttachment(i)
<1>. DEFINE Good(i) == /\ Linked(i) \in Resource \cup {NoHandle}
                       /\ Linked(i) # NoHandle <=> HasAttachment(i)
            T == {i \in Pass : Good(i)}
<1>1. \A i \in Pass : attachments[i] \in PassAttachmentDesc
  BY DEF AttachmentsSound
<1>2. \A i \in Pass : attachments[i].handle \in Resource \cup {NoHandle}
  BY <1>1 DEF PassAttachmentDesc
<1>3. \A i \in Pass : IsLinked(i) => Source(i) \in Pass /\ HasAttachment(Source(i))
  BY DEF IsLinked, Source, Pass
<1>4. \A i \in Pass : IsLinked(i) => HasAttachment(i)
  <2>1. 0 \notin Pass
    BY EdgesFinite
  <2>. QED  BY <1>3, <2>1 DEF AttachmentsSound
<1>5. ASSUME NEW i \in Pass, \A p \in Pass : p < i => Good(p) PROVE Good(i)
  <2>1. CASE ~IsLinked(i)
    BY <1>2, <2>1, LinkedStep DEF HasAttachment
  <2>2. CASE IsLinked(i) /\ Source(i) < i
    <3>1. Linked(i) = Linked(Source(i)) /\ Good(Source(i))
      BY <1>3, <1>5, <2>2, LinkedStep
    <3>. QED  BY <1>3, <1>4, <2>2, <3>1
  <2>3. CASE IsLinked(i) /\ ~(Source(i) < i)
    <3>1. Linked(i) = attachments[Source(i)].handle
      BY <2>3, LinkedStep
    <3>. QED  BY <1>2, <1>3, <1>4, <2>3, <3>1 DEF HasAttachment
  <2>. QED  BY <2>1, <2>2, <2>3
<1>. HIDE DEF Good
<1>6. T = Pass
  <2>1. \A i \in Pass : (\A p \in Pass : p < i => p \in T) => i \in T
    BY <1>5
  <2>2. T \in SUBSET Pass
    OBVIOUS
  <2>. HIDE DEF T
  <2>. QED  BY <2>1, <2>2, PassesInTurn
<1>7. \A i \in Pass : Good(i)
  BY <1>6
<1>. QED  BY <1>7 DEF Good

\* Linking in place gives each pass what its source has, in every frame again.
LEMMA BeginCompileLinks ==
  ASSUME SortTypeOK, AttachmentsSound, BeginCompile
  PROVE  AttachmentsSound'
<1>1. attachments' = [i \in Pass |-> [attachments[i] EXCEPT !.handle = Linked(i)]] /\ Pass' = Pass
  BY DEF BeginCompile, Pass
<1>2. \A i \in Pass : attachments[i] \in PassAttachmentDesc
  BY DEF AttachmentsSound
<1>3. \A i \in Pass : /\ attachments'[i] \in PassAttachmentDesc
                      /\ attachments'[i].handle = Linked(i)
                      /\ Source(i)' = Source(i)
  BY <1>1, <1>2, LinkedTyped DEF PassAttachmentDesc, Source
<1>4. attachments' \in [Pass -> PassAttachmentDesc]
  BY <1>1, <1>3
<1>5. \A i \in Pass : (HasAttachment(i)' <=> HasAttachment(i)) /\ (IsLinked(i)' <=> IsLinked(i))
  <2>1. \A i \in Pass : HasAttachment(i)' <=> HasAttachment(i)
    BY <1>3, LinkedTyped DEF HasAttachment
  <2>. QED  BY <1>1, <1>3, <2>1 DEF IsLinked, Source, Pass
<1>6. LinksFollow'
  <2>. SUFFICES ASSUME NEW i \in Pass, IsLinked(i), Source(i) < i
                PROVE  attachments'[i].handle = attachments'[Source(i)].handle
    BY <1>1, <1>3, <1>5 DEF LinksFollow, Source, Pass
  <2>1. Source(i) \in Pass
    BY DEF IsLinked, Source, Pass
  <2>. QED  BY <1>3, <2>1, LinkedStep
<1>. QED  BY <1>1, <1>3, <1>4, <1>5, <1>6 DEF AttachmentsSound

\* A new attachment has a handle; what it links is decided by the next compilation.
LEMMA AddColorAttachmentLinks ==
  ASSUME SortTypeOK, AttachmentsSound, NEW r \in Resource, NEW source \in 0 .. MaxPasses,
         AddColorAttachment(r, source)
  PROVE  AttachmentsSound'
<1>1. /\ Pass' = Pass /\ at' = "declare"
      /\ attachments' = [attachments EXCEPT ![Len(passes)] = [handle |-> r, sourcePassIndex |-> source]]
  BY DEF AddColorAttachment, Building, Pass
<1>2. [handle |-> r, sourcePassIndex |-> source] \in PassAttachmentDesc /\ r # NoHandle
  BY ResourceAssumption DEF PassAttachmentDesc
<1>3. attachments' \in [Pass -> PassAttachmentDesc]
  BY <1>1, <1>2 DEF AttachmentsSound
<1>4. \A i \in Pass : HasAttachment(i)' \/ Source(i)' = 0
  BY <1>1, <1>2 DEF AttachmentsSound, HasAttachment, Source
<1>. QED  BY <1>1, <1>3, <1>4 DEF AttachmentsSound

\* Another pass begins without an attachment.
LEMMA AddPassLinks ==
  ASSUME SortTypeOK, AttachmentsSound, AddPass
  PROVE  AttachmentsSound'
<1>. DEFINE none == [handle |-> NoHandle, sourcePassIndex |-> 0]
<1>0. Pass = 1 .. Len(passes) /\ Len(passes) \in Nat
  BY EdgesFinite
<1>1. /\ Pass' = 1 .. Len(passes) + 1 /\ at' = "declare"
      /\ attachments' = Append(attachments, none)
  <2>1. passes' = Append(passes, [readResources |-> <<>>, writeResources |-> <<>>])
    BY DEF AddPass
  <2>2. [readResources |-> <<>>, writeResources |-> <<>>] \in PassData
    BY DEF PassData
  <2>. QED  BY <2>1, <2>2, Appended DEF AddPass, SortTypeOK, Pass
<1>2. none \in PassAttachmentDesc
  BY GraphBounds DEF PassAttachmentDesc
<1>3. attachments \in Seq(PassAttachmentDesc) /\ Len(attachments) = Len(passes)
  BY <1>0 DEF AttachmentsSound
<1>. HIDE DEF none
<1>4. /\ attachments' \in Seq(PassAttachmentDesc) /\ DOMAIN attachments' = Pass'
      /\ \A i \in Pass : attachments'[i] = attachments[i]
      /\ attachments'[Len(passes) + 1] = none
  BY <1>0, <1>1, <1>2, <1>3, Appended
<1>5. attachments' \in [Pass' -> PassAttachmentDesc]
  BY <1>4
<1>6. \A i \in Pass' : HasAttachment(i)' \/ Source(i)' = 0
  BY <1>0, <1>1, <1>4 DEF AttachmentsSound, HasAttachment, Source, none
<1>. QED  BY <1>1, <1>5, <1>6 DEF AttachmentsSound

\* Attachments are sound at every moment.
LEMMA AttachmentsKept == GraphIInv /\ AttachmentsSound /\ [GraphNext]_graphVars => AttachmentsSound'
<1>. SUFFICES ASSUME GraphIInv, AttachmentsSound, [GraphNext]_graphVars PROVE AttachmentsSound'
  OBVIOUS
<1>0. SortTypeOK
  BY DEF GraphIInv
<1>1. ASSUME UNCHANGED attachments, Pass' = Pass, at' = "declare" \/ at # "declare"
      PROVE  AttachmentsSound'
  BY <1>1 DEF AttachmentsSound, LinksFollow, IsLinked, HasAttachment, Source, Pass
<1>2. CASE AddPass
  BY <1>0, <1>2, AddPassLinks
<1>3. ASSUME NEW r \in Resource, DeclareRead(r) \/ DeclareWrite(r) PROVE AttachmentsSound'
  <2>1. passes # <<>> /\ UNCHANGED attachments /\ at' = "declare" /\ Pass' = Pass
    BY <1>3 DEF DeclareRead, DeclareWrite, Building, Pass
  <2>. QED  BY <1>1, <2>1
<1>4. ASSUME NEW r \in Resource, NEW source \in 0 .. MaxPasses, AddColorAttachment(r, source)
      PROVE  AttachmentsSound'
  BY <1>0, <1>4, AddColorAttachmentLinks
<1>5. CASE BeginCompile
  BY <1>0, <1>5, BeginCompileLinks
<1>6. CASE SortStep \/ EndCompile \/ ExecutePass \/ EndFrame
  <2>1. UNCHANGED attachments /\ Pass' = Pass /\ (at' = "declare" \/ at # "declare")
    BY <1>6 DEF SortStep, EndCompile, ExecutePass, EndFrame, declared, Pass
  <2>. QED  BY <1>1, <2>1
<1>7. CASE UNCHANGED graphVars
  <2>1. UNCHANGED attachments /\ Pass' = Pass /\ at' = at
    BY <1>7 DEF graphVars, declared, Pass
  <2>. QED  BY <1>1, <2>1
<1>. QED  BY <1>2, <1>3, <1>4, <1>5, <1>6, <1>7 DEF GraphNext

\* At the end of every compilation exactly the passes that wait in circles, or
\* behind some that do, are left out, and every chain of links is drawn along.
THEOREM CompilesExactly == GraphSpec => []CompileExact
<1>1. GraphInit => AttachmentsSound
  BY DEF GraphInit, AttachmentsSound, Pass
<1>2. GraphIInv /\ AttachmentsSound /\ [GraphNext]_graphVars => AttachmentsSound'
  BY AttachmentsKept
<1>3. AttachmentsSound /\ (at = "execute" => SortedExactly) => CompileExact
  BY DEF AttachmentsSound, CompileExact
<1>. QED  BY <1>1, <1>2, <1>3, GraphInvariant, LeavesOutOnlyCycles, PTL DEF GraphSpec

-----------------------------------------------------------------------------
(* ResourceCache: the invariant *)

\* An instance that no table knows.
Fresh(r) ==
    /\ resource_to_id[r] = None
    /\ cached[r] = None
    /\ id_to_path[r] = None
    /\ held[r] = 0

Loads ==
    \A c \in Client :
       /\ load[c].at # "idle" => load[c].path \in Path
       /\ load[c].at = "find" => load[c].id \in Id
       /\ load[c].at = "store" =>
             /\ load[c].resource \in 1 .. created
             /\ Fresh(load[c].resource)
             /\ \A i \in Id : cached[i] # load[c].resource
             /\ madeFrom[load[c].resource] = load[c].path

LoadsDiffer ==
    \A c, d \in Client :
       load[c].at = "store" /\ load[d].at = "store" /\ c # d
          => load[c].resource # load[d].resource

Uncreated == \A r \in Res : r > created => Fresh(r) /\ \A i \in Id : cached[i] # r

\* The reverse table holds the GUID of each instance.
KeysRight ==
    \A r \in Res : resource_to_id[r] # None =>
       madeFrom[r] \in Path /\ resource_to_id[r] = IdOf(r, madeFrom[r])

IInv ==
    /\ TypeOK
    /\ TablesAgree
    /\ RefcountExact
    /\ HeldStaysCached
    /\ Loads
    /\ LoadsDiffer
    /\ Uncreated
    /\ KeysRight

-----------------------------------------------------------------------------

\* GUIDs of files and of instances are never confused, and none is None.
LEMMA Ids ==
    /\ None \notin Path /\ None \notin Res /\ None \notin Id
    /\ \A p \in Path : p \in Id /\ p \notin Res
    /\ \A r \in Res : r \in Id /\ r \in Int /\ r # None
  BY PathAssumption, BoundsAssumption DEF None, Res, Id

\* The initial state satisfies the invariant.
LEMMA InitHolds == Init => IInv
<1>. SUFFICES ASSUME Init PROVE IInv  OBVIOUS
<1>. USE Ids, PathAssumption, BoundsAssumption
<1>1. TypeOK
  BY DEF Init, TypeOK, LoadState, Idle, None, Res, Id
<1>2. TablesAgree /\ RefcountExact /\ HeldStaysCached
  BY DEF Init, TablesAgree, RefcountExact, HeldStaysCached
<1>3. Loads /\ LoadsDiffer
  BY DEF Init, Loads, LoadsDiffer, Idle
<1>4. Uncreated
  <2>1. \A r \in Res : Fresh(r)
    BY DEF Init, Fresh, Id
  <2>2. \A r \in Res : \A i \in Id : cached[i] # r
    BY DEF Init
  <2>. QED BY <2>1, <2>2 DEF Uncreated
<1>5. KeysRight
  BY DEF Init, KeysRight
<1>. QED BY <1>1, <1>2, <1>3, <1>4, <1>5 DEF IInv

\* Steps of a load that leave the tables alone.
LEMMA OnlyLoads ==
  ASSUME IInv, UNCHANGED <<tables, created, madeFrom, held, replaced>>,
         load' \in [Client -> LoadState], Loads', LoadsDiffer'
  PROVE  IInv'
<1>1. TypeOK'
  BY DEF IInv, TypeOK, tables
<1>2. (TablesAgree /\ RefcountExact /\ HeldStaysCached)'
  BY DEF IInv, TablesAgree, RefcountExact, HeldStaysCached, Cached, tables
<1>3. (Uncreated /\ KeysRight)'
  BY DEF IInv, Uncreated, Fresh, KeysRight, tables
<1>. QED BY <1>1, <1>2, <1>3 DEF IInv

\* What a load is about to look for is one of the ids.
LEMMA ResolveKeeps ==
  ASSUME IInv, NEW c \in Client, NEW p \in Path, ResolvePathToId(c, p)
  PROVE  IInv'
<1>. USE Ids, PathAssumption DEF IInv
<1>1. UNCHANGED <<tables, created, madeFrom, held, replaced>>  BY DEF ResolvePathToId
<1>2. PICK l \in LoadState :
         /\ load' = [load EXCEPT ![c] = l]
         /\ l.path = p
         /\ (l.at = "find" /\ l.id \in Id) \/ l.at = "create"
  <2>. DEFINE Found(i) == [at |-> "find", path |-> p, id |-> i, resource |-> None]
              Missing == [at |-> "create", path |-> p, id |-> None, resource |-> None]
  <2>1. Missing \in LoadState /\ \A i \in Id : Found(i) \in LoadState
    BY DEF LoadState
  <2>2. Missing.path = p /\ Missing.at = "create"
    OBVIOUS
  <2>3. \A i \in Id : Found(i).path = p /\ Found(i).at = "find" /\ Found(i).id = i
    OBVIOUS
  <2>4. CASE \E i \in Id : load' = [load EXCEPT ![c] = Found(i)]
    <3>1. PICK i \in Id : load' = [load EXCEPT ![c] = Found(i)]
      BY <2>4
    <3>. QED  BY <2>1, <2>3, <3>1, Zenon
  <2>5. CASE load' = [load EXCEPT ![c] = Missing]
    BY <2>1, <2>2, <2>5, Zenon
  <2>6. \/ \E i \in Id : load' = [load EXCEPT ![c] = Found(i)]
        \/ load' = [load EXCEPT ![c] = Missing]
    BY DEF ResolvePathToId
  <2>. QED  BY <2>4, <2>5, <2>6
<1>3. \A d \in Client : load'[d] = IF d = c THEN l ELSE load[d]
  BY <1>2 DEF TypeOK
<1>4. load' \in [Client -> LoadState]
  BY <1>2 DEF TypeOK
<1>5. Loads'
  BY <1>1, <1>2, <1>3 DEF Loads, Fresh, tables
<1>6. LoadsDiffer'
  BY <1>2, <1>3 DEF LoadsDiffer
<1>. QED  BY <1>1, <1>4, <1>5, <1>6, OnlyLoads

\* One more reference to a cached instance: what FindHit and GetCached share.
LEMMA Referenced ==
  ASSUME IInv, NEW i \in Id, cached[i] # None, HandOut(cached[i]),
         refcount' = [refcount EXCEPT ![i] = @ + 1],
         UNCHANGED <<cached, resource_to_id, id_to_path, created, madeFrom, replaced>>
  PROVE  /\ refcount' \in [Id -> Nat] /\ held' \in [Res -> Nat]
         /\ (TablesAgree /\ RefcountExact /\ HeldStaysCached)'
         /\ (Uncreated /\ KeysRight)'
         /\ \A r \in Res : Fresh(r) => Fresh(r)'
<1>. USE Ids, PathAssumption DEF IInv
<1>1. cached[i] \in Res /\ resource_to_id[cached[i]] = i
  BY DEF TypeOK, TablesAgree
<1>2. /\ refcount' \in [Id -> Nat] /\ held' \in [Res -> Nat]
      /\ \A j \in Id : refcount'[j] = IF j = i THEN refcount[i] + 1 ELSE refcount[j]
      /\ \A r \in Res : held'[r] = IF r = cached[i] THEN held[r] + 1 ELSE held[r]
  BY <1>1 DEF TypeOK, HandOut
<1>3. TablesAgree'  BY DEF TablesAgree
<1>4. RefcountExact'
  <2>. SUFFICES ASSUME NEW j \in Id, cached[j] # None
                PROVE  refcount'[j] >= 1 /\ (j \notin replaced => refcount'[j] = held'[cached[j]])
    BY DEF RefcountExact
  <2>1. cached[j] \in Res /\ resource_to_id[cached[j]] = j
    BY DEF TypeOK, TablesAgree
  <2>2. cached[j] = cached[i] <=> j = i
    BY <1>1, <2>1
  <2>3. /\ refcount[j] \in Nat /\ refcount[j] >= 1
        /\ j \notin replaced => refcount[j] = held[cached[j]]
    BY DEF RefcountExact, TypeOK
  <2>. QED  BY <1>2, <2>1, <2>2, <2>3
<1>5. HeldStaysCached'
  <2>. SUFFICES ASSUME NEW r \in Res, held'[r] > 0, IdOf(r, madeFrom[r]) \notin replaced
                PROVE  \E j \in Id : cached[j] = r
    BY DEF HeldStaysCached, Cached, IdOf
  <2>1. r # cached[i] => held[r] > 0  BY <1>2
  <2>. QED  BY <2>1 DEF HeldStaysCached, Cached
<1>6. \A r \in Res : Fresh(r) => Fresh(r)'
  BY <1>1, <1>2 DEF Fresh
<1>7. Uncreated'  BY <1>6 DEF Uncreated
<1>8. KeysRight'  BY DEF KeysRight, IdOf
<1>. QED  BY <1>2, <1>3, <1>4, <1>5, <1>6, <1>7, <1>8

\* A hit gives one more reference to what is cached.
LEMMA FindHitKeeps ==
  ASSUME IInv, NEW c \in Client, FindHit(c)
  PROVE  IInv'
<1>. USE Ids, PathAssumption DEF IInv
<1>1. load[c].id \in Id  BY DEF FindHit, Loads
<1>2. /\ refcount' \in [Id -> Nat] /\ held' \in [Res -> Nat]
      /\ (TablesAgree /\ RefcountExact /\ HeldStaysCached)'
      /\ (Uncreated /\ KeysRight)'
      /\ \A r \in Res : Fresh(r) => Fresh(r)'
  BY <1>1, Referenced DEF FindHit
<1>3. /\ \A d \in Client : load'[d] = IF d = c THEN Idle ELSE load[d]
      /\ load' \in [Client -> LoadState]
      /\ UNCHANGED <<cached, resource_to_id, id_to_path, created, madeFrom, replaced>>
  BY DEF FindHit, TypeOK, Idle, LoadState
<1>4. TypeOK'  BY <1>2, <1>3 DEF TypeOK
<1>5. Loads'
  <2>1. \A d \in Client : load[d].at = "store" => load[d].resource \in Res
    BY BoundsAssumption DEF Loads, TypeOK, Res
  <2>2. \A d \in Client, r \in Res :
           load[d].at = "store" /\ r = load[d].resource => Fresh(r)'
    BY <1>2 DEF Loads
  <2>. QED  BY <1>3, <2>1, <2>2 DEF Loads, Idle, Fresh
<1>6. LoadsDiffer'
  BY <1>3 DEF LoadsDiffer, Idle
<1>. QED  BY <1>2, <1>4, <1>5, <1>6

\* So does GetCached.
LEMMA GetCachedKeeps ==
  ASSUME IInv, NEW c \in Client, NEW i \in Id, GetCached(c, i)
  PROVE  IInv'
<1>. USE Ids, PathAssumption DEF IInv
<1>1. /\ refcount' \in [Id -> Nat] /\ held' \in [Res -> Nat]
      /\ (TablesAgree /\ RefcountExact /\ HeldStaysCached)'
      /\ (Uncreated /\ KeysRight)'
      /\ \A r \in Res : Fresh(r) => Fresh(r)'
  BY Referenced DEF GetCached
<1>2. UNCHANGED <<cached, resource_to_id, id_to_path, created, madeFrom, load, replaced>>
  BY DEF GetCached
<1>3. TypeOK'  BY <1>1, <1>2 DEF TypeOK
<1>4. Loads'
  <2>1. \A d \in Client : load[d].at = "store" => load[d].resource \in Res
    BY BoundsAssumption DEF Loads, TypeOK, Res
  <2>2. \A d \in Client, r \in Res :
           load[d].at = "store" /\ r = load[d].resource => Fresh(r)'
    BY <1>1 DEF Loads
  <2>. QED  BY <1>2, <2>1, <2>2 DEF Loads, Fresh
<1>5. LoadsDiffer'
  BY <1>2 DEF LoadsDiffer
<1>. QED  BY <1>1, <1>3, <1>4, <1>5

\* FindMiss and LoadFails only change how far a load is.
LEMMA FindMissKeeps ==
  ASSUME IInv, NEW c \in Client, FindMiss(c)
  PROVE  IInv'
<1>. USE Ids, PathAssumption DEF IInv
<1>1. UNCHANGED <<tables, created, madeFrom, held, replaced>>
  BY DEF FindMiss
<1>2. /\ load' \in [Client -> LoadState]
      /\ load'[c].at = "create" /\ load'[c].path = load[c].path
      /\ \A d \in Client \ {c} : load'[d] = load[d]
  BY SMTT(30) DEF FindMiss, TypeOK, LoadState
<1>3. load[c].at = "find"
  BY DEF FindMiss
<1>4. Loads'  BY <1>1, <1>2, <1>3 DEF Loads, Fresh, tables
<1>5. LoadsDiffer'  BY <1>2 DEF LoadsDiffer
<1>. QED  BY <1>1, <1>2, <1>4, <1>5, OnlyLoads

LEMMA LoadFailsKeeps ==
  ASSUME IInv, NEW c \in Client, LoadFails(c)
  PROVE  IInv'
<1>. USE Ids, PathAssumption DEF IInv
<1>1. UNCHANGED <<tables, created, madeFrom, held, replaced>>
  BY DEF LoadFails
<1>2. /\ \A d \in Client : load'[d] = IF d = c THEN Idle ELSE load[d]
      /\ load' \in [Client -> LoadState]
  BY DEF LoadFails, TypeOK, Idle, LoadState
<1>3. Loads'  BY <1>1, <1>2 DEF Loads, Fresh, Idle, tables
<1>4. LoadsDiffer'  BY <1>2 DEF LoadsDiffer, Idle
<1>. QED  BY <1>1, <1>2, <1>3, <1>4, OnlyLoads

\* A new instance is one that no table knows yet.
LEMMA LoadSucceedsKeeps ==
  ASSUME IInv, NEW c \in Client, LoadSucceeds(c)
  PROVE  IInv'
<1>. USE Ids, PathAssumption, BoundsAssumption DEF IInv
<1>1. PICK r \in Res :
         /\ created \in Nat /\ r = created + 1 /\ created' = r /\ r <= MaxResources
         /\ load[c].at = "create" /\ load[c].path \in Path
  <2>1. created \in Nat /\ created < MaxResources /\ created' = created + 1
    BY DEF LoadSucceeds, TypeOK
  <2>2. load[c].at = "create" /\ load[c].path \in Path
    BY DEF LoadSucceeds, Loads
  <2>. QED  BY <2>1, <2>2 DEF Res
<1>2. Fresh(r) /\ \A i \in Id : cached[i] # r
  BY <1>1 DEF Uncreated
<1>3. UNCHANGED <<cached, refcount, resource_to_id, id_to_path, held, replaced>>
  BY DEF LoadSucceeds, tables
<1>4. /\ load' \in [Client -> LoadState]
      /\ load'[c].at = "store" /\ load'[c].path = load[c].path
      /\ load'[c].resource = r
      /\ \A d \in Client \ {c} : load'[d] = load[d]
  <2>. DEFINE l == [load[c] EXCEPT !.at = "store", !.resource = r]
  <2>1. load' = [load EXCEPT ![c] = l]
    BY <1>1 DEF LoadSucceeds
  <2>2. load[c] \in LoadState
    BY DEF TypeOK
  <2>3. /\ l \in LoadState /\ l.at = "store" /\ l.path = load[c].path
        /\ l.resource = r
    BY <1>1, <2>2 DEF LoadState
  <2>. HIDE DEF l
  <2>. QED  BY <2>1, <2>3 DEF TypeOK
<1>5. /\ madeFrom' \in [Res -> Path \cup {None}]
      /\ \A q \in Res : madeFrom'[q] = IF q = r THEN load[c].path ELSE madeFrom[q]
  BY <1>1 DEF LoadSucceeds, TypeOK
<1>6. TypeOK'  BY <1>1, <1>3, <1>4, <1>5 DEF TypeOK
<1>7. \A i \in Id : cached[i] # None => cached[i] \in Res /\ cached[i] # r
  BY <1>2 DEF TypeOK
<1>8. (TablesAgree /\ RefcountExact)'
  BY <1>3, <1>5, <1>7 DEF TablesAgree, RefcountExact
<1>9. HeldStaysCached'
  BY <1>2, <1>3, <1>5 DEF HeldStaysCached, Cached, IdOf, Fresh
<1>10. KeysRight'
  BY <1>2, <1>3, <1>5 DEF KeysRight, IdOf, Fresh
<1>11. Uncreated'
  BY <1>1, <1>3 DEF Uncreated, Fresh, Res
<1>12. Loads'
  <2>. SUFFICES ASSUME NEW d \in Client
                PROVE  (/\ load[d].at # "idle" => load[d].path \in Path
                        /\ load[d].at = "find" => load[d].id \in Id
                        /\ load[d].at = "store" =>
                             /\ load[d].resource \in 1 .. created
                             /\ Fresh(load[d].resource)
                             /\ \A i \in Id : cached[i] # load[d].resource
                             /\ madeFrom[load[d].resource] = load[d].path)'
    BY DEF Loads
  <2>1. CASE d = c
    <3>1. Fresh(r)' /\ \A i \in Id : cached'[i] # r
      BY <1>2, <1>3 DEF Fresh
    <3>2. r \in 1 .. created' /\ madeFrom'[r] = load[c].path
      BY <1>1, <1>5
    <3>. QED  BY <1>1, <1>4, <2>1, <3>1, <3>2 DEF Fresh
  <2>2. CASE d # c
    <3>1. load[d].at = "store" => load[d].resource \in Res /\ load[d].resource # r
      BY <1>1 DEF Loads, Res
    <3>. QED  BY <1>1, <1>3, <1>4, <1>5, <2>2, <3>1 DEF Loads, Fresh
  <2>. QED  BY <2>1, <2>2
<1>13. LoadsDiffer'
  <2>1. \A d \in Client : load[d].at = "store" => load[d].resource # r
    BY <1>1 DEF Loads
  <2>. QED  BY <1>4, <2>1 DEF LoadsDiffer
<1>. QED  BY <1>6, <1>8, <1>9, <1>10, <1>11, <1>12, <1>13

\* A loaded instance is put where nothing was, or its id is one that was replaced.
LEMMA CacheResourceKeeps ==
  ASSUME IInv, NEW c \in Client, CacheResource(c)
  PROVE  IInv'
<1>. USE Ids, PathAssumption, BoundsAssumption DEF IInv
<1>1. PICK r \in Res : r = load[c].resource
  BY DEF CacheResource, Loads, TypeOK, Res
<1>2. PICK p \in Path : p = load[c].path
  BY DEF CacheResource, Loads
<1>3. PICK i \in Id : i = IdOf(r, p)
  BY DEF IdOf
<1>4. /\ r \in 1 .. created /\ Fresh(r) /\ madeFrom[r] = p /\ load[c].at = "store"
      /\ \A j \in Id : cached[j] # r
  BY <1>1, <1>2 DEF CacheResource, Loads
<1>5. /\ replaced \subseteq replaced' /\ replaced' \subseteq Id
      /\ i \notin replaced' => cached[i] = None
  BY <1>1, <1>2, <1>3 DEF CacheResource, NoteReplaced, TypeOK
<1>6. /\ UNCHANGED <<created, madeFrom>>
      /\ \A j \in Id : /\ cached'[j] = IF j = i THEN r ELSE cached[j]
                       /\ refcount'[j] = IF j = i THEN 1 ELSE refcount[j]
                       /\ id_to_path'[j] = IF j = i THEN p ELSE id_to_path[j]
      /\ \A q \in Res : /\ resource_to_id'[q] = IF q = r THEN i ELSE resource_to_id[q]
                        /\ held'[q] = IF q = r THEN 1 ELSE held[q]
      /\ \A d \in Client : load'[d] = IF d = c THEN Idle ELSE load[d]
  BY <1>1, <1>2, <1>3, <1>4 DEF CacheResource, TypeOK, HandOut, Fresh
<1>7. TypeOK'
  <2>1. Idle \in LoadState  BY DEF Idle, LoadState
  <2>2. held[r] = 0 /\ held' = [held EXCEPT ![r] = @ + 1]
    BY <1>1, <1>4 DEF CacheResource, HandOut, Fresh
  <2>. QED  BY <1>1, <1>2, <1>3, <1>5, <2>1, <2>2 DEF TypeOK, CacheResource
<1>8. TablesAgree'
  <2>1. \A j \in Id : cached'[j] # None =>
           resource_to_id'[cached'[j]] = j /\ id_to_path'[j] = madeFrom'[cached'[j]]
    <3>. SUFFICES ASSUME NEW j \in Id, cached'[j] # None
                  PROVE  /\ resource_to_id'[cached'[j]] = j
                         /\ id_to_path'[j] = madeFrom[cached'[j]]
      BY <1>6
    <3>1. CASE j = i  BY <1>4, <1>6, <3>1
    <3>2. CASE j # i
      <4>1. cached'[j] = cached[j] /\ cached[j] \in Res /\ cached[j] # r
        BY <1>4, <1>6, <3>2 DEF TypeOK
      <4>. QED  BY <1>6, <3>2, <4>1 DEF TablesAgree
    <3>. QED  BY <3>1, <3>2
  <2>2. ASSUME NEW q \in Res, resource_to_id'[q] \in Id \ replaced'
        PROVE  cached'[resource_to_id'[q]] = q
    <3>1. CASE q = r  BY <1>6, <3>1
    <3>2. CASE q # r
      <4>1. resource_to_id'[q] = resource_to_id[q] /\ resource_to_id[q] \in Id \ replaced
        BY <1>5, <1>6, <2>2, <3>2
      <4>2. cached[resource_to_id[q]] = q
        BY <4>1 DEF TablesAgree
      <4>3. resource_to_id[q] # i
        BY <1>5, <2>2, <4>1, <4>2
      <4>. QED  BY <1>6, <4>1, <4>2, <4>3
    <3>. QED  BY <3>1, <3>2
  <2>. QED  BY <2>1, <2>2 DEF TablesAgree
<1>9. RefcountExact'
  <2>. SUFFICES ASSUME NEW j \in Id, cached'[j] # None
                PROVE  /\ refcount'[j] >= 1
                       /\ j \notin replaced' => refcount'[j] = held'[cached'[j]]
    BY DEF RefcountExact
  <2>1. CASE j = i  BY <1>4, <1>6, <2>1
  <2>2. CASE j # i
    <3>1. cached'[j] = cached[j] /\ cached[j] \in Res /\ cached[j] # r
      BY <1>4, <1>6, <2>2 DEF TypeOK
    <3>2. refcount'[j] = refcount[j] /\ held'[cached[j]] = held[cached[j]]
      BY <1>6, <2>2, <3>1
    <3>. QED  BY <1>5, <3>1, <3>2 DEF RefcountExact
  <2>. QED  BY <2>1, <2>2
<1>10. HeldStaysCached'
  <2>. SUFFICES ASSUME NEW q \in Res, held'[q] > 0, IdOf(q, madeFrom[q]) \notin replaced'
                PROVE  \E j \in Id : cached'[j] = q
    BY <1>6 DEF HeldStaysCached, Cached, IdOf
  <2>1. CASE q = r  BY <1>6, <2>1
  <2>2. CASE q # r
    <3>1. PICK j \in Id : cached[j] = q
      BY <1>5, <1>6, <2>2 DEF HeldStaysCached, Cached
    <3>2. resource_to_id[q] = j /\ j = IdOf(q, madeFrom[q])
      BY <3>1 DEF TablesAgree, KeysRight
    <3>3. j # i
      BY <1>5, <3>1, <3>2
    <3>. QED  BY <1>6, <3>1, <3>3
  <2>. QED  BY <2>1, <2>2
<1>11. KeysRight'
  BY <1>3, <1>4, <1>6 DEF KeysRight, IdOf
\* An instance that stays unknown is neither r nor, as a GUID, i.
<1>12. \A q \in Res : Fresh(q) /\ q # r => Fresh(q)'
  BY <1>3, <1>6 DEF Fresh, IdOf
<1>13. Uncreated'
  <2>. SUFFICES ASSUME NEW q \in Res, q > created
                PROVE  Fresh(q)' /\ \A j \in Id : cached'[j] # q
    BY <1>6 DEF Uncreated
  <2>1. q # r  BY <1>4 DEF TypeOK, Res
  <2>2. Fresh(q) /\ \A j \in Id : cached[j] # q  BY DEF Uncreated
  <2>. QED  BY <1>6, <1>12, <2>1, <2>2
<1>14. LoadsDiffer'  BY <1>6 DEF LoadsDiffer, Idle
<1>15. Loads'
  <2>1. \A d \in Client \ {c} : load[d].at = "store" =>
           load[d].resource \in Res /\ load[d].resource # r
    BY SMTT(30), <1>1, <1>4 DEF Loads, LoadsDiffer, TypeOK, Res
  <2>2. \A d \in Client, q \in Res :
           load[d].at = "store" /\ q = load[d].resource /\ d # c => Fresh(q)'
    BY <1>12, <2>1 DEF Loads
  <2>. QED  BY <1>6, <2>1, <2>2 DEF Loads, Idle, Fresh
<1>. QED  BY <1>7, <1>8, <1>9, <1>10, <1>11, <1>13, <1>14, <1>15

\* A reference given back: to an instance that the tables do not lead to an entry
\* from, to an entry that has others, or the last of an entry, which goes with it.
LEMMA UnloadKeeps ==
  ASSUME IInv, NEW c \in Client, NEW r \in Res, Unload(c, r)
  PROVE  IInv'
<1>. USE Ids, PathAssumption DEF IInv
<1> DEFINE i == resource_to_id[r]
<1>1. held[r] \in Nat /\ held[r] > 0 /\ i \in Id \cup {None}
  BY DEF Unload, TypeOK
<1>2. /\ UNCHANGED <<created, madeFrom, load, replaced>>
      /\ held' \in [Res -> Nat]
      /\ \A q \in Res : held'[q] = IF q = r THEN held[r] - 1 ELSE held[q]
  BY <1>1 DEF Unload, TypeOK
<1>3. \A j \in Id : cached[j] = r => j = i
  BY DEF TablesAgree
<1>4. \A d \in Client : load[d].at = "store" => load[d].resource \in Res
  BY BoundsAssumption DEF Loads, TypeOK, Res
\* Nothing else depends on what the tables hold but through these.
<1>5. ASSUME UNCHANGED <<cached, resource_to_id, id_to_path>>, refcount' \in [Id -> Nat],
             RefcountExact'
      PROVE  IInv'
  <2>1. TypeOK'  BY <1>2, <1>5 DEF TypeOK
  <2>2. (TablesAgree /\ KeysRight /\ LoadsDiffer)'
    BY <1>2, <1>5 DEF TablesAgree, KeysRight, LoadsDiffer, IdOf
  <2>3. HeldStaysCached'
    <3>1. \A q \in Res : held'[q] > 0 => held[q] > 0
      BY <1>1, <1>2
    <3>. QED  BY <1>2, <1>5, <3>1 DEF HeldStaysCached, Cached, IdOf
  <2>4. \A q \in Res : Fresh(q) => Fresh(q)'
    BY <1>1, <1>2, <1>5 DEF Fresh
  <2>5. Uncreated'  BY <1>2, <1>5, <2>4 DEF Uncreated
  <2>6. Loads'
    <3>1. \A d \in Client, q \in Res :
             load[d].at = "store" /\ q = load[d].resource => Fresh(q)'
      BY <2>4 DEF Loads
    <3>. QED  BY <1>2, <1>4, <1>5, <3>1 DEF Loads, Fresh
  <2>. QED  BY <1>5, <2>1, <2>2, <2>3, <2>5, <2>6
<1>6. CASE i = None \/ cached[i] = None
  <2>1. UNCHANGED <<cached, refcount, resource_to_id, id_to_path>>
    BY <1>6 DEF Unload, tables
  <2>2. \A j \in Id : cached[j] # r
    BY <1>3, <1>6
  <2>3. RefcountExact'
    BY <1>2, <2>1, <2>2 DEF RefcountExact, TypeOK
  <2>4. refcount' \in [Id -> Nat]
    BY <2>1 DEF TypeOK
  <2>. QED  BY <1>5, <2>1, <2>3, <2>4
<1>7. CASE ~(i = None \/ cached[i] = None) /\ refcount[i] > 1
  <2>1. i \in Id /\ cached[i] # None
    BY <1>1, <1>7
  <2>2. /\ UNCHANGED <<cached, resource_to_id, id_to_path>>
        /\ refcount' \in [Id -> Nat]
        /\ \A j \in Id : refcount'[j] = IF j = i THEN refcount[i] - 1 ELSE refcount[j]
    BY <1>7, <2>1 DEF Unload, TypeOK
  <2>. HIDE DEF i
  <2>3. RefcountExact'
    <3>. SUFFICES ASSUME NEW j \in Id, cached[j] # None
                  PROVE  /\ refcount'[j] >= 1
                         /\ j \notin replaced => refcount'[j] = held'[cached[j]]
      BY <1>2, <2>2 DEF RefcountExact
    <3>1. /\ refcount[j] \in Nat /\ refcount[j] >= 1 /\ cached[j] \in Res
          /\ j \notin replaced => refcount[j] = held[cached[j]]
      BY DEF RefcountExact, TypeOK
    <3>2. j = i /\ j \notin replaced => cached[j] = r
      BY <2>1 DEF TablesAgree, i
    <3>. QED  BY <1>2, <1>3, <1>7, <2>2, <3>1, <3>2
  <2>. QED  BY <1>5, <2>2, <2>3
<1>8. CASE ~(i = None \/ cached[i] = None) /\ ~(refcount[i] > 1)
  <2>0. i \in Id /\ cached[i] # None /\ (i \notin replaced => cached[i] = r)
    BY <1>1, <1>8 DEF TablesAgree
  <2>1. /\ cached' = [cached EXCEPT ![i] = None]
        /\ refcount' = [refcount EXCEPT ![i] = 0]
        /\ resource_to_id' = [resource_to_id EXCEPT ![r] = None]
        /\ id_to_path' = [id_to_path EXCEPT ![i] = None]
    BY <1>8 DEF Unload
  <2>2. i \notin replaced => held'[r] = 0
    <3>1. i \notin replaced => refcount[i] = held[r]
      BY <2>0 DEF RefcountExact
    <3>. QED  BY <1>1, <1>2, <1>8, <3>1
  <2>3. TypeOK'
    <3>1. /\ cached' \in [Id -> Res \cup {None}] /\ refcount' \in [Id -> Nat]
          /\ resource_to_id' \in [Res -> Id \cup {None}] /\ id_to_path' \in [Id -> Path \cup {None}]
      BY <2>0, <2>1 DEF TypeOK
    <3>. QED  BY <1>2, <3>1 DEF TypeOK
  <2>4. cached'[i] = None /\ id_to_path'[i] = None /\ resource_to_id'[r] = None
    BY <2>0, <2>1 DEF TypeOK
  <2>5. \A j \in Id : j # i =>
           /\ cached'[j] = cached[j] /\ refcount'[j] = refcount[j]
           /\ id_to_path'[j] = id_to_path[j]
    BY <2>0, <2>1 DEF TypeOK
  <2>6. \A q \in Res : q # r => resource_to_id'[q] = resource_to_id[q] /\ held'[q] = held[q]
    BY <1>2, <2>1 DEF TypeOK
  <2>7. \A j \in Id : cached'[j] # None =>
           /\ j # i /\ cached'[j] = cached[j] /\ cached[j] # r /\ cached[j] \in Res
    BY <1>3, <2>4, <2>5 DEF TypeOK
  <2>. HIDE DEF i
  <2>8. TablesAgree'
    <3>1. \A j \in Id : cached'[j] # None =>
             resource_to_id'[cached'[j]] = j /\ id_to_path'[j] = madeFrom'[cached'[j]]
      BY <1>2, <2>5, <2>6, <2>7 DEF TablesAgree
    <3>2. ASSUME NEW q \in Res, resource_to_id'[q] \in Id \ replaced'
          PROVE  cached'[resource_to_id'[q]] = q
      <4>1. q # r /\ resource_to_id'[q] = resource_to_id[q]  BY <2>4, <2>6, <3>2
      <4>2. cached[resource_to_id[q]] = q /\ resource_to_id[q] \in Id \ replaced
        BY <1>2, <3>2, <4>1 DEF TablesAgree
      <4>. QED  BY <2>0, <2>5, <4>1, <4>2
    <3>. QED  BY <3>1, <3>2 DEF TablesAgree
  <2>9. RefcountExact'
    BY <1>2, <2>5, <2>6, <2>7 DEF RefcountExact
  <2>10. HeldStaysCached'
    <3>. SUFFICES ASSUME NEW q \in Res, held'[q] > 0, IdOf(q, madeFrom[q]) \notin replaced
                  PROVE  \E j \in Id : cached'[j] = q
      BY <1>2 DEF HeldStaysCached, Cached, IdOf
    <3>1. held[q] > 0
      BY <1>1, <2>6
    <3>2. PICK j \in Id : cached[j] = q
      BY <3>1 DEF HeldStaysCached, Cached
    <3>3. resource_to_id[q] = j /\ j \notin replaced
      BY <3>2 DEF TablesAgree, KeysRight
    <3>4. j # i
      BY <2>0, <2>2, <3>2, <3>3
    <3>. QED  BY <2>5, <3>2, <3>4
  <2>11. KeysRight'  BY <1>2, <2>4, <2>6 DEF KeysRight, IdOf
  <2>12. LoadsDiffer'  BY <1>2 DEF LoadsDiffer
  <2>13. \A q \in Res : Fresh(q) => Fresh(q)'
    <3>. SUFFICES ASSUME NEW q \in Res, Fresh(q) PROVE Fresh(q)'  OBVIOUS
    <3>1. q # r  BY <1>1 DEF Fresh
    <3>2. cached'[q] = None /\ id_to_path'[q] = None
      BY <2>4, <2>5 DEF Fresh
    <3>. QED  BY <2>6, <3>1, <3>2 DEF Fresh
  <2>14. \A q \in Res : (\A j \in Id : cached[j] # q) => (\A j \in Id : cached'[j] # q)
    BY <2>4, <2>5
  <2>15. Uncreated'  BY <1>2, <2>13, <2>14 DEF Uncreated
  <2>16. Loads'
    <3>1. \A d \in Client, q \in Res :
             load[d].at = "store" /\ q = load[d].resource => Fresh(q)'
      BY <2>13 DEF Loads
    <3>. QED  BY <1>2, <1>4, <2>14, <3>1 DEF Loads, Fresh
  <2>. QED  BY <2>3, <2>8, <2>9, <2>10, <2>11, <2>12, <2>15, <2>16
<1>. QED  BY <1>6, <1>7, <1>8

-----------------------------------------------------------------------------

\* The invariant the results below follow from.
THEOREM InductiveInvariant == Spec => []IInv
<1>1. Init => IInv  BY InitHolds
<1>2. IInv /\ [Next]_vars => IInv'
  <2>. SUFFICES ASSUME IInv, [Next]_vars PROVE IInv'  OBVIOUS
  <2>1. CASE Next
    <3>. PICK c \in Client : Step(c)  BY <2>1 DEF Next
    <3>. QED
      BY ResolveKeeps, FindHitKeeps, FindMissKeeps, LoadSucceedsKeeps,
         LoadFailsKeeps, CacheResourceKeeps, GetCachedKeeps, UnloadKeeps DEF Step
  <2>2. CASE UNCHANGED vars
    BY <2>2 DEF vars, tables, IInv, TypeOK, TablesAgree, RefcountExact,
       HeldStaysCached, Cached, Loads, LoadsDiffer, Uncreated, Fresh, KeysRight
  <2>. QED  BY <2>1, <2>2
<1>. QED  BY <1>1, <1>2, PTL DEF Spec

\* Every cached GUID is that of its instance and resolves to the file it was loaded
\* from, and what resource_to_id_ knows is cached, but for entries that overlapping
\* loads have replaced.
THEOREM TablesAlwaysAgree == Spec => []TablesAgree
<1>1. IInv => TablesAgree  BY DEF IInv
<1>. QED  BY <1>1, InductiveInvariant, PTL

\* The count of a cache entry is the number of references handed out for it and
\* not yet given to Unload, unless another load has replaced it.
THEOREM CountsAreExact == Spec => []RefcountExact
<1>1. IInv => RefcountExact  BY DEF IInv
<1>. QED  BY <1>1, InductiveInvariant, PTL

\* Nothing is evicted while somebody holds it, unless its entry was replaced.
THEOREM HeldIsNeverEvicted == Spec => []HeldStaysCached
<1>1. IInv => HeldStaysCached  BY DEF IInv
<1>. QED  BY <1>1, InductiveInvariant, PTL

\* All of it: what the cache hands out, counts and finds again is in agreement.
THEOREM CacheAlwaysSound == Spec => []CacheSound
<1>. QED  BY TablesAlwaysAgree, CountsAreExact, HeldIsNeverEvicted, PTL DEF CacheSound

=============================================================================
