----------------------------- MODULE FrameGraph -----------------------------
(***************************************************************************)
(* The frame graph (TenEngine-019-pipeline-core/src/FrameGraph.cpp) as the *)
(* pipeline context of 020 drives it: between frames passes are added and  *)
(* declare what they read, write and draw to; a frame compiles the graph   *)
(* into an order and executes the passes in it.                            *)
(*                                                                         *)
(* Only the builder of the last pass is used: AddPass may move the passes  *)
(* that earlier builders refer to.  A pass has at most one attachment      *)
(* here; those of depth are never linked.                                  *)
(***************************************************************************)
EXTENDS Integers, Sequences, FiniteSets, Functions

CONSTANTS Resource,    \* ids of valid resource handles
          NoHandle,    \* of a pass without an attachment
          MaxPasses,   \* bound: passes of the graph
          MaxUses      \* bound: uses declared, attachments included

ASSUME ResourceAssumption == NoHandle \notin Resource
ASSUME GraphBounds == MaxPasses \in Nat /\ MaxUses \in Nat

VARIABLES passes,         \* passes_: what each reads and writes
          attachments,    \* and its color attachment
          at,             \* "declare", "sort" or "execute"
          inDegree,
          stack,
          sortedIndices,  \* sortedIndices_
          executed        \* the passes executed in this frame, in order

declared == <<passes, attachments>>
graphVars == <<declared, at, inDegree, stack, sortedIndices, executed>>

PassData == [readResources : Seq(Resource), writeResources : Seq(Resource)]

\* sourcePassIndex is 0 where the code has -1.
PassAttachmentDesc == [handle : Resource \cup {NoHandle}, sourcePassIndex : 0 .. MaxPasses]

GraphTypeOK ==
    /\ passes \in Seq(PassData)
    /\ attachments \in [DOMAIN passes -> PassAttachmentDesc]
    /\ at \in {"declare", "sort", "execute"}
    /\ inDegree \in [DOMAIN passes -> Nat]
    /\ stack \in Seq(DOMAIN passes)
    /\ sortedIndices \in Seq(DOMAIN passes)
    /\ executed \in Seq(DOMAIN passes)

GraphInit ==
    /\ passes = <<>> /\ attachments = <<>>
    /\ at = "declare"
    /\ inDegree = <<>>
    /\ stack = <<>>
    /\ sortedIndices = <<>>
    /\ executed = <<>>

-----------------------------------------------------------------------------
(* Building *)

HasAttachment(i) == attachments[i].handle # NoHandle

Uses == LET uses[i \in 0 .. Len(passes)] ==
              IF i = 0 THEN 0
              ELSE uses[i - 1] + Len(passes[i].readResources) + Len(passes[i].writeResources)
        IN  uses[Len(passes)] + Cardinality({i \in DOMAIN passes : HasAttachment(i)})

AddPass ==
    /\ at = "declare"
    /\ Len(passes) < MaxPasses
    /\ passes' = Append(passes, [readResources |-> <<>>, writeResources |-> <<>>])
    /\ attachments' = Append(attachments, [handle |-> NoHandle, sourcePassIndex |-> 0])
    /\ inDegree' = [i \in DOMAIN passes' |-> 0]
    /\ UNCHANGED <<at, stack, sortedIndices, executed>>

\* A call on the builder of the last pass.
Building == /\ at = "declare" /\ passes # <<>> /\ Uses < MaxUses
            /\ UNCHANGED <<at, inDegree, stack, sortedIndices, executed>>

DeclareRead(r) ==
    /\ Building
    /\ passes' = [passes EXCEPT ![Len(passes)].readResources = Append(@, r)]
    /\ UNCHANGED attachments

DeclareWrite(r) ==
    /\ Building
    /\ passes' = [passes EXCEPT ![Len(passes)].writeResources = Append(@, r)]
    /\ UNCHANGED attachments

AddColorAttachment(r, source) ==
    /\ Building
    /\ ~HasAttachment(Len(passes))
    /\ attachments' = [attachments EXCEPT ![Len(passes)] =
                          [handle |-> r, sourcePassIndex |-> source]]
    /\ UNCHANGED passes

-----------------------------------------------------------------------------
(* Compile *)

\* The edges from a writer to a reader, one for each pair of declarations.
Edges(i, j) ==
    {e \in (DOMAIN passes[i].writeResources) \X (DOMAIN passes[j].readResources) :
       i # j /\ passes[i].writeResources[e[1]] = passes[j].readResources[e[2]]}

InEdges(j) == UNION {{i} \X Edges(i, j) : i \in DOMAIN passes}

InDegree(j) == Cardinality(InEdges(j))

\* The pass i draws to what another draws to.
IsLinked(i) == attachments[i].sourcePassIndex \in {p \in DOMAIN passes : HasAttachment(p)}

\* Slip: the link reads what the source had before it was linked itself.
LinkedToOld(i) ==
    IF IsLinked(i) THEN attachments[attachments[i].sourcePassIndex].handle
                   ELSE attachments[i].handle

\* The loop over the passes gives an attachment the handle of its source, which
\* an earlier pass has already taken from its own source and a later has not.
Linked(i) ==
    LET handle[p \in DOMAIN passes] ==
          LET source == attachments[p].sourcePassIndex
          IN  IF ~IsLinked(p) THEN attachments[p].handle
              ELSE IF source < p THEN handle[source] ELSE attachments[source].handle
    IN  handle[i]

\* Orders of a set.
Orders(S) == {s \in [1 .. Cardinality(S) -> S] : IsInjective(s)}

Ascending(S) == {s \in Orders(S) : \A k, l \in DOMAIN s : k < l => s[k] < s[l]}

BeginCompile ==
    /\ at = "declare"
    /\ at' = "sort"
    /\ attachments' = [i \in DOMAIN passes |-> [attachments[i] EXCEPT !.handle = Linked(i)]]
    /\ inDegree' = [j \in DOMAIN passes |-> InDegree(j)]
    /\ stack' \in Ascending({j \in DOMAIN passes : InDegree(j) = 0})
    /\ sortedIndices' = <<>>
    /\ UNCHANGED <<passes, executed>>

\* One turn of Kahn's algorithm.  The order in which adj lists the edges of a pass
\* is that of an unordered map of resources.
SortStep ==
    /\ at = "sort" /\ stack # <<>>
    /\ LET u == stack[Len(stack)]
           left == [v \in DOMAIN passes |-> inDegree[v] - Cardinality(Edges(u, v))]
       IN  /\ sortedIndices' = Append(sortedIndices, u)
           /\ inDegree' = left
           /\ \E ready \in Orders({v \in DOMAIN passes : Edges(u, v) # {} /\ left[v] = 0}) :
                 stack' = SubSeq(stack, 1, Len(stack) - 1) \o ready
    /\ UNCHANGED <<declared, at, executed>>

\* BuildLogicalPipeline takes what has been sorted, whatever Compile answers.
EndCompile ==
    /\ at = "sort" /\ stack = <<>>
    /\ at' = "execute"
    /\ UNCHANGED <<declared, inDegree, stack, sortedIndices, executed>>

-----------------------------------------------------------------------------
(* ExecutePasses *)

\* Slip: the place in the order is taken for the index of the pass.
ExecuteAsDeclared ==
    /\ at = "execute" /\ Len(executed) < Len(sortedIndices)
    /\ executed' = Append(executed, Len(executed) + 1)
    /\ UNCHANGED <<declared, at, inDegree, stack, sortedIndices>>

ExecutePass ==
    /\ at = "execute" /\ Len(executed) < Len(sortedIndices)
    /\ executed' = Append(executed, sortedIndices[Len(executed) + 1])
    /\ UNCHANGED <<declared, at, inDegree, stack, sortedIndices>>

EndFrame ==
    /\ at = "execute" /\ Len(executed) = Len(sortedIndices)
    /\ at' = "declare"
    /\ executed' = <<>>
    /\ UNCHANGED <<declared, inDegree, stack, sortedIndices>>

GraphNext ==
    \/ AddPass
    \/ \E r \in Resource :
          \/ DeclareRead(r)
          \/ DeclareWrite(r)
          \/ \E source \in 0 .. MaxPasses : AddColorAttachment(r, source)
    \/ BeginCompile
    \/ SortStep
    \/ EndCompile
    \/ ExecutePass
    \/ EndFrame

GraphSpec == GraphInit /\ [][GraphNext]_graphVars

-----------------------------------------------------------------------------

\* Pass i writes what another pass, j, reads.
Feeds(i, j) ==
    /\ i # j
    /\ Range(passes[i].writeResources) \cap Range(passes[j].readResources) # {}

\* In every frame a pass runs at most once, and none before one that writes what
\* it reads, whatever is declared and however often (FrameGraphImpl::Compile).
WritersFirst ==
    \A k, l \in DOMAIN executed :
       k < l => executed[k] # executed[l] /\ ~Feeds(executed[l], executed[k])

\* Passes each of which waits for another of them.
WaitInCircles(B) == \A j \in B : \E i \in B : Feeds(i, j)

\* The passes left out are exactly those on a cycle of reads and writes or behind
\* one: one mistake in a graph does not cost a pass that has nothing to do with it.
SortedExactly ==
    Range(sortedIndices) =
       DOMAIN passes \ UNION {B \in SUBSET DOMAIN passes : WaitInCircles(B)}

\* A pass draws to what an earlier pass, its source, draws to, however long the
\* chain of sources is.
LinksFollow ==
    \A i \in DOMAIN passes :
       IsLinked(i) /\ attachments[i].sourcePassIndex < i =>
          attachments[i].handle = attachments[attachments[i].sourcePassIndex].handle

\* What a compiled graph looks like.
CompileExact == at = "execute" => SortedExactly /\ LinksFollow
=============================================================================
