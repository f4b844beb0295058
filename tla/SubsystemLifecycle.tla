------------------------- MODULE SubsystemLifecycle -------------------------
(***************************************************************************)
(* The subsystem registry and its lifecycle (TenEngine-007-subsystems,     *)
(* src/registry.cpp, registry_state.cpp and lifecycle.cpp): subsystems are *)
(* registered with a descriptor, and the main loop calls InitializeAll,    *)
(* StartAll, StopAll and ShutdownAll, each of which takes a snapshot of    *)
(* the registry and then calls one hook of every subsystem in it.          *)
(*                                                                         *)
(* Registration may come from another thread at any time.  Unregistering   *)
(* while the main loop is in a pass would destroy instances the snapshot   *)
(* points to and is the caller's to avoid.  What a subsystem declares is a *)
(* variable, any of Descriptors, which no action changes.  Hooks may fail: *)
(* Initialize returns false, the others throw.                             *)
(***************************************************************************)
EXTENDS Integers, Sequences, FiniteSets, Functions

CONSTANTS Subsystem,
          Descriptors,   \* what may be declared, for every subsystem at once
          Late,          \* subsystems that are registered at any time; the others
                         \* before the first pass
          MaxPasses      \* bound: passes of the main loop

Descriptor == [byName : [Subsystem -> SUBSET Subsystem],
               byType : [Subsystem -> SUBSET Subsystem],
               priority : [Subsystem -> Int]]

ASSUME SubsystemAssumption == IsFiniteSet(Subsystem) /\ Late \subseteq Subsystem
ASSUME DescriptorsAssumption == Descriptors \subseteq Descriptor
ASSUME MaxPassesAssumption == MaxPasses \in Nat

State == {"Uninitialized", "Initialized", "Started", "Stopped", "Shutdown"}
Pass == {"InitializeAll", "StartAll", "StopAll", "ShutdownAll"}
Sorting == {"InitializeAll", "ShutdownAll"}

VARIABLES
    desc,           \* the descriptors
    registered,     \* m_entries
    states,         \* g_subsystemStates
    m_shutdown,
    pass,           \* the pass the main loop is in
    at,             \* "idle", sorting, or calling hooks
    ents,           \* its snapshot
    inDeg, q, out,  \* TopoSort's
    visited,        \* the subsystems it has dealt with, in order
    lastHook,       \* history: the last hook of each instance that succeeded
    passes          \* history: passes begun

sortVars == <<inDeg, q, out>>
registryVars == <<desc, registered, states, m_shutdown>>
lifecycleVars == <<registryVars, pass, at, ents, sortVars, visited, lastHook, passes>>

LifecycleTypeOK ==
    /\ desc \in Descriptors
    /\ registered \subseteq Subsystem
    /\ states \in [Subsystem -> State]
    /\ m_shutdown \in BOOLEAN
    /\ pass \in Pass
    /\ at \in {"idle", "sort", "hooks"}
    /\ ents \subseteq registered
    /\ inDeg \in [Subsystem -> 0 .. Cardinality(Subsystem)]
    /\ q \subseteq ents
    /\ out \in Seq(ents)
    /\ visited \in Seq(ents)
    /\ lastHook \in [Subsystem -> {"none", "Initialize", "Start", "Stop", "Shutdown"}]
    /\ passes \in 0 .. MaxPasses

LifecycleInit ==
    /\ desc \in Descriptors
    /\ registered = {}
    /\ states = [s \in Subsystem |-> "Uninitialized"]
    /\ m_shutdown = FALSE
    /\ pass = "InitializeAll"
    /\ at = "idle"
    /\ ents = {}
    /\ inDeg = [s \in Subsystem |-> 0]
    /\ q = {}
    /\ out = <<>>
    /\ visited = <<>>
    /\ lastHook = [s \in Subsystem |-> "none"]
    /\ passes = 0

-----------------------------------------------------------------------------
(* The registry *)

RegisterInstance(s) ==
    /\ ~m_shutdown
    /\ s \notin registered
    /\ s \in Late \/ passes = 0
    /\ registered' = registered \union {s}
    /\ states' = [states EXCEPT ![s] = "Uninitialized"]
    /\ lastHook' = [lastHook EXCEPT ![s] = "none"]
    /\ UNCHANGED <<desc, m_shutdown, pass, at, ents, sortVars, visited, passes>>

UnregisterInstance(s) ==
    /\ at = "idle"
    /\ s \in registered \intersect Late
    /\ registered' = registered \ {s}
    /\ states' = [states EXCEPT ![s] = "Shutdown"]
    /\ UNCHANGED <<desc, m_shutdown, pass, at, ents, sortVars, visited, lastHook, passes>>

-----------------------------------------------------------------------------
(* TopoSort *)

\* The entries of the snapshot E that nameToIdx finds for the dependencies of s:
\* InitializeAll maps names and type names, ShutdownAll names only.  A missing
\* dependency is only warned about, one on itself ignored, and one that is listed
\* twice counted twice and taken back twice.
Dependencies(E, p, s) ==
    E \intersect ((desc.byName[s] \union (IF p = "InitializeAll" THEN desc.byType[s] ELSE {}))
                  \ {s})

Deps(s) == Dependencies(ents, pass, s)

\* Slip: a dependency that is not registered is waited for.
BeginPassWaitingForMissing(p) ==
    /\ at = "idle"
    /\ passes < MaxPasses
    /\ pass' = p
    /\ ents' = registered
    /\ inDeg' = [s \in Subsystem |-> Cardinality(Dependencies(Subsystem, p, s))]
    /\ IF p \in Sorting
       THEN /\ at' = "sort"
            /\ q' = {s \in registered : Dependencies(Subsystem, p, s) = {}}
       ELSE at' = "hooks" /\ q' = {}
    /\ passes' = passes + 1
    /\ UNCHANGED <<registryVars, out, visited, lastHook>>

\* A pass begins with GetEntriesForLifecycle's snapshot.
BeginPass(p) ==
    /\ at = "idle"
    /\ passes < MaxPasses
    /\ pass' = p
    /\ ents' = registered
    /\ inDeg' = [s \in Subsystem |-> Cardinality(Dependencies(registered, p, s))]
    /\ IF p \in Sorting
       THEN /\ at' = "sort"
            /\ q' = {s \in registered : Dependencies(registered, p, s) = {}}
       ELSE at' = "hooks" /\ q' = {}
    /\ passes' = passes + 1
    /\ UNCHANGED <<registryVars, out, visited, lastHook>>

\* The ready entry of the highest priority is taken, any of several.
PopEntry(u) ==
    /\ at = "sort"
    /\ u \in q
    /\ \A v \in q : desc.priority[v] <= desc.priority[u]
    /\ out' = Append(out, u)
    /\ inDeg' = [s \in Subsystem |-> IF u \in Deps(s) THEN inDeg[s] - 1 ELSE inDeg[s]]
    /\ q' = (q \ {u}) \union {s \in ents : u \in Deps(s) /\ inDeg[s] = 1}
    /\ UNCHANGED <<registryVars, pass, at, ents, visited, lastHook, passes>>

EndPass ==
    /\ at' = "idle"
    /\ ents' = {}
    /\ inDeg' = [s \in Subsystem |-> 0]
    /\ q' = {}
    /\ out' = <<>>
    /\ visited' = <<>>
    /\ UNCHANGED <<desc, registered, states, pass, lastHook, passes>>

SortedAll == Len(out) = Cardinality(ents)

\* InitializeAll gives up when some entries are left; ShutdownAll does not look.
CallHooks ==
    /\ at = "sort"
    /\ q = {}
    /\ SortedAll \/ pass = "ShutdownAll"
    /\ at' = "hooks"
    /\ UNCHANGED <<registryVars, pass, ents, sortVars, visited, lastHook, passes>>

RejectCycle ==
    /\ at = "sort"
    /\ q = {}
    /\ ~SortedAll
    /\ pass = "InitializeAll"
    /\ EndPass
    /\ UNCHANGED m_shutdown

-----------------------------------------------------------------------------
(* The hooks *)

Visit(s) == /\ visited' = Append(visited, s)
            /\ UNCHANGED <<desc, registered, m_shutdown, pass, at, ents, sortVars, passes>>

Becomes(s, state, hook) == /\ states' = [states EXCEPT ![s] = state]
                           /\ lastHook' = [lastHook EXCEPT ![s] = hook]

\* The hook throws, or is not called.
StaysAsItIs == UNCHANGED <<states, lastHook>>

Left == ents \ Range(visited)

\* InitializeAll looks at no state and at no failure of a dependency.
CallInitialize(s) ==
    /\ at = "hooks"
    /\ pass = "InitializeAll"
    /\ Len(visited) < Len(out)
    /\ s = out[Len(visited) + 1]
    /\ \/ Becomes(s, "Initialized", "Initialize")
       \/ Becomes(s, "Uninitialized", "none")
    /\ Visit(s)

\* Slip: StartAll does not look at the state.
CallStartAlways(s) ==
    /\ at = "hooks"
    /\ pass = "StartAll"
    /\ s \in Left
    /\ \A t \in Left : desc.priority[s] <= desc.priority[t]
    /\ \/ Becomes(s, "Started", "Start")
       \/ StaysAsItIs
    /\ Visit(s)

CallStart(s) ==
    /\ at = "hooks"
    /\ pass = "StartAll"
    /\ s \in Left
    /\ \A t \in Left : desc.priority[s] <= desc.priority[t]
    /\ \/ states[s] \in {"Initialized", "Stopped"} /\ Becomes(s, "Started", "Start")
       \/ StaysAsItIs
    /\ Visit(s)

CallStop(s) ==
    /\ at = "hooks"
    /\ pass = "StopAll"
    /\ s \in Left
    /\ \A t \in Left : desc.priority[s] >= desc.priority[t]
    /\ \/ states[s] = "Started" /\ Becomes(s, "Stopped", "Stop")
       \/ StaysAsItIs
    /\ Visit(s)

\* Slip: the order of InitializeAll is not reversed.
CallShutdownForward(s) ==
    /\ at = "hooks"
    /\ pass = "ShutdownAll"
    /\ Len(visited) < Len(out)
    /\ s = out[Len(visited) + 1]
    /\ Becomes(s, "Shutdown", "Shutdown") \/ StaysAsItIs
    /\ Visit(s)

\* What is already shut down, or was never initialized, is shut down too.
CallShutdown(s) ==
    /\ at = "hooks"
    /\ pass = "ShutdownAll"
    /\ Len(visited) < Len(out)
    /\ s = out[Len(out) - Len(visited)]
    /\ Becomes(s, "Shutdown", "Shutdown") \/ StaysAsItIs
    /\ Visit(s)

\* Slip: ShutdownAll waits for the entries of a cycle as well.
ReturnFromPassWhole ==
    /\ at = "hooks"
    /\ Left = {}
    /\ m_shutdown' = (m_shutdown \/ pass = "ShutdownAll")
    /\ EndPass

ReturnFromPass ==
    /\ at = "hooks"
    /\ IF pass \in Sorting THEN Len(visited) = Len(out) ELSE Left = {}
    /\ m_shutdown' = (m_shutdown \/ pass = "ShutdownAll")
    /\ EndPass

ShutdownSubsystem(s) ==
    /\ at = "idle"
    /\ ~m_shutdown
    /\ s \in registered
    /\ Becomes(s, "Shutdown", "Shutdown")
    /\ UNCHANGED <<desc, registered, m_shutdown, pass, at, ents, sortVars, visited, passes>>

-----------------------------------------------------------------------------

PassStep == \/ \E s \in Subsystem :
                  \/ PopEntry(s) \/ CallInitialize(s) \/ CallStart(s)
                  \/ CallStop(s) \/ CallShutdown(s)
            \/ CallHooks \/ RejectCycle \/ ReturnFromPass

LifecycleNext ==
    \/ \E s \in Subsystem : RegisterInstance(s) \/ UnregisterInstance(s)
    \/ \E p \in Pass : BeginPass(p)
    \/ PassStep
    \/ \E s \in Subsystem : ShutdownSubsystem(s)

LifecycleSpec == LifecycleInit /\ [][LifecycleNext]_lifecycleVars

\* The main loop goes on with a pass it has begun.
FairLifecycle == LifecycleSpec /\ WF_lifecycleVars(PassStep)

-----------------------------------------------------------------------------

Before(i) == {visited[j] : j \in 1 .. i - 1}

\* InitializeAll calls a subsystem's Initialize after that of every registered
\* dependency, whatever the graph and the priorities.
InitializeInDependencyOrder ==
    pass = "InitializeAll" => \A i \in DOMAIN visited : Deps(visited[i]) \subseteq Before(i)

\* ShutdownAll calls a subsystem's Shutdown after that of every subsystem that
\* depends on it by name and is not in or behind a cycle.
ShutdownInReverseDependencyOrder ==
    pass = "ShutdownAll" =>
        \A i \in DOMAIN visited : {s \in Range(out) : visited[i] \in Deps(s)} \subseteq Before(i)

\* Both passes that sort call the hooks in the order of the dependencies.
DependencyOrder == InitializeInDependencyOrder /\ ShutdownInReverseDependencyOrder

\* No set of entries in which every one depends on another of the set.
Acyclic == \A S \in SUBSET ents : S # {} => \E s \in S : Deps(s) \intersect S = {}

\* TopoSort sorts all entries exactly when the dependencies have no cycle:
\* InitializeAll refuses no graph that can be initialized and accepts no other.
SortedIffAcyclic == at = "sort" /\ q = {} => (SortedAll <=> Acyclic)

\* Start is called only on an instance that was initialized, or stopped, last, and
\* Stop only on one that was started last: through repeated passes, failures,
\* ShutdownSubsystem, and an instance that replaces another of its type.
HooksInSequence ==
    [][\A s \in Subsystem :
          /\ lastHook'[s] = "Start" /\ lastHook[s] # "Start" =>
                lastHook[s] \in {"Initialize", "Stop"}
          /\ lastHook'[s] = "Stop" /\ lastHook[s] # "Stop" => lastHook[s] = "Start"]_lifecycleVars

\* Every pass ends.
PassEnds == at # "idle" ~> at = "idle"

=============================================================================
