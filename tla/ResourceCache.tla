---------------------------- MODULE ResourceCache ----------------------------
(***************************************************************************)
(* The cache of ResourceManagerImpl                                        *)
(* (TenEngine-013-resource/src/ResourceManager.cpp): cache_,               *)
(* resource_to_id_ and id_to_path_, all under cache_mutex_, and the        *)
(* operations that count references in them: LoadSync, the cached path of  *)
(* RequestLoadAsync, GetCached, CacheResource and Unload.                  *)
(*                                                                         *)
(* A critical section of cache_mutex_ is one action; LoadSync is three of  *)
(* them with the load in between, so two loads of one path can overlap,    *)
(* and the second then replaces the entry the first has made.              *)
(* What GetResourceId answers after a load depends on the kind of          *)
(* resource: materials and shaders take the GUID of their file, textures   *)
(* and meshes keep the one their constructor generated.                    *)
(***************************************************************************)
EXTENDS Integers

CONSTANTS Client,        \* threads that load and unload
          Path,          \* files; a path is also the GUID of its file
          Registered,    \* paths LoadAllManifests found in a manifest
          OwnGuid,       \* paths of resources that generate a GUID of their own
          MaxResources,  \* bound: IResource instances ever created
          MaxHeld        \* bound: references to one instance handed out at once

ASSUME PathAssumption ==
    /\ Path \cap Int = {}
    /\ Registered \subseteq Path /\ OwnGuid \subseteq Path
ASSUME BoundsAssumption == MaxResources \in Nat /\ MaxHeld \in Nat

Res == 1 .. MaxResources      \* instances, in the order of their creation
Id == Path \cup Res           \* GUIDs: of files, and generated by instances
None == 0

VARIABLES cached,           \* cache_[id].resource, None without an entry
          refcount,         \* cache_[id].refcount
          resource_to_id,   \* None when the instance is not in resource_to_id_
          id_to_path,       \* None when the id is not in id_to_path_
          created,          \* instances created so far
          madeFrom,         \* the path each instance was loaded from
          load,             \* the LoadSync each client is in
          held,             \* history: references handed out and not given back
          replaced          \* history: ids whose entry another load has replaced

tables == <<cached, refcount, resource_to_id, id_to_path>>
vars == <<tables, created, madeFrom, load, held, replaced>>

\* "find": about to look the id up in cache_; "create": missed; "store": loaded.
LoadState == [at : {"idle", "find", "create", "store"},
              path : Path \cup {None}, id : Id \cup {None}, resource : Res \cup {None}]
Idle == [at |-> "idle", path |-> None, id |-> None, resource |-> None]

TypeOK ==
    /\ cached \in [Id -> Res \cup {None}]
    /\ refcount \in [Id -> Nat]
    /\ resource_to_id \in [Res -> Id \cup {None}]
    /\ id_to_path \in [Id -> Path \cup {None}]
    /\ created \in 0 .. MaxResources
    /\ madeFrom \in [Res -> Path \cup {None}]
    /\ load \in [Client -> LoadState]
    /\ held \in [Res -> Nat]
    /\ replaced \subseteq Id

Init ==
    /\ cached = [i \in Id |-> None]
    /\ refcount = [i \in Id |-> 0]
    /\ resource_to_id = [r \in Res |-> None]
    /\ id_to_path = [i \in Id |-> IF i \in Registered THEN i ELSE None]
    /\ created = 0
    /\ madeFrom = [r \in Res |-> None]
    /\ load = [c \in Client |-> Idle]
    /\ held = [r \in Res |-> 0]
    /\ replaced = {}

-----------------------------------------------------------------------------

HandOut(r) == held[r] < MaxHeld /\ held' = [held EXCEPT ![r] = @ + 1]

\* GetResourceId of instance r once it has loaded path p.
IdOf(r, p) == IF p \in OwnGuid THEN r ELSE p

\* LoadSync and RequestLoadAsync: ResolvePathToId walks the unordered
\* id_to_path_, so of several ids with the path any may come first.
ResolvePathToId(c, p) ==
    /\ load[c] = Idle
    /\ LET ids == {i \in Id : id_to_path[i] = p}
       IN  \/ \E i \in ids : load' = [load EXCEPT ![c] =
                 [at |-> "find", path |-> p, id |-> i, resource |-> None]]
           \/ /\ ids = {}
              /\ load' = [load EXCEPT ![c] =
                    [at |-> "create", path |-> p, id |-> None, resource |-> None]]
    /\ UNCHANGED <<tables, created, madeFrom, held, replaced>>

\* The id is in cache_: one more reference, and the call returns.
FindHit(c) ==
    /\ load[c].at = "find"
    /\ cached[load[c].id] # None
    /\ refcount' = [refcount EXCEPT ![load[c].id] = @ + 1]
    /\ HandOut(cached[load[c].id])
    /\ load' = [load EXCEPT ![c] = Idle]
    /\ UNCHANGED <<cached, resource_to_id, id_to_path, created, madeFrom, replaced>>

FindMiss(c) ==
    /\ load[c].at = "find"
    /\ cached[load[c].id] = None
    /\ load' = [load EXCEPT ![c].at = "create"]
    /\ UNCHANGED <<tables, created, madeFrom, held, replaced>>

\* CreateResourceInstance and IResource::Load, without any lock.
LoadSucceeds(c) ==
    /\ load[c].at = "create"
    /\ created < MaxResources
    /\ created' = created + 1
    /\ madeFrom' = [madeFrom EXCEPT ![created + 1] = load[c].path]
    /\ load' = [load EXCEPT ![c].at = "store", ![c].resource = created + 1]
    /\ UNCHANGED <<tables, held, replaced>>

LoadFails(c) ==
    /\ load[c].at = "create"
    /\ load' = [load EXCEPT ![c] = Idle]
    /\ UNCHANGED <<tables, created, madeFrom, held, replaced>>

\* History: the entry of id i is another load's.
NoteReplaced(i) == replaced' = IF cached[i] = None THEN replaced ELSE replaced \cup {i}

\* Slip: the reverse table is left out.
CacheResourceOneWay(c) ==
    /\ load[c].at = "store"
    /\ LET r == load[c].resource
           i == IdOf(r, load[c].path)
       IN  /\ cached' = [cached EXCEPT ![i] = r]
           /\ refcount' = [refcount EXCEPT ![i] = 1]
           /\ id_to_path' = [id_to_path EXCEPT ![i] = load[c].path]
           /\ HandOut(r) /\ NoteReplaced(i)
    /\ load' = [load EXCEPT ![c] = Idle]
    /\ UNCHANGED <<resource_to_id, created, madeFrom>>

\* CacheResource: the entry is overwritten if another load has made it since
\* this one found none, and its count starts at 1 again.
CacheResource(c) ==
    /\ load[c].at = "store"
    /\ LET r == load[c].resource
           i == IdOf(r, load[c].path)
       IN  /\ cached' = [cached EXCEPT ![i] = r]
           /\ refcount' = [refcount EXCEPT ![i] = 1]
           /\ resource_to_id' = [resource_to_id EXCEPT ![r] = i]
           /\ id_to_path' = [id_to_path EXCEPT ![i] = load[c].path]
           /\ HandOut(r) /\ NoteReplaced(i)
    /\ load' = [load EXCEPT ![c] = Idle]
    /\ UNCHANGED <<created, madeFrom>>

\* Slip: a hit is handed out without being counted.
GetCachedUncounted(c, i) ==
    /\ load[c] = Idle
    /\ cached[i] # None
    /\ HandOut(cached[i])
    /\ UNCHANGED <<tables, created, madeFrom, load, replaced>>

\* GetCached counts a reference for whoever asks.
GetCached(c, i) ==
    /\ load[c] = Idle
    /\ cached[i] # None
    /\ refcount' = [refcount EXCEPT ![i] = @ + 1]
    /\ HandOut(cached[i])
    /\ UNCHANGED <<cached, resource_to_id, id_to_path, created, madeFrom, load, replaced>>

\* Slip: the last reference but one already evicts.
UnloadTooEarly(c, r) ==
    /\ load[c] = Idle
    /\ held[r] > 0
    /\ held' = [held EXCEPT ![r] = @ - 1]
    /\ LET i == resource_to_id[r]
       IN  IF i = None \/ cached[i] = None THEN UNCHANGED tables
           ELSE IF refcount[i] > 2
                THEN /\ refcount' = [refcount EXCEPT ![i] = @ - 1]
                     /\ UNCHANGED <<cached, resource_to_id, id_to_path>>
           ELSE /\ refcount' = [refcount EXCEPT ![i] = 0]
                /\ cached' = [cached EXCEPT ![i] = None]
                /\ resource_to_id' = [resource_to_id EXCEPT ![r] = None]
                /\ id_to_path' = [id_to_path EXCEPT ![i] = None]
    /\ UNCHANGED <<created, madeFrom, load, replaced>>

\* Unload: nothing for an instance the tables do not know; at the last reference
\* the id leaves cache_ and id_to_path_, the instance resource_to_id_.  The
\* Release that follows only lowers a count nobody else reads.
Unload(c, r) ==
    /\ load[c] = Idle
    /\ held[r] > 0
    /\ held' = [held EXCEPT ![r] = @ - 1]
    /\ LET i == resource_to_id[r]
       IN  IF i = None \/ cached[i] = None THEN UNCHANGED tables
           ELSE IF refcount[i] > 1
                THEN /\ refcount' = [refcount EXCEPT ![i] = @ - 1]
                     /\ UNCHANGED <<cached, resource_to_id, id_to_path>>
           ELSE /\ refcount' = [refcount EXCEPT ![i] = 0]
                /\ cached' = [cached EXCEPT ![i] = None]
                /\ resource_to_id' = [resource_to_id EXCEPT ![r] = None]
                /\ id_to_path' = [id_to_path EXCEPT ![i] = None]
    /\ UNCHANGED <<created, madeFrom, load, replaced>>

-----------------------------------------------------------------------------

Step(c) == \/ \E p \in Path : ResolvePathToId(c, p)
           \/ FindHit(c)
           \/ FindMiss(c)
           \/ LoadSucceeds(c)
           \/ LoadFails(c)
           \/ CacheResource(c)
           \/ \E i \in Id : GetCached(c, i)
           \/ \E r \in Res : Unload(c, r)

Next == \E c \in Client : Step(c)

Spec == Init /\ [][Next]_vars

-----------------------------------------------------------------------------

Cached(r) == \E i \in Id : cached[i] = r

\* What is cached is found by its instance and by its id: Unload finds it under
\* the id it is cached under, and that id resolves to the path it came from.  And
\* what the reverse table knows is cached under that id, but where overlapping
\* loads of a file have put one instance over another.
TablesAgree ==
    /\ \A i \in Id : cached[i] # None =>
          resource_to_id[cached[i]] = i /\ id_to_path[i] = madeFrom[cached[i]]
    /\ \A r \in Res : resource_to_id[r] \in Id \ replaced => cached[resource_to_id[r]] = r

\* The count of an entry is the number of references clients hold to its
\* instance, so the entry goes with the last of them and not before; an entry
\* that was replaced counts one at least.
RefcountExact ==
    \A i \in Id : cached[i] # None =>
       /\ refcount[i] >= 1
       /\ i \notin replaced => refcount[i] = held[cached[i]]

\* An instance somebody holds is in the cache, unless its entry was replaced.
HeldStaysCached ==
    \A r \in Res : held[r] > 0 => Cached(r) \/ IdOf(r, madeFrom[r]) \in replaced

\* What LoadSync and Unload keep between them, however loads of other files and
\* of this one overlap, as long as none has replaced the entry of a file.
CacheSound == TablesAgree /\ RefcountExact /\ HeldStaysCached

\* ResourceManager.h says that Unload removes a resource from the cache when its
\* count reaches zero, and that it may be called by any thread, as LoadSync may:
\* no entry goes while somebody holds an instance of the file.
EvictedWithTheLast ==
    [][\A i \in Id : cached[i] # None /\ cached'[i] = None =>
          \A r \in Res : IdOf(r, madeFrom[r]) = i => held'[r] = 0]_vars

=============================================================================
