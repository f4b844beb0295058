--------------------------- MODULE Ledgers_proofs ---------------------------
(***************************************************************************)
(* Proofs about components that keep books.  Repositories: what lies on    *)
(* disk is sound at every moment, memory matches it between two operations *)
(* and no operation loses a resource, for any repositories, resources and  *)
(* folders, but for the resources an import or a move could not save.      *)
(*  UndoSystem: it implements EditTimeline, for any depth and any *)
(* number of commands.  HistoryManager: it implements EditTimeline while   *)
(* the history is straight, and bookmarks lead back, for any numbers of    *)
(* edits, ids and bookmarks and any limits.  SpatialIndex: searches find   *)
(* what they should, for any nodes, boxes, world and depth of the tree.    *)
(***************************************************************************)
EXTENDS Repositories, UndoSystem, HistoryManager, SpatialIndex,
        SequenceTheorems, FiniteSetTheorems, WellFoundedInduction, TLAPS

-----------------------------------------------------------------------------
(* Repositories *)

\* What a repository lists: in memory once it is loaded.
Here(r) == IF r \in repo_config THEN Guids(manifests[r]) ELSE Guids(LoadManifest(r))

\* The repositories whose file is open, and so empty.
Opened ==
    CASE pc \in {"saveImported", "saveEdit", "saveAdd", "saveTarget"} -> {target}
      [] pc = "saveSource" -> {source}
      [] OTHER -> {}

\* Where no import or move is under way.
Resting == {"idle", "edit", "add", "saveEdit", "saveAdd", "saveConfig"}

Types ==
    /\ stored \in [Repo -> Manifest \cup {None}]
    /\ storedConfig \in (SUBSET Repo) \cup {None}
    /\ repo_config \subseteq Repo
    /\ manifests \in [repo_config -> Manifest]
    /\ id_to_repo \in [DOMAIN id_to_repo -> repo_config]
    /\ DOMAIN id_to_repo \subseteq Resource

\* A file lists no more than memory does; a resource has one home, where its
\* files are; the table of repositories says which.  All of it but for resources
\* that could not be saved.
DiskWithin == \A r \in Repo : Guids(LoadManifest(r)) \subseteq Here(r) \cup notSaved
OneHome == \A r, q \in Repo : r # q => Here(r) \cap Here(q) \subseteq notSaved
HomeHasFiles == \A r \in Repo : \A g \in Here(r) \ notSaved : <<r, g>> \in dirs
HomesUsed == \A r \in Repo : Here(r) \cup Guids(LoadManifest(r)) \subseteq used
TableExact ==
    /\ \A g \in DOMAIN id_to_repo : g \in Guids(manifests[id_to_repo[g]])
    /\ \A r \in repo_config : \A g \in Guids(manifests[r]) :
          g \in DOMAIN id_to_repo /\ (id_to_repo[g] = r \/ g \in notSaved)

\* A file that is not open is the manifest in memory, or while resources are
\* imported or moved lists the same that could be saved, but for the one on its
\* way to the target.
Synced == pc \in Resting => \A r \in repo_config \ Opened : manifests[r] = LoadManifest(r)
OnItsWay(r, g) == pc \in {"saveSource", "openTarget"} /\ r = target /\ g = id
SameLists ==
    \A r \in repo_config \ Opened : \A g \in Resource \ notSaved :
        ~OnItsWay(r, g) => (g \in Guids(manifests[r]) <=> g \in Guids(LoadManifest(r)))
ConfigSaved == /\ pc \notin {"load", "saveConfig"} => LoadRepositoryConfig = repo_config
               /\ pc = "saveConfig" => config \in SUBSET Repo /\ repo_config \subseteq config
ImportedListed ==
    IF pc = "load" THEN imported \ notSaved \subseteq Listed
                   ELSE imported \ notSaved \subseteq DOMAIN id_to_repo

Moving == {"saveSource", "openTarget", "saveTarget", "removeFiles"}

EditsSound ==
    /\ DOMAIN edits # {} => pc \in {"edit", "add", "saveEdit", "saveAdd"}
    /\ \A r \in DOMAIN edits : /\ r \in repo_config /\ edits[r] \in Manifest
                               /\ Guids(edits[r]) = Guids(manifests[r])
    /\ pc \in {"saveEdit", "saveAdd"} => target \in DOMAIN edits

ImportSound ==
    /\ pc \in {"import", "list", "saveImported"} => target \in repo_config
    /\ pc \in {"list", "saveImported"} => id \in Resource
    /\ pc = "list" => /\ id \in used /\ <<target, id>> \in dirs
                      /\ \A r \in Repo : id \notin Here(r)
    /\ pc = "saveImported" => id \in DOMAIN id_to_repo

MoveSound ==
    /\ pc \in Moving \cup {"move", "relist"} =>
           /\ target \in repo_config
           /\ \A g \in pending : g \in DOMAIN id_to_repo /\ id_to_repo[g] # target
    /\ pc \in Moving \cup {"relist"} => source \in repo_config /\ source # target /\ id \in Resource
    /\ pc = "relist" => /\ id \in DOMAIN id_to_repo /\ id_to_repo[id] = source
                        /\ id \notin pending /\ <<target, id>> \in dirs
    /\ pc \in Moving => id \notin Guids(manifests[source])

IInv == /\ Types
        /\ DiskWithin /\ OneHome /\ HomeHasFiles /\ HomesUsed /\ TableExact
        /\ Synced /\ SameLists /\ ConfigSaved /\ ImportedListed
        /\ EditsSound /\ ImportSound /\ MoveSound

-----------------------------------------------------------------------------
(* Manifests *)

\* A manifest is two fields, the first a function from some resources to folders.
LEMMA ManifestParts ==
    ASSUME NEW m \in Manifest
    PROVE  /\ m = [resources |-> m.resources, assetFolders |-> m.assetFolders]
           /\ Guids(m) \subseteq Resource
           /\ m.resources \in [Guids(m) -> Path]
           /\ m.assetFolders \subseteq Folder
           /\ m # None
BY NoneAssumption DEF Manifest, Guids

LEMMA ManifestMade ==
    ASSUME NEW S \in SUBSET Resource, NEW f \in [S -> Path], NEW F \in SUBSET Folder
    PROVE  /\ [resources |-> f, assetFolders |-> F] \in Manifest
           /\ Guids([resources |-> f, assetFolders |-> F]) = S
BY DEF Manifest, Guids

\* Entering a resource in a manifest and taking one out do just that.
LEMMA WithSound ==
    ASSUME NEW m \in Manifest, NEW g \in Resource, NEW p \in Path
    PROVE  With(m, g, p) \in Manifest /\ Guids(With(m, g, p)) = Guids(m) \cup {g}
<1> DEFINE f == [h \in Guids(m) \cup {g} |-> IF h = g THEN p ELSE m.resources[h]]
<1>1. f \in [Guids(m) \cup {g} -> Path]
  BY ManifestParts
<1>2. With(m, g, p) = [resources |-> f, assetFolders |-> m.assetFolders]
  BY ManifestParts DEF With
<1>3. Guids(m) \cup {g} \in SUBSET Resource /\ m.assetFolders \in SUBSET Folder
  BY ManifestParts
<1> HIDE DEF f
<1> QED  BY <1>1, <1>2, <1>3, ManifestMade

LEMMA WithoutSound ==
    ASSUME NEW m \in Manifest, NEW g
    PROVE  Without(m, g) \in Manifest /\ Guids(Without(m, g)) = Guids(m) \ {g}
<1> DEFINE f == [h \in Guids(m) \ {g} |-> m.resources[h]]
<1>1. f \in [Guids(m) \ {g} -> Path]
  BY ManifestParts
<1>2. Without(m, g) = [resources |-> f, assetFolders |-> m.assetFolders]
  BY ManifestParts DEF Without
<1>3. Guids(m) \ {g} \in SUBSET Resource /\ m.assetFolders \in SUBSET Folder
  BY ManifestParts
<1> HIDE DEF f
<1> QED  BY <1>1, <1>2, <1>3, ManifestMade

LEMMA EmptySound == EmptyManifest \in Manifest /\ Guids(EmptyManifest) = {}
<1>1. [g \in {} |-> Root] \in [{} -> Path]
  OBVIOUS
<1> QED  BY <1>1, ManifestMade DEF EmptyManifest

LEMMA LoadSound ==
    ASSUME Types, NEW r \in Repo
    PROVE  LoadManifest(r) \in Manifest
BY EmptySound DEF Types, LoadManifest

\* What was written is what LoadManifest reads, and what was opened reads as empty.
LEMMA WrittenIsLoaded ==
    ASSUME Types, NEW r \in Repo, NEW m \in Manifest, stored' = [stored EXCEPT ![r] = m]
    PROVE  \A q \in Repo : LoadManifest(q)' = IF q = r THEN m ELSE LoadManifest(q)
BY ManifestParts DEF Types, LoadManifest

LEMMA OpenedIsEmpty ==
    ASSUME Types, NEW r \in Repo, stored' = [stored EXCEPT ![r] = None]
    PROVE  \A q \in Repo : LoadManifest(q)' = IF q = r THEN EmptyManifest ELSE LoadManifest(q)
BY DEF Types, LoadManifest

-----------------------------------------------------------------------------
(* The invariant holds at the start and every step keeps it *)

LEMMA InitSound == Init => IInv
<1> SUFFICES ASSUME Init PROVE IInv
  OBVIOUS
<1>1. \A r \in Repo : LoadManifest(r) = EmptyManifest /\ Here(r) = {}
  BY EmptySound DEF Init, LoadManifest, Here
<1>2. Types
  BY DEF Init, Types
<1> QED
  BY <1>1, <1>2, EmptySound
  DEF Init, IInv, DiskWithin, OneHome, HomeHasFiles, HomesUsed, TableExact, Synced, SameLists,
      LoadRepositoryConfig, ConfigSaved, ImportedListed, EditsSound, ImportSound, MoveSound,
      Moving, NoEdits

\* Steps that write nothing and leave the tables alone.
LEMMA QuietStep ==
    ASSUME IInv, UNCHANGED <<disk, memory, history>>, pc # "load", pc' # "load",
           Opened = {}, pc # "openTarget", pc # "saveConfig", pc' # "saveConfig",
           pc' \in Resting => pc \in Resting,
           EditsSound', ImportSound', MoveSound'
    PROVE  IInv'
<1>1. \A r \in Repo : LoadManifest(r)' = LoadManifest(r) /\ Here(r)' = Here(r)
  BY DEF disk, memory, LoadManifest, Here
<1> QED
  BY <1>1
  DEF disk, memory, history, IInv, Types, DiskWithin, OneHome, HomeHasFiles, HomesUsed,
      TableExact, Synced, SameLists, OnItsWay, Resting, Opened, LoadRepositoryConfig,
      ConfigSaved, ImportedListed

LEMMA LoadAllManifestsSound ==
    ASSUME IInv, LoadAllManifests
    PROVE  IInv'
<1> DEFINE Rs == LoadRepositoryConfig
<1>1. Rs \subseteq Repo /\ repo_config' = Rs /\ storedConfig' \in {storedConfig, Rs}
  BY MainAssumption DEF LoadAllManifests, LoadRepositoryConfig, IInv, Types
<1>2. \A r \in Repo : LoadManifest(r)' = LoadManifest(r) /\ LoadManifest(r) \in Manifest
  BY LoadSound DEF LoadAllManifests, LoadManifest, IInv
<1>3. /\ manifests' \in [Rs -> Manifest]
      /\ \A r \in Rs : manifests'[r] = LoadManifest(r)
  BY <1>1, <1>2 DEF LoadAllManifests
<1>4. \A r \in Repo : Here(r)' = Guids(LoadManifest(r)) /\ Here(r)' \subseteq Here(r) \cup notSaved
  BY <1>1, <1>2, <1>3 DEF Here, IInv, DiskWithin
<1>5. \A r,
q \in Rs : r # q => Guids(LoadManifest(r)) \cap Guids(LoadManifest(q)) \subseteq notSaved
  BY <1>1, <1>4 DEF IInv, OneHome
<1>6. /\ DOMAIN id_to_repo' = Listed
      /\ \A g \in Listed : /\ id_to_repo'[g] \in Rs
                           /\ g \in Guids(LoadManifest(id_to_repo'[g]))
      /\ id_to_repo' \in [Listed -> Rs]
  BY DEF LoadAllManifests
<1>7. Listed \subseteq Resource
  BY <1>1, <1>2, ManifestParts DEF Listed
<1>8. Types'
  BY <1>1, <1>3, <1>6, <1>7 DEF LoadAllManifests, IInv, Types
<1>9. TableExact'
  <2>1. notSaved' = notSaved
    BY DEF LoadAllManifests, history
  <2>2. \A g \in Listed : g \in Guids(manifests'[id_to_repo'[g]])
    BY <1>3, <1>6
  <2>3. \A r \in Rs : \A g \in Guids(LoadManifest(r)) :
           g \in Listed /\ (id_to_repo'[g] = r \/ g \in notSaved)
    BY <1>5, <1>6 DEF Listed
  <2> QED  BY <1>1, <1>3, <1>6, <2>1, <2>2, <2>3 DEF TableExact
<1>10. DiskWithin' /\ OneHome' /\ HomeHasFiles' /\ HomesUsed'
  BY <1>2, <1>4
  DEF LoadAllManifests, history, IInv, DiskWithin, OneHome, HomeHasFiles, HomesUsed
<1>11. Synced' /\ SameLists' /\ ConfigSaved' /\ ImportedListed'
  BY <1>1, <1>2, <1>3, <1>6
  DEF LoadAllManifests, history, IInv, Synced, SameLists, OnItsWay, Resting, Opened,
      LoadRepositoryConfig, ConfigSaved, ImportedListed
<1>12. EditsSound' /\ ImportSound' /\ MoveSound'
  BY DEF LoadAllManifests, JobOver, NoEdits, EditsSound, ImportSound, MoveSound, Moving
<1> QED  BY <1>8, <1>9, <1>10, <1>11, <1>12 DEF IInv

LEMMA CrashSound ==
    ASSUME IInv, Crash
    PROVE  IInv'
<1>1. \A r \in Repo : /\ LoadManifest(r)' = LoadManifest(r)
                     /\ Here(r)' = Guids(LoadManifest(r))
                     /\ Here(r)' \subseteq Here(r) \cup notSaved
  BY DEF Crash, disk, LoadManifest, Here, IInv, DiskWithin
<1>2. Types'
  BY DEF Crash, disk, NoEdits, IInv, Types
<1>3. Listed' = Listed
  BY <1>1, MainAssumption DEF Crash, disk, Listed, LoadRepositoryConfig, IInv, Types
<1>4. DiskWithin' /\ OneHome' /\ HomeHasFiles' /\ HomesUsed' /\ TableExact'
  BY <1>1
  DEF Crash, disk, IInv, DiskWithin, OneHome, HomeHasFiles, HomesUsed, TableExact
<1>5. Synced' /\ SameLists' /\ ConfigSaved' /\ ImportedListed'
  BY <1>3 DEF Crash, Synced, SameLists, OnItsWay, Resting, Opened, LoadRepositoryConfig,
      ConfigSaved, ImportedListed
<1>6. EditsSound' /\ ImportSound' /\ MoveSound'
  BY DEF Crash, JobOver, NoEdits, EditsSound, ImportSound, MoveSound, Moving
<1> QED  BY <1>2, <1>4, <1>5, <1>6 DEF IInv

\* When no manifest is open, a start would find what memory lists and could save.
LEMMA SavedIsListed ==
    ASSUME IInv, Opened = {}, pc \notin {"load", "openTarget", "saveConfig"}
    PROVE  DOMAIN id_to_repo \ notSaved \subseteq Listed
<1>1. LoadRepositoryConfig = repo_config
  BY DEF IInv, ConfigSaved
<1>2. \A g \in DOMAIN id_to_repo \ notSaved : /\ id_to_repo[g] \in repo_config
                                            /\ g \in Guids(LoadManifest(id_to_repo[g]))
  BY DEF IInv, Types, TableExact, SameLists, OnItsWay, Opened
<1> QED  BY <1>1, <1>2 DEF Listed

\* The steps to the loading of the manifests, with nothing left to save.
LEMMA EndStep ==
    ASSUME IInv, UNCHANGED <<disk, memory, history>>,
           pc \notin {"load", "openTarget", "saveConfig"}, pc' = "load", Opened = {},
           DOMAIN edits' = {}
    PROVE  IInv'
<1>1. \A r \in Repo : LoadManifest(r)' = LoadManifest(r) /\ Here(r)' = Here(r)
  BY DEF disk, memory, LoadManifest, Here
<1>2. Listed' = Listed
  BY <1>1, MainAssumption DEF disk, Listed, LoadRepositoryConfig, IInv, Types
<1>3. imported' \ notSaved' \subseteq Listed'
  BY <1>2, SavedIsListed DEF history, IInv, ImportedListed
<1>4. Types' /\ DiskWithin' /\ OneHome' /\ HomeHasFiles' /\ HomesUsed' /\ TableExact'
  BY <1>1
  DEF disk, memory, history, IInv, Types, DiskWithin, OneHome, HomeHasFiles, HomesUsed,
      TableExact
<1>5. Synced' /\ SameLists' /\ ConfigSaved'
  BY <1>1 DEF memory, history, IInv, Types, Synced, SameLists, OnItsWay, Resting, Opened,
              LoadRepositoryConfig, ConfigSaved
<1>6. EditsSound' /\ ImportSound' /\ MoveSound'
  BY DEF EditsSound, ImportSound, MoveSound, Moving
<1> QED  BY <1>3, <1>4, <1>5, <1>6 DEF IInv, ImportedListed

LEMMA ImportFileSound ==
    ASSUME IInv, ImportFile
    PROVE  IInv'
<1> PICK g \in Resource \ used :
        id' = g /\ dirs' = dirs \cup {<<target, g>>} /\ used' = used \cup {g}
  BY DEF ImportFile
<1>1. \A r \in Repo : LoadManifest(r)' = LoadManifest(r) /\ Here(r)' = Here(r)
  BY DEF ImportFile, memory, LoadManifest, Here
<1>2. \A r \in Repo : g \notin Here(r)
  BY DEF IInv, HomesUsed
<1>3. EditsSound' /\ ImportSound' /\ MoveSound'
  BY <1>1, <1>2
  DEF ImportFile, memory, IInv, EditsSound, ImportSound, MoveSound, Moving
<1> QED
  BY <1>1, <1>3
  DEF ImportFile, memory, IInv, Types, DiskWithin, OneHome, HomeHasFiles, HomesUsed,
      TableExact, Synced, SameLists, OnItsWay, Resting, Opened, LoadRepositoryConfig,
      ConfigSaved, ImportedListed

\* The resource is entered in memory, and its manifest is opened or cannot be.
LEMMA EnlistSound ==
    ASSUME IInv, NEW p \in Path, ListImported(p) \/ ImportNotSaved(p)
    PROVE  IInv'
<1>0. /\ Enlist(p)
      /\ \/ /\ stored' = [stored EXCEPT ![target] = None] /\ pc' = "saveImported"
            /\ imported' = imported /\ notSaved' = notSaved
         \/ /\ stored' = stored /\ pc' = "import"
            /\ imported' = imported \cup {id} /\ notSaved' = notSaved \cup {id}
  BY DEF ListImported, ImportNotSaved, CannotSave
<1>1. /\ target \in repo_config /\ target \in Repo /\ id \in Resource
      /\ manifests[target] \in Manifest /\ pc = "list"
  BY <1>0 DEF Enlist, IInv, ImportSound, Types
<1>2. /\ With(manifests[target], id, p) \in Manifest
      /\ Guids(With(manifests[target], id, p)) = Guids(manifests[target]) \cup {id}
  BY <1>1, WithSound
<1>3. /\ manifests' \in [repo_config -> Manifest]
      /\ \A r \in repo_config :
            manifests'[r] = IF r = target THEN With(manifests[target], id, p) ELSE manifests[r]
  BY <1>0, <1>1, <1>2 DEF Enlist, IInv, Types
<1>4. \A r \in Repo : \/ LoadManifest(r)' = LoadManifest(r)
                      \/ LoadManifest(r)' = EmptyManifest /\ r = target /\ pc' = "saveImported"
  <2>1. CASE stored' = [stored EXCEPT ![target] = None] /\ pc' = "saveImported"
    BY <2>1, <1>1, OpenedIsEmpty DEF IInv
  <2>2. CASE stored' = stored
    BY <2>2, <1>1 DEF LoadManifest
  <2> QED  BY <1>0, <2>1, <2>2
<1>5. \A r \in Repo : Here(r)' = IF r = target THEN Here(r) \cup {id} ELSE Here(r)
  BY <1>0, <1>1, <1>2, <1>3, <1>4 DEF Enlist, Here
<1>6. id \in used /\ <<target, id>> \in dirs /\ \A r \in Repo : id \notin Here(r)
  BY <1>1 DEF IInv, ImportSound
<1>7. /\ id_to_repo' \in [DOMAIN id_to_repo \cup {id} -> repo_config]
      /\ DOMAIN id_to_repo' = DOMAIN id_to_repo \cup {id}
      /\ \A g \in DOMAIN id_to_repo \cup {id} :
            id_to_repo'[g] = IF g = id THEN target ELSE id_to_repo[g]
  BY <1>0, <1>1 DEF Enlist, IInv, Types
<1>8. Types'
  BY <1>0, <1>1, <1>3, <1>7 DEF Enlist, IInv, Types
<1>9. DiskWithin' /\ OneHome' /\ HomeHasFiles' /\ HomesUsed'
  <2>1. DiskWithin'
    <3>1. \A r \in Repo : Guids(LoadManifest(r)') \subseteq Here(r)' \cup notSaved'
      BY <1>0, <1>4, <1>5, EmptySound DEF IInv, DiskWithin
    <3> QED  BY <3>1 DEF DiskWithin
  <2>2. OneHome'
    BY <1>0, <1>5, <1>6 DEF IInv, OneHome
  <2>3. HomeHasFiles'
    BY <1>0, <1>5, <1>6 DEF Enlist, IInv, HomeHasFiles
  <2>4. HomesUsed'
    <3>1. \A r \in Repo : Here(r)' \cup Guids(LoadManifest(r)') \subseteq used
      BY <1>4, <1>5, <1>6, EmptySound DEF IInv, HomesUsed
    <3> QED  BY <1>0, <3>1 DEF Enlist, HomesUsed
  <2> QED  BY <2>1, <2>2, <2>3, <2>4
<1>10. \A r \in repo_config : id \notin Guids(manifests[r])
  BY <1>6 DEF IInv, Types, Here
<1>11. TableExact'
  <2>1. repo_config' = repo_config /\ notSaved \subseteq notSaved'
    BY <1>0 DEF Enlist
  <2>2. \A r \in repo_config : Guids(manifests'[r]) = Guids(manifests[r]) \cup (IF r = target THEN {id} ELSE {})
    BY <1>1, <1>2, <1>3
  <2>3. \A g \in DOMAIN id_to_repo : id_to_repo[g] \in repo_config /\ g \in Guids(manifests[id_to_repo[g]])
    BY DEF IInv, Types, TableExact
  <2>4. \A g \in DOMAIN id_to_repo' : g \in Guids(manifests'[id_to_repo'[g]])
    BY <1>1, <1>7, <1>10, <2>2, <2>3
  <2>5. \A r \in repo_config : \A g \in Guids(manifests'[r]) :
          g \in DOMAIN id_to_repo' /\ (id_to_repo'[g] = r \/ g \in notSaved')
    BY <1>7, <1>10, <2>1, <2>2 DEF IInv, TableExact
  <2> QED  BY <2>1, <2>4, <2>5 DEF TableExact
<1>12. Synced' /\ SameLists'
  <2>1. Synced'
    BY <1>0, <1>1, <1>3, <1>4 DEF Enlist, job, IInv, Synced, Resting, Opened, Types
  <2>2. SameLists'
    BY <1>0, <1>1, <1>2, <1>3, <1>4 DEF Enlist, job, IInv, SameLists, OnItsWay, Opened, Types
  <2> QED  BY <2>1, <2>2
<1>13. ConfigSaved' /\ ImportedListed'
  BY <1>0, <1>1, <1>7 DEF Enlist, IInv, LoadRepositoryConfig, ConfigSaved, ImportedListed
<1>14. EditsSound' /\ ImportSound' /\ MoveSound'
  BY <1>0, <1>1, <1>7 DEF Enlist, job, IInv, EditsSound, ImportSound, MoveSound, Moving
<1> QED  BY <1>8, <1>9, <1>11, <1>12, <1>13, <1>14 DEF IInv

\* The steps that write a manifest as memory has it.
LEMMA SaveStep ==
    ASSUME IInv, NEW r \in repo_config, stored' = [stored EXCEPT ![r] = manifests[r]],
           UNCHANGED <<storedConfig, dirs, memory, job, used, notSaved>>,
           <<pc, pc'>> \in {<<"saveImported", "import">>, <<"saveSource", "openTarget">>,
                            <<"saveTarget", "removeFiles">>},
           Opened = {r}, imported' \ notSaved \subseteq DOMAIN id_to_repo,
           EditsSound', ImportSound', MoveSound'
    PROVE  IInv'
<1>1. r \in Repo /\ manifests[r] \in Manifest
  BY DEF IInv, Types
<1>2. \A q \in Repo : LoadManifest(q)' = IF q = r THEN manifests[r] ELSE LoadManifest(q)
  BY <1>1, WrittenIsLoaded DEF IInv
<1>3. \A q \in Repo : Here(q)' = Here(q)
  BY <1>2 DEF memory, Here
<1>4. Types'
  BY <1>1 DEF memory, IInv, Types
<1>5. DiskWithin' /\ OneHome' /\ HomeHasFiles' /\ HomesUsed' /\ TableExact'
  BY <1>2, <1>3
  DEF memory, Here, IInv, DiskWithin, OneHome, HomeHasFiles, HomesUsed, TableExact
<1>6. Synced'
  BY DEF Synced, Resting
<1>7. SameLists'
  <2>1. \A q \in repo_config, g \in Resource : OnItsWay(q, g) /\ q # r => OnItsWay(q, g)'
    BY DEF job, OnItsWay, Opened
  <2> QED  BY <1>2, <2>1 DEF memory, IInv, SameLists, Types
<1>8. ConfigSaved' /\ ImportedListed'
  BY DEF memory, IInv, LoadRepositoryConfig, ConfigSaved, ImportedListed
<1> QED  BY <1>4, <1>5, <1>6, <1>7, <1>8 DEF IInv

LEMMA SaveImportedSound ==
    ASSUME IInv, SaveImported
    PROVE  IInv'
<1>1. target \in repo_config /\ id \in DOMAIN id_to_repo
  BY DEF SaveImported, IInv, ImportSound
<1>2. imported' \ notSaved \subseteq DOMAIN id_to_repo
  BY <1>1 DEF SaveImported, IInv, ImportedListed
<1>3. EditsSound' /\ ImportSound' /\ MoveSound'
  BY <1>1 DEF SaveImported, memory, job, IInv, EditsSound, ImportSound, MoveSound, Moving
<1> QED  BY <1>1, <1>2, <1>3, SaveStep DEF SaveImported, Opened

LEMMA ImportStepSound ==
    ASSUME IInv, Import
    PROVE  IInv'
<1>1. CASE \E r \in Repo : BeginImport(r)
  <2>1. EditsSound' /\ ImportSound' /\ MoveSound'
    BY <1>1 DEF BeginImport, memory, IInv, EditsSound, ImportSound, MoveSound, Moving
  <2> QED  BY <1>1, <2>1, QuietStep DEF BeginImport, Opened, Resting
<1>2. CASE GiveUpImport
  <2>1. EditsSound' /\ ImportSound' /\ MoveSound'
    BY <1>2 DEF GiveUpImport, memory, job, IInv, EditsSound, ImportSound, MoveSound, Moving
  <2> QED  BY <1>2, <2>1, QuietStep DEF GiveUpImport, Opened, Resting
<1>3. CASE EndImport
  <2>1. DOMAIN edits' = {}
    BY <1>3 DEF EndImport, job, IInv, EditsSound
  <2> QED  BY <1>3, <2>1, EndStep DEF EndImport, Opened
<1> QED
  BY <1>1, <1>2, <1>3, ImportFileSound, EnlistSound, SaveImportedSound DEF Import

LEMMA CopyFilesSound ==
    ASSUME IInv, CopyFiles
    PROVE  IInv'
<1> PICK g \in pending : /\ id' = g /\ source' = id_to_repo[g]
                         /\ dirs' = dirs \cup {<<target, g>>} /\ pending' = pending \ {g}
  BY DEF CopyFiles
<1>1. \A r \in Repo : LoadManifest(r)' = LoadManifest(r) /\ Here(r)' = Here(r)
  BY DEF CopyFiles, memory, LoadManifest, Here
<1>2. /\ g \in DOMAIN id_to_repo /\ id_to_repo[g] # target /\ g \in Resource
      /\ id_to_repo[g] \in repo_config /\ g \in Guids(manifests[id_to_repo[g]])
  BY DEF CopyFiles, IInv, Types, TableExact, MoveSound
<1>3. EditsSound' /\ ImportSound' /\ MoveSound'
  BY <1>2 DEF CopyFiles, memory, IInv, EditsSound, ImportSound, MoveSound, Moving
<1> QED
  BY <1>1, <1>3
  DEF CopyFiles, memory, history, IInv, Types, DiskWithin, OneHome, HomeHasFiles, HomesUsed,
      TableExact, Synced, SameLists, OnItsWay, Resting, Opened, LoadRepositoryConfig,
      ConfigSaved, ImportedListed

\* The resource changes manifests in memory, and that of the source is opened or
\* cannot be.
LEMMA TransferSound ==
    ASSUME IInv, Relist \/ RelistNotSaved
    PROVE  IInv'
<1> DEFINE from == Without(manifests[source], id)
           into == With(manifests[target], id, manifests[source].resources[id])
<1>0. /\ Transfer /\ pc = "relist"
      /\ \/ /\ stored' = [stored EXCEPT ![source] = None] /\ pc' = "saveSource"
            /\ notSaved' = notSaved
         \/ /\ stored' = stored /\ pc' = "openTarget"
            /\ notSaved' = notSaved \cup {id}
  BY DEF Relist, RelistNotSaved, CannotSave, Transfer
<1>1. /\ source \in repo_config /\ target \in repo_config /\ source # target
      /\ id \in Resource /\ id \in DOMAIN id_to_repo /\ id_to_repo[id] = source
      /\ id \in Guids(manifests[source]) /\ id \notin pending
      /\ <<target, id>> \in dirs
      /\ \A g \in pending : g \in DOMAIN id_to_repo /\ id_to_repo[g] # target
  BY <1>0 DEF IInv, MoveSound, TableExact
<1>2. /\ manifests[source] \in Manifest /\ manifests[target] \in Manifest
      /\ source \in Repo /\ target \in Repo
  BY <1>1 DEF IInv, Types
<1>3. manifests[source].resources[id] \in Path
  BY <1>1, <1>2, ManifestParts
<1>4. /\ from \in Manifest /\ Guids(from) = Guids(manifests[source]) \ {id}
      /\ into \in Manifest /\ Guids(into) = Guids(manifests[target]) \cup {id}
  BY <1>1, <1>2, <1>3, WithSound, WithoutSound
<1>5. manifests' = [manifests EXCEPT ![source] = from, ![target] = into]
  BY <1>0, <1>1, <1>2 DEF Transfer, IInv, Types
<1> HIDE DEF from, into
<1>6. /\ manifests' \in [repo_config -> Manifest]
      /\ \A r \in repo_config : manifests'[r] = IF r = target THEN into
                                               ELSE IF r = source THEN from ELSE manifests[r]
  BY <1>1, <1>4, <1>5 DEF IInv, Types
<1>7. \A r \in Repo :
         \/ /\ LoadManifest(r)' = LoadManifest(r)
            /\ r # source \/ (pc' = "openTarget" /\ id \in notSaved')
         \/ LoadManifest(r)' = EmptyManifest /\ r = source /\ pc' = "saveSource"
  <2>1. CASE stored' = [stored EXCEPT ![source] = None] /\ pc' = "saveSource"
    <3>1. \A r \in Repo : LoadManifest(r)' = IF r = source THEN EmptyManifest
                                              ELSE LoadManifest(r)
      BY <2>1, <1>2, OpenedIsEmpty DEF IInv
    <3> QED  BY <2>1, <3>1
  <2>2. CASE stored' = stored /\ pc' = "openTarget" /\ id \in notSaved'
    BY <2>2, <1>2 DEF LoadManifest
  <2> QED  BY <1>0, <2>1, <2>2
<1>8. \A r \in Repo : Here(r)' = IF r = target THEN Here(r) \cup {id}
                                ELSE IF r = source THEN Here(r) \ {id} ELSE Here(r)
  BY <1>0, <1>1, <1>4, <1>6, <1>7 DEF Transfer, Here
<1>9. id \in Here(source)
  BY <1>1 DEF Here
<1>10. /\ DOMAIN id_to_repo' = DOMAIN id_to_repo
       /\ \A g \in DOMAIN id_to_repo :
             id_to_repo'[g] = IF g = id THEN target ELSE id_to_repo[g]
       /\ id_to_repo' \in [DOMAIN id_to_repo -> repo_config]
  BY <1>0, <1>1 DEF Transfer, IInv, Types
<1>11. Types'
  BY <1>0, <1>2, <1>6, <1>10 DEF Transfer, IInv, Types
<1>12. DiskWithin' /\ OneHome' /\ HomeHasFiles' /\ HomesUsed'
  <2>1. \A r \in Repo : r # source => id \notin Here(r) \/ id \in notSaved
    BY <1>2, <1>9 DEF IInv, OneHome
  <2>2. DiskWithin'
    <3>1. \A r \in Repo : Guids(LoadManifest(r)') \subseteq Here(r)' \cup notSaved'
      <4> SUFFICES ASSUME NEW r \in Repo, NEW g \in Guids(LoadManifest(r)'), g \notin notSaved'
                   PROVE  g \in Here(r)'
        OBVIOUS
      <4>1. g \in Here(r)
        BY <1>0, <1>7, EmptySound DEF IInv, DiskWithin
      <4>2. r # source \/ g # id
        BY <1>7, EmptySound
      <4> QED  BY <1>8, <4>1, <4>2
    <3> QED  BY <3>1 DEF DiskWithin
  <2>3. id \in used
    BY <1>2, <1>9 DEF IInv, HomesUsed
  <2>4. OneHome'
    BY <2>1, <1>0, <1>1, <1>2, <1>8 DEF IInv, OneHome
  <2>5. HomeHasFiles'
    BY <1>0, <1>1, <1>8 DEF Transfer, IInv, HomeHasFiles
  <2>6. HomesUsed'
    <3>1. \A r \in Repo : Here(r)' \cup Guids(LoadManifest(r)') \subseteq used
      BY <2>3, <1>7, <1>8, EmptySound DEF IInv, HomesUsed
    <3> QED  BY <1>0, <3>1 DEF Transfer, HomesUsed
  <2> QED  BY <2>2, <2>4, <2>5, <2>6
<1>13. TableExact'
  <2>1. repo_config' = repo_config /\ notSaved \subseteq notSaved'
    BY <1>0 DEF Transfer
  <2>2. \A r \in repo_config : Guids(manifests'[r]) = IF r = target THEN Guids(manifests[r]) \cup {id}
                                                ELSE IF r = source THEN Guids(manifests[r]) \ {id}
                                                ELSE Guids(manifests[r])
    BY <1>1, <1>4, <1>6
  <2>3. \A g \in DOMAIN id_to_repo : id_to_repo[g] \in repo_config /\ g \in Guids(manifests[id_to_repo[g]])
    BY DEF IInv, Types, TableExact
  <2>4. \A g \in DOMAIN id_to_repo' : g \in Guids(manifests'[id_to_repo'[g]])
    BY <1>1, <1>10, <2>2, <2>3
  <2>5. \A r \in repo_config : \A g \in Guids(manifests'[r]) :
          g \in DOMAIN id_to_repo' /\ (id_to_repo'[g] = r \/ g \in notSaved')
    <3> SUFFICES ASSUME NEW r \in repo_config, NEW g \in Guids(manifests'[r])
                 PROVE  g \in DOMAIN id_to_repo' /\ (id_to_repo'[g] = r \/ g \in notSaved')
      OBVIOUS
    <3>1. CASE g = id /\ r = target
      BY <1>1, <1>10, <3>1
    <3>2. CASE ~(g = id /\ r = target)
      <4>1. g \in Guids(manifests[r]) /\ (g = id => r # source)
        BY <1>1, <2>2, <3>2
      <4>2. g \in DOMAIN id_to_repo /\ (id_to_repo[g] = r \/ g \in notSaved)
        BY <4>1 DEF IInv, TableExact
      <4> QED  BY <1>1, <1>10, <2>1, <4>1, <4>2
    <3> QED  BY <3>1, <3>2
  <2> QED  BY <2>1, <2>4, <2>5 DEF TableExact
<1>14. Synced' /\ SameLists'
  <2>1. Synced'
    BY <1>0 DEF Synced, Resting
  <2>2. SameLists'
    <3> SUFFICES ASSUME NEW r \in repo_config, r \notin Opened', NEW g \in Resource \ notSaved',
                        ~OnItsWay(r, g)'
                 PROVE  g \in Guids(manifests'[r]) <=> g \in Guids(LoadManifest(r)')
      BY <1>0 DEF Transfer, SameLists
    <3>1. r \in Repo /\ g \notin notSaved /\ (g \in Guids(manifests[r]) <=> g \in Guids(LoadManifest(r)))
      BY <1>0 DEF IInv, Types, SameLists, OnItsWay, Opened
    <3>2. (r = target => g # id) /\ (r = source => pc' = "openTarget" /\ g # id)
      BY <1>0, <1>1, <1>7 DEF Transfer, job, OnItsWay, Opened
    <3>3. Guids(manifests'[r]) \ {id} = Guids(manifests[r]) \ {id}
          /\ (r # source /\ r # target => Guids(manifests'[r]) = Guids(manifests[r]))
      BY <1>4, <1>6
    <3>4. LoadManifest(r)' = LoadManifest(r)
      BY <1>7, <3>1, <3>2
    <3> QED  BY <3>1, <3>2, <3>3, <3>4
  <2> QED  BY <2>1, <2>2
<1>15. ConfigSaved' /\ ImportedListed'
  BY <1>0, <1>10 DEF Transfer, IInv, LoadRepositoryConfig, ConfigSaved, ImportedListed
<1>16. EditsSound' /\ ImportSound' /\ MoveSound'
  BY <1>0, <1>1, <1>4, <1>6, <1>10 DEF Transfer, job, IInv, EditsSound, ImportSound,
      MoveSound, Moving
<1> QED  BY <1>11, <1>12, <1>13, <1>14, <1>15, <1>16 DEF IInv

\* The target's manifest cannot be opened: its list is as memory's but for the
\* resource that was moved.
LEMMA TargetNotSavedSound ==
    ASSUME IInv, TargetNotSaved
    PROVE  IInv'
<1>0. /\ notSaved' = notSaved \cup {id} /\ pc = "openTarget" /\ pc' = "removeFiles"
      /\ UNCHANGED <<disk, memory, job, used, imported>>
  BY DEF TargetNotSaved, CannotSave, disk
<1>1. \A r \in Repo : LoadManifest(r)' = LoadManifest(r) /\ Here(r)' = Here(r)
  BY <1>0 DEF disk, memory, LoadManifest, Here
<1>2. Types' /\ DiskWithin' /\ OneHome' /\ HomeHasFiles' /\ HomesUsed' /\ TableExact'
  BY <1>0, <1>1
  DEF disk, memory, IInv, Types, DiskWithin, OneHome, HomeHasFiles, HomesUsed, TableExact
<1>3. Synced' /\ SameLists'
  BY <1>0, <1>1 DEF memory, job, IInv, Types, Synced, SameLists, OnItsWay, Resting, Opened
<1>4. ConfigSaved' /\ ImportedListed'
  BY <1>0 DEF disk, memory, IInv, LoadRepositoryConfig, ConfigSaved, ImportedListed
<1>5. EditsSound' /\ ImportSound' /\ MoveSound'
  BY <1>0 DEF memory, job, IInv, EditsSound, ImportSound, MoveSound, Moving
<1> QED  BY <1>2, <1>3, <1>4, <1>5 DEF IInv

LEMMA OpenTargetSound ==
    ASSUME IInv, OpenTarget
    PROVE  IInv'
<1>1. target \in repo_config /\ target \in Repo
  BY DEF OpenTarget, IInv, MoveSound, Moving, Types
<1>2. \A r \in Repo : LoadManifest(r)' = IF r = target THEN EmptyManifest ELSE LoadManifest(r)
  BY <1>1, OpenedIsEmpty DEF OpenTarget, IInv
<1>3. \A r \in Repo : Here(r)' = Here(r)
  BY <1>1, <1>2 DEF OpenTarget, memory, Here
<1>4. Types' /\ DiskWithin' /\ OneHome' /\ HomeHasFiles' /\ HomesUsed' /\ TableExact'
  BY <1>1, <1>2, <1>3, EmptySound
  DEF OpenTarget, memory, history, IInv, Types, DiskWithin, OneHome, HomeHasFiles, HomesUsed,
      TableExact
<1>5. Synced' /\ SameLists' /\ ConfigSaved' /\ ImportedListed'
  BY <1>2 DEF OpenTarget, memory, job, history, IInv, Types, Synced, SameLists, OnItsWay,
      Resting, Opened, LoadRepositoryConfig, ConfigSaved,
              ImportedListed
<1>6. EditsSound' /\ ImportSound' /\ MoveSound'
  BY DEF OpenTarget, memory, job, IInv, EditsSound, ImportSound, MoveSound, Moving
<1> QED  BY <1>4, <1>5, <1>6 DEF IInv

\* The files go from where the resource is no longer listed.
LEMMA RemoveFilesSound ==
    ASSUME IInv, RemoveFiles
    PROVE  IInv'
<1>1. \A r \in Repo : LoadManifest(r)' = LoadManifest(r) /\ Here(r)' = Here(r)
  BY DEF RemoveFiles, memory, LoadManifest, Here
<1>2. source \in repo_config /\ id \notin Here(source)
  BY DEF RemoveFiles, IInv, MoveSound, Moving, Here
<1>3. HomeHasFiles'
  BY <1>1, <1>2 DEF RemoveFiles, history, IInv, HomeHasFiles
<1>4. Types' /\ DiskWithin' /\ OneHome' /\ HomesUsed' /\ TableExact'
  BY <1>1
  DEF RemoveFiles, memory, history, IInv, Types, DiskWithin, OneHome, HomesUsed, TableExact
<1>5. Synced' /\ SameLists' /\ ConfigSaved' /\ ImportedListed'
  BY <1>1
  DEF RemoveFiles, memory, history, IInv, Types, Synced, SameLists, OnItsWay, Resting,
      Opened, LoadRepositoryConfig, ConfigSaved, ImportedListed
<1>6. EditsSound' /\ ImportSound' /\ MoveSound'
  BY DEF RemoveFiles, memory, job, IInv, EditsSound, ImportSound, MoveSound, Moving
<1> QED  BY <1>3, <1>4, <1>5, <1>6 DEF IInv

LEMMA MoveStepSound ==
    ASSUME IInv, Move
    PROVE  IInv'
<1>1. CASE \E ids \in SUBSET Resource, r \in Repo : ChangeRepository(ids, r)
  <2>1. EditsSound' /\ ImportSound' /\ MoveSound'
    BY <1>1 DEF ChangeRepository, memory, IInv, EditsSound, ImportSound, MoveSound, Moving
  <2> QED  BY <1>1, <2>1, QuietStep DEF ChangeRepository, Opened, Resting
<1>2. CASE SaveSource
  <2>1. source \in repo_config /\ imported' \ notSaved \subseteq DOMAIN id_to_repo
    BY <1>2 DEF SaveSource, history, IInv, MoveSound, Moving, ImportedListed
  <2>2. EditsSound' /\ ImportSound' /\ MoveSound'
    BY <1>2 DEF SaveSource, memory, job, IInv, EditsSound, ImportSound, MoveSound, Moving
  <2> QED  BY <1>2, <2>1, <2>2, SaveStep DEF SaveSource, job, history, Opened
<1>3. CASE SaveTarget
  <2>1. target \in repo_config /\ imported' \ notSaved \subseteq DOMAIN id_to_repo
    BY <1>3 DEF SaveTarget, history, IInv, MoveSound, Moving, ImportedListed
  <2>2. EditsSound' /\ ImportSound' /\ MoveSound'
    BY <1>3 DEF SaveTarget, memory, job, IInv, EditsSound, ImportSound, MoveSound, Moving
  <2> QED  BY <1>3, <2>1, <2>2, SaveStep DEF SaveTarget, job, history, Opened
<1>4. CASE CopyFails
  <2>1. EditsSound' /\ ImportSound' /\ MoveSound'
    BY <1>4 DEF CopyFails, memory, IInv, EditsSound, ImportSound, MoveSound, Moving
  <2> QED  BY <1>4, <2>1, QuietStep DEF CopyFails, Opened, Resting
<1>5. CASE EndMove
  <2>1. DOMAIN edits' = {}
    BY <1>5 DEF EndMove, job, IInv, EditsSound
  <2> QED  BY <1>5, <2>1, EndStep DEF EndMove, Opened
<1> QED
  BY <1>1, <1>2, <1>3, <1>4, <1>5, CopyFilesSound, TransferSound, OpenTargetSound,
      TargetNotSavedSound,
     RemoveFilesSound
  DEF Move

LEMMA BeginEditsSound ==
    ASSUME IInv, NEW e, NEW next \in {"edit", "add"}, BeginEdits(e, next),
           \A r \in DOMAIN e : /\ r \in repo_config /\ e[r] \in Manifest
                              /\ Guids(e[r]) = Guids(LoadManifest(r))
    PROVE  IInv'
<1>1. \A r \in repo_config : manifests[r] = LoadManifest(r)
  BY DEF BeginEdits, IInv, Synced, Resting, Opened
<1>2. EditsSound' /\ ImportSound' /\ MoveSound'
  BY <1>1 DEF BeginEdits, memory, EditsSound, ImportSound, MoveSound, Moving
<1> QED  BY <1>2, QuietStep DEF BeginEdits, Opened, Resting

LEMMA RefolderSound ==
    ASSUME NEW m \in Manifest, NEW to
    PROVE  Guids(Refolder(m, to)) = Guids(m)
BY DEF Refolder, Guids

LEMMA BeginningsSound ==
    ASSUME IInv,
           \/ \E g \in Resource, p \in Path : UpdateAssetPath(g, p)
           \/ \E p \in Folder, q \in Path : MoveAssetFolder(p, q)
           \/ \E r \in Repo, p \in Folder : AddAssetFolder(r, p) \/ RemoveAssetFolder(r, p)
    PROVE  IInv'
<1>0. \A r \in repo_config : r \in Repo /\ LoadManifest(r) \in Manifest
  BY LoadSound DEF IInv, Types
<1>1. ASSUME NEW g \in Resource, NEW p \in Path, UpdateAssetPath(g, p)
      PROVE  IInv'
  <2> DEFINE r == id_to_repo[g]
             e == [q \in {r} |-> With(LoadManifest(q), g, p)]
  <2>1. r \in repo_config /\ g \in Guids(LoadManifest(r)) /\ BeginEdits(e, "edit")
    BY <1>1 DEF UpdateAssetPath, IInv, Types
  <2> HIDE DEF r, e
  <2>2. LoadManifest(r) \in Manifest
    BY <2>1, <1>0
  <2>3. With(LoadManifest(r), g, p) \in Manifest
        /\ Guids(With(LoadManifest(r), g, p)) = Guids(LoadManifest(r))
    <3>1. Guids(LoadManifest(r)) \cup {g} = Guids(LoadManifest(r))
      BY <2>1
    <3> QED  BY <2>2, <3>1, WithSound
  <2>4. DOMAIN e = {r} /\ e[r] = With(LoadManifest(r), g, p)
    BY DEF e
  <2> QED  BY <2>1, <2>3, <2>4, BeginEditsSound
<1>2. ASSUME NEW p \in Folder, NEW q \in Path, MoveAssetFolder(p, q)
      PROVE  IInv'
  <2> DEFINE to == [x \in Path |-> IF InFolder(x, p)
                       THEN Append(q, Last(p)) \o SubSeq(x, Len(p) + 1, Len(x)) ELSE x]
             new == [r \in repo_config |-> Refolder(LoadManifest(r), to)]
             e == [r \in {x \in repo_config : new[x] # LoadManifest(x)} |-> new[r]]
  <2>1. BeginEdits(e, "edit") /\ \A r \in repo_config : new[r] \in Manifest
    BY <1>2 DEF MoveAssetFolder
  <2>2. \A r \in repo_config : Guids(new[r]) = Guids(LoadManifest(r))
    <3> HIDE DEF to
    <3> QED  BY <1>0, RefolderSound
  <2> HIDE DEF new
  <2>3. \A r \in DOMAIN e : r \in repo_config /\ e[r] = new[r]
    OBVIOUS
  <2> HIDE DEF e
  <2> QED  BY <2>1, <2>2, <2>3, BeginEditsSound
<1>3. ASSUME NEW r \in Repo, NEW p \in Folder, AddAssetFolder(r, p)
      PROVE  IInv'
  <2> DEFINE m == [LoadManifest(r) EXCEPT !.assetFolders = @ \cup {p}]
             e == [q \in {r} |-> m]
  <2>1. r \in repo_config /\ BeginEdits(e, "add")
    BY <1>3 DEF AddAssetFolder
  <2>2. m \in Manifest /\ Guids(m) = Guids(LoadManifest(r))
    BY <2>1, <1>0 DEF Manifest, Guids
  <2> HIDE DEF m
  <2>3. DOMAIN e = {r} /\ e[r] = m
    OBVIOUS
  <2> HIDE DEF e
  <2> QED  BY <2>1, <2>2, <2>3, BeginEditsSound
<1>4. ASSUME NEW r \in Repo, NEW p \in Folder, RemoveAssetFolder(r, p)
      PROVE  IInv'
  <2> DEFINE old == LoadManifest(r)
             to == [x \in Path |-> IF InFolder(x, p) THEN Front(p) ELSE x]
             kept == {x \in old.assetFolders : ~InFolder(x, p)}
             m == [resources |-> Refolder(old, to).resources, assetFolders |-> kept]
             e == [q \in {r} |-> m]
  <2>1. r \in repo_config /\ BeginEdits(e, "edit")
    BY <1>4 DEF RemoveAssetFolder
  <2>2. to \in [Path -> Path]
    BY PathAssumption
  <2>3. old \in Manifest /\ old.resources \in [Guids(old) -> Path]
        /\ Guids(old) \in SUBSET Resource /\ kept \in SUBSET Folder
    BY <1>0, <2>1, ManifestParts
  <2> DEFINE f == [g \in Guids(old) |-> to[old.resources[g]]]
  <2> HIDE DEF to, kept, old
  <2>4. m = [resources |-> f, assetFolders |-> kept]
    BY DEF Refolder
  <2>5. f \in [Guids(old) -> Path]
    <3> HIDE DEF m, e
    <3>1. \A g \in Guids(old) : to[old.resources[g]] \in Path
      BY <2>2, <2>3
    <3> QED  BY <3>1
  <2> HIDE DEF f, m
  <2>6. m \in Manifest /\ Guids(m) = Guids(old)
    BY <2>3, <2>4, <2>5, ManifestMade
  <2>7. DOMAIN e = {r} /\ e[r] = m
    OBVIOUS
  <2> HIDE DEF e
  <2> QED  BY <2>1, <2>6, <2>7, BeginEditsSound DEF old
<1> QED  BY <1>1, <1>2, <1>3, <1>4

LEMMA OpenEditSound ==
    ASSUME IInv, NEW r \in Repo, OpenEdit(r)
    PROVE  IInv'
<1>1. r \in repo_config
  BY DEF OpenEdit, IInv, EditsSound
<1>2. \A q \in Repo : LoadManifest(q)' = IF q = r THEN EmptyManifest ELSE LoadManifest(q)
  BY OpenedIsEmpty DEF OpenEdit, IInv
<1>3. \A q \in Repo : Here(q)' = Here(q)
  BY <1>1, <1>2 DEF OpenEdit, memory, Here
<1>4. Types' /\ DiskWithin' /\ OneHome' /\ HomeHasFiles' /\ HomesUsed' /\ TableExact'
  BY <1>1, <1>2, <1>3, EmptySound
  DEF OpenEdit, memory, history, IInv, Types, DiskWithin, OneHome, HomeHasFiles, HomesUsed,
      TableExact
<1>5. Synced' /\ SameLists' /\ ConfigSaved' /\ ImportedListed'
  BY <1>2 DEF OpenEdit, memory, history, IInv, Types, Synced, SameLists, OnItsWay, Resting,
      Opened, LoadRepositoryConfig, ConfigSaved,
              ImportedListed
<1>6. EditsSound' /\ ImportSound' /\ MoveSound'
  BY DEF OpenEdit, memory, IInv, EditsSound, ImportSound, MoveSound, Moving
<1> QED  BY <1>4, <1>5, <1>6 DEF IInv

LEMMA SaveEditSound ==
    ASSUME IInv, SaveEdit
    PROVE  IInv'
<1>1. /\ target \in DOMAIN edits /\ target \in repo_config /\ target \in Repo
      /\ edits[target] \in Manifest /\ Guids(edits[target]) = Guids(manifests[target])
  BY DEF SaveEdit, IInv, EditsSound, Types
<1>2. \A q \in Repo : LoadManifest(q)' = IF q = target THEN edits[target] ELSE LoadManifest(q)
  BY <1>1, WrittenIsLoaded DEF SaveEdit, IInv
<1>3. /\ manifests' \in [repo_config -> Manifest]
      /\ \A q \in repo_config : /\ manifests'[q] = IF q = target THEN edits[target] ELSE manifests[q]
                               /\ Guids(manifests'[q]) = Guids(manifests[q])
  BY <1>1 DEF SaveEdit, IInv, Types
<1>4. \A q \in Repo : Here(q)' = Here(q)
  BY <1>1, <1>2, <1>3 DEF SaveEdit, Here
<1>5. Types'
  BY <1>1, <1>3 DEF SaveEdit, IInv, Types
<1>6. DiskWithin'
  <2>1. \A q \in Repo : Guids(LoadManifest(q)') \subseteq Here(q) \cup notSaved
    BY <1>1, <1>2 DEF IInv, DiskWithin, Here
  <2> QED  BY <2>1, <1>4 DEF SaveEdit, history, DiskWithin
<1>7. OneHome' /\ HomeHasFiles' /\ HomesUsed' /\ TableExact'
  <2>1. OneHome' /\ HomeHasFiles'
    BY <1>4 DEF SaveEdit, history, IInv, OneHome, HomeHasFiles
  <2>2. HomesUsed'
    <3>1. \A q \in Repo : Here(q)' \cup Guids(LoadManifest(q)') \subseteq used
      BY <1>1, <1>2, <1>4 DEF IInv, HomesUsed, Here
    <3> QED  BY <3>1 DEF SaveEdit, history, HomesUsed
  <2>3. TableExact'
    <3>1. \A g \in DOMAIN id_to_repo : g \in Guids(manifests'[id_to_repo[g]])
      BY <1>3 DEF IInv, Types, TableExact
    <3> QED  BY <1>3, <3>1 DEF SaveEdit, history, IInv, TableExact
  <2> QED  BY <2>1, <2>2, <2>3
<1>8. Synced' /\ SameLists' /\ ConfigSaved' /\ ImportedListed'
  BY <1>1, <1>2, <1>3
  DEF SaveEdit, history, IInv, Types, Synced, SameLists, OnItsWay, Resting, Opened,
      LoadRepositoryConfig, ConfigSaved, ImportedListed
<1>9. EditsSound' /\ ImportSound' /\ MoveSound'
  BY <1>3 DEF SaveEdit, IInv, EditsSound, ImportSound, MoveSound, Moving
<1> QED  BY <1>5, <1>6, <1>7, <1>8, <1>9 DEF IInv

LEMMA EditStepSound ==
    ASSUME IInv, Edit
    PROVE  IInv'
<1>1. ASSUME NEW r \in Repo, EditNotSaved(r)
      PROVE  IInv'
  <2>1. EditsSound' /\ ImportSound' /\ MoveSound'
    BY <1>1 DEF EditNotSaved, memory, IInv, EditsSound, ImportSound, MoveSound, Moving
  <2> QED  BY <1>1, <2>1, QuietStep DEF EditNotSaved, Opened, Resting
<1>2. CASE EndEdits
  <2>1. DOMAIN edits' = {}
    BY <1>2 DEF EndEdits, JobOver, NoEdits
  <2>2. CASE pc = "edit"
    BY <1>2, <2>1, <2>2, EndStep DEF EndEdits, Opened
  <2>3. CASE pc = "add"
    <3>1. EditsSound' /\ ImportSound' /\ MoveSound'
      BY <1>2, <2>1, <2>3 DEF EndEdits, EditsSound, ImportSound, MoveSound, Moving
    <3> QED  BY <1>2, <2>3, <3>1, QuietStep DEF EndEdits, Opened, Resting
  <2> QED  BY <1>2, <2>2, <2>3 DEF EndEdits
<1> QED  BY <1>1, <1>2, BeginningsSound, OpenEditSound, SaveEditSound DEF Edit

LEMMA CreateRepositorySound ==
    ASSUME IInv, (\E r \in Repo : CreateRepository(r)) \/ SaveConfig
    PROVE  IInv'
<1>1. \A r \in Repo : LoadManifest(r)' = LoadManifest(r) /\ Here(r)' = Here(r)
  BY DEF CreateRepository, SaveConfig, memory, LoadManifest, Here
<1>2. CASE \E r \in Repo : CreateRepository(r)
  <2>1. LoadRepositoryConfig = repo_config
    BY <1>2, NoneAssumption DEF CreateRepository, LoadRepositoryConfig, IInv, ConfigSaved, Types
  <2>2. Types' /\ DiskWithin' /\ OneHome' /\ HomeHasFiles' /\ HomesUsed' /\ TableExact'
    BY <1>1, <1>2
    DEF CreateRepository, memory, history, IInv, Types, DiskWithin, OneHome, HomeHasFiles,
        HomesUsed, TableExact
  <2>3. Synced' /\ SameLists' /\ ConfigSaved' /\ ImportedListed'
    BY <1>1, <1>2, <2>1
    DEF CreateRepository, memory, history, IInv, Types, Synced, SameLists, OnItsWay, Resting,
      Opened, LoadRepositoryConfig, ConfigSaved,
        ImportedListed
  <2>4. EditsSound' /\ ImportSound' /\ MoveSound'
    BY <1>2 DEF CreateRepository, memory, IInv, EditsSound, ImportSound, MoveSound, Moving
  <2> QED  BY <2>2, <2>3, <2>4 DEF IInv
<1>3. CASE SaveConfig
  <2>1. config \in SUBSET Repo /\ repo_config \subseteq config /\ config # None
    BY <1>3, NoneAssumption DEF SaveConfig, IInv, ConfigSaved
  <2>2. LoadRepositoryConfig' = config
    BY <1>3, <2>1 DEF SaveConfig, LoadRepositoryConfig
  <2>3. \A g \in DOMAIN id_to_repo : \E r \in config : g \in Guids(LoadManifest(r)')
    BY <1>1, <1>3, <2>1 DEF SaveConfig, IInv, Types, TableExact, Synced, Resting, Opened
  <2>4. imported' \ notSaved' \subseteq Listed'
    BY <1>3, <2>2, <2>3 DEF SaveConfig, history, IInv, ImportedListed, Listed
  <2>5. Types' /\ DiskWithin' /\ OneHome' /\ HomeHasFiles' /\ HomesUsed' /\ TableExact'
    BY <1>1, <1>3, <2>1
    DEF SaveConfig, memory, history, IInv, Types, DiskWithin, OneHome, HomeHasFiles,
        HomesUsed, TableExact
  <2>6. Synced' /\ SameLists' /\ ConfigSaved'
    BY <1>1, <1>3 DEF SaveConfig, memory, IInv, Types, Synced, SameLists, OnItsWay, Resting,
      Opened, LoadRepositoryConfig, ConfigSaved
  <2>7. EditsSound' /\ ImportSound' /\ MoveSound'
    BY <1>3 DEF SaveConfig, memory, job, IInv, EditsSound, ImportSound, MoveSound, Moving
  <2> QED  BY <1>3, <2>4, <2>5, <2>6, <2>7 DEF SaveConfig, IInv, ImportedListed
<1> QED  BY <1>2, <1>3

\* The inductive invariant: whatever the browser does and wherever the
\* program dies.
THEOREM InductiveInvariant == Spec => []IInv
<1>1. IInv /\ [Next]_vars => IInv'
  <2> SUFFICES ASSUME IInv, [Next]_vars PROVE IInv'
    OBVIOUS
  <2>1. CASE UNCHANGED vars
    <3>1. \A r \in Repo : LoadManifest(r)' = LoadManifest(r) /\ Here(r)' = Here(r)
      BY <2>1 DEF vars, disk, memory, LoadManifest, Here
    <3>2. Listed' = Listed
      BY <3>1, <2>1, MainAssumption DEF vars, disk, Listed, LoadRepositoryConfig, IInv, Types
    <3> QED
      BY <2>1, <3>1, <3>2
      DEF vars, disk, memory, job, history, IInv, Types, DiskWithin, OneHome, HomeHasFiles,
          HomesUsed, TableExact, Synced, SameLists, OnItsWay, Resting, Opened,
          LoadRepositoryConfig, ConfigSaved, ImportedListed, EditsSound,
          ImportSound, MoveSound, Moving
  <2> QED
    BY <2>1, LoadAllManifestsSound, ImportStepSound, MoveStepSound, EditStepSound,
       CreateRepositorySound, CrashSound
    DEF Next
<1> QED  BY <1>1, InitSound, PTL DEF Spec

\* On disk a resource is never listed by two repositories or without its files,
\* wherever the program dies and whatever could not be saved of other resources:
\* only its own import or move can do that, by a save that fails.
THEOREM DiskAlwaysSound == Spec => []DiskSound
<1>1. IInv => DiskSound
  BY DEF IInv, DiskWithin, OneHome, HomeHasFiles, DiskSound, OneListing, ListedHasFiles
<1> QED  BY <1>1, InductiveInvariant, PTL

\* Between two operations the manifests, the configuration and the tables in
\* memory are those of the disk, also after a manifest could not be saved.
THEOREM MemoryAlwaysMatches == Spec => []MemoryMatchesDisk
<1>1. IInv => MemoryMatchesDisk
  BY DEF IInv, Synced, SameLists, OnItsWay, Resting, Opened, LoadRepositoryConfig,
      ConfigSaved, TableExact, MemoryMatchesDisk
<1> QED  BY <1>1, InductiveInvariant, PTL

\* No operation of the browser loses a resource that was imported, but a move or
\* an import of that resource that could not save a manifest.
THEOREM NothingIsLost == Spec => []NothingLost
<1>1. IInv => NothingLost
  BY DEF IInv, ImportedListed, NothingLost
<1> QED  BY <1>1, InductiveInvariant, PTL
-----------------------------------------------------------------------------
(* UndoSystem *)

\* How many commands can be undone, and redone.
Before == Len(undoStack)
After == Len(redoStack)

\* Each command on a stack was made on what the one before it left, and the
\* document is where the two stacks meet.
UndoIInv ==
    /\ undoStack \in Seq(Command) /\ redoStack \in Seq(Command)
    /\ content \in Content /\ pushed \in Content
    /\ \A i \in 1 .. Before - 1 : undoStack[i].to = undoStack[i + 1].from
    /\ Before > 0 => undoStack[Before].to = content
    /\ \A i \in 1 .. After - 1 : redoStack[i + 1].to = redoStack[i].from
    /\ After > 0 => redoStack[After].from = content

\* The two stacks change by one command at their ends.
LEMMA UndoParts ==
    ASSUME UndoIInv
    PROVE  /\ Before \in Nat /\ After \in Nat
           /\ undoStack = <<>> <=> Before = 0
           /\ redoStack = <<>> <=> After = 0
           /\ \A i \in 1 .. Before : undoStack[i].from \in Content /\ undoStack[i].to \in Content
           /\ \A i \in 1 .. After : redoStack[i].from \in Content /\ redoStack[i].to \in Content
<1>1. /\ undoStack \in Seq(Command) /\ redoStack \in Seq(Command)
  BY DEF UndoIInv
<1>2. /\ Before \in Nat /\ After \in Nat
      /\ undoStack = <<>> <=> Before = 0
      /\ redoStack = <<>> <=> After = 0
  BY <1>1, LenProperties, EmptySeq DEF Before, After
<1>3. /\ \A i \in 1 .. Before : undoStack[i] \in Command
      /\ \A i \in 1 .. After : redoStack[i] \in Command
  BY <1>1, ElementOfSeq DEF Before, After
<1> QED
  BY <1>2, <1>3 DEF Command

\* What a push, an undo and a redo make of the stacks, place by place.
Excess == IF Before + 1 > MaxDepth THEN 1 ELSE 0

\* What pushing a command makes of the stacks.
LEMMA PushParts ==
    ASSUME UndoIInv, PushCommand
    PROVE  /\ content' = pushed + 1 /\ content' \in Content /\ pushed' = content'
           /\ undoStack' \in Seq(Command) /\ redoStack' = <<>>
           /\ Before' = Before + 1 - Excess /\ After' = 0
           /\ \A i \in 1 .. Before' : undoStack'[i] =
                 IF i + Excess = Before + 1 THEN [from |-> content, to |-> content']
                 ELSE undoStack[i + Excess]
<1> DEFINE cmd == [from |-> content, to |-> content']
           longer == Append(undoStack, cmd)
<1>1. /\ content' = pushed + 1 /\ pushed' = pushed + 1 /\ content' \in Content
      /\ redoStack' = <<>> /\ undoStack' = Trimmed(longer) /\ cmd \in Command
  BY DepthAssumption DEF UndoIInv, PushCommand, Content, Command
<1>2. /\ longer \in Seq(Command) /\ Len(longer) = Before + 1 /\ longer # <<>>
      /\ \A i \in 1 .. Before : longer[i] = undoStack[i]
      /\ longer[Before + 1] = cmd
  BY <1>1, AppendProperties DEF UndoIInv, Before
<1>3. Before \in Nat /\ MaxDepth \in Int
  BY UndoParts, DepthAssumption
<1> HIDE DEF longer, cmd
<1>4. CASE Before + 1 > MaxDepth
  <2>1. undoStack' = Tail(longer) /\ Excess = 1
    BY <1>1, <1>2, <1>4 DEF Trimmed, Excess
  <2>2. /\ undoStack' \in Seq(Command) /\ Len(undoStack') = Before
        /\ \A i \in 1 .. Before : undoStack'[i] = longer[i + 1]
    BY <1>2, <1>3, <2>1, HeadTailProperties
  <2>3. \A i \in 1 .. Before : undoStack'[i] = IF i + 1 = Before + 1 THEN cmd ELSE undoStack[i + 1]
    BY <1>2, <1>3, <2>2
  <2>4. Before' = Before + 1 - Excess /\ After' = 0
    BY <1>1, <1>3, <2>1, <2>2, EmptySeq DEF Before, After
  <2>5. \A i \in 1 .. Before' : undoStack'[i] = IF i + Excess = Before + 1 THEN cmd
                                               ELSE undoStack[i + Excess]
    <3>1. Before' = Before /\ Excess = 1
      BY <1>3, <2>1, <2>4
    <3> QED
      BY <2>3, <3>1
  <2> QED
    BY <1>1, <2>2, <2>4, <2>5 DEF cmd
<1>5. CASE ~(Before + 1 > MaxDepth)
  <2>1. undoStack' = longer /\ Excess = 0
    BY <1>1, <1>2, <1>5 DEF Trimmed, Excess
  <2>2. \A i \in 1 .. Before + 1 : undoStack'[i] = IF i = Before + 1 THEN cmd ELSE undoStack[i]
    BY <1>2, <1>3, <2>1
  <2> QED
    BY <1>1, <1>2, <1>3, <2>1, <2>2, EmptySeq DEF Before, After, cmd
<1> QED
  BY <1>4, <1>5

\* A command goes from the end of one stack to the end of the other.
LEMMA MoveParts ==
    ASSUME NEW s \in Seq(Command), NEW t \in Seq(Command), s # <<>>
    PROVE  /\ Last(s) = s[Len(s)] /\ Len(s) \in Nat \ {0} /\ Len(t) \in Nat
           /\ Front(s) \in Seq(Command) /\ Len(Front(s)) = Len(s) - 1
           /\ \A i \in 1 .. Len(s) - 1 : Front(s)[i] = s[i]
           /\ Append(t, Last(s)) \in Seq(Command) /\ Len(Append(t, Last(s))) = Len(t) + 1
           /\ \A i \in 1 .. Len(t) : Append(t, Last(s))[i] = t[i]
           /\ Append(t, Last(s))[Len(t) + 1] = s[Len(s)]
<1>1. Len(s) \in Nat \ {0} /\ Len(t) \in Nat /\ s[Len(s)] \in Command
  BY EmptySeq, LenProperties, ElementOfSeq
<1>2. Last(s) = s[Len(s)]
  BY DEF Last
<1>3. /\ Front(s) \in Seq(Command) /\ Len(Front(s)) = Len(s) - 1
      /\ \A i \in 1 .. Len(s) - 1 : Front(s)[i] = s[i]
  <2> DEFINE n == Len(s) - 1
             sub == SubSeq(s, 1, n)
  <2>1. n \in Nat /\ \A i \in 1 .. n : s[i] \in Command
    BY <1>1, ElementOfSeq
  <2>2. /\ sub \in Seq(Command)
        /\ Len(sub) = IF 1 <= n THEN n - 1 + 1 ELSE 0
        /\ \A i \in 1 .. n - 1 + 1 : sub[i] = s[1 + i - 1]
    <3> HIDE DEF n
    <3> QED
      BY <2>1, SubSeqProperties
  <2>3. Front(s) = sub
    BY DEF Front
  <2> HIDE DEF sub, n
  <2>4. Len(sub) = n /\ \A i \in 1 .. n : sub[i] = s[i]
    BY <2>1, <2>2
  <2> QED
    BY <2>2, <2>3, <2>4 DEF n
<1> QED
  BY <1>1, <1>2, <1>3, AppendProperties

\* Every step keeps the two stacks meeting at the document.
LEMMA UndoKept == UndoIInv /\ [UndoNext]_undoVars => UndoIInv'
<1> SUFFICES ASSUME UndoIInv, [UndoNext]_undoVars PROVE UndoIInv'
  OBVIOUS
<1>0. /\ undoStack \in Seq(Command) /\ redoStack \in Seq(Command)
      /\ content \in Content /\ pushed \in Content
      /\ \A i \in 1 .. Before - 1 : undoStack[i].to = undoStack[i + 1].from
      /\ Before > 0 => undoStack[Before].to = content
      /\ \A i \in 1 .. After - 1 : redoStack[i + 1].to = redoStack[i].from
      /\ After > 0 => redoStack[After].from = content
  BY DEF UndoIInv
<1>a. /\ Before \in Nat /\ After \in Nat
      /\ undoStack = <<>> <=> Before = 0
      /\ redoStack = <<>> <=> After = 0
      /\ \A i \in 1 .. Before : undoStack[i].from \in Content /\ undoStack[i].to \in Content
      /\ \A i \in 1 .. After : redoStack[i].from \in Content /\ redoStack[i].to \in Content
  BY UndoParts
<1>1. CASE PushCommand
  <2>1. /\ content' = pushed + 1 /\ content' \in Content /\ pushed' = content'
        /\ undoStack' \in Seq(Command) /\ redoStack' = <<>>
        /\ Before' = Before + 1 - Excess /\ After' = 0 /\ Excess \in {0, 1}
        /\ \A i \in 1 .. Before' : undoStack'[i] =
              IF i + Excess = Before + 1 THEN [from |-> content, to |-> content']
              ELSE undoStack[i + Excess]
    BY <1>1, PushParts DEF Excess
  <2>2. ASSUME NEW i \in 1 .. Before' - 1
        PROVE  undoStack'[i].to = undoStack'[i + 1].from
    <3>1. undoStack'[i] = undoStack[i + Excess] /\ i + Excess \in 1 .. Before
      BY <1>a, <2>1
    <3>2. CASE i + 1 + Excess = Before + 1
      BY SMTT(30), <1>0, <1>a, <2>1, <3>1, <3>2
    <3>3. CASE i + 1 + Excess # Before + 1
      <4>1. i + Excess \in 1 .. Before - 1 /\ i + 1 \in 1 .. Before'
        BY <1>a, <2>1, <3>1, <3>3
      <4>2. undoStack'[i + 1] = undoStack[i + Excess + 1]
        BY <1>a, <2>1, <3>3, <4>1
      <4> QED
        BY <1>0, <3>1, <4>1, <4>2
    <3> QED
      BY <3>2, <3>3
  <2>3. Before' > 0 => undoStack'[Before'].to = content'
    BY <1>a, <2>1
  <2>4. redoStack' \in Seq(Command)
    BY <2>1, EmptySeq
  <2> QED
    BY <2>1, <2>2, <2>3, <2>4 DEF UndoIInv
<1>2. CASE UndoCommand
  <2>1. /\ content' = undoStack[Before].from /\ pushed' = pushed /\ Before > 0
        /\ undoStack' \in Seq(Command) /\ Before' = Before - 1
        /\ \A i \in 1 .. Before - 1 : undoStack'[i] = undoStack[i]
        /\ redoStack' \in Seq(Command) /\ After' = After + 1
        /\ \A i \in 1 .. After : redoStack'[i] = redoStack[i]
        /\ redoStack'[After + 1] = undoStack[Before]
    BY <1>0, <1>a, <1>2, MoveParts DEF UndoCommand, Before, After
  <2>2. /\ \A i \in 1 .. Before' - 1 : undoStack'[i].to = undoStack'[i + 1].from
        /\ Before' > 0 => undoStack'[Before'].to = content'
    <3>1. \A i \in 1 .. Before - 1 : undoStack[i].to = undoStack[i + 1].from
      BY <1>0
    <3>2. \A i \in 1 .. Before' - 1 : i \in 1 .. Before - 1 /\ i + 1 \in 1 .. Before - 1
      BY <1>a, <2>1
    <3>3. Before' > 0 => Before - 1 \in 1 .. Before - 1 /\ Before' = Before - 1
      BY <1>a, <2>1
    <3>4. Before' > 0 => undoStack[Before - 1].to = undoStack[Before - 1 + 1].from
      BY <3>1, <3>3
    <3>5. Before - 1 + 1 = Before
      BY <1>a
    <3> QED
      BY <2>1, <3>1, <3>2, <3>3, <3>4, <3>5
  <2>3. ASSUME NEW i \in 1 .. After' - 1
        PROVE  redoStack'[i + 1].to = redoStack'[i].from
    <3>1. CASE i = After
      BY <1>0, <1>a, <2>1, <3>1
    <3>2. CASE i # After
      <4>1. i \in 1 .. After - 1 /\ i \in 1 .. After /\ i + 1 \in 1 .. After
        BY <1>a, <2>1, <3>2
      <4> QED
        BY <1>0, <2>1, <4>1
    <3> QED
      BY <3>1, <3>2
  <2>4. content' \in Content /\ pushed' \in Content /\ (After' > 0 => redoStack'[After'].from = content')
    BY <1>0, <1>a, <2>1
  <2> QED
    BY <2>1, <2>2, <2>3, <2>4 DEF UndoIInv
<1>3. CASE RedoCommand
  <2>1. /\ content' = redoStack[After].to /\ pushed' = pushed /\ After > 0
        /\ redoStack' \in Seq(Command) /\ After' = After - 1
        /\ \A i \in 1 .. After - 1 : redoStack'[i] = redoStack[i]
        /\ undoStack' \in Seq(Command) /\ Before' = Before + 1
        /\ \A i \in 1 .. Before : undoStack'[i] = undoStack[i]
        /\ undoStack'[Before + 1] = redoStack[After]
    BY <1>0, <1>a, <1>3, MoveParts DEF RedoCommand, Before, After
  <2>2. /\ \A i \in 1 .. After' - 1 : redoStack'[i + 1].to = redoStack'[i].from
        /\ After' > 0 => redoStack'[After'].from = content'
    <3>1. \A i \in 1 .. After - 1 : redoStack[i + 1].to = redoStack[i].from
      BY <1>0
    <3>2. \A i \in 1 .. After' - 1 : i \in 1 .. After - 1 /\ i + 1 \in 1 .. After - 1
      BY <1>a, <2>1
    <3>3. After' > 0 => After - 1 \in 1 .. After - 1 /\ After' = After - 1
      BY <1>a, <2>1
    <3>4. After' > 0 => redoStack[After - 1 + 1].to = redoStack[After - 1].from
      BY <3>1, <3>3
    <3>5. After - 1 + 1 = After
      BY <1>a
    <3> QED
      BY <2>1, <3>1, <3>2, <3>3, <3>4, <3>5
  <2>3. ASSUME NEW i \in 1 .. Before' - 1
        PROVE  undoStack'[i].to = undoStack'[i + 1].from
    <3>1. CASE i = Before
      BY <1>0, <1>a, <2>1, <3>1
    <3>2. CASE i # Before
      <4>1. i \in 1 .. Before - 1 /\ i \in 1 .. Before /\ i + 1 \in 1 .. Before
        BY <1>a, <2>1, <3>2
      <4> QED
        BY <1>0, <2>1, <4>1
    <3> QED
      BY <3>1, <3>2
  <2>4. content' \in Content /\ pushed' \in Content /\ (Before' > 0 => undoStack'[Before'].to = content')
    BY <1>0, <1>a, <2>1
  <2> QED
    BY <2>1, <2>2, <2>3, <2>4 DEF UndoIInv
<1>4. CASE UNCHANGED undoVars
  BY <1>4 DEF undoVars, UndoIInv, Before, After
<1> QED
  BY <1>1, <1>2, <1>3, <1>4 DEF UndoNext

\* The two stacks meet at the document in every reachable state.
THEOREM UndoInvariant == UndoSpec => []UndoIInv
<1>1. UndoInit => UndoIInv
  BY DepthAssumption, EmptySeq DEF UndoInit, UndoIInv, Content, Before, After
<1> QED
  BY <1>1, UndoKept, PTL DEF UndoSpec
-----------------------------------------------------------------------------

\* The document at each place of the line.
LineAt(k) == IF k <= Before THEN undoStack[k].from
             ELSE IF k = Before + 1 THEN content ELSE redoStack[After + Before + 2 - k].to

\* UndoLine read place by place is LineAt.
LEMMA LineByPlace ==
    UndoIInv => UndoLine = [k \in 1 .. Before + After + 1 |-> LineAt(k)]
<1> SUFFICES ASSUME UndoIInv PROVE UndoLine = [k \in 1 .. Before + After + 1 |-> LineAt(k)]
  OBVIOUS
<1>0. /\ undoStack \in Seq(Command) /\ redoStack \in Seq(Command)
      /\ \A i \in 1 .. Before - 1 : undoStack[i].to = undoStack[i + 1].from
      /\ Before > 0 => undoStack[Before].to = content
      /\ After > 0 => redoStack[After].from = content
      /\ content \in Content
  BY DEF UndoIInv
<1>1. /\ Before \in Nat /\ After \in Nat
      /\ undoStack = <<>> <=> Before = 0
      /\ redoStack = <<>> <=> After = 0
      /\ \A i \in 1 .. Before : undoStack[i].from \in Content /\ undoStack[i].to \in Content
      /\ \A i \in 1 .. After : redoStack[i].from \in Content /\ redoStack[i].to \in Content
  BY UndoParts
<1> DEFINE commands == undoStack \o RedoOrder
           m == Before + After
<1>2. /\ RedoOrder \in Seq(Command) /\ Len(RedoOrder) = After
      /\ \A i \in 1 .. After : RedoOrder[i] = redoStack[After - i + 1]
  BY <1>0, <1>1 DEF RedoOrder, Reverse, After
<1>3. /\ commands \in Seq(Command) /\ Len(commands) = m /\ DOMAIN commands = 1 .. m
      /\ \A i \in 1 .. m : commands[i] = IF i <= Before THEN undoStack[i]
                                        ELSE redoStack[After - (i - Before) + 1]
  <2>1. /\ commands \in Seq(Command) /\ Len(commands) = m
        /\ \A i \in 1 .. m : commands[i] = IF i <= Before THEN undoStack[i]
                                          ELSE RedoOrder[i - Before]
    BY <1>0, <1>2, ConcatProperties DEF Before
  <2>2. \A i \in 1 .. m : i > Before => i - Before \in 1 .. After
    BY <1>1
  <2>3. DOMAIN commands = 1 .. m
    BY <2>1, LenProperties
  <2>4. \A i \in 1 .. m : i > Before => RedoOrder[i - Before] = redoStack[After - (i - Before) + 1]
    BY <1>2, <2>2
  <2> HIDE DEF commands
  <2> QED
    BY <1>1, <2>1, <2>3, <2>4
<1> HIDE DEF commands
<1>4. CASE m = 0
  <2>1. commands = <<>> /\ Before = 0 /\ After = 0
    BY <1>1, <1>3, <1>4, EmptySeq
  <2>2. UndoLine = <<content>>
    BY <2>1 DEF UndoLine, commands
  <2>3. [k \in 1 .. Before + After + 1 |-> LineAt(k)] = [k \in 1 .. 1 |-> content]
    BY <2>1 DEF LineAt
  <2> QED
    BY <2>2, <2>3
<1>5. CASE m > 0
  <2> DEFINE later == [i \in 1 .. m |-> commands[i].to]
             first == <<commands[1].from>>
  <2>1. UndoLine = first \o later
    <3>1. commands # <<>>
      BY <1>1, <1>3, <1>5, EmptySeq
    <3> QED
      BY <1>3, <3>1 DEF UndoLine, commands
  <2>2. /\ later \in Seq(Content) /\ Len(later) = m
        /\ first \in Seq(Content) /\ Len(first) = 1 /\ first[1] = commands[1].from
    <3>1. \A i \in 1 .. m : commands[i].to \in Content /\ commands[i].from \in Content
      <4>1. \A i \in 1 .. m : commands[i] \in Command
        BY <1>3, ElementOfSeq
      <4> QED
        BY <4>1 DEF Command
    <3>2. 1 \in 1 .. m
      BY <1>1, <1>5
    <3> QED
      BY <1>1, <3>1, <3>2
  <2> HIDE DEF later
  <2>3. /\ UndoLine \in Seq(Content) /\ Len(UndoLine) = m + 1
        /\ \A k \in 1 .. m + 1 : UndoLine[k] = IF k <= 1 THEN first[k] ELSE later[k - 1]
    <3>1. Len(first) + Len(later) = m + 1
      BY <1>1, <2>2
    <3> QED
      BY <2>1, <2>2, <3>1, ConcatProperties
  <2>4. ASSUME NEW k \in 1 .. m + 1 PROVE UndoLine[k] = LineAt(k)
    <3>1. CASE k = 1
      <4>1. UndoLine[k] = commands[1].from
        BY <2>2, <2>3, <3>1
      <4>2. CASE Before > 0
        BY <1>1, <1>3, <1>5, <3>1, <4>1, <4>2 DEF LineAt
      <4>3. CASE Before = 0
        <5>1. commands[1] = redoStack[After] /\ After > 0
          BY <1>1, <1>3, <1>5, <4>3
        <5> QED
          BY <1>0, <3>1, <4>1, <4>3, <5>1 DEF LineAt
      <4> QED
        BY <1>1, <4>2, <4>3
    <3>2. CASE k > 1
      <4>1. k - 1 \in 1 .. m /\ UndoLine[k] = commands[k - 1].to
        <5>1. k - 1 \in 1 .. m /\ ~(k <= 1)
          BY <1>1, <3>2
        <5>2. UndoLine[k] = later[k - 1]
          BY <2>3, <5>1
        <5> QED
          BY <5>1, <5>2 DEF later
      <4>2. CASE k <= Before
        <5>1. commands[k - 1] = undoStack[k - 1] /\ k - 1 \in 1 .. Before - 1 /\ k - 1 + 1 = k
          BY <1>1, <1>3, <4>1, <4>2
        <5> QED
          BY <1>0, <4>1, <4>2, <5>1 DEF LineAt
      <4>3. CASE k = Before + 1
        <5>1. commands[k - 1] = undoStack[Before] /\ Before > 0
          BY <1>1, <1>3, <3>2, <4>1, <4>3
        <5> QED
          BY <1>0, <1>1, <4>1, <4>3, <5>1 DEF LineAt
      <4>4. CASE k > Before + 1
        <5>1. commands[k - 1] = redoStack[After + Before + 2 - k]
          <6>1. After - ((k - 1) - Before) + 1 = After + Before + 2 - k /\ ~(k - 1 <= Before)
            BY <1>1, <4>4
          <6> QED
            BY <1>3, <4>1, <6>1
        <5> QED
          BY <1>1, <4>1, <4>4, <5>1 DEF LineAt
      <4> QED
        BY <1>1, <4>2, <4>3, <4>4
    <3> QED
      BY <1>1, <3>1, <3>2
  <2> QED
    BY <1>1, <2>3, <2>4, LenProperties
<1> QED
  BY <1>1, <1>4, <1>5

\* The line of the next state.
LEMMA LineByPlaceNext ==
    (UndoIInv => UndoLine = [k \in 1 .. Before + After + 1 |-> LineAt(k)])'
BY LineByPlace, PTL

LineIsTyped ==
    /\ UndoLine \in Seq(Content) /\ Len(UndoLine) = Before + After + 1
    /\ \A k \in 1 .. Before + After + 1 : UndoLine[k] = LineAt(k)

\* The line is a sequence as long as the stacks and the document.
LEMMA LineTyped == UndoIInv => LineIsTyped
<1> SUFFICES ASSUME UndoIInv PROVE LineIsTyped
  OBVIOUS
<1>1. /\ Before \in Nat /\ After \in Nat
      /\ \A i \in 1 .. Before : undoStack[i].from \in Content
      /\ \A i \in 1 .. After : redoStack[i].to \in Content
  BY UndoParts
<1>2. \A k \in 1 .. Before + After + 1 : LineAt(k) \in Content
  <2> SUFFICES ASSUME NEW k \in 1 .. Before + After + 1 PROVE LineAt(k) \in Content
    OBVIOUS
  <2>1. k > Before + 1 => After + Before + 2 - k \in 1 .. After
    BY <1>1
  <2> QED
    BY <1>1, <2>1 DEF LineAt, UndoIInv
<1> QED
  BY <1>1, <1>2, LineByPlace DEF LineIsTyped

\* The same in the next state.
LEMMA LineTypedNext == (UndoIInv => LineIsTyped)'
BY LineTyped, PTL

\* A push is an edit of the timeline.
LEMMA PushIsEdit ==
    UndoIInv /\ UndoIInv' /\ PushCommand => \E d \in Content : UndoTimeline!Edit(d)
<1> SUFFICES ASSUME UndoIInv, UndoIInv', PushCommand PROVE UndoTimeline!Edit(content')
  BY DEF UndoIInv
<1>1. /\ content' \in Content /\ Before' = Before + 1 - Excess /\ After' = 0 /\ Excess \in {0, 1}
      /\ \A i \in 1 .. Before' : undoStack'[i] =
            IF i + Excess = Before + 1 THEN [from |-> content, to |-> content']
            ELSE undoStack[i + Excess]
  BY PushParts DEF Excess
<1>2. Before \in Nat /\ After \in Nat
  BY UndoParts
<1>3. /\ UndoLine \in Seq(Content) /\ Len(UndoLine) = Before + After + 1
      /\ \A k \in 1 .. Before + After + 1 : UndoLine[k] = LineAt(k)
  BY LineTyped DEF LineIsTyped
<1> DEFINE past == SubSeq(UndoLine, 1, Before + 1)
           longer == Append(past, content')
           rest == SubSeq(longer, Excess + 1, Len(longer))
<1>4. /\ past \in Seq(Content) /\ Len(past) = Before + 1
      /\ \A k \in 1 .. Before + 1 : past[k] = LineAt(k)
  <2>1. \A k \in 1 .. Before + 1 : UndoLine[k] \in Content /\ UndoLine[k] = LineAt(k)
    BY <1>2, <1>3, ElementOfSeq
  <2>2. /\ past \in Seq(Content)
        /\ Len(past) = IF 1 <= Before + 1 THEN Before + 1 - 1 + 1 ELSE 0
        /\ \A k \in 1 .. Before + 1 - 1 + 1 : past[k] = UndoLine[1 + k - 1]
    BY <1>2, <2>1, SubSeqProperties
  <2> HIDE DEF past
  <2> QED
    BY <1>2, <2>1, <2>2
<1> HIDE DEF past
<1>5. /\ longer \in Seq(Content) /\ Len(longer) = Before + 2
      /\ \A k \in 1 .. Before + 1 : longer[k] = LineAt(k)
      /\ longer[Before + 2] = content'
  <2>1. /\ longer \in Seq(Content) /\ Len(longer) = Len(past) + 1
        /\ \A k \in 1 .. Len(past) : longer[k] = past[k]
        /\ longer[Len(past) + 1] = content'
    BY <1>1, <1>4, AppendProperties
  <2> HIDE DEF longer
  <2> QED
    BY <1>2, <1>4, <2>1
<1> HIDE DEF longer
<1>6. /\ rest \in Seq(Content) /\ Len(rest) = Before + 2 - Excess
      /\ \A i \in 1 .. Before + 2 - Excess : rest[i] = longer[i + Excess]
  <2>1. \A i \in Excess + 1 .. Len(longer) : longer[i] \in Content
    BY <1>1, <1>2, <1>5, ElementOfSeq
  <2>2. /\ rest \in Seq(Content)
        /\ Len(rest) = IF Excess + 1 <= Len(longer) THEN Len(longer) - (Excess + 1) + 1 ELSE 0
        /\ \A i \in 1 .. Len(longer) - (Excess + 1) + 1 : rest[i] = longer[(Excess + 1) + i - 1]
    BY <1>1, <1>2, <1>5, <2>1, SubSeqProperties
  <2>3. /\ Len(longer) - (Excess + 1) + 1 = Before + 2 - Excess /\ Excess + 1 <= Len(longer)
        /\ \A i \in 1 .. Before + 2 - Excess : (Excess + 1) + i - 1 = i + Excess
    BY <1>1, <1>2, <1>5
  <2> HIDE DEF rest
  <2> QED
    BY <2>2, <2>3
<1> HIDE DEF rest
<1>7. /\ UndoLine' \in Seq(Content) /\ Len(UndoLine') = Before' + After' + 1
      /\ \A k \in 1 .. Before' + After' + 1 : UndoLine'[k] = LineAt(k)'
  BY LineTypedNext DEF LineIsTyped
<1>8. ASSUME NEW k \in 1 .. Before + 2 - Excess PROVE LineAt(k)' = rest[k]
  <2>1. rest[k] = longer[k + Excess] /\ k + Excess \in 1 .. Before + 2 /\ k + Excess \in Nat
    BY <1>1, <1>2, <1>6
  <2>2. CASE k + Excess <= Before
    <3>1. LineAt(k)' = undoStack[k + Excess].from
      BY <1>1, <1>2, <2>1, <2>2 DEF LineAt
    <3>2. longer[k + Excess] = undoStack[k + Excess].from
      BY <1>1, <1>2, <1>5, <2>1, <2>2 DEF LineAt
    <3> QED
      BY <2>1, <3>1, <3>2
  <2>3. CASE k + Excess = Before + 1
    <3>1. LineAt(k)' = content
      BY <1>1, <1>2, <2>1, <2>3 DEF LineAt
    <3>2. longer[k + Excess] = content
      BY SMTT(30), <1>1, <1>2, <1>5, <2>1, <2>3 DEF LineAt
    <3> QED
      BY <2>1, <3>1, <3>2
  <2>4. CASE k + Excess = Before + 2
    <3>1. LineAt(k)' = content'
      BY <1>1, <1>2, <2>1, <2>4 DEF LineAt
    <3> QED
      BY <1>5, <2>1, <2>4, <3>1
  <2> QED
    BY <1>2, <2>1, <2>2, <2>3, <2>4
<1>9. UndoLine' = rest
  <2>1. Before' + After' + 1 = Before + 2 - Excess
    BY <1>1, <1>2
  <2> QED
    BY <1>6, <1>7, <1>8, <2>1, SeqEqual
<1>10. Excess \in 0 .. Before + 1 /\ Before' + 1 = Len(UndoLine')
  BY <1>1, <1>2, <1>6, <1>9
<1> QED
  BY <1>9, <1>10 DEF UndoTimeline!Edit, UndoTimeline!From, rest, longer, past, Before

\* An undo or a redo keeps the line and moves along it.
LEMMA MoveIsGo ==
    UndoIInv /\ UndoIInv' /\ (UndoCommand \/ RedoCommand)
        => \E place \in DOMAIN UndoLine : UndoTimeline!Go(place)
<1> SUFFICES ASSUME UndoIInv, UndoIInv', UndoCommand \/ RedoCommand
             PROVE  \E place \in DOMAIN UndoLine : UndoTimeline!Go(place)
  OBVIOUS
<1>1. /\ Before \in Nat /\ After \in Nat
      /\ undoStack = <<>> <=> Before = 0
      /\ redoStack = <<>> <=> After = 0
  BY UndoParts
<1>2. /\ undoStack \in Seq(Command) /\ redoStack \in Seq(Command)
      /\ Before > 0 => undoStack[Before].to = content
      /\ After > 0 => redoStack[After].from = content
  BY DEF UndoIInv
<1>3. /\ UndoLine = [k \in 1 .. Before + After + 1 |-> LineAt(k)]
      /\ UndoLine' = [k \in 1 .. Before' + After' + 1 |-> LineAt(k)']
  BY LineByPlace, LineByPlaceNext
<1>4. CASE UndoCommand
  <2>1. /\ content' = undoStack[Before].from /\ Before > 0 /\ Before' = Before - 1
        /\ \A i \in 1 .. Before - 1 : undoStack'[i] = undoStack[i]
        /\ After' = After + 1
        /\ \A i \in 1 .. After : redoStack'[i] = redoStack[i]
        /\ redoStack'[After + 1] = undoStack[Before]
    BY <1>1, <1>2, <1>4, MoveParts DEF UndoCommand, Before, After
  <2>2. ASSUME NEW k \in 1 .. Before + After + 1 PROVE LineAt(k)' = LineAt(k)
    <3>0. /\ After' + Before' + 2 - k = After + Before + 2 - k
          /\ k > Before + 1 => After + Before + 2 - k \in 1 .. After
          /\ After + Before + 2 - (Before + 1) = After + 1
      BY <1>1, <2>1
    <3>1. CASE k <= Before - 1
      BY <1>1, <2>1, <3>1 DEF LineAt
    <3>2. CASE k = Before
      BY <1>1, <2>1, <3>2 DEF LineAt
    <3>3. CASE k = Before + 1
      BY <1>1, <1>2, <2>1, <3>0, <3>3 DEF LineAt
    <3>4. CASE k > Before + 1
      BY <1>1, <2>1, <3>0, <3>4 DEF LineAt
    <3> QED
      BY <1>1, <3>1, <3>2, <3>3, <3>4
  <2>3. Before' + After' + 1 = Before + After + 1 /\ Before \in 1 .. Before + After + 1
        /\ Before' + 1 = Before
    BY <1>1, <2>1
  <2>4. UndoLine' = UndoLine /\ UndoLine[Before] = content' /\ Before \in DOMAIN UndoLine
    BY <1>1, <1>3, <2>1, <2>2, <2>3 DEF LineAt
  <2>5. UndoTimeline!Go(Before)
    BY <2>3, <2>4 DEF UndoTimeline!Go, Before
  <2> QED
    BY <2>4, <2>5
<1>5. CASE RedoCommand
  <2>1. /\ content' = redoStack[After].to /\ After > 0 /\ After' = After - 1
        /\ \A i \in 1 .. After - 1 : redoStack'[i] = redoStack[i]
        /\ Before' = Before + 1
        /\ \A i \in 1 .. Before : undoStack'[i] = undoStack[i]
        /\ undoStack'[Before + 1] = redoStack[After]
    BY <1>1, <1>2, <1>5, MoveParts DEF RedoCommand, Before, After
  <2>2. ASSUME NEW k \in 1 .. Before + After + 1 PROVE LineAt(k)' = LineAt(k)
    <3>0. /\ After' + Before' + 2 - k = After + Before + 2 - k
          /\ k > Before + 2 => After + Before + 2 - k \in 1 .. After - 1
          /\ After + Before + 2 - (Before + 2) = After
      BY <1>1, <2>1
    <3>1. CASE k <= Before
      BY <1>1, <2>1, <3>1 DEF LineAt
    <3>2. CASE k = Before + 1
      BY <1>1, <1>2, <2>1, <3>2 DEF LineAt
    <3>3. CASE k = Before + 2
      BY <1>1, <1>2, <2>1, <3>0, <3>3 DEF LineAt
    <3>4. CASE k > Before + 2
      BY <1>1, <2>1, <3>0, <3>4 DEF LineAt
    <3> QED
      BY <1>1, <3>1, <3>2, <3>3, <3>4
  <2>3. Before' + After' + 1 = Before + After + 1 /\ Before + 2 \in 1 .. Before + After + 1
        /\ Before' + 1 = Before + 2 /\ After + Before + 2 - (Before + 2) = After
    BY <1>1, <2>1
  <2>4. UndoLine' = UndoLine /\ UndoLine[Before + 2] = content' /\ Before + 2 \in DOMAIN UndoLine
    BY <1>1, <1>3, <2>1, <2>2, <2>3 DEF LineAt
  <2>5. UndoTimeline!Go(Before + 2)
    BY <2>3, <2>4 DEF UndoTimeline!Go, Before
  <2> QED
    BY <2>4, <2>5
<1> QED
  BY <1>4, <1>5

\* Undo and redo walk the line of the contents the commands made, for every depth
\* and any number of commands.
THEOREM UndoRefines == UndoSpec => UndoImplementsTimeline
<1>1. UndoInit => UndoTimeline!TimelineInit
  <2> SUFFICES ASSUME UndoInit PROVE UndoTimeline!TimelineInit
    OBVIOUS
  <2>1. undoStack = <<>> /\ redoStack = <<>> /\ content = 0 /\ 0 \in Content
    BY DepthAssumption DEF UndoInit, Content
  <2>2. undoStack \o RedoOrder = <<>> /\ Len(undoStack) = 0
    <3>1. RedoOrder = <<>>
      BY <2>1, EmptySeq DEF RedoOrder, Reverse
    <3> QED
      BY <2>1, <3>1
  <2>3. UndoLine = <<content>>
    BY <2>2 DEF UndoLine
  <2> QED
    BY <2>1, <2>2, <2>3 DEF UndoTimeline!TimelineInit
<1>2. UndoIInv /\ UndoIInv' /\ [UndoNext]_undoVars
        => [UndoTimeline!TimelineNext]_(UndoTimeline!timelineVars)
  <2> SUFFICES ASSUME UndoIInv, UndoIInv', [UndoNext]_undoVars
               PROVE  [UndoTimeline!TimelineNext]_(UndoTimeline!timelineVars)
    OBVIOUS
  <2>1. CASE PushCommand
    BY <2>1, PushIsEdit DEF UndoTimeline!TimelineNext
  <2>2. CASE UndoCommand \/ RedoCommand
    BY <2>2, MoveIsGo DEF UndoTimeline!TimelineNext
  <2>3. CASE UNCHANGED undoVars
    BY <2>3 DEF undoVars, UndoTimeline!timelineVars, UndoLine, RedoOrder
  <2> QED
    BY <2>1, <2>2, <2>3 DEF UndoNext
<1> QED
  BY <1>1, <1>2, UndoInvariant, PTL DEF UndoSpec, UndoImplementsTimeline, UndoTimeline!TimelineSpec


-----------------------------------------------------------------------------
(* HistoryManager *)

\* Of the natural numbers in a set one is the least.
InOrder == {p \in Nat \X Nat : p[1] < p[2]}

LEMMA LeastNumber ==
    ASSUME NEW T \in SUBSET Nat, T # {}
    PROVE  \E x \in T : \A y \in T : x <= y
<1>1. IsWellFoundedOn(InOrder, Nat)
  BY NatLessThanWellFounded DEF InOrder, OpToRel
<1>2. PICK x \in T : \A y \in T : ~(<<y, x>> \in InOrder)
  BY <1>1, WFMin
<1>3. \A y, z \in Nat : <<y, z>> \in InOrder <=> y < z
  BY DEF InOrder
<1>4. \A y \in T : ~(y < x)
  BY <1>2, <1>3
<1>5. \A y \in T : x <= y
  BY <1>4
<1> QED
  BY <1>5

\* Min and Max of places are places.
LEMMA MinMax ==
    ASSUME NEW n \in Nat, NEW S \in SUBSET (1 .. n), S # {}
    PROVE  Min(S) \in S /\ Max(S) \in S
<1>1. \E x \in S : \A y \in S : x <= y
  BY LeastNumber
<1>2. Min(S) \in S
  BY <1>1 DEF Min
<1> DEFINE T == {n - x : x \in S}
<1>3. PICK z \in T : \A y \in T : z <= y
  <2>1. \A x \in S : n - x \in Nat
    OBVIOUS
  <2>2. T \in SUBSET Nat /\ T # {}
    BY <2>1
  <2> HIDE DEF T
  <2> QED
    BY <2>2, LeastNumber
<1>4. PICK x \in S : z = n - x
  BY <1>3
<1>5. \A y \in S : x >= y
  <2>1. TAKE y \in S
  <2>2. n - y \in T
    OBVIOUS
  <2>3. n - x <= n - y
    BY <1>3, <1>4, <2>2
  <2> QED
    BY <2>3
<1>6. Max(S) \in S
  BY <1>5 DEF Max
<1> QED
  BY <1>2, <1>6

\* Induction over the places of a sequence, for a set of places.
LEMMA Induction ==
    ASSUME NEW n \in Nat, NEW T \in SUBSET (0 .. n), 0 \in T,
           \A i \in 1 .. n : i - 1 \in T => i \in T
    PROVE  T = 0 .. n
<1>1. SUFFICES ASSUME (0 .. n) \ T # {} PROVE FALSE
  OBVIOUS
<1>2. PICK x \in (0 .. n) \ T : \A y \in (0 .. n) \ T : x <= y
  <2>1. (0 .. n) \ T \in SUBSET Nat
    OBVIOUS
  <2> QED
    BY <1>1, <2>1, LeastNumber
<1>3. x \in 1 .. n /\ x - 1 \in 0 .. n
  BY <1>2
<1>4. x - 1 \in T
  BY <1>2, <1>3
<1> QED
  BY <1>2, <1>3, <1>4

\* Each value of f is made of the one before it.
Follows(f, G, n) == \A i \in 1 .. n : f[i] = G[i][f[i - 1]]

\* What is defined from the place before it is defined at every place.
LEMMA Recursion ==
    ASSUME NEW n \in Nat, NEW S, NEW base \in S, NEW G \in [1 .. n -> [S -> S]]
    PROVE  \E f \in [0 .. n -> S] : f[0] = base /\ Follows(f, G, n)
<1> DEFINE P(m, f) == f \in [0 .. m -> S] /\ f[0] = base /\ Follows(f, G, m)
           T == {m \in 0 .. n : \E f : P(m, f)}
<1>1. 0 \in T
  <2>1. P(0, [k \in 0 .. 0 |-> base]) /\ 0 \in 0 .. n
    BY DEF Follows
  <2> HIDE DEF P
  <2> QED
    BY <2>1, Zenon
<1>2. ASSUME NEW i \in 1 .. n, i - 1 \in T PROVE i \in T
  <2>1. PICK f : P(i - 1, f)
    BY <1>2
  <2> DEFINE g == [k \in 0 .. i |-> IF k = i THEN G[i][f[i - 1]] ELSE f[k]]
  <2>2. G[i][f[i - 1]] \in S
    BY <2>1
  <2>3. g \in [0 .. i -> S]
    BY <2>1, <2>2
  <2>4. \A k \in 1 .. i : g[k] = G[k][g[k - 1]]
    <3>1. TAKE k \in 1 .. i
    <3>2. CASE k = i
      BY <3>2
    <3>3. CASE k # i
      BY <2>1, <3>3 DEF Follows
    <3> QED
      BY <3>2, <3>3
  <2>5. P(i, g) /\ i \in 0 .. n
    BY <2>1, <2>3, <2>4 DEF Follows
  <2> HIDE DEF P, g
  <2> QED
    BY <2>5, Zenon
<1>3. T = 0 .. n
  <2> HIDE DEF T
  <2>1. T \in SUBSET (0 .. n)
    BY DEF T
  <2> QED
    BY <1>1, <1>2, <2>1, Induction
<1>4. n \in T
  BY <1>3
<1> QED
  BY <1>4
-----------------------------------------------------------------------------
(* HistoryManager *)

Size == Len(actions)

HistoryTypes ==
    /\ value \in Value /\ edited \in 0 .. MaxEdits
    /\ actions \in Seq(HistoryAction) /\ currentPos \in Nat
    /\ nextActionId \in Nat \ {0}
    /\ maxSize \in Nat
    /\ compoundActions \in Seq(Nat)
    /\ bookmarks \subseteq HistoryBookmark
    /\ straight \in BOOLEAN

\* What the document shows at a position, on a straight history.
ShownAt(k) == IF k = 0 THEN actions[1].before ELSE actions[k].after

\* The actions in the order of their ids, each made on what the one before it
\* left, and the document is where the position says.
OnOneLine ==
    /\ currentPos <= Size
    /\ \A i \in 1 .. Size : actions[i].type # "Multiple" /\ actions[i].id < nextActionId /\ actions[i].id > 0
    /\ \A i, j \in 1 .. Size : i < j => actions[i].id < actions[j].id
    /\ \A i \in 1 .. Size - 1 : actions[i].after = actions[i + 1].before
    /\ Size > 0 => value = ShownAt(currentPos)
    /\ \A b \in bookmarks : b.faithful => \A i \in 1 .. Size : actions[i].id = b.actionId => actions[i].after = b.seen

HistoryIInv ==
    /\ HistoryTypes
    /\ \A b \in bookmarks : b.faithful => b.actionId < nextActionId
    /\ straight => OnOneLine

\* The history is a sequence of actions, counted by Size.
LEMMA Actions ==
    ASSUME HistoryTypes
    PROVE  /\ Size \in Nat /\ DOMAIN actions = 1 .. Size
           /\ actions = <<>> <=> Size = 0
           /\ \A i \in 1 .. Size : actions[i] \in HistoryAction
           /\ Value # {} /\ \A v \in Value : v \in Nat
<1>1. actions \in Seq(HistoryAction)
  BY DEF HistoryTypes
<1>2. Size \in Nat /\ DOMAIN actions = 1 .. Size
  BY <1>1, LenProperties DEF Size
<1>3. actions = <<>> <=> Size = 0
  BY <1>1, EmptySeq DEF Size
<1>4. \A i \in 1 .. Size : actions[i] \in HistoryAction
  BY <1>1, ElementOfSeq DEF Size
<1>5. Value # {} /\ \A v \in Value : v \in Nat
  BY HistoryAssumption DEF Value
<1> QED
  BY <1>2, <1>3, <1>4, <1>5

\* An undo or a redo, of a compound too, makes a value of a value.
LEMMA OneRound ==
    ASSUME HistoryTypes, NEW v \in Value
    PROVE  /\ \A pos \in Nat \ {0} : Undone(v, pos) \in SUBSET Value
           /\ \A pos \in 0 .. Size - 1 : Redone(v, pos) \in SUBSET Value
<1>1. ASSUME NEW action \in HistoryAction
      PROVE  UndoneFrom(v, action) \in Value /\ RedoneFrom(v, action) \in Value
  <2> DEFINE ids == action.parts
             F == PartsFound(action)
  <2>1. /\ ids \in Seq(Nat) /\ Len(ids) \in Nat /\ F \in SUBSET (1 .. Len(ids))
        /\ action.before \in Value /\ action.after \in Value
    BY <1>1 DEF HistoryAction, PartsFound
  <2>2. \A number : WithId(number) # {} => FindAction(number) \in HistoryAction
    <3>1. TAKE number
    <3>2. WithId(number) \in SUBSET (1 .. Size) /\ Size \in Nat
      BY Actions DEF WithId
    <3>3. WithId(number) # {} => Min(WithId(number)) \in 1 .. Size
      BY <3>2, MinMax
    <3> QED
      BY <3>3, Actions DEF FindAction
  <2>3. F # {} => /\ FindAction(ids[Min(F)]) \in HistoryAction
                  /\ FindAction(ids[Max(F)]) \in HistoryAction
    <3>1. F # {} => Min(F) \in F /\ Max(F) \in F
      BY <2>1, MinMax
    <3>2. \A i \in F : WithId(ids[i]) # {}
      BY DEF PartsFound
    <3> QED
      BY <2>2, <3>1, <3>2
  <2>4. \A a \in HistoryAction : a.before \in Value /\ a.after \in Value
    BY DEF HistoryAction
  <2> HIDE DEF F
  <2>5. UndoneFrom(v, action) \in Value
    BY <2>1, <2>3, <2>4 DEF UndoneFrom, F
  <2>6. RedoneFrom(v, action) \in Value
    BY <2>1, <2>3, <2>4 DEF RedoneFrom, F
  <2> QED
    BY <2>5, <2>6
<1>2. ASSUME NEW pos \in Nat \ {0} PROVE Undone(v, pos) \in SUBSET Value
  <2>1. pos <= Size => actions[pos] \in HistoryAction
    BY Actions
  <2> QED
    BY <1>1, <2>1 DEF Undone, Size
<1>3. ASSUME NEW pos \in 0 .. Size - 1 PROVE Redone(v, pos) \in SUBSET Value
  <2>1. actions[pos + 1] \in HistoryAction
    BY Actions
  <2> QED
    BY <1>1, <2>1 DEF Redone
<1> QED
  BY <1>2, <1>3

\* What the rounds of JumpToPosition go through.
Round(position, k, v) ==
    IF position < currentPos THEN Undone(v, currentPos - k + 1) ELSE Redone(v, currentPos + k - 1)

Rounds(position) == IF position < currentPos THEN currentPos - position ELSE position - currentPos

\* Where the rounds have come to.
Place(position, k) == IF position < currentPos THEN currentPos - k ELSE currentPos + k

\* The document after any number of rounds.
LEMMA EveryRound ==
    ASSUME HistoryTypes, NEW position \in Nat, position < currentPos \/ position <= Size
    PROVE  /\ Rounds(position) \in Nat
           /\ \E f \in [0 .. Rounds(position) -> SUBSET Value] :
                 /\ f[0] = {value}
                 /\ \A k \in 1 .. Rounds(position) : f[k] = UNION {Round(position, k, v) : v \in f[k - 1]}
                 /\ AfterRounds(position) = f[Rounds(position)]
<1> DEFINE n == Rounds(position)
           G == [k \in 1 .. n |-> [V \in SUBSET Value |-> UNION {Round(position, k, v) : v \in V}]]
           Q(f) == f = [k \in 0 .. n |-> IF k = 0 THEN {value}
                                         ELSE UNION {Round(position, k, v) : v \in f[k - 1]}]
<1>1. n \in Nat /\ currentPos \in Nat /\ value \in Value
  BY DEF Rounds, HistoryTypes
<1>2. \A k \in 1 .. n : \A v \in Value : Round(position, k, v) \in SUBSET Value
  <2>1. TAKE k \in 1 .. n
  <2>2. TAKE v \in Value
  <2>3. CASE position < currentPos
    <3>1. currentPos - k + 1 \in Nat \ {0}
      BY <1>1, <2>3 DEF Rounds
    <3> QED
      BY <2>3, <3>1, OneRound DEF Round
  <2>4. CASE ~(position < currentPos)
    <3>1. currentPos + k - 1 \in 0 .. Size - 1
      BY <1>1, <2>4, Actions DEF Rounds
    <3> QED
      BY <2>4, <3>1, OneRound DEF Round
  <2> QED
    BY <2>3, <2>4
<1>3. G \in [1 .. n -> [SUBSET Value -> SUBSET Value]]
  <2>1. \A k \in 1 .. n : \A V \in SUBSET Value : UNION {Round(position, k, v) : v \in V} \in SUBSET Value
    BY <1>2
  <2> HIDE DEF n
  <2> QED
    BY <2>1
<1>4. \A k \in 1 .. n : \A V \in SUBSET Value : G[k][V] = UNION {Round(position, k, v) : v \in V}
  OBVIOUS
<1>5. AfterRounds(position) = (CHOOSE f : Q(f))[n]
  BY Zenon DEF AfterRounds, Round, Rounds
<1> HIDE DEF n, G
<1>6. PICK f \in [0 .. n -> SUBSET Value] : f[0] = {value} /\ \A i \in 1 .. n : f[i] = G[i][f[i - 1]]
  <2> DEFINE W == SUBSET Value
             start == {value}
  <2>1. start \in W /\ G \in [1 .. n -> [W -> W]]
    BY <1>1, <1>3
  <2> HIDE DEF W, start
  <2>2. \E f \in [0 .. n -> W] : f[0] = start /\ Follows(f, G, n)
    BY <1>1, <2>1, Recursion
  <2> QED
    BY <2>2 DEF W, start, Follows
<1>7. \A i \in 1 .. n : f[i] = UNION {Round(position, i, v) : v \in f[i - 1]}
  <2>1. TAKE i \in 1 .. n
  <2>2. f[i - 1] \in SUBSET Value
    BY <1>1, <1>6
  <2> QED
    BY <1>4, <1>6, <2>2
<1>8. Q(f)
  <2>1. \A k \in 0 .. n : f[k] = IF k = 0 THEN {value} ELSE UNION {Round(position, k, v) : v \in f[k - 1]}
    BY <1>1, <1>6, <1>7
  <2> QED
    BY <1>6, <2>1
<1>9. Q(CHOOSE g : Q(g))
  <2> HIDE DEF Q
  <2> QED
    BY <1>8, Zenon
<1> DEFINE h == CHOOSE g : Q(g)
<1>10. /\ DOMAIN h = 0 .. n /\ h[0] = {value}
       /\ \A k \in 1 .. n : h[k] = UNION {Round(position, k, v) : v \in h[k - 1]}
  <2> HIDE DEF h
  <2>1. h = [k \in 0 .. n |-> IF k = 0 THEN {value} ELSE UNION {Round(position, k, v) : v \in h[k - 1]}]
    BY <1>9 DEF h
  <2> DEFINE e(k) == IF k = 0 THEN {value} ELSE UNION {Round(position, k, v) : v \in h[k - 1]}
  <2>2. /\ e(0) = {value}
        /\ \A k \in 1 .. n : e(k) = UNION {Round(position, k, v) : v \in h[k - 1]}
    BY <1>1
  <2>3. h = [k \in 0 .. n |-> e(k)]
    BY <2>1
  <2> HIDE DEF e
  <2>4. DOMAIN h = 0 .. n /\ \A k \in 0 .. n : h[k] = e(k)
    BY <2>3
  <2> QED
    BY <1>1, <2>2, <2>4
<1> HIDE DEF h, Q
<1>11. \A k \in 0 .. n : h[k] \in SUBSET Value
  <2> DEFINE T == {k \in 0 .. n : h[k] \in SUBSET Value}
  <2>1. 0 \in T
    BY <1>1, <1>10
  <2>2. ASSUME NEW k \in 1 .. n, k - 1 \in T PROVE k \in T
    <3>1. UNION {Round(position, k, v) : v \in h[k - 1]} \in SUBSET Value
      BY <1>2, <2>2
    <3> QED
      BY <1>1, <1>10, <3>1
  <2>3. T \in SUBSET (0 .. n)
    OBVIOUS
  <2> HIDE DEF T
  <2>4. T = 0 .. n
    BY <1>1, <2>1, <2>2, <2>3, Induction
  <2> QED
    BY <2>4 DEF T
<1>12. h \in [0 .. n -> SUBSET Value] /\ AfterRounds(position) = h[n]
  <2>1. h = [k \in 0 .. n |-> h[k]]
    BY <1>9, <1>10 DEF h, Q
  <2> QED
    BY <1>5, <1>11, <2>1 DEF h
<1> QED
  BY <1>1, <1>10, <1>12 DEF n

\* A jump shows values only.
LEMMA JumpTyped ==
    ASSUME HistoryTypes, NEW position \in Nat, position < currentPos \/ position <= Size
    PROVE  AfterRounds(position) \in SUBSET Value
BY EveryRound

\* On one line a jump shows what the line has at its end.
LEMMA JumpOnLine ==
    ASSUME HistoryTypes, OnOneLine, Size > 0, NEW position \in 0 .. Size
    PROVE  AfterRounds(position) = {ShownAt(position)}
<1> DEFINE n == Rounds(position)
<1>1. PICK f \in [0 .. n -> SUBSET Value] :
         /\ f[0] = {value}
         /\ \A k \in 1 .. n : f[k] = UNION {Round(position, k, v) : v \in f[k - 1]}
         /\ AfterRounds(position) = f[n]
  <2>1. position \in Nat /\ position <= Size
    BY Actions
  <2> QED
    BY <2>1, EveryRound
<1>2. n \in Nat /\ currentPos \in 0 .. Size /\ Size \in Nat
  BY EveryRound, Actions DEF HistoryTypes, OnOneLine
<1>3. \A i \in 1 .. Size : actions[i].type # "Multiple"
  BY DEF OnOneLine
<1> DEFINE T == {k \in 0 .. n : f[k] = {ShownAt(Place(position, k))}}
<1>4. 0 \in T
  <2>1. Place(position, 0) = currentPos
    BY <1>2 DEF Place
  <2> QED
    BY <1>1, <1>2, <2>1 DEF OnOneLine
<1>5. ASSUME NEW k \in 1 .. n, k - 1 \in T PROVE k \in T
  <2>1. f[k] = Round(position, k, ShownAt(Place(position, k - 1)))
    <3> DEFINE x == ShownAt(Place(position, k - 1))
    <3>1. f[k - 1] = {x}
      BY <1>5
    <3>2. f[k] = UNION {Round(position, k, v) : v \in {x}}
      BY <1>1, <3>1
    <3> HIDE DEF x
    <3>3. {Round(position, k, v) : v \in {x}} = {Round(position, k, x)}
      OBVIOUS
    <3> QED
      BY <3>2, <3>3 DEF x
  <2>2. CASE position < currentPos
    <3>1. currentPos - k + 1 \in 1 .. Size
      BY <1>2, <2>2 DEF Rounds
    <3>2. f[k] = {actions[currentPos - k + 1].before}
      BY <1>3, <2>1, <2>2, <3>1 DEF Round, Undone, UndoneFrom, Size
    <3>3. actions[currentPos - k + 1].before = ShownAt(currentPos - k)
      <4>1. CASE currentPos = k
        BY <1>2, <4>1 DEF ShownAt
      <4>2. CASE currentPos # k
        <5>1. currentPos - k \in 1 .. Size - 1
          BY <1>2, <3>1, <4>2
        <5> QED
          BY <5>1 DEF OnOneLine, ShownAt
      <4> QED
        BY <4>1, <4>2
    <3> QED
      BY <1>2, <2>2, <3>2, <3>3 DEF Place
  <2>3. CASE ~(position < currentPos)
    <3>1. currentPos + k \in 1 .. Size /\ (currentPos + k - 1) + 1 = currentPos + k
      BY <1>2, <2>3 DEF Rounds
    <3>2. f[k] = {actions[currentPos + k].after}
      BY <1>3, <2>1, <2>3, <3>1 DEF Round, Redone, RedoneFrom
    <3> QED
      BY <1>2, <2>3, <3>1, <3>2 DEF Place, ShownAt
  <2> QED
    BY <2>2, <2>3
<1>6. T = 0 .. n
  <2>1. T \in SUBSET (0 .. n)
    OBVIOUS
  <2> HIDE DEF T, n
  <2> QED
    BY <1>2, <1>4, <1>5, <2>1, Induction
<1>7. Place(position, n) = position
  BY <1>2 DEF Place, Rounds
<1> QED
  BY <1>1, <1>2, <1>6, <1>7

\* How many actions a limit leaves out.
Cut(n, size) == IF n > size THEN n - size ELSE 0

\* What is left of a history cut to a limit, place by place.
IsCut(h, list, n, pos, x) ==
    /\ h.actions \in Seq(HistoryAction) /\ Len(h.actions) = n - x
    /\ \A i \in 1 .. n - x : h.actions[i] = list[i + x]
    /\ h.pos = IF pos > x THEN pos - x ELSE 0

LEMMA TrimParts ==
    ASSUME NEW list \in Seq(HistoryAction), NEW pos \in Nat, NEW size \in Nat
    PROVE  IsCut(TrimHistory([actions |-> list, pos |-> pos], size), list, Len(list), pos,
                 Cut(Len(list), size))
<1> DEFINE x == Cut(Len(list), size)
           rest == SubSeq(list, x + 1, Len(list))
<1>1. Len(list) \in Nat /\ x \in 0 .. Len(list)
  <2>1. Len(list) \in Nat
    OBVIOUS
  <2>2. \A m \in Nat : Cut(m, size) \in 0 .. m
    BY DEF Cut
  <2> QED
    BY <2>1, <2>2
<1>2. \A i \in x + 1 .. Len(list) : list[i] \in HistoryAction
  BY <1>1, ElementOfSeq
<1> HIDE DEF x
<1>3. /\ rest \in Seq(HistoryAction)
      /\ Len(rest) = IF x + 1 <= Len(list) THEN Len(list) - (x + 1) + 1 ELSE 0
      /\ \A i \in 1 .. Len(list) - (x + 1) + 1 : rest[i] = list[(x + 1) + i - 1]
  BY <1>1, <1>2, SubSeqProperties
<1>4. /\ Len(rest) = Len(list) - x
      /\ Len(list) - (x + 1) + 1 = Len(list) - x
      /\ \A i \in 1 .. Len(list) - x : (x + 1) + i - 1 = i + x
  BY <1>1, <1>3
<1>5. TrimHistory([actions |-> list, pos |-> pos], size)
         = [actions |-> rest, pos |-> IF pos > x THEN pos - x ELSE 0]
  BY DEF TrimHistory, x, Cut
<1> HIDE DEF rest
<1> QED
  BY <1>3, <1>4, <1>5 DEF x, IsCut

\* How many actions are kept when one is added, and how many of all go.
Kept == IF currentPos < Size THEN currentPos ELSE Size
Lost == Cut(Kept + 1, maxSize)

\* What adding an action makes of the history, place by place.
IsAdded(h, action) ==
    /\ Kept \in 0 .. Size /\ Lost \in 0 .. Kept + 1
    /\ h.actions \in Seq(HistoryAction) /\ Len(h.actions) = (Kept + 1) - Lost
    /\ \A i \in 1 .. (Kept + 1) - Lost :
          h.actions[i] = IF i + Lost = Kept + 1 THEN action ELSE actions[i + Lost]
    /\ h.pos = (Kept + 1) - Lost

LEMMA AddParts ==
    ASSUME HistoryTypes, NEW action \in HistoryAction
    PROVE  IsAdded(AddAction(action), action)
<1> DEFINE kept == IF currentPos < Len(actions) THEN SubSeq(actions, 1, currentPos) ELSE actions
           longer == Append(kept, action)
<1>1. /\ Size \in Nat /\ currentPos \in Nat /\ maxSize \in Nat /\ actions \in Seq(HistoryAction)
      /\ \A i \in 1 .. Size : actions[i] \in HistoryAction
  BY Actions DEF HistoryTypes
<1>2. Kept \in 0 .. Size /\ Lost \in 0 .. Kept + 1
  BY <1>1 DEF Kept, Lost, Cut
<1>3. kept \in Seq(HistoryAction) /\ Len(kept) = Kept /\ \A i \in 1 .. Kept : kept[i] = actions[i]
  <2>1. CASE currentPos < Size
    <3> DEFINE s == SubSeq(actions, 1, currentPos)
    <3>1. /\ s \in Seq(HistoryAction)
          /\ Len(s) = IF 1 <= currentPos THEN currentPos - 1 + 1 ELSE 0
          /\ \A i \in 1 .. currentPos - 1 + 1 : s[i] = actions[1 + i - 1]
      <4>1. \A i \in 1 .. currentPos : actions[i] \in HistoryAction
        BY <1>1, <2>1
      <4> QED
        BY <1>1, <4>1, SubSeqProperties
    <3>2. kept = s /\ Kept = currentPos
      BY <2>1 DEF Kept, Size
    <3> HIDE DEF s, kept
    <3> QED
      BY <1>1, <3>1, <3>2
  <2>2. CASE ~(currentPos < Size)
    BY <1>1, <2>2 DEF Kept, Size
  <2> QED
    BY <2>1, <2>2
<1> HIDE DEF kept
<1>4. /\ longer \in Seq(HistoryAction) /\ Len(longer) = Kept + 1
      /\ \A i \in 1 .. Kept : longer[i] = actions[i]
      /\ longer[Kept + 1] = action
  BY <1>2, <1>3, AppendProperties
<1>5. AddAction(action) = TrimHistory([actions |-> longer, pos |-> Len(longer)], maxSize)
  BY DEF AddAction, AtEnd, longer, kept
<1> HIDE DEF longer
<1> DEFINE g == TrimHistory([actions |-> longer, pos |-> Kept + 1], maxSize)
<1>a. Kept + 1 \in Nat /\ Cut(Len(longer), maxSize) = Lost
  BY <1>2, <1>4 DEF Lost
<1>b. IsCut(g, longer, Kept + 1, Kept + 1, Lost)
  <2>1. IsCut(g, longer, Len(longer), Kept + 1, Cut(Len(longer), maxSize))
    BY <1>1, <1>4, <1>a, TrimParts
  <2> QED
    BY <1>4, <1>a, <2>1
<1> HIDE DEF g
<1>6. /\ g.actions \in Seq(HistoryAction) /\ Len(g.actions) = (Kept + 1) - Lost
      /\ \A i \in 1 .. (Kept + 1) - Lost : g.actions[i] = longer[i + Lost]
      /\ g.pos = IF Kept + 1 > Lost THEN (Kept + 1) - Lost ELSE 0
  BY <1>b, Zenon DEF IsCut
<1>7. \A i \in 1 .. (Kept + 1) - Lost :
         g.actions[i] = IF i + Lost = Kept + 1 THEN action ELSE actions[i + Lost]
  <2>1. TAKE i \in 1 .. (Kept + 1) - Lost
  <2>2. i + Lost \in 1 .. Kept + 1 /\ g.actions[i] = longer[i + Lost]
    BY <1>2, <1>6
  <2>3. i + Lost # Kept + 1 => i + Lost \in 1 .. Kept
    BY <1>2, <2>2
  <2> QED
    BY <1>4, <2>2, <2>3
<1>8. g.pos = (Kept + 1) - Lost
  BY <1>2, <1>6
<1>9. AddAction(action) = g
  BY <1>4, <1>5 DEF g
<1> QED
  BY <1>2, <1>6, <1>7, <1>8, <1>9 DEF IsAdded

\* Merging transforms makes a history of a history.
LEMMA CompressedTyped ==
    ASSUME HistoryTypes
    PROVE  Compressed \in Seq(HistoryAction)
<1> DEFINE n == Size
           step(k, done) ==
               IF done # <<>> /\ Last(done).type = "Transform" /\ actions[k].type = "Transform"
               THEN [done EXCEPT ![Len(done)].after = actions[k].after]
               ELSE Append(done, actions[k])
           H == Seq(HistoryAction)
           G == [k \in 1 .. n |-> [s \in H |-> step(k, s)]]
           Q(f) == f = [k \in 0 .. n |-> IF k = 0 THEN <<>> ELSE step(k, f[k - 1])]
<1>1. n \in Nat /\ \A i \in 1 .. n : actions[i] \in HistoryAction
  BY Actions
<1>2. ASSUME NEW k \in 1 .. n, NEW s \in H PROVE step(k, s) \in H
  <2>1. Append(s, actions[k]) \in H
    BY <1>1
  <2>2. ASSUME s # <<>> PROVE [s EXCEPT ![Len(s)].after = actions[k].after] \in H
    <3> DEFINE new == [s[Len(s)] EXCEPT !.after = actions[k].after]
    <3>1. Len(s) \in 1 .. Len(s) /\ s[Len(s)] \in HistoryAction
      BY <2>2, EmptySeq, LenProperties, ElementOfSeq
    <3>2. new \in HistoryAction
      BY <1>1, <3>1 DEF HistoryAction
    <3>3. [s EXCEPT ![Len(s)].after = actions[k].after] = [s EXCEPT ![Len(s)] = new]
      OBVIOUS
    <3> HIDE DEF new
    <3>4. [s EXCEPT ![Len(s)] = new] \in H
      BY <3>1, <3>2, ExceptSeq
    <3> QED
      BY <3>3, <3>4
  <2> QED
    BY <2>1, <2>2
<1>3. Compressed = (CHOOSE f : Q(f))[n]
  BY Zenon DEF Compressed, Size
<1> HIDE DEF n, step, H
<1>4. G \in [1 .. n -> [H -> H]] /\ \A k \in 1 .. n : \A s \in H : G[k][s] = step(k, s)
  BY <1>2
<1>5. <<>> \in H
  BY EmptySeq DEF H
<1> HIDE DEF G
<1>6. PICK f \in [0 .. n -> H] : f[0] = <<>> /\ Follows(f, G, n)
  BY <1>1, <1>4, <1>5, Recursion
<1>7. \A i \in 1 .. n : f[i] = step(i, f[i - 1])
  <2>1. TAKE i \in 1 .. n
  <2>2. f[i - 1] \in H
    BY <1>1, <1>6
  <2> QED
    BY <1>4, <1>6, <2>2 DEF Follows
<1>8. Q(f)
  <2>1. \A k \in 0 .. n : f[k] = IF k = 0 THEN <<>> ELSE step(k, f[k - 1])
    BY <1>1, <1>6, <1>7
  <2> QED
    BY <1>6, <2>1
<1>9. Q(CHOOSE g : Q(g))
  <2> HIDE DEF Q
  <2> QED
    BY <1>8, Zenon
<1> DEFINE h == CHOOSE g : Q(g)
<1>10. h[0] = <<>> /\ \A k \in 1 .. n : h[k] = step(k, h[k - 1])
  <2> HIDE DEF h
  <2>1. h = [k \in 0 .. n |-> IF k = 0 THEN <<>> ELSE step(k, h[k - 1])]
    BY <1>9 DEF h
  <2> DEFINE e(k) == IF k = 0 THEN <<>> ELSE step(k, h[k - 1])
  <2>2. e(0) = <<>> /\ \A k \in 1 .. n : e(k) = step(k, h[k - 1])
    BY <1>1
  <2>3. h = [k \in 0 .. n |-> e(k)]
    BY <2>1
  <2> HIDE DEF e
  <2>4. \A k \in 0 .. n : h[k] = e(k)
    BY <2>3
  <2> QED
    BY <1>1, <2>2, <2>4
<1> HIDE DEF h, Q
<1> DEFINE T == {k \in 0 .. n : h[k] \in H}
<1>11. 0 \in T
  BY <1>1, <1>5, <1>10
<1>12. ASSUME NEW k \in 1 .. n, k - 1 \in T PROVE k \in T
  BY <1>1, <1>2, <1>10, <1>12
<1>13. T \in SUBSET (0 .. n)
  OBVIOUS
<1>14. n \in T
  <2> HIDE DEF T
  <2>1. T = 0 .. n
    BY <1>1, <1>11, <1>12, <1>13, Induction
  <2> QED
    BY <1>1, <2>1
<1> QED
  BY <1>3, <1>14 DEF H, h

\* An empty history lies on a line of one value.
LEMMA EmptyLine == HistoryTypes /\ actions = <<>> /\ currentPos = 0 => OnOneLine
<1> SUFFICES ASSUME HistoryTypes, actions = <<>>, currentPos = 0 PROVE OnOneLine
  OBVIOUS
<1>1. Size = 0
  BY Actions
<1> QED
  BY <1>1 DEF OnOneLine

\* The same in the next state.
LEMMA EmptyLineNext == (HistoryTypes /\ actions = <<>> /\ currentPos = 0 => OnOneLine)'
BY EmptyLine, PTL

\* Steps that leave the history and the document alone.
LEMMA HistoryStays ==
    ASSUME HistoryIInv, UNCHANGED <<value, edited, actions, currentPos, nextActionId, straight>>,
           maxSize' \in Nat, compoundActions' \in Seq(Nat), bookmarks' \subseteq bookmarks
    PROVE  HistoryIInv'
<1>1. HistoryTypes' /\ Size' = Size
  BY DEF HistoryIInv, HistoryTypes, Value, Size
<1>2. straight' => OnOneLine'
  BY <1>1 DEF HistoryIInv, OnOneLine, ShownAt
<1> QED
  BY <1>1, <1>2 DEF HistoryIInv

\* Recording an action keeps one line one line: the new action is made on the
\* value of the last one kept and has an id that no other has.
LEMMA AddedToLine ==
    ASSUME HistoryIInv, OnOneLine,
           NEW action \in HistoryAction, IsAdded([actions |-> actions', pos |-> currentPos'], action),
           action.id = nextActionId, action.type # "Multiple",
           action.before = value, action.after = value',
           nextActionId' = nextActionId + 1, bookmarks' = bookmarks
    PROVE  OnOneLine'
<1> DEFINE len == (Kept + 1) - Lost
<1>1. /\ Size \in Nat /\ currentPos \in 0 .. Size /\ nextActionId \in Nat \ {0}
      /\ bookmarks \subseteq HistoryBookmark
  BY Actions DEF HistoryIInv, HistoryTypes, OnOneLine
<1>2. /\ Kept = currentPos /\ Lost \in 0 .. Kept + 1
      /\ actions' \in Seq(HistoryAction) /\ Len(actions') = len
      /\ \A i \in 1 .. len : actions'[i] = IF i + Lost = Kept + 1 THEN action ELSE actions[i + Lost]
      /\ currentPos' = len
  <2>1. Kept = currentPos
    BY <1>1 DEF Kept
  <2> QED
    BY <2>1, Zenon DEF IsAdded
<1>3. len \in 0 .. currentPos + 1 /\ Size' = len /\ len + Lost = currentPos + 1
  BY <1>1, <1>2 DEF Size
<1> HIDE DEF len
<1>4. \A i \in 1 .. len : /\ i + Lost = currentPos + 1 => i = len /\ actions'[i] = action
                          /\ i + Lost # currentPos + 1 => /\ i \in 1 .. len - 1
                                                          /\ i + Lost \in 1 .. currentPos
                                                          /\ i + Lost \in 1 .. Size
                                                          /\ actions'[i] = actions[i + Lost]
  BY <1>1, <1>2, <1>3
<1>5. \A i \in 1 .. Size : /\ actions[i].type # "Multiple"
                           /\ actions[i].id \in Nat /\ actions[i].id < nextActionId /\ actions[i].id > 0
  BY Actions DEF OnOneLine, HistoryIInv, HistoryAction
<1>6. \A i \in 1 .. len : /\ actions'[i].type # "Multiple"
                          /\ actions'[i].id < nextActionId' /\ actions'[i].id > 0
  BY <1>1, <1>4, <1>5
<1>7. ASSUME NEW i \in 1 .. len, NEW j \in 1 .. len, i < j PROVE actions'[i].id < actions'[j].id
  <2>1. i + Lost # currentPos + 1 /\ i + Lost < j + Lost
    BY <1>1, <1>2, <1>3, <1>7
  <2>2. CASE j + Lost = currentPos + 1
    BY <1>4, <1>5, <2>1, <2>2
  <2>3. CASE j + Lost # currentPos + 1
    BY <1>4, <2>1, <2>3 DEF OnOneLine
  <2> QED
    BY <2>2, <2>3
<1>8. ASSUME NEW i \in 1 .. len - 1 PROVE actions'[i].after = actions'[i + 1].before
  <2>1. i \in 1 .. len /\ i + 1 \in 1 .. len /\ i + Lost # currentPos + 1 /\ (i + 1) + Lost = (i + Lost) + 1
    BY <1>1, <1>2, <1>3
  <2>2. i + Lost \in 1 .. currentPos /\ i + Lost \in 1 .. Size /\ actions'[i] = actions[i + Lost]
    BY <1>4, <2>1
  <2>3. CASE (i + 1) + Lost = currentPos + 1
    <3>1. i + Lost = currentPos /\ actions'[i + 1] = action
      BY <1>1, <1>4, <2>1, <2>2, <2>3
    <3>2. actions[currentPos].after = value
      BY <1>1, <2>2, <3>1 DEF OnOneLine, ShownAt
    <3> QED
      BY <2>2, <3>1, <3>2
  <2>4. CASE (i + 1) + Lost # currentPos + 1
    <3>1. actions'[i + 1] = actions[(i + Lost) + 1] /\ i + Lost \in 1 .. Size - 1
      BY <1>1, <1>4, <2>1, <2>2, <2>4
    <3> QED
      BY <2>2, <3>1 DEF OnOneLine
  <2> QED
    BY <2>3, <2>4
<1>9. len > 0 => value' = actions'[len].after
  BY <1>1, <1>2, <1>3, <1>4
<1>10. ASSUME NEW b \in bookmarks, b.faithful, NEW i \in 1 .. len, actions'[i].id = b.actionId
       PROVE  actions'[i].after = b.seen
  <2>1. b.actionId < nextActionId /\ b.actionId \in Nat
    BY <1>1, <1>10 DEF HistoryIInv, HistoryBookmark
  <2>2. i + Lost # currentPos + 1
    BY <1>1, <1>4, <1>10, <2>1
  <2> QED
    BY <1>4, <1>10, <2>2 DEF OnOneLine
<1>11. \A i \in 1 .. Size' - 1 : actions'[i].after = actions'[i + 1].before
  BY <1>3, <1>8
<1>12. Size' > 0 => value' = ShownAt(currentPos)'
  BY <1>1, <1>2, <1>3, <1>9 DEF ShownAt, len
<1> QED
  BY <1>2, <1>3, <1>6, <1>7, <1>10, <1>11, <1>12 DEF OnOneLine, len

\* A limit cuts what was done before the position, which keeps one line.
LEMMA CutOfLine ==
    ASSUME HistoryIInv, OnOneLine, NEW x \in 0 .. Size,
           IsCut([actions |-> actions', pos |-> currentPos'], actions, Size, currentPos, x),
           x <= currentPos, nextActionId' = nextActionId, bookmarks' = bookmarks, value' = value
    PROVE  OnOneLine'
<1> DEFINE len == Size - x
<1>1. /\ Size \in Nat /\ currentPos \in 0 .. Size
  BY Actions DEF HistoryIInv, HistoryTypes, OnOneLine
<1>2. /\ Len(actions') = len
      /\ \A i \in 1 .. len : actions'[i] = actions[i + x]
      /\ currentPos' = IF currentPos > x THEN currentPos - x ELSE 0
  BY Zenon DEF IsCut
<1>3. len \in 0 .. Size /\ Size' = len /\ currentPos' = currentPos - x /\ currentPos' \in 0 .. len
  BY <1>1, <1>2 DEF Size
<1>4. \A i \in 1 .. len : i + x \in 1 .. Size
  BY <1>1
<1>5. \A i \in 1 .. len : /\ actions'[i].type # "Multiple"
                          /\ actions'[i].id < nextActionId' /\ actions'[i].id > 0
  BY <1>2, <1>4 DEF OnOneLine
<1>6. ASSUME NEW i \in 1 .. len, NEW j \in 1 .. len, i < j PROVE actions'[i].id < actions'[j].id
  <2>1. i + x < j + x
    BY <1>6
  <2> QED
    BY <1>2, <1>4, <2>1 DEF OnOneLine
<1>7. ASSUME NEW i \in 1 .. len - 1 PROVE actions'[i].after = actions'[i + 1].before
  <2>1. i + x \in 1 .. Size - 1 /\ i \in 1 .. len /\ i + 1 \in 1 .. len /\ (i + 1) + x = (i + x) + 1
    BY <1>1
  <2> QED
    BY <1>2, <2>1 DEF OnOneLine
<1>8. len > 0 => value' = ShownAt(currentPos)'
  <2> SUFFICES ASSUME len > 0 PROVE value' = ShownAt(currentPos)'
    OBVIOUS
  <2>0. value = ShownAt(currentPos)
    BY <1>1 DEF OnOneLine
  <2>1. CASE currentPos = x /\ x = 0
    BY <1>1, <1>2, <1>3, <2>0, <2>1 DEF ShownAt
  <2>2. CASE currentPos = x /\ x # 0
    <3>1. x \in 1 .. Size - 1 /\ 1 \in 1 .. len /\ 1 + x = x + 1
      BY <1>1, <2>2
    <3>2. value = actions[x].after /\ actions[x].after = actions[x + 1].before
      BY <2>0, <2>2, <3>1 DEF OnOneLine, ShownAt
    <3>3. actions'[1] = actions[x + 1] /\ currentPos' = 0
      BY <1>1, <1>2, <1>3, <2>2, <3>1
    <3> QED
      BY <3>2, <3>3 DEF ShownAt
  <2>3. CASE currentPos # x
    <3>1. currentPos' \in 1 .. len /\ currentPos' + x = currentPos /\ currentPos # 0
      BY <1>1, <1>3, <2>3
    <3>2. actions'[currentPos'] = actions[currentPos]
      BY <1>2, <3>1
    <3> QED
      BY <2>0, <3>1, <3>2 DEF ShownAt
  <2> QED
    BY <2>1, <2>2, <2>3
<1>9. ASSUME NEW b \in bookmarks, b.faithful, NEW i \in 1 .. len, actions'[i].id = b.actionId
      PROVE  actions'[i].after = b.seen
  BY <1>2, <1>4, <1>9 DEF OnOneLine
<1> HIDE DEF len
<1>10. \A i \in 1 .. Size' - 1 : actions'[i].after = actions'[i + 1].before
  BY <1>3, <1>7
<1> QED
  BY <1>3, <1>5, <1>6, <1>8, <1>9, <1>10 DEF OnOneLine

\* An added action has its place in a history that is typed.
LEMMA AddedIsTyped ==
    ASSUME HistoryTypes, NEW action \in HistoryAction, History(AddAction(action))
    PROVE  /\ IsAdded([actions |-> actions', pos |-> currentPos'], action)
           /\ actions' \in Seq(HistoryAction) /\ currentPos' \in Nat
<1> DEFINE h == AddAction(action)
<1>1. IsAdded(h, action) /\ actions' = h.actions /\ currentPos' = h.pos
  BY AddParts DEF History
<1> HIDE DEF h
<1>2. IsAdded([actions |-> actions', pos |-> currentPos'], action)
  BY <1>1, Zenon DEF IsAdded
<1>3. Size \in Nat
  BY Actions
<1> QED
  BY <1>1, <1>2, <1>3 DEF IsAdded

\* A recorded edit keeps the invariant: the new action sets what the document shows.
LEMMA RecordActionKeeps ==
    ASSUME HistoryIInv, NEW type \in {"Transform", "PropertyChange"}, RecordAction(type)
    PROVE  HistoryIInv'
<1> DEFINE action == [id |-> NewId, type |-> type, before |-> value, after |-> value', parts |-> <<>>]
<1>1. /\ value' \in Value /\ edited' \in 0 .. MaxEdits
      /\ nextActionId' = nextActionId + 1 /\ nextActionId' \in Nat \ {0}
      /\ maxSize' = maxSize /\ bookmarks' = bookmarks
      /\ HistoryTypes
      /\ History(AddAction(action))
      /\ straight' = (straight \/ (actions' = <<>> /\ currentPos' = 0))
  BY HistoryAssumption DEF HistoryIInv, HistoryTypes, RecordAction, TakeId, Value, Straight
<1>2. action \in HistoryAction /\ action.id = nextActionId /\ action.type # "Multiple"
      /\ action.before = value /\ action.after = value'
  <2>1. <<>> \in Seq(Nat)
    OBVIOUS
  <2>2. nextActionId \in Nat /\ value \in Value
    BY DEF HistoryIInv, HistoryTypes
  <2> QED
    BY <1>1, <2>1, <2>2 DEF HistoryAction, NewId
<1>3. compoundActions' \in Seq(Nat)
  <2>1. compoundActions \in Seq(Nat) /\ nextActionId \in Nat
    BY DEF HistoryIInv, HistoryTypes
  <2>2. Append(compoundActions, nextActionId) \in Seq(Nat)
    BY <2>1
  <2> QED
    BY <2>1, <2>2 DEF RecordAction, NewId
<1> HIDE DEF action
<1>4. /\ IsAdded([actions |-> actions', pos |-> currentPos'], action)
      /\ actions' \in Seq(HistoryAction) /\ currentPos' \in Nat
  BY <1>1, <1>2, AddedIsTyped
<1>5. HistoryTypes'
  <2>1. straight' \in BOOLEAN
    BY <1>1 DEF HistoryTypes
  <2>2. Value' = Value /\ bookmarks' \subseteq HistoryBookmark /\ maxSize' \in Nat
    BY <1>1 DEF HistoryTypes, Value
  <2> QED
    BY <1>1, <1>3, <1>4, <2>1, <2>2 DEF HistoryTypes
<1>6. straight' => OnOneLine'
  <2>1. straight => OnOneLine
    BY DEF HistoryIInv
  <2>2. CASE straight
    BY <1>1, <1>2, <1>4, <2>1, <2>2, AddedToLine
  <2>3. CASE ~straight
    BY <1>1, <1>5, <2>3, EmptyLineNext
  <2> QED
    BY <2>2, <2>3
<1>7. \A b \in bookmarks' : b.faithful => b.actionId < nextActionId'
  BY <1>1 DEF HistoryIInv, HistoryTypes, HistoryBookmark
<1> QED
  BY <1>5, <1>6, <1>7 DEF HistoryIInv

\* An edit nobody records keeps it: the history is no longer straight, or is empty.
LEMMA EditUnrecordedKeeps ==
    ASSUME HistoryIInv, EditUnrecorded
    PROVE  HistoryIInv'
<1>1. /\ value' \in Value /\ edited' \in 0 .. MaxEdits
      /\ UNCHANGED <<actions, currentPos, nextActionId, settings, bookmarks>>
      /\ straight' = (actions' = <<>> /\ currentPos' = 0)
  BY HistoryAssumption DEF HistoryIInv, HistoryTypes, EditUnrecorded, Value, Straight
<1>2. HistoryTypes'
  BY <1>1 DEF HistoryIInv, HistoryTypes, Value, settings
<1> QED
  BY <1>1, <1>2, EmptyLineNext DEF HistoryIInv

\* Closing a compound keeps it.
LEMMA EndCompoundKeeps ==
    ASSUME HistoryIInv, EndCompoundAction
    PROVE  HistoryIInv'
<1>0. HistoryTypes
  BY DEF HistoryIInv
<1>1. CASE compoundActions = <<>>
  BY <1>0, <1>1, HistoryStays DEF EndCompoundAction, HistoryTypes
<1>2. CASE compoundActions # <<>>
  <2> DEFINE action == [id |-> NewId, type |-> "Multiple", before |-> value, after |-> value,
                        parts |-> compoundActions]
  <2>1. /\ UNCHANGED <<value, edited, maxSize, bookmarks>>
        /\ nextActionId' = nextActionId + 1 /\ nextActionId' \in Nat \ {0}
        /\ History(AddAction(action)) /\ compoundActions' = <<>>
        /\ straight' = (actions' = <<>> /\ currentPos' = 0)
    BY <1>0, <1>2 DEF EndCompoundAction, TakeId, Straight, HistoryTypes
  <2>2. action \in HistoryAction
    BY <1>0 DEF HistoryTypes, HistoryAction, NewId
  <2> HIDE DEF action
  <2>3. actions' \in Seq(HistoryAction) /\ currentPos' \in Nat
    BY <1>0, <2>1, <2>2, AddedIsTyped
  <2>4. HistoryTypes'
    <3>1. <<>> \in Seq(Nat)
      OBVIOUS
    <3>2. straight' \in BOOLEAN
      BY <2>1
    <3> QED
      BY <1>0, <2>1, <2>3, <3>1, <3>2 DEF HistoryTypes, Value
  <2>5. \A b \in bookmarks' : b.faithful => b.actionId < nextActionId'
    BY <1>0, <2>1 DEF HistoryIInv, HistoryTypes, HistoryBookmark
  <2> QED
    BY <2>1, <2>4, <2>5, EmptyLineNext DEF HistoryIInv
<1> QED
  BY <1>1, <1>2

\* An undo, a redo or a jump keeps it: the document shows what it showed there.
LEMMA GoKeeps ==
    ASSUME HistoryIInv, NEW position \in Nat, Go(position),
           position < currentPos \/ position <= Size
    PROVE  HistoryIInv'
<1>0. HistoryTypes
  BY DEF HistoryIInv
<1>1. /\ value' \in Value /\ currentPos' = position
      /\ UNCHANGED <<edited, actions, nextActionId, maxSize, compoundActions, bookmarks>>
      /\ straight' = (straight \/ (actions' = <<>> /\ currentPos' = 0))
  BY <1>0, JumpTyped DEF Go, settings, Straight
<1>2. HistoryTypes'
  <2>1. straight' \in BOOLEAN
    BY <1>0, <1>1 DEF HistoryTypes
  <2> QED
    BY <1>0, <1>1, <2>1 DEF HistoryTypes, Value
<1>3. straight' => OnOneLine'
  <2>1. CASE straight
    <3>0. OnOneLine /\ Size' = Size /\ Size \in Nat /\ currentPos <= Size /\ currentPos \in Nat
      BY <1>0, <1>1, <2>1, Actions DEF HistoryIInv, OnOneLine, Size, HistoryTypes
    <3>1. position \in 0 .. Size
      BY <3>0
    <3>2. Size > 0 => value' = ShownAt(position)
      BY <1>0, <3>0, <3>1, JumpOnLine DEF Go
    <3>3. ShownAt(currentPos)' = ShownAt(position)
      BY <1>1 DEF ShownAt
    <3> QED
      BY <1>1, <3>0, <3>1, <3>2, <3>3 DEF OnOneLine
  <2>2. CASE ~straight
    BY <1>1, <1>2, <2>2, EmptyLineNext
  <2> QED
    BY <2>1, <2>2
<1> QED
  BY <1>1, <1>2, <1>3 DEF HistoryIInv

\* A new bookmark keeps it: the id it takes was given before.
LEMMA CreateBookmarkKeeps ==
    ASSUME HistoryIInv, CreateBookmark
    PROVE  HistoryIInv'
<1>0. HistoryTypes
  BY DEF HistoryIInv
<1>1. PICK number \in BookmarkedId :
         bookmarks' = bookmarks \cup {[actionId |-> number, seen |-> value, faithful |-> straight]}
  BY DEF CreateBookmark
<1> DEFINE new == [actionId |-> number, seen |-> value, faithful |-> straight]
<1>2. UNCHANGED <<value, edited, actions, currentPos, nextActionId, maxSize, compoundActions, straight>>
  BY DEF CreateBookmark, settings
<1>3. /\ Size \in Nat /\ DOMAIN actions = 1 .. Size /\ currentPos \in Nat /\ nextActionId \in Nat \ {0}
      /\ \A i \in 1 .. Size : actions[i] \in HistoryAction
      /\ value \in Value /\ straight \in BOOLEAN
  BY <1>0, Actions DEF HistoryTypes
<1>4. number \in Nat
  BY <1>3, HistoryAssumption DEF BookmarkedId, HistoryAction, Size
<1>5. new \in HistoryBookmark
  BY <1>3, <1>4 DEF HistoryBookmark
<1>6. HistoryTypes' /\ Size' = Size
  BY <1>0, <1>1, <1>2, <1>5 DEF HistoryTypes, Value, Size
<1>7. ASSUME straight
      PROVE  /\ OnOneLine
             /\ number < nextActionId
             /\ \A i \in 1 .. Size : actions[i].id = number => i = currentPos /\ actions[i].after = value
  <2>1. OnOneLine
    BY <1>7 DEF HistoryIInv
  <2>2. CASE currentPos = 0
    <3>1. number = 0
      BY <2>2 DEF BookmarkedId
    <3> QED
      BY <1>3, <2>1, <3>1 DEF OnOneLine
  <2>3. CASE currentPos # 0
    <3>1. currentPos \in 1 .. Size /\ number = actions[currentPos].id
      BY <1>3, <2>1, <2>3 DEF OnOneLine, BookmarkedId, Size
    <3>2. \A i \in 1 .. Size : actions[i].id \in Nat
      BY <1>3 DEF HistoryAction
    <3>3. ASSUME NEW i \in 1 .. Size, actions[i].id = number PROVE i = currentPos
      <4>1. ~(i < currentPos) /\ ~(currentPos < i)
        BY <2>1, <3>1, <3>2, <3>3 DEF OnOneLine
      <4> QED
        BY <1>3, <4>1
    <3>4. actions[currentPos].after = value
      BY <1>3, <2>1, <2>3, <3>1 DEF OnOneLine, ShownAt
    <3> QED
      BY <2>1, <3>1, <3>3, <3>4 DEF OnOneLine
  <2> QED
    BY <2>2, <2>3
<1>8. \A b \in bookmarks' : b.faithful => b.actionId < nextActionId'
  <2>1. \A b \in bookmarks : b.faithful => b.actionId < nextActionId
    BY DEF HistoryIInv
  <2> QED
    BY <1>1, <1>2, <1>7, <2>1
<1>9. straight' => OnOneLine'
  <2> SUFFICES ASSUME straight PROVE OnOneLine'
    BY <1>2
  <2>1. \A b \in bookmarks : b.faithful => \A i \in 1 .. Size : actions[i].id = b.actionId => actions[i].after = b.seen
    BY <1>7 DEF OnOneLine
  <2>2. \A b \in bookmarks' : b.faithful => \A i \in 1 .. Size : actions[i].id = b.actionId => actions[i].after = b.seen
    BY <1>1, <1>7, <2>1
  <2> QED
    BY <1>2, <1>6, <1>7, <2>2 DEF OnOneLine, ShownAt
<1> QED
  BY <1>6, <1>8, <1>9 DEF HistoryIInv

\* An empty history keeps it.
LEMMA ClearHistoryKeeps ==
    ASSUME HistoryIInv, ClearHistory
    PROVE  HistoryIInv'
<1>1. HistoryTypes'
  <2>1. <<>> \in Seq(HistoryAction) /\ straight' \in BOOLEAN
    BY DEF ClearHistory, Straight
  <2> QED
    BY <2>1 DEF ClearHistory, HistoryIInv, HistoryTypes, Value, settings
<1>2. actions' = <<>> /\ currentPos' = 0 /\ bookmarks' = {}
  BY DEF ClearHistory
<1> QED
  BY <1>1, <1>2, EmptyLineNext DEF HistoryIInv

\* A cut keeps it: one that drops an action still to be redone is not straight.
LEMMA SetMaxHistorySizeKeeps ==
    ASSUME HistoryIInv, NEW size \in MaxSizes, SetMaxHistorySize(size)
    PROVE  HistoryIInv'
<1> DEFINE h == TrimHistory([actions |-> actions, pos |-> currentPos], size)
           x == Cut(Size, size)
<1>0. HistoryTypes
  BY DEF HistoryIInv
<1>1. /\ Size \in Nat /\ currentPos \in Nat /\ size \in Nat /\ actions \in Seq(HistoryAction)
      /\ x \in 0 .. Size
  BY <1>0, Actions, HistoryAssumption DEF HistoryTypes, Cut
<1>2. /\ maxSize' = size /\ actions' = h.actions /\ currentPos' = h.pos
      /\ UNCHANGED <<value, edited, nextActionId, compoundActions, bookmarks>>
      /\ straight' = ((straight /\ Len(actions) - currentPos <= size)
                        \/ (actions' = <<>> /\ currentPos' = 0))
  BY DEF SetMaxHistorySize, History, Straight
<1>3. IsCut(h, actions, Size, currentPos, x)
  BY <1>1, TrimParts DEF Size
<1> HIDE DEF h
<1>4. IsCut([actions |-> actions', pos |-> currentPos'], actions, Size, currentPos, x)
  BY <1>2, <1>3, Zenon DEF IsCut
<1>5. actions' \in Seq(HistoryAction) /\ currentPos' \in Nat
  BY <1>1, <1>2, <1>3 DEF IsCut
<1>6. HistoryTypes'
  <2>1. straight' \in BOOLEAN
    BY <1>0, <1>2 DEF HistoryTypes
  <2> QED
    BY <1>0, <1>1, <1>2, <1>5, <2>1 DEF HistoryTypes, Value
<1>7. straight' => OnOneLine'
  <2>1. CASE straight /\ Len(actions) - currentPos <= size
    <3>1. OnOneLine /\ x <= currentPos
      BY <1>1, <2>1 DEF HistoryIInv, OnOneLine, Cut, Size
    <3> HIDE DEF x
    <3> QED
      BY <1>1, <1>2, <1>4, <3>1, CutOfLine
  <2>2. CASE ~(straight /\ Len(actions) - currentPos <= size)
    BY <1>2, <1>6, <2>2, EmptyLineNext
  <2> QED
    BY <2>1, <2>2
<1> QED
  BY <1>2, <1>6, <1>7 DEF HistoryIInv

\* A merge keeps it: one that merges anything is not straight.
LEMMA CompressHistoryKeeps ==
    ASSUME HistoryIInv, CompressHistory
    PROVE  HistoryIInv'
<1>0. HistoryTypes
  BY DEF HistoryIInv
<1>1. /\ actions' \in Seq(HistoryAction)
      /\ UNCHANGED <<value, edited, currentPos, nextActionId, maxSize, compoundActions, bookmarks>>
      /\ straight' = ((straight /\ actions' = actions) \/ (actions' = <<>> /\ currentPos' = 0))
  BY <1>0, CompressedTyped DEF CompressHistory, settings, Straight
<1>2. HistoryTypes'
  <2>1. straight' \in BOOLEAN
    BY <1>0, <1>1 DEF HistoryTypes
  <2> QED
    BY <1>0, <1>1, <2>1 DEF HistoryTypes, Value
<1>3. straight' => OnOneLine'
  <2>1. CASE straight /\ actions' = actions
    BY <1>1, <2>1 DEF HistoryIInv, OnOneLine, ShownAt, Size
  <2>2. CASE ~(straight /\ actions' = actions)
    BY <1>1, <1>2, <2>2, EmptyLineNext
  <2> QED
    BY <2>1, <2>2
<1> QED
  BY <1>1, <1>2, <1>3 DEF HistoryIInv

\* The line holds through every step.
LEMMA HistoryKept == HistoryIInv /\ [HistoryNext]_historyVars => HistoryIInv'
<1> SUFFICES ASSUME HistoryIInv, [HistoryNext]_historyVars PROVE HistoryIInv'
  OBVIOUS
<1>0. HistoryTypes /\ Size \in Nat /\ currentPos \in Nat /\ (actions = <<>> <=> Size = 0)
  BY Actions DEF HistoryIInv, HistoryTypes
<1>1. ASSUME NEW type \in {"Transform", "PropertyChange"}, RecordAction(type) PROVE HistoryIInv'
  BY <1>1, RecordActionKeeps
<1>2. CASE EditUnrecorded
  BY <1>2, EditUnrecordedKeeps
<1>3. ASSUME NEW paused \in BOOLEAN, PauseRecording(paused) PROVE HistoryIInv'
  BY <1>0, <1>3, HistoryStays DEF PauseRecording, HistoryTypes
<1>4. CASE BeginCompoundAction
  <2>1. <<>> \in Seq(Nat)
    OBVIOUS
  <2> QED
    BY <1>0, <1>4, <2>1, HistoryStays DEF BeginCompoundAction, HistoryTypes
<1>5. CASE EndCompoundAction
  BY <1>5, EndCompoundKeeps
<1>6. CASE Undo
  BY <1>0, <1>6, GoKeeps DEF Undo, CanUndo
<1>7. CASE Redo
  BY <1>0, <1>7, GoKeeps DEF Redo, CanRedo, Size
<1>8. ASSUME NEW position \in 0 .. Size, JumpToPosition(position) PROVE HistoryIInv'
  BY <1>0, <1>8, GoKeeps DEF JumpToPosition
<1>9. CASE CreateBookmark
  BY <1>9, CreateBookmarkKeeps
<1>10. ASSUME NEW b \in bookmarks, DeleteBookmark(b) PROVE HistoryIInv'
  BY <1>0, <1>10, HistoryStays DEF DeleteBookmark, settings, HistoryTypes
<1>11. ASSUME NEW b \in bookmarks, JumpToBookmark(b) PROVE HistoryIInv'
  <2>1. PICK i \in Places(b) : JumpToPosition(i)
    BY <1>11 DEF JumpToBookmark
  <2>2. i \in 0 .. Size
    BY <1>0, Actions DEF Places, WithId
  <2> QED
    BY <1>8, <2>1, <2>2
<1>12. CASE ClearHistory
  BY <1>12, ClearHistoryKeeps
<1>13. ASSUME NEW size \in MaxSizes, SetMaxHistorySize(size) PROVE HistoryIInv'
  BY <1>13, SetMaxHistorySizeKeeps
<1>14. CASE CompressHistory
  BY <1>14, CompressHistoryKeeps
<1>15. CASE UNCHANGED historyVars
  BY <1>0, <1>15, HistoryStays DEF historyVars, HistoryTypes
<1> QED
  BY <1>1, <1>2, <1>3, <1>4, <1>5, <1>6, <1>7, <1>8, <1>9, <1>10, <1>11, <1>12, <1>13, <1>14, <1>15
     DEF HistoryNext, Size

\* In every reachable state a straight history lies on one line, in the order of
\* its ids, and the document is at its place on it.
THEOREM HistoryInvariant == HistorySpec => []HistoryIInv
<1>1. HistoryInit => HistoryIInv
  <2> SUFFICES ASSUME HistoryInit PROVE HistoryIInv
    OBVIOUS
  <2>1. HistoryTypes
    <3>1. <<>> \in Seq(Nat) /\ <<>> \in Seq(HistoryAction)
      OBVIOUS
    <3> QED
      BY <3>1, HistoryAssumption DEF HistoryInit, HistoryTypes, Value
  <2> QED
    BY <2>1, EmptyLine DEF HistoryInit, HistoryIInv
<1> QED
  BY <1>1, HistoryKept, PTL DEF HistorySpec

\* A bookmark leads back to the value it was made at, for any number of edits,
\* bookmarks and any limits of the history.
THEOREM BookmarksAlwaysReturn == HistorySpec => []BookmarksReturn
<1>1. HistoryIInv => BookmarksReturn
  <2> SUFFICES ASSUME HistoryIInv PROVE BookmarksReturn
    OBVIOUS
  <2>1. DOMAIN actions = 1 .. Size
    BY Actions DEF HistoryIInv
  <2>2. HistoryTypeOK
    BY DEF HistoryIInv, HistoryTypes, HistoryTypeOK
  <2>3. straight => \A b \in bookmarks : b.faithful => \A i \in Places(b) : actions[i].after = b.seen
    BY <2>1 DEF HistoryIInv, OnOneLine, Places, WithId
  <2> QED
    BY <2>2, <2>3 DEF BookmarksReturn
<1> QED
  BY <1>1, HistoryInvariant, PTL

-----------------------------------------------------------------------------
(* HistoryManager implements EditTimeline *)

\* What the line shows after k actions.
OnLine(k) == IF Size = 0 THEN value ELSE ShownAt(k)

IsHistoryLine ==
    /\ HistoryLine \in Seq(Value) /\ Len(HistoryLine) = Size + 1
    /\ \A k \in 1 .. Size + 1 : HistoryLine[k] = OnLine(k - 1)
    /\ HistoryPlace = currentPos + 1 /\ currentPos \in 0 .. Size
    /\ value = OnLine(currentPos)

\* On a straight history the line has a place before and after each action.
LEMMA LineOfHistory == HistoryIInv /\ straight => IsHistoryLine
<1> SUFFICES ASSUME HistoryIInv, straight PROVE IsHistoryLine
  OBVIOUS
<1>1. /\ Size \in Nat /\ DOMAIN actions = 1 .. Size /\ (actions = <<>> <=> Size = 0)
      /\ \A i \in 1 .. Size : actions[i] \in HistoryAction
      /\ value \in Value /\ currentPos \in 0 .. Size
      /\ OnOneLine
  BY Actions DEF HistoryIInv, HistoryTypes, OnOneLine
<1>2. CASE Size = 0
  <2>1. HistoryLine = <<value>> /\ HistoryPlace = 1
    BY <1>1, <1>2 DEF HistoryLine, HistoryPlace, Told
  <2> QED
    BY <1>1, <1>2, <2>1 DEF IsHistoryLine, OnLine
<1>3. CASE Size # 0
  <2> DEFINE first == <<actions[1].before>>
             rest == [i \in 1 .. Size |-> actions[i].after]
  <2>1. HistoryLine = first \o rest /\ HistoryPlace = currentPos + 1
    BY <1>1, <1>3 DEF HistoryLine, HistoryPlace, Told
  <2>2. /\ first \in Seq(Value) /\ Len(first) = 1 /\ first[1] = actions[1].before
        /\ rest \in Seq(Value) /\ Len(rest) = Size /\ \A i \in 1 .. Size : rest[i] = actions[i].after
    <3>1. \A i \in 1 .. Size : actions[i].before \in Value /\ actions[i].after \in Value
      BY <1>1 DEF HistoryAction
    <3>2. 1 \in 1 .. Size
      BY <1>1, <1>3
    <3> QED
      BY <1>1, <3>1, <3>2
  <2> HIDE DEF first, rest
  <2>3. /\ HistoryLine \in Seq(Value) /\ Len(HistoryLine) = Size + 1
        /\ \A k \in 1 .. Size + 1 : HistoryLine[k] = IF k <= 1 THEN first[k] ELSE rest[k - 1]
    <3>1. /\ first \o rest \in Seq(Value)
          /\ Len(first \o rest) = Len(first) + Len(rest)
          /\ \A k \in 1 .. Len(first) + Len(rest) :
                (first \o rest)[k] = IF k <= Len(first) THEN first[k] ELSE rest[k - Len(first)]
      BY <2>2, ConcatProperties
    <3>2. Len(first) + Len(rest) = Size + 1
      BY <1>1, <2>2
    <3> HIDE DEF HistoryLine
    <3> QED
      BY <2>1, <2>2, <3>1, <3>2
  <2>4. ASSUME NEW k \in 1 .. Size + 1 PROVE HistoryLine[k] = OnLine(k - 1)
    <3>1. CASE k = 1
      BY <1>1, <1>3, <2>2, <2>3, <3>1 DEF OnLine, ShownAt
    <3>2. CASE k # 1
      <4>1. k - 1 \in 1 .. Size /\ ~(k <= 1)
        BY <1>1, <3>2
      <4> QED
        BY <1>3, <2>2, <2>3, <4>1 DEF OnLine, ShownAt
    <3> QED
      BY <3>1, <3>2
  <2>5. value = OnLine(currentPos)
    BY <1>1, <1>3 DEF OnOneLine, OnLine
  <2> QED
    BY <1>1, <2>1, <2>3, <2>4, <2>5 DEF IsHistoryLine
<1> QED
  BY <1>2, <1>3

\* The same in the next state.
LEMMA LineOfHistoryNext == (HistoryIInv /\ straight => IsHistoryLine)'
BY LineOfHistory, PTL

\* An untold history is a new line of one value.
LEMMA UntoldIsRestart ==
    ASSUME HistoryIInv', ~Told'
    PROVE  \E d \in Value : Timeline!Restart(d)
<1>1. value' \in Value /\ HistoryLine' = <<value'>> /\ HistoryPlace' = 1
  BY DEF HistoryIInv, HistoryTypes, HistoryLine, HistoryPlace, Value
<1> QED
  BY <1>1 DEF Timeline!Restart

\* Recording an action edits at the place where the document is.
LEMMA RecordIsEdit ==
    ASSUME HistoryIInv, HistoryIInv', NEW type \in {"Transform", "PropertyChange"},
           RecordAction(type), Told'
    PROVE  \E d \in Value : Timeline!Edit(d)
<1> DEFINE action == [id |-> NewId, type |-> type, before |-> value, after |-> value', parts |-> <<>>]
           past == SubSeq(HistoryLine, 1, HistoryPlace)
           longer == Append(past, value')
           rest == SubSeq(longer, Lost + 1, Len(longer))
<1>0. HistoryTypes /\ HistoryTypes' /\ value' \in Value
  BY DEF HistoryIInv, HistoryTypes, Value
<1>1. /\ History(AddAction(action))
      /\ straight' = (straight \/ (actions' = <<>> /\ currentPos' = 0))
      /\ straight' /\ actions' # <<>> /\ straight
  BY <1>0 DEF RecordAction, Straight, Told, HistoryTypes
<1>2. action \in HistoryAction /\ action.before = value /\ action.after = value'
  <2>1. <<>> \in Seq(Nat) /\ nextActionId \in Nat /\ value \in Value
    BY <1>0 DEF HistoryTypes
  <2> QED
    BY <1>0, <2>1 DEF HistoryAction, NewId
<1> HIDE DEF action
<1>3. IsAdded([actions |-> actions', pos |-> currentPos'], action)
  BY <1>0, <1>1, <1>2, AddedIsTyped
<1>4. /\ HistoryLine \in Seq(Value) /\ Len(HistoryLine) = Size + 1
      /\ \A k \in 1 .. Size + 1 : HistoryLine[k] = OnLine(k - 1)
      /\ HistoryPlace = currentPos + 1 /\ currentPos \in 0 .. Size
      /\ value = OnLine(currentPos)
  BY <1>1, LineOfHistory DEF IsHistoryLine
<1>5. /\ HistoryLine' \in Seq(Value) /\ Len(HistoryLine') = Size' + 1
      /\ \A k \in 1 .. Size' + 1 : HistoryLine'[k] = OnLine(k - 1)'
      /\ HistoryPlace' = currentPos' + 1
  BY <1>1, LineOfHistoryNext DEF IsHistoryLine
<1>6. Size \in Nat /\ Size' \in Nat /\ Size' # 0
  <2>1. (HistoryTypes => Size \in Nat /\ (actions = <<>> <=> Size = 0))'
    BY Actions, PTL
  <2> QED
    BY <1>0, <1>1, <2>1, Actions
<1>7. /\ Lost \in 0 .. currentPos + 1 /\ Len(actions') = (currentPos + 1) - Lost
      /\ \A i \in 1 .. (currentPos + 1) - Lost :
            actions'[i] = IF i + Lost = currentPos + 1 THEN action ELSE actions[i + Lost]
      /\ currentPos' = (currentPos + 1) - Lost
  <2>1. Kept = currentPos
    BY <1>4, <1>6 DEF Kept
  <2> QED
    BY <1>3, <2>1, Zenon DEF IsAdded
<1>8. /\ Lost \in 0 .. currentPos /\ Size' = (currentPos + 1) - Lost /\ currentPos' = Size'
      /\ Size' + Lost = currentPos + 1
  BY <1>4, <1>6, <1>7 DEF Size
<1>9. /\ past \in Seq(Value) /\ Len(past) = currentPos + 1
      /\ \A k \in 1 .. currentPos + 1 : past[k] = OnLine(k - 1)
  <2>1. \A k \in 1 .. currentPos + 1 : HistoryLine[k] \in Value /\ HistoryLine[k] = OnLine(k - 1)
    BY <1>4, <1>6, ElementOfSeq
  <2>2. /\ past \in Seq(Value)
        /\ Len(past) = IF 1 <= currentPos + 1 THEN (currentPos + 1) - 1 + 1 ELSE 0
        /\ \A k \in 1 .. (currentPos + 1) - 1 + 1 : past[k] = HistoryLine[1 + k - 1]
    BY <1>4, <1>6, <2>1, SubSeqProperties
  <2> HIDE DEF past
  <2> QED
    BY <1>4, <1>6, <2>1, <2>2
<1> HIDE DEF past
<1>10. /\ longer \in Seq(Value) /\ Len(longer) = currentPos + 2
       /\ \A k \in 1 .. currentPos + 1 : longer[k] = OnLine(k - 1)
       /\ longer[currentPos + 2] = value'
  <2>1. /\ longer \in Seq(Value) /\ Len(longer) = Len(past) + 1
        /\ \A k \in 1 .. Len(past) : longer[k] = past[k]
        /\ longer[Len(past) + 1] = value'
    BY <1>0, <1>9, AppendProperties
  <2> HIDE DEF longer
  <2> QED
    BY <1>4, <1>9, <2>1
<1> HIDE DEF longer
<1>11. /\ rest \in Seq(Value) /\ Len(rest) = Size' + 1
       /\ \A i \in 1 .. Size' + 1 : rest[i] = longer[i + Lost]
  <2>1. \A i \in Lost + 1 .. Len(longer) : longer[i] \in Value
    BY <1>4, <1>7, <1>10, ElementOfSeq
  <2>2. /\ rest \in Seq(Value)
        /\ Len(rest) = IF Lost + 1 <= Len(longer) THEN Len(longer) - (Lost + 1) + 1 ELSE 0
        /\ \A i \in 1 .. Len(longer) - (Lost + 1) + 1 : rest[i] = longer[(Lost + 1) + i - 1]
    BY <1>4, <1>7, <1>10, <2>1, SubSeqProperties
  <2>3. /\ Len(longer) - (Lost + 1) + 1 = Size' + 1 /\ Lost + 1 <= Len(longer)
        /\ \A i \in 1 .. Size' + 1 : (Lost + 1) + i - 1 = i + Lost
    BY <1>4, <1>6, <1>7, <1>8, <1>10
  <2> HIDE DEF rest
  <2> QED
    BY <2>2, <2>3
<1> HIDE DEF rest
<1>12. ASSUME NEW k \in 1 .. Size' + 1 PROVE HistoryLine'[k] = rest[k]
  <2>1. /\ rest[k] = longer[k + Lost] /\ k + Lost \in 1 .. currentPos + 2
        /\ HistoryLine'[k] = IF k - 1 = 0 THEN actions'[1].before ELSE actions'[k - 1].after
    BY <1>4, <1>5, <1>6, <1>8, <1>11 DEF OnLine, ShownAt
  <2>2. CASE k = 1
    <3>1. CASE Lost = currentPos
      <4>1. actions'[1] = action /\ longer[k + Lost] = OnLine(currentPos)
        BY <1>4, <1>6, <1>7, <1>8, <1>10, <2>2, <3>1
      <4> QED
        BY <1>2, <1>4, <2>1, <2>2, <4>1
    <3>2. CASE Lost # currentPos
      <4>1. actions'[1] = actions[1 + Lost] /\ 1 + Lost \in 1 .. Size /\ longer[k + Lost] = OnLine(Lost)
        BY <1>4, <1>6, <1>7, <1>8, <1>10, <2>2, <3>2
      <4>2. OnLine(Lost) = actions[1 + Lost].before
        <5>1. CASE Lost = 0
          BY <1>6, <4>1, <5>1 DEF OnLine, ShownAt
        <5>2. CASE Lost # 0
          <6>1. Lost \in 1 .. Size - 1 /\ 1 + Lost = Lost + 1 /\ Size # 0
            BY <1>6, <1>8, <4>1, <5>2
          <6>2. actions[Lost].after = actions[Lost + 1].before
            BY <1>1, <6>1 DEF HistoryIInv, OnOneLine
          <6> QED
            BY <5>2, <6>1, <6>2 DEF OnLine, ShownAt
        <5> QED
          BY <5>1, <5>2
      <4> QED
        BY <2>1, <2>2, <4>1, <4>2
    <3> QED
      BY <3>1, <3>2
  <2>3. CASE k # 1
    <3>0. k - 1 \in 1 .. Size' /\ k - 1 # 0
      BY <1>4, <1>6, <1>8, <2>3
    <3>1. k - 1 \in 1 .. Size' /\ HistoryLine'[k] = actions'[k - 1].after
      BY <2>1, <3>0
    <3>2. CASE k = Size' + 1
      <4>1. k - 1 = Size' /\ k + Lost = currentPos + 2
        BY <1>4, <1>6, <1>8, <3>2
      <4>2. actions'[Size'] = action
        BY <1>4, <1>6, <1>7, <1>8
      <4> QED
        BY <1>2, <1>10, <2>1, <3>1, <4>1, <4>2
    <3>3. CASE k # Size' + 1
      <4>1. /\ (k - 1) + Lost # currentPos + 1 /\ (k - 1) + Lost \in 1 .. currentPos
            /\ (k - 1) + Lost = (k + Lost) - 1 /\ k + Lost \in 1 .. currentPos + 1
        BY <1>4, <1>6, <1>8, <3>1, <3>3
      <4>2. actions'[k - 1] = actions[(k - 1) + Lost] /\ longer[k + Lost] = OnLine((k - 1) + Lost)
        BY <1>7, <1>8, <1>10, <3>1, <4>1
      <4>3. Size # 0 /\ (k - 1) + Lost # 0
        <5>1. (k - 1) + Lost \in 1 .. currentPos
          BY <4>1
        <5>2. currentPos \in 0 .. Size
          BY <1>4
        <5> HIDE DEF Lost
        <5> QED
          BY <1>6, <5>1, <5>2
      <4> QED
        BY <2>1, <3>1, <4>2, <4>3 DEF OnLine, ShownAt
    <3> QED
      BY <3>2, <3>3
  <2> QED
    BY <2>2, <2>3
<1>13. HistoryLine' = rest
  BY <1>5, <1>6, <1>11, <1>12, SeqEqual
<1>14. Lost \in 0 .. HistoryPlace /\ HistoryPlace' = Len(HistoryLine')
  BY <1>4, <1>5, <1>6, <1>8
<1> QED
  BY <1>0, <1>13, <1>14 DEF Timeline!Edit, Timeline!From, rest, longer, past

\* Undo, redo and jumps keep the line and go to a place on it.
LEMMA GoIsGo ==
    ASSUME HistoryIInv, HistoryIInv', NEW position \in Nat, Go(position), Told',
           position < currentPos \/ position <= Size
    PROVE  \E place \in DOMAIN HistoryLine : Timeline!Go(place)
<1>0. HistoryTypes
  BY DEF HistoryIInv
<1>1. /\ UNCHANGED actions /\ currentPos' = position /\ straight /\ straight' /\ Told
      /\ value' \in AfterRounds(position)
  BY <1>0 DEF Go, Straight, Told, HistoryTypes
<1>2. IsHistoryLine /\ Size \in Nat /\ Size # 0 /\ OnOneLine
  BY <1>0, <1>1, LineOfHistory, Actions DEF Told, HistoryIInv
<1>3. position \in 0 .. Size
  BY <1>2 DEF IsHistoryLine
<1>4. value' = ShownAt(position)
  BY <1>0, <1>1, <1>2, <1>3, JumpOnLine
<1>5. HistoryLine' = HistoryLine /\ HistoryPlace' = position + 1
  BY <1>1 DEF HistoryLine, HistoryPlace, Told
<1>6. position + 1 \in DOMAIN HistoryLine /\ HistoryLine[position + 1] = value'
  <2>1. DOMAIN HistoryLine = 1 .. Size + 1
    BY <1>2, LenProperties DEF IsHistoryLine
  <2>2. position + 1 \in 1 .. Size + 1 /\ (position + 1) - 1 = position
    BY <1>2, <1>3
  <2>3. HistoryLine[position + 1] = OnLine(position)
    BY <1>2, <2>2 DEF IsHistoryLine
  <2> QED
    BY <1>2, <1>4, <2>1, <2>2, <2>3 DEF OnLine
<1> QED
  BY <1>5, <1>6 DEF Timeline!Go

\* A limit forgets the oldest values of the line.
LEMMA LimitIsForget ==
    ASSUME HistoryIInv, HistoryIInv', NEW size \in MaxSizes, SetMaxHistorySize(size), Told'
    PROVE  \E k \in 0 .. Len(HistoryLine) : Timeline!Forget(k)
<1> DEFINE h == TrimHistory([actions |-> actions, pos |-> currentPos], size)
           x == Cut(Size, size)
           rest == SubSeq(HistoryLine, x + 1, Len(HistoryLine))
<1>0. HistoryTypes
  BY DEF HistoryIInv
<1>1. /\ Size \in Nat /\ currentPos \in Nat /\ size \in Nat /\ actions \in Seq(HistoryAction)
      /\ x \in 0 .. Size
  BY <1>0, Actions, HistoryAssumption DEF HistoryTypes, Cut
<1>2. /\ actions' = h.actions /\ currentPos' = h.pos /\ value' = value
      /\ straight /\ straight' /\ Len(actions) - currentPos <= size
  BY <1>0 DEF SetMaxHistorySize, History, Straight, Told, HistoryTypes
<1>3. IsCut(h, actions, Size, currentPos, x)
  BY <1>1, TrimParts DEF Size
<1> HIDE DEF h
<1>4. /\ Len(actions') = Size - x
      /\ \A i \in 1 .. Size - x : actions'[i] = actions[i + x]
      /\ currentPos' = IF currentPos > x THEN currentPos - x ELSE 0
  BY <1>2, <1>3, Zenon DEF IsCut
<1>5. /\ HistoryLine \in Seq(Value) /\ Len(HistoryLine) = Size + 1
      /\ \A k \in 1 .. Size + 1 : HistoryLine[k] = OnLine(k - 1)
      /\ HistoryPlace = currentPos + 1 /\ currentPos \in 0 .. Size
      /\ OnOneLine
  BY <1>2, LineOfHistory DEF IsHistoryLine, HistoryIInv
<1>6. /\ HistoryLine' \in Seq(Value) /\ Len(HistoryLine') = Size' + 1
      /\ \A k \in 1 .. Size' + 1 : HistoryLine'[k] = OnLine(k - 1)'
      /\ HistoryPlace' = currentPos' + 1
  BY <1>2, LineOfHistoryNext DEF IsHistoryLine
<1>7. x <= currentPos
  BY <1>1, <1>2 DEF Cut, Size
<1>8. Size' = Size - x /\ currentPos' = currentPos - x /\ Size' \in Nat \ {0}
  <2>1. (HistoryTypes => (actions = <<>> <=> Size = 0))'
    BY Actions, PTL
  <2>2. Size' # 0
    BY <2>1 DEF Told, HistoryIInv
  <2> QED
    BY <1>1, <1>4, <1>7, <2>2 DEF Size
<1> HIDE DEF x
<1>9. /\ rest \in Seq(Value) /\ Len(rest) = Size' + 1
      /\ \A i \in 1 .. Size' + 1 : rest[i] = HistoryLine[i + x]
  <2>1. \A i \in x + 1 .. Len(HistoryLine) : HistoryLine[i] \in Value
    BY <1>1, <1>5, ElementOfSeq
  <2>2. /\ rest \in Seq(Value)
        /\ Len(rest) = IF x + 1 <= Len(HistoryLine) THEN Len(HistoryLine) - (x + 1) + 1 ELSE 0
        /\ \A i \in 1 .. Len(HistoryLine) - (x + 1) + 1 : rest[i] = HistoryLine[(x + 1) + i - 1]
    BY <1>1, <1>5, <2>1, SubSeqProperties
  <2>3. /\ Len(HistoryLine) - (x + 1) + 1 = Size' + 1 /\ x + 1 <= Len(HistoryLine)
        /\ \A i \in 1 .. Size' + 1 : (x + 1) + i - 1 = i + x
    BY <1>1, <1>5, <1>8
  <2> HIDE DEF rest
  <2> QED
    BY <2>2, <2>3
<1> HIDE DEF rest
<1>10. ASSUME NEW k \in 1 .. Size' + 1 PROVE HistoryLine'[k] = rest[k]
  <2>1. /\ rest[k] = HistoryLine[k + x] /\ k + x \in 1 .. Size + 1 /\ Size # 0
        /\ HistoryLine[k + x] = ShownAt((k + x) - 1)
        /\ HistoryLine'[k] = IF k - 1 = 0 THEN actions'[1].before ELSE actions'[k - 1].after
    <3>1. rest[k] = HistoryLine[k + x] /\ k + x \in 1 .. Size + 1 /\ Size # 0 /\ Size' # 0
      BY <1>1, <1>8, <1>9
    <3>2. HistoryLine[k + x] = ShownAt((k + x) - 1)
      <4>1. HistoryLine[k + x] = OnLine((k + x) - 1)
        BY <1>5, <3>1
      <4> QED
        BY <3>1, <4>1 DEF OnLine
    <3>3. HistoryLine'[k] = IF k - 1 = 0 THEN actions'[1].before ELSE actions'[k - 1].after
      <4>1. HistoryLine'[k] = OnLine(k - 1)'
        BY <1>6
      <4> QED
        BY <3>1, <4>1 DEF OnLine, ShownAt
    <3> QED
      BY <3>1, <3>2, <3>3
  <2>2. CASE k = 1
    <3>1. actions'[1] = actions[x + 1] /\ x + 1 \in 1 .. Size /\ (k + x) - 1 = x
      <4>1. x \in Nat /\ Size \in Nat /\ Size - x \in Nat \ {0}
        BY <1>1, <1>8
      <4>2. 1 \in 1 .. Size - x /\ x + 1 \in 1 .. Size /\ (k + x) - 1 = x /\ 1 + x = x + 1
        BY <4>1, <2>2
      <4>3. actions'[1] = actions[1 + x]
        BY <1>4, <4>2
      <4> QED
        BY <4>2, <4>3
    <3>2. ShownAt(x) = actions[x + 1].before
      <4>1. CASE x = 0
        BY <4>1 DEF ShownAt
      <4>2. CASE x # 0
        <5>1. x \in 1 .. Size - 1
          BY <1>1, <3>1, <4>2
        <5> QED
          BY <1>5, <4>2, <5>1 DEF OnOneLine, ShownAt
      <4> QED
        BY <4>1, <4>2
    <3> QED
      BY <2>1, <2>2, <3>1, <3>2
  <2>3. CASE k # 1
    <3>1. /\ k - 1 \in 1 .. Size - x /\ (k - 1) + x = (k + x) - 1 /\ (k + x) - 1 # 0
      BY <1>1, <1>8, <2>3
    <3>2. actions'[k - 1] = actions[(k + x) - 1]
      BY <1>4, <3>1
    <3> QED
      BY <2>1, <2>3, <3>1, <3>2 DEF ShownAt
  <2> QED
    BY <2>2, <2>3
<1>11. HistoryLine' = rest
  BY <1>6, <1>8, <1>9, <1>10, SeqEqual
<1>12. x \in 0 .. Len(HistoryLine) /\ x < HistoryPlace /\ HistoryPlace' = HistoryPlace - x
  BY <1>1, <1>5, <1>6, <1>7, <1>8
<1> QED
  BY <1>2, <1>11, <1>12 DEF Timeline!Forget, Timeline!From, rest

\* While the history is straight, undo, redo, jumps and limits walk and cut the
\* line of the values that the edits made, for any number of them and any limits.
THEOREM HistoryRefines == HistorySpec => HistoryImplementsTimeline
<1>1. HistoryInit => Timeline!TimelineInit
  <2> SUFFICES ASSUME HistoryInit PROVE Timeline!TimelineInit
    OBVIOUS
  <2>1. value \in Value /\ ~Told
    BY HistoryAssumption DEF HistoryInit, Value, Told
  <2> QED
    BY <2>1 DEF Timeline!TimelineInit, HistoryLine, HistoryPlace
<1>2. HistoryIInv /\ HistoryIInv' /\ [HistoryNext]_historyVars
        => [Timeline!TimelineNext]_(Timeline!timelineVars)
  <2> SUFFICES ASSUME HistoryIInv, HistoryIInv', [HistoryNext]_historyVars, Told'
               PROVE  [Timeline!TimelineNext]_(Timeline!timelineVars)
    BY UntoldIsRestart DEF Timeline!TimelineNext
  <2>0. /\ HistoryTypes /\ Size \in Nat /\ currentPos \in Nat /\ (actions = <<>> <=> Size = 0)
        /\ DOMAIN actions = 1 .. Size /\ straight' /\ actions' # <<>>
    BY Actions DEF HistoryIInv, HistoryTypes, Told
  <2>a. ASSUME NEW position \in Nat, Go(position), position < currentPos \/ position <= Size
        PROVE  Timeline!TimelineNext
    BY <2>a, GoIsGo DEF Timeline!TimelineNext
  <2>b. ASSUME UNCHANGED <<value, actions, currentPos, straight>>
        PROVE  UNCHANGED Timeline!timelineVars
    BY <2>b DEF Timeline!timelineVars, HistoryLine, HistoryPlace, Told
  <2>c. ASSUME NEW position \in 0 .. Size, JumpToPosition(position) PROVE Timeline!TimelineNext
    BY <2>0, <2>a, <2>c DEF JumpToPosition
  <2>1. ASSUME NEW type \in {"Transform", "PropertyChange"}, RecordAction(type)
        PROVE  Timeline!TimelineNext
    BY <2>1, RecordIsEdit DEF Timeline!TimelineNext
  <2>2. ~EditUnrecorded
    BY <2>0 DEF EditUnrecorded, Straight
  <2>3. ASSUME NEW paused \in BOOLEAN, PauseRecording(paused) PROVE UNCHANGED Timeline!timelineVars
    BY <2>3, <2>b DEF PauseRecording
  <2>4. BeginCompoundAction => UNCHANGED Timeline!timelineVars
    BY <2>b DEF BeginCompoundAction
  <2>5. EndCompoundAction => UNCHANGED Timeline!timelineVars
    BY <2>0, <2>b DEF EndCompoundAction, Straight
  <2>6. Undo => Timeline!TimelineNext
    BY <2>0, <2>a DEF Undo, CanUndo
  <2>7. Redo => Timeline!TimelineNext
    BY <2>0, <2>a DEF Redo, CanRedo, Size
  <2>8. CreateBookmark => UNCHANGED Timeline!timelineVars
    BY <2>b DEF CreateBookmark
  <2>9. ASSUME NEW b \in bookmarks, DeleteBookmark(b) PROVE UNCHANGED Timeline!timelineVars
    BY <2>9, <2>b DEF DeleteBookmark
  <2>10. ASSUME NEW b \in bookmarks, JumpToBookmark(b) PROVE Timeline!TimelineNext
    <3>1. PICK i \in Places(b) : JumpToPosition(i)
      BY <2>10 DEF JumpToBookmark
    <3>2. i \in 0 .. Size
      BY <2>0 DEF Places, WithId
    <3> QED
      BY <2>c, <3>1, <3>2
  <2>11. ~ClearHistory
    BY <2>0 DEF ClearHistory
  <2>12. ASSUME NEW size \in MaxSizes, SetMaxHistorySize(size) PROVE Timeline!TimelineNext
    BY <2>12, LimitIsForget DEF Timeline!TimelineNext
  <2>13. CompressHistory => UNCHANGED Timeline!timelineVars
    BY <2>0, <2>b DEF CompressHistory, Straight, HistoryTypes
  <2>14. UNCHANGED historyVars => UNCHANGED Timeline!timelineVars
    BY <2>b DEF historyVars
  <2> QED
    BY <2>c, <2>1, <2>2, <2>3, <2>4, <2>5, <2>6, <2>7, <2>8, <2>9, <2>10, <2>11, <2>12, <2>13, <2>14
       DEF HistoryNext, Size
<1> QED
  BY <1>1, <1>2, HistoryInvariant, PTL DEF HistorySpec, HistoryImplementsTimeline, Timeline!TimelineSpec

-----------------------------------------------------------------------------
(* SpatialIndex *)

\* Paths to cells.
CellPath == Seq(SUBSET Axis)

IsBox(box) == \A d \in Axis : box[d] \in Interval

\* The cells of a tree that divides the given axes.
HalfOf(divided, parent, octant) ==
    [d \in Axis |-> IF d \notin divided THEN parent[d]
                    ELSE IF d \in octant THEN <<Middle(parent, d), High(parent, d)>>
                    ELSE <<Low(parent, d), Middle(parent, d)>>]

CellIn(divided, path) ==
    LET cell[i \in 0 .. Len(path)] ==
            IF i = 0 THEN Bounds ELSE HalfOf(divided, cell[i - 1], path[i])
    IN  cell[Len(path)]

OctantIn(divided, cell, box) ==
    {d \in divided : Low(box, d) + High(box, d) >= Low(cell, d) + High(cell, d)}

\* Those of the tree of this index.
LEMMA CellsOfIndex ==
    /\ \A path \in CellPath : CellBounds(path) = CellIn(Divided, path)
    /\ \A cell, box : GetOctant(cell, box) = OctantIn(Divided, cell, box)
<1>1. \A path \in CellPath : CellBounds(path) = CellIn(Divided, path)
  <2> HIDE DEF CellPath
  <2> QED
    BY Zenon DEF CellBounds, CellIn, GetOctantBounds, HalfOf
<1>2. \A cell, box : GetOctant(cell, box) = OctantIn(Divided, cell, box)
  BY Zenon DEF GetOctant, OctantIn
<1> QED
  BY <1>1, <1>2

\* The half of an integer, rounded down.
LEMMA Half ==
    ASSUME NEW a \in Int
    PROVE  a \div 2 \in Int /\ 2 * (a \div 2) <= a /\ a <= 2 * (a \div 2) + 1
OBVIOUS

\* Half a cell is a cell.
LEMMA HalfIsBox ==
    ASSUME NEW divided, NEW cell, NEW octant, IsBox(cell)
    PROVE  IsBox(HalfOf(divided, cell, octant))
<1>1. SUFFICES ASSUME NEW d \in Axis PROVE HalfOf(divided, cell, octant)[d] \in Interval
  BY DEF IsBox
<1>2. cell[d] \in Interval /\ Low(cell, d) \in Int /\ High(cell, d) \in Int
  BY DEF IsBox, Interval, Low, High
<1>3. Middle(cell, d) \in Int
  BY <1>2, Half DEF Middle
<1> QED
  BY <1>2, <1>3 DEF HalfOf, Interval

\* What halves the bounds along the path leads to the cell.
Halves(divided, path, f) ==
    /\ f[0] = Bounds
    /\ \A i \in 1 .. Len(path) : f[i] = HalfOf(divided, f[i - 1], path[i])

\* Whatever halves along the path ends with the cell of the path.
LEMMA CellByHalves ==
    ASSUME NEW divided, NEW path \in CellPath, NEW f, Halves(divided, path, f)
    PROVE  CellIn(divided, path) = f[Len(path)]
<1> DEFINE Q(g) == g = [i \in 0 .. Len(path) |->
                          IF i = 0 THEN Bounds ELSE HalfOf(divided, g[i - 1], path[i])]
           h == CHOOSE g : Q(g)
           own == [i \in 0 .. Len(path) |-> f[i]]
<1>1. Len(path) \in Nat
  BY DEF CellPath
<1>2. Q(own)
  <2>1. ASSUME NEW i \in 0 .. Len(path)
        PROVE  own[i] = IF i = 0 THEN Bounds ELSE HalfOf(divided, own[i - 1], path[i])
    <3>1. CASE i = 0
      BY <3>1 DEF Halves
    <3>2. CASE i # 0
      <4>1. i \in 1 .. Len(path) /\ i - 1 \in 0 .. Len(path)
        BY <1>1, <3>2
      <4> QED
        BY <3>2, <4>1 DEF Halves
    <3> QED
      BY <3>1, <3>2
  <2> HIDE DEF own
  <2>2. own = [i \in 0 .. Len(path) |-> own[i]]
    BY DEF own
  <2> QED
    BY <2>1, <2>2
<1>3. Q(h)
  <2> HIDE DEF Q
  <2> QED
    BY <1>2, Zenon
<1>4. CellIn(divided, path) = h[Len(path)]
  BY Zenon DEF CellIn
<1> HIDE DEF h
<1> DEFINE T == {i \in 0 .. Len(path) : h[i] = f[i]}
<1>5. 0 \in T
  <2>1. h[0] = Bounds
    BY <1>1, <1>3
  <2> QED
    BY <1>1, <2>1 DEF Halves
<1>6. ASSUME NEW i \in 1 .. Len(path), i - 1 \in T PROVE i \in T
  <2>1. h[i] = HalfOf(divided, h[i - 1], path[i])
    BY <1>1, <1>3
  <2>2. f[i] = HalfOf(divided, f[i - 1], path[i])
    BY DEF Halves
  <2> QED
    BY <1>1, <1>6, <2>1, <2>2
<1>7. T = 0 .. Len(path)
  <2>1. T \in SUBSET (0 .. Len(path))
    OBVIOUS
  <2> HIDE DEF T
  <2> QED
    BY <1>1, <1>5, <1>6, <2>1, Induction
<1>8. Len(path) \in T
  BY <1>1, <1>7
<1> QED
  BY <1>4, <1>8

\* Along every path the bounds can be halved.
LEMMA CellHalves ==
    ASSUME NEW divided, NEW path \in CellPath
    PROVE  \E f : Halves(divided, path, f) /\ \A i \in 0 .. Len(path) : IsBox(f[i])
<1> DEFINE S == [Axis -> Interval] \cup {Bounds}
           G == [i \in 1 .. Len(path) |-> [box \in S |-> HalfOf(divided, box, path[i])]]
<1>1. \A box \in S : IsBox(box)
  BY SpatialAssumption DEF IsBox
<1>2. \A box \in S : \A octant : HalfOf(divided, box, octant) \in S
  <2>1. TAKE box \in S
  <2>2. TAKE octant
  <2>3. IsBox(HalfOf(divided, box, octant))
    BY <1>1, HalfIsBox
  <2> QED
    BY <2>3 DEF IsBox, HalfOf
<1>3. Len(path) \in Nat
  BY DEF CellPath
<1>4. G \in [1 .. Len(path) -> [S -> S]]
  BY <1>2
<1>5. Bounds \in S
  OBVIOUS
<1> HIDE DEF S, G
<1>6. PICK f \in [0 .. Len(path) -> S] : f[0] = Bounds /\ Follows(f, G, Len(path))
  BY <1>3, <1>4, <1>5, Recursion
<1>7. ASSUME NEW i \in 1 .. Len(path) PROVE f[i] = HalfOf(divided, f[i - 1], path[i])
  <2>1. f[i] = G[i][f[i - 1]]
    BY <1>6 DEF Follows
  <2>2. f[i - 1] \in S
    BY <1>3, <1>6
  <2> QED
    BY <2>1, <2>2 DEF G
<1>8. Halves(divided, path, f)
  BY <1>6, <1>7 DEF Halves
<1> QED
  BY <1>1, <1>6, <1>8

\* The cell at the end of a path is a half of the one before.
LEMMA CellsHalve ==
    ASSUME NEW divided, NEW path \in CellPath, NEW octant \in SUBSET Axis
    PROVE  /\ IsBox(CellIn(divided, path))
           /\ CellIn(divided, <<>>) = Bounds
           /\ CellIn(divided, Append(path, octant)) = HalfOf(divided, CellIn(divided, path), octant)
<1> DEFINE longer == Append(path, octant)
<1>1. /\ longer \in CellPath /\ Len(path) \in Nat /\ Len(longer) = Len(path) + 1
      /\ longer[Len(longer)] = octant
      /\ \A i \in 1 .. Len(path) : longer[i] = path[i]
  BY DEF CellPath
<1> HIDE DEF longer
<1>2. PICK f : Halves(divided, longer, f) /\ \A i \in 0 .. Len(longer) : IsBox(f[i])
  BY <1>1, CellHalves
<1>3. Halves(divided, path, f)
  BY <1>1, <1>2 DEF Halves
<1>4. CellIn(divided, path) = f[Len(path)] /\ CellIn(divided, longer) = f[Len(longer)]
  BY <1>1, <1>2, <1>3, CellByHalves
<1>5. f[Len(longer)] = HalfOf(divided, f[Len(path)], octant)
  <2>1. Len(longer) \in 1 .. Len(longer) /\ Len(longer) - 1 = Len(path)
    BY <1>1
  <2>2. f[Len(longer)] = HalfOf(divided, f[Len(longer) - 1], longer[Len(longer)])
    BY <1>2, <2>1 DEF Halves
  <2> QED
    BY <1>1, <2>1, <2>2
<1>6. IsBox(f[Len(path)])
  BY <1>1, <1>2
<1>7. CellIn(divided, <<>>) = Bounds
  <2>1. <<>> \in CellPath /\ Len(<<>>) = 0
    BY DEF CellPath
  <2>2. Halves(divided, <<>>, f)
    BY <1>2, <2>1 DEF Halves
  <2>3. CellIn(divided, <<>>) = f[Len(<<>>)]
    BY <2>1, <2>2, CellByHalves
  <2> QED
    BY <1>2, <2>1, <2>3 DEF Halves
<1> QED
  BY <1>4, <1>5, <1>6, <1>7 DEF longer

\* The octant of a box's centre holds it.
LEMMA OctantHolds ==
    ASSUME NEW divided, NEW cell, NEW box, IsBox(cell), IsBox(box), CentreIn(box, cell)
    PROVE  CentreIn(box, HalfOf(divided, cell, OctantIn(divided, cell, box)))
<1> DEFINE octant == OctantIn(divided, cell, box)
           half == HalfOf(divided, cell, octant)
<1>1. SUFFICES ASSUME NEW d \in Axis
               PROVE  /\ Low(box, d) + High(box, d) >= 2 * Low(half, d)
                      /\ Low(box, d) + High(box, d) <= 2 * High(half, d)
  BY DEF CentreIn
<1>2. /\ Low(cell, d) \in Int /\ High(cell, d) \in Int
      /\ Low(box, d) \in Int /\ High(box, d) \in Int
  BY DEF IsBox, Interval, Low, High
<1>3. /\ Low(box, d) + High(box, d) >= 2 * Low(cell, d)
      /\ Low(box, d) + High(box, d) <= 2 * High(cell, d)
  BY DEF CentreIn
<1>4. /\ Middle(cell, d) \in Int
      /\ 2 * Middle(cell, d) <= Low(cell, d) + High(cell, d)
      /\ Low(cell, d) + High(cell, d) <= 2 * Middle(cell, d) + 1
  BY <1>2, Half DEF Middle
<1>5. CASE d \notin divided
  BY <1>3, <1>5 DEF HalfOf, Low, High
<1>6. CASE d \in octant
  <2>1. d \in divided /\ Low(box, d) + High(box, d) >= Low(cell, d) + High(cell, d)
    BY <1>6 DEF OctantIn
  <2>2. Low(half, d) = Middle(cell, d) /\ High(half, d) = High(cell, d)
    BY <1>6, <2>1 DEF HalfOf, Low, High
  <2> HIDE DEF half
  <2> QED
    BY <1>2, <1>3, <1>4, <2>1, <2>2
<1>7. CASE d \in divided /\ d \notin octant
  <2>1. ~(Low(box, d) + High(box, d) >= Low(cell, d) + High(cell, d))
    BY <1>7 DEF OctantIn
  <2>2. Low(half, d) = Low(cell, d) /\ High(half, d) = Middle(cell, d)
    BY <1>7 DEF HalfOf, Low, High
  <2> HIDE DEF half
  <2> QED
    BY <1>2, <1>3, <1>4, <2>1, <2>2
<1> QED
  BY <1>5, <1>6, <1>7

\* A box's centre is in every cell on the way to the leaf.
OnTheWay(divided, leaf, box) == \A p \in Ancestors(leaf) : CentreIn(box, CellIn(divided, p))

\* The ancestors of a longer path are those of the path and the longer path itself.
LEMMA AncestorsGrow ==
    ASSUME NEW path \in CellPath, NEW octant \in SUBSET Axis
    PROVE  /\ Ancestors(<<>>) = {<<>>}
           /\ Ancestors(Append(path, octant)) = Ancestors(path) \cup {Append(path, octant)}
           /\ Ancestors(path) \in SUBSET CellPath /\ path \in Ancestors(path)
<1> DEFINE longer == Append(path, octant)
<1>1. /\ longer \in CellPath /\ Len(path) \in Nat /\ Len(longer) = Len(path) + 1
      /\ \A i \in 1 .. Len(path) : longer[i] = path[i]
  BY DEF CellPath
<1>2. \A p \in CellPath : \A i \in 0 .. Len(p) :
          /\ SubSeq(p, 1, i) \in CellPath /\ Len(SubSeq(p, 1, i)) = i
          /\ \A k \in 1 .. i : SubSeq(p, 1, i)[k] = p[k]
  BY DEF CellPath
<1>3. \A p, q \in CellPath : Len(p) = Len(q) /\ (\A k \in 1 .. Len(p) : p[k] = q[k]) => p = q
  <2>1. TAKE p, q \in CellPath
  <2>2. p = [k \in 1 .. Len(p) |-> p[k]] /\ q = [k \in 1 .. Len(q) |-> q[k]]
    BY DEF CellPath
  <2> QED
    BY <2>2
<1>4. \A p \in CellPath : SubSeq(p, 1, Len(p)) = p
  <2>1. TAKE p \in CellPath
  <2>2. Len(p) \in 0 .. Len(p)
    BY DEF CellPath
  <2> QED
    BY <1>2, <1>3, <2>2
<1> HIDE DEF longer
<1>5. ASSUME NEW i \in 0 .. Len(path) PROVE SubSeq(longer, 1, i) = SubSeq(path, 1, i)
  <2>1. i \in 0 .. Len(longer)
    BY <1>1
  <2>2. \A k \in 1 .. i : k \in 1 .. Len(path)
    BY <1>1
  <2> QED
    BY <1>1, <1>2, <1>3, <2>1, <2>2
<1>6. Ancestors(longer) = Ancestors(path) \cup {longer}
  <2>1. 0 .. Len(longer) = (0 .. Len(path)) \cup {Len(longer)}
    BY <1>1
  <2>2. SubSeq(longer, 1, Len(longer)) = longer
    BY <1>1, <1>4
  <2> QED
    BY <1>5, <2>1, <2>2 DEF Ancestors
<1>7. Ancestors(<<>>) = {<<>>}
  <2>1. <<>> \in CellPath /\ Len(<<>>) = 0 /\ 0 .. 0 = {0}
    BY DEF CellPath
  <2>2. SubSeq(<<>>, 1, 0) = <<>>
    BY <1>4, <2>1
  <2> QED
    BY <2>1, <2>2 DEF Ancestors
<1>8. Ancestors(path) \in SUBSET CellPath
  BY <1>2 DEF Ancestors
<1>9. path \in Ancestors(path)
  <2>1. Len(path) \in 0 .. Len(path)
    BY <1>1
  <2> QED
    BY <1>4, <2>1 DEF Ancestors
<1> QED
  BY <1>6, <1>7, <1>8, <1>9 DEF longer

\* A centre on the way to a cell is on the way to its octant in the cell.
LEMMA OneCellDown ==
    ASSUME NEW divided \in SUBSET Axis, NEW path \in CellPath, NEW box, IsBox(box),
           OnTheWay(divided, path, box)
    PROVE  OnTheWay(divided, Append(path, OctantIn(divided, CellIn(divided, path), box)), box)
<1> DEFINE octant == OctantIn(divided, CellIn(divided, path), box)
<1>1. octant \in SUBSET Axis
  BY DEF OctantIn
<1>2. path \in Ancestors(path)
      /\ Ancestors(Append(path, octant)) = Ancestors(path) \cup {Append(path, octant)}
  BY <1>1, AncestorsGrow
<1>3. IsBox(CellIn(divided, path))
      /\ CellIn(divided, Append(path, octant)) = HalfOf(divided, CellIn(divided, path), octant)
  BY <1>1, CellsHalve
<1>4. CentreIn(box, CellIn(divided, path))
  BY <1>2 DEF OnTheWay
<1>5. CentreIn(box, HalfOf(divided, CellIn(divided, path), octant))
  BY <1>3, <1>4, OctantHolds
<1> HIDE DEF octant
<1>6. OnTheWay(divided, Append(path, octant), box)
  BY <1>2, <1>3, <1>5 DEF OnTheWay
<1> QED
  BY <1>6 DEF octant

\* A search begins with the whole world.
LEMMA RootOnTheWay ==
    ASSUME NEW divided, NEW box, CentreIn(box, Bounds)
    PROVE  <<>> \in CellPath /\ OnTheWay(divided, <<>>, box)
<1>1. <<>> \in CellPath /\ {} \in SUBSET Axis
  BY DEF CellPath
<1>2. Ancestors(<<>>) = {<<>>} /\ CellIn(divided, <<>>) = Bounds
  BY <1>1, AncestorsGrow, CellsHalve
<1> QED
  BY <1>1, <1>2 DEF OnTheWay

\* Octants name axes.
LEMMA DividedAxes == Divided \in SUBSET Axis
BY DEF Divided, Axis

\* The way down stays within what each step down stays within.
LEMMA WayDown ==
    ASSUME NEW tree, NEW box, NEW W, <<>> \in W,
           \A p \in W : p \in tree.split => Append(p, GetOctant(CellBounds(p), box)) \in W
    PROVE  LeafFor(tree, box) \in W
<1> DEFINE down(p) == IF p \notin tree.split THEN p
                      ELSE Append(p, GetOctant(CellBounds(p), box))
           G == [i \in 1 .. MaxTreeDepth |-> [p \in W |-> down(p)]]
           Q(f) == f = [depth \in 0 .. MaxTreeDepth |->
                          IF depth = 0 THEN <<>>
                          ELSE IF f[depth - 1] \notin tree.split THEN f[depth - 1]
                          ELSE Append(f[depth - 1], GetOctant(CellBounds(f[depth - 1]), box))]
           way == CHOOSE f : Q(f)
<1>1. MaxTreeDepth \in Nat
  BY SpatialAssumption
<1>2. \A p \in W : down(p) \in W
  OBVIOUS
<1>3. LeafFor(tree, box) = way[MaxTreeDepth]
  BY Zenon DEF LeafFor
<1>4. \E f : Q(f)
  <2>1. G \in [1 .. MaxTreeDepth -> [W -> W]]
    BY <1>2
  <2> HIDE DEF G
  <2>2. PICK f \in [0 .. MaxTreeDepth -> W] : f[0] = <<>> /\ Follows(f, G, MaxTreeDepth)
    BY <1>1, <2>1, Recursion
  <2>3. ASSUME NEW i \in 0 .. MaxTreeDepth
        PROVE  f[i] = IF i = 0 THEN <<>> ELSE down(f[i - 1])
    <3>1. CASE i = 0
      BY <2>2, <3>1
    <3>2. CASE i # 0
      <4>1. i \in 1 .. MaxTreeDepth /\ i - 1 \in 0 .. MaxTreeDepth
        BY <1>1, <3>2
      <4>2. f[i] = G[i][f[i - 1]] /\ f[i - 1] \in W
        BY <2>2, <4>1 DEF Follows
      <4>3. G[i][f[i - 1]] = down(f[i - 1])
        BY <4>1, <4>2 DEF G
      <4> QED
        BY <3>2, <4>2, <4>3
    <3> QED
      BY <3>1, <3>2
  <2>4. f = [i \in 0 .. MaxTreeDepth |-> f[i]]
    BY <2>2
  <2>5. Q(f)
    BY <2>3, <2>4
  <2> HIDE DEF Q
  <2> QED
    BY <2>5
<1>5. Q(way)
  <2> HIDE DEF Q
  <2> QED
    BY <1>4, Zenon
<1> HIDE DEF way
<1> DEFINE T == {i \in 0 .. MaxTreeDepth : way[i] \in W}
<1>6. 0 \in T
  BY <1>1, <1>5
<1>7. ASSUME NEW i \in 1 .. MaxTreeDepth, i - 1 \in T PROVE i \in T
  <2>1. i \in 0 .. MaxTreeDepth /\ i # 0
    BY <1>1
  <2>2. way[i] = IF i = 0 THEN <<>>
                 ELSE IF way[i - 1] \notin tree.split THEN way[i - 1]
                 ELSE Append(way[i - 1], GetOctant(CellBounds(way[i - 1]), box))
    BY <1>5, <2>1, Zenon
  <2>3. way[i] = down(way[i - 1])
    BY <2>1, <2>2, Zenon
  <2> HIDE DEF down
  <2> QED
    BY <1>1, <1>2, <1>7, <2>3
<1>8. T = 0 .. MaxTreeDepth
  <2>1. T \in SUBSET (0 .. MaxTreeDepth)
    OBVIOUS
  <2> HIDE DEF T
  <2> QED
    BY <1>1, <1>6, <1>7, <2>1, Induction
<1> QED
  BY <1>1, <1>3, <1>8

\* The way down ends at a path, on the way of the centre if that is in the world.
LEMMA LeafForSound ==
    ASSUME NEW tree, NEW box
    PROVE  /\ LeafFor(tree, box) \in CellPath
           /\ IsBox(box) /\ CentreIn(box, Bounds) => OnTheWay(Divided, LeafFor(tree, box), box)
<1>1. \A p \in CellPath : GetOctant(CellBounds(p), box) = OctantIn(Divided, CellIn(Divided, p), box)
  BY CellsOfIndex
<1>2. \A p \in CellPath : OctantIn(Divided, CellIn(Divided, p), box) \in SUBSET Axis
  BY DividedAxes DEF OctantIn
<1>3. \A p \in CellPath : \A o \in SUBSET Axis : Append(p, o) \in CellPath
  BY DEF CellPath
<1>4. <<>> \in CellPath
  BY DEF CellPath
<1>5. LeafFor(tree, box) \in CellPath
  BY <1>1, <1>2, <1>3, <1>4, WayDown
<1>6. ASSUME IsBox(box), CentreIn(box, Bounds) PROVE OnTheWay(Divided, LeafFor(tree, box), box)
  <2> DEFINE W == {p \in CellPath : OnTheWay(Divided, p, box)}
  <2>1. <<>> \in W
    BY <1>6, RootOnTheWay
  <2>2. ASSUME NEW p \in W PROVE Append(p, GetOctant(CellBounds(p), box)) \in W
    <3>1. OnTheWay(Divided, Append(p, OctantIn(Divided, CellIn(Divided, p), box)), box)
      BY <1>6, DividedAxes, OneCellDown
    <3> QED
      BY <1>1, <1>2, <1>3, <3>1
  <2> HIDE DEF W
  <2>3. LeafFor(tree, box) \in W
    BY <2>1, <2>2, WayDown
  <2> QED
    BY <2>3 DEF W
<1> QED
  BY <1>5, <1>6

\* Trees that file a node at most once.
Filing == {f \in [Body -> SUBSET CellPath] :
              \A n \in Body : f[n] = {} \/ \E leaf \in f[n] : f[n] = {leaf}}
Trees == [split : SUBSET CellPath, filed : Filing]

BoxesTyped == aabb \in [Body -> Box \cup {NoBox}]

\* A node that begins within the world is filed on the way of its centre.
Findable(tree, n) ==
    aabb[n] # NoBox /\ CentreIn(aabb[n], Bounds) =>
        \E leaf \in tree.filed[n] : OnTheWay(Divided, leaf, aabb[n])

\* The box of a node is one.
LEMMA BoxIsBox ==
    ASSUME BoxesTyped, NEW n \in Body, aabb[n] # NoBox
    PROVE  /\ aabb[n] \in Box /\ IsBox(aabb[n])
           /\ \A d \in Axis : Low(aabb[n], d) <= High(aabb[n], d)
<1>1. aabb[n] \in Box
  BY DEF BoxesTyped
<1> QED
  BY <1>1, SpatialAssumption DEF IsBox

\* A tree from its parts.
LEMMA TreeParts ==
    ASSUME NEW tree \in Trees
    PROVE  /\ tree = [split |-> tree.split, filed |-> tree.filed]
           /\ tree.split \in SUBSET CellPath /\ tree.filed \in [Body -> SUBSET CellPath]
           /\ \A n \in Body : tree.filed[n] = {} \/ \E leaf \in CellPath : tree.filed[n] = {leaf}
<1> HIDE DEF CellPath
<1> QED
  BY DEF Trees, Filing

\* Splitting a leaf keeps every node on its way.
LEMMA SplitSound ==
    ASSUME BoxesTyped, NEW tree \in Trees, NEW leaf \in CellPath
    PROVE  /\ SplitNode(tree, leaf) \in Trees
           /\ \A n \in Body : /\ tree.filed[n] = {} => SplitNode(tree, leaf).filed[n] = {}
                              /\ Findable(tree, n) => Findable(SplitNode(tree, leaf), n)
<1> DEFINE new == SplitNode(tree, leaf)
           below(n) == Append(leaf, GetOctant(CellBounds(leaf), aabb[n]))
<1>1. \A box : GetOctant(CellBounds(leaf), box) = OctantIn(Divided, CellIn(Divided, leaf), box)
  BY CellsOfIndex
<1>2. \A n \in Body : below(n) \in CellPath
  <2>1. \A box : OctantIn(Divided, CellIn(Divided, leaf), box) \in SUBSET Axis
    BY DividedAxes DEF OctantIn
  <2>2. \A o \in SUBSET Axis : Append(leaf, o) \in CellPath
    BY DEF CellPath
  <2> QED
    BY <1>1, <2>1, <2>2
<1>3. /\ new.split = tree.split \cup {leaf}
      /\ new.filed = [n \in Body |-> IF leaf \in tree.filed[n]
                                     THEN (tree.filed[n] \ {leaf}) \cup {below(n)}
                                     ELSE tree.filed[n]]
      /\ new = [split |-> new.split, filed |-> new.filed]
  BY DEF SplitNode
<1> HIDE DEF CellPath, new, below
<1>4. ASSUME NEW n \in Body
      PROVE  IF leaf \in tree.filed[n] THEN tree.filed[n] = {leaf} /\ new.filed[n] = {below(n)}
             ELSE new.filed[n] = tree.filed[n]
  <2>1. CASE leaf \in tree.filed[n]
    <3>1. tree.filed[n] = {leaf}
      BY <2>1, TreeParts
    <3> QED
      BY <1>3, <2>1, <3>1
  <2>2. CASE leaf \notin tree.filed[n]
    BY <1>3, <2>2
  <2> QED
    BY <2>1, <2>2
<1>5. new \in Trees
  <2>1. \A n \in Body : new.filed[n] = {} \/ \E p \in CellPath : new.filed[n] = {p}
    BY <1>2, <1>4, TreeParts
  <2>2. new.filed \in [Body -> SUBSET CellPath]
    <3>1. \A n \in Body : new.filed[n] \in SUBSET CellPath
      BY <2>1
    <3>2. new.filed = [n \in Body |-> new.filed[n]]
      BY <1>3
    <3> QED
      BY <3>1, <3>2
  <2>3. new.split \in SUBSET CellPath
    BY <1>3, TreeParts
  <2> QED
    BY <1>3, <2>1, <2>2, <2>3 DEF Trees, Filing
<1>6. ASSUME NEW n \in Body, Findable(tree, n), aabb[n] # NoBox, CentreIn(aabb[n], Bounds)
      PROVE  \E p \in new.filed[n] : OnTheWay(Divided, p, aabb[n])
  <2>1. PICK p \in tree.filed[n] : OnTheWay(Divided, p, aabb[n])
    BY <1>6 DEF Findable
  <2>2. CASE leaf \in tree.filed[n]
    <3>1. p = leaf /\ new.filed[n] = {below(n)}
      BY <1>4, <2>2
    <3>2. OnTheWay(Divided, Append(leaf, OctantIn(Divided, CellIn(Divided, leaf), aabb[n])), aabb[n])
      BY <1>6, <2>1, <3>1, BoxIsBox, DividedAxes, OneCellDown
    <3> QED
      BY <1>1, <3>1, <3>2 DEF below
  <2>3. CASE leaf \notin tree.filed[n]
    BY <1>4, <2>1, <2>3
  <2> QED
    BY <2>2, <2>3
<1>7. ASSUME NEW n \in Body, tree.filed[n] = {} PROVE new.filed[n] = {}
  BY <1>4, <1>7
<1> QED
  BY <1>5, <1>6, <1>7 DEF new, Findable

\* A box meets a cell that its centre is in.
LEMMA CentreMeets ==
    ASSUME NEW box, NEW cell, IsBox(box), IsBox(cell), CentreIn(box, cell),
           \A d \in Axis : Low(box, d) <= High(box, d)
    PROVE  AABBIntersects(cell, box) /\ AABBIntersects(box, cell)
<1>1. SUFFICES ASSUME NEW d \in Axis
               PROVE  /\ ~(High(cell, d) < Low(box, d)) /\ ~(Low(cell, d) > High(box, d))
  <2>1. ASSUME NEW d \in Axis
        PROVE  /\ ~(High(box, d) < Low(cell, d) \/ Low(box, d) > High(cell, d))
               /\ ~(High(cell, d) < Low(box, d) \/ Low(cell, d) > High(box, d))
    <3>1. /\ Low(cell, d) \in Int /\ High(cell, d) \in Int
          /\ Low(box, d) \in Int /\ High(box, d) \in Int
      BY DEF IsBox, Interval, Low, High
    <3> QED
      BY <1>1, <3>1
  <2> QED
    BY <2>1 DEF AABBIntersects
<1>2. /\ Low(cell, d) \in Int /\ High(cell, d) \in Int
      /\ Low(box, d) \in Int /\ High(box, d) \in Int
  BY DEF IsBox, Interval, Low, High
<1>3. /\ Low(box, d) + High(box, d) >= 2 * Low(cell, d)
      /\ Low(box, d) + High(box, d) <= 2 * High(cell, d)
      /\ Low(box, d) <= High(box, d)
  BY DEF CentreIn
<1> QED
  BY <1>2, <1>3

\* A node that is filed nowhere is filed once, or not at all, and no other is moved
\* off its way.
LEMMA InsertSound ==
    ASSUME BoxesTyped, NEW tree \in Trees, NEW n \in Body, tree.filed[n] = {}
    PROVE  /\ InsertNode(tree, n) \in Trees
           /\ Findable(InsertNode(tree, n), n)
           /\ \A m \in Body \ {n} :
                  /\ tree.filed[m] = {} => InsertNode(tree, n).filed[m] = {}
                  /\ Findable(tree, m) => Findable(InsertNode(tree, n), m)
<1> DEFINE leaf == LeafFor(tree, aabb[n])
           with == [tree EXCEPT !.filed[n] = @ \cup {leaf}]
           missed == \E p \in Ancestors(leaf) : ~AABBIntersects(CellBounds(p), aabb[n])
           new == InsertNode(tree, n)
<1>1. leaf \in CellPath /\ Ancestors(leaf) \in SUBSET CellPath
  BY LeafForSound, AncestorsGrow
<1>2. /\ aabb[n] = NoBox => new = tree
      /\ aabb[n] # NoBox => IF missed THEN new = tree ELSE new = with \/ new = SplitNode(with, leaf)
  BY Zenon DEF InsertNode
<1>3. ASSUME aabb[n] # NoBox, CentreIn(aabb[n], Bounds)
      PROVE  ~missed /\ OnTheWay(Divided, leaf, aabb[n])
  <2>1. OnTheWay(Divided, leaf, aabb[n])
    BY <1>3, BoxIsBox, LeafForSound
  <2>2. ASSUME NEW p \in Ancestors(leaf) PROVE AABBIntersects(CellBounds(p), aabb[n])
    <3>1. CentreIn(aabb[n], CellIn(Divided, p)) /\ p \in CellPath
      BY <1>1, <2>1 DEF OnTheWay
    <3>2. CellBounds(p) = CellIn(Divided, p)
      BY <3>1, CellsOfIndex
    <3>3. IsBox(CellIn(Divided, p))
      BY <3>1, CellsHalve
    <3> QED
      BY <1>3, <3>1, <3>2, <3>3, BoxIsBox, CentreMeets
  <2> QED
    BY <2>1, <2>2
<1>4. /\ with = [split |-> tree.split, filed |-> with.filed]
      /\ with.filed = [tree.filed EXCEPT ![n] = {leaf}]
  <2>1. tree = [split |-> tree.split, filed |-> tree.filed]
    BY TreeParts
  <2> HIDE DEF leaf
  <2> QED
    BY <2>1
<1> HIDE DEF with, leaf, missed, new, CellPath
<1>5. /\ with.filed[n] = {leaf}
      /\ \A m \in Body \ {n} : with.filed[m] = tree.filed[m]
  BY <1>4, TreeParts
<1>6. with \in Trees
  <2>1. with.filed \in [Body -> SUBSET CellPath]
    BY <1>1, <1>4, TreeParts
  <2>2. \A m \in Body : with.filed[m] = {} \/ \E p \in CellPath : with.filed[m] = {p}
    BY <1>1, <1>5, TreeParts
  <2>3. with.filed \in Filing
    BY <2>1, <2>2 DEF Filing
  <2> QED
    BY <1>4, <2>3, TreeParts DEF Trees
<1>7. /\ SplitNode(with, leaf) \in Trees
      /\ \A m \in Body : /\ with.filed[m] = {} => SplitNode(with, leaf).filed[m] = {}
                         /\ Findable(with, m) => Findable(SplitNode(with, leaf), m)
  BY <1>1, <1>6, SplitSound
<1>8. \A m \in Body \ {n} : Findable(tree, m) => Findable(with, m)
  BY <1>5 DEF Findable
<1>9. ~missed => Findable(with, n)
  BY <1>3, <1>5 DEF Findable
<1>10. missed \/ aabb[n] = NoBox => Findable(tree, n)
  BY <1>3 DEF Findable
<1>11. new \in {tree, with, SplitNode(with, leaf)}
  BY <1>2
<1>12. new \in Trees
  BY <1>6, <1>7, <1>11
<1>13. Findable(new, n)
  BY <1>2, <1>7, <1>9, <1>10
<1>14. ASSUME NEW m \in Body \ {n}
       PROVE  /\ tree.filed[m] = {} => new.filed[m] = {}
              /\ Findable(tree, m) => Findable(new, m)
  BY <1>5, <1>7, <1>8, <1>11
<1> QED
  BY <1>12, <1>13, <1>14 DEF new

\* A removed node is filed nowhere, the others stay.
LEMMA RemoveSound ==
    ASSUME NEW tree \in Trees, NEW n \in Body
    PROVE  /\ RemoveFrom(tree, n) \in Trees /\ RemoveFrom(tree, n).filed[n] = {}
           /\ \A m \in Body \ {n} : RemoveFrom(tree, n).filed[m] = tree.filed[m]
<1> DEFINE new == RemoveFrom(tree, n)
<1>1. /\ new = [split |-> tree.split, filed |-> new.filed]
      /\ new.filed = [tree.filed EXCEPT ![n] = {}]
  <2>1. tree = [split |-> tree.split, filed |-> tree.filed]
    BY TreeParts
  <2> QED
    BY <2>1 DEF RemoveFrom
<1> HIDE DEF new, CellPath
<1>2. new.filed[n] = {} /\ \A m \in Body \ {n} : new.filed[m] = tree.filed[m]
  BY <1>1, TreeParts
<1>3. new.filed \in Filing
  <2>1. new.filed \in [Body -> SUBSET CellPath]
    BY <1>1, TreeParts
  <2>2. \A m \in Body : new.filed[m] = {} \/ \E p \in CellPath : new.filed[m] = {p}
    BY <1>2, TreeParts
  <2> QED
    BY <2>1, <2>2 DEF Filing
<1>4. new \in Trees
  BY <1>1, <1>3, TreeParts DEF Trees
<1> QED
  BY <1>2, <1>4 DEF new

\* A node that is filed again is on the way of its centre, the others stay.
LEMMA RefileSound ==
    ASSUME BoxesTyped, NEW tree \in Trees, NEW n \in Body
    PROVE  /\ Refile(tree, n) \in Trees
           /\ Findable(Refile(tree, n), n)
           /\ \A m \in Body : Findable(tree, m) => Findable(Refile(tree, n), m)
           /\ \A m \in Body \ {n} : tree.filed[m] = {} => Refile(tree, n).filed[m] = {}
<1> DEFINE bare == RemoveFrom(tree, n)
<1>1. /\ bare \in Trees /\ bare.filed[n] = {}
      /\ \A m \in Body \ {n} : bare.filed[m] = tree.filed[m]
  BY RemoveSound
<1>2. \A m \in Body \ {n} : Findable(tree, m) => Findable(bare, m)
  BY <1>1 DEF Findable
<1>3. Refile(tree, n) = InsertNode(bare, n)
  BY DEF Refile
<1> HIDE DEF bare
<1>4. /\ InsertNode(bare, n) \in Trees
      /\ Findable(InsertNode(bare, n), n)
      /\ \A m \in Body \ {n} :
             /\ bare.filed[m] = {} => InsertNode(bare, n).filed[m] = {}
             /\ Findable(bare, m) => Findable(InsertNode(bare, n), m)
  BY <1>1, InsertSound
<1> QED
  BY <1>1, <1>2, <1>3, <1>4

\* Filing the nodes of a set again, in any order, brings each of them on its way.
LEMMA RefiledSound ==
    ASSUME BoxesTyped, Tree \in Trees, NEW S \in SUBSET Body, NEW order \in SetToSeqs(S)
    PROVE  /\ Refiled(order) \in Trees
           /\ \A m \in S : Findable(Refiled(order), m)
           /\ \A m \in Body : Findable(Tree, m) => Findable(Refiled(order), m)
           /\ \A m \in Body \ S : filed[m] = {} => Refiled(order).filed[m] = {}
<1> DEFINE N == Len(order)
           Q(f) == f = [i \in 0 .. Len(order) |->
                          IF i = 0 THEN Tree ELSE Refile(f[i - 1], order[i])]
           tree == CHOOSE f : Q(f)
<1>1. N \in Nat /\ order \in [1 .. N -> S] /\ \A m \in S : \E i \in 1 .. N : order[i] = m
  <2>1. IsFiniteSet(S)
    BY SpatialAssumption, FS_Subset
  <2>2. Cardinality(S) \in Nat
    BY <2>1, FS_CardinalityType
  <2>3. /\ order \in [1 .. Cardinality(S) -> S]
        /\ \A i, j \in 1 .. Cardinality(S) : i # j => order[i] # order[j]
    BY DEF SetToSeqs
  <2>4. N = Cardinality(S)
    BY <2>2, <2>3
  <2>5. order \in Injection(1 .. Cardinality(S), S)
    BY <2>3 DEF Injection, IsInjective
  <2>6. /\ IsFiniteSet(1 .. Cardinality(S))
        /\ Cardinality(1 .. Cardinality(S)) = Cardinality(S)
    BY <2>2, FS_Interval
  <2>7. order \in Surjection(1 .. Cardinality(S), S)
    BY <2>1, <2>5, <2>6, FS_Injection
  <2> QED
    BY <2>2, <2>3, <2>4, <2>7 DEF Surjection
<1>2. Refiled(order) = tree[N]
  BY Zenon DEF Refiled
<1>3. \E f : Q(f)
  <2> DEFINE G == [i \in 1 .. N |-> [t \in Trees |-> Refile(t, order[i])]]
  <2>1. G \in [1 .. N -> [Trees -> Trees]]
    BY <1>1, RefileSound
  <2> HIDE DEF G, N
  <2>2. PICK f \in [0 .. N -> Trees] : f[0] = Tree /\ Follows(f, G, N)
    BY <1>1, <2>1, Recursion
  <2>3. ASSUME NEW i \in 0 .. N
        PROVE  f[i] = IF i = 0 THEN Tree ELSE Refile(f[i - 1], order[i])
    <3>1. CASE i = 0
      BY <2>2, <3>1
    <3>2. CASE i # 0
      <4>1. i \in 1 .. N /\ i - 1 \in 0 .. N
        BY <1>1, <3>2
      <4>2. f[i] = G[i][f[i - 1]] /\ f[i - 1] \in Trees
        BY <2>2, <4>1 DEF Follows
      <4>3. G[i][f[i - 1]] = Refile(f[i - 1], order[i])
        BY <4>1, <4>2 DEF G
      <4> QED
        BY <3>2, <4>2, <4>3
    <3> QED
      BY <3>1, <3>2
  <2>4. f = [i \in 0 .. N |-> f[i]]
    BY <2>2
  <2>5. Q(f)
    BY <2>3, <2>4 DEF N
  <2> HIDE DEF Q
  <2> QED
    BY <2>5
<1>4. Q(tree)
  <2> HIDE DEF Q
  <2> QED
    BY <1>3, Zenon
<1>5. \A i \in 0 .. N : tree[i] = IF i = 0 THEN Tree ELSE Refile(tree[i - 1], order[i])
  BY <1>4, Zenon
<1> HIDE DEF tree, N, Q
<1> DEFINE T == {i \in 0 .. N :
                   /\ tree[i] \in Trees
                   /\ \A k \in 1 .. i : Findable(tree[i], order[k])
                   /\ \A m \in Body : Findable(Tree, m) => Findable(tree[i], m)
                   /\ \A m \in Body \ S : filed[m] = {} => tree[i].filed[m] = {}}
<1>6. 0 \in T
  <2>1. tree[0] = Tree /\ Tree.filed = filed
    BY <1>1, <1>5 DEF Tree
  <2> QED
    BY <1>1, <2>1
<1>7. ASSUME NEW i \in 1 .. N, i - 1 \in T PROVE i \in T
  <2>1. i \in 0 .. N /\ i # 0 /\ order[i] \in S /\ order[i] \in Body
    BY <1>1
  <2>2. tree[i] = Refile(tree[i - 1], order[i])
    BY <1>5, <2>1
  <2>3. /\ tree[i - 1] \in Trees
        /\ \A k \in 1 .. i - 1 : Findable(tree[i - 1], order[k])
        /\ \A m \in Body : Findable(Tree, m) => Findable(tree[i - 1], m)
        /\ \A m \in Body \ S : filed[m] = {} => tree[i - 1].filed[m] = {}
    BY <1>7
  <2>4. /\ tree[i] \in Trees
        /\ Findable(tree[i], order[i])
        /\ \A m \in Body : Findable(tree[i - 1], m) => Findable(tree[i], m)
        /\ \A m \in Body \ {order[i]} : tree[i - 1].filed[m] = {} => tree[i].filed[m] = {}
    BY <2>1, <2>2, <2>3, RefileSound
  <2>5. \A k \in 1 .. i : Findable(tree[i], order[k])
    <3>1. TAKE k \in 1 .. i
    <3>2. k \in 1 .. N /\ order[k] \in Body
      BY <1>1
    <3>3. CASE k = i
      BY <2>4, <3>3
    <3>4. CASE k # i
      BY <1>1, <2>3, <2>4, <3>2, <3>4
    <3> QED
      BY <3>3, <3>4
  <2>6. \A m \in Body \ S : filed[m] = {} => tree[i].filed[m] = {}
    BY <2>1, <2>3, <2>4
  <2> QED
    BY <2>1, <2>3, <2>4, <2>5, <2>6
<1>8. T = 0 .. N
  <2>1. T \in SUBSET (0 .. N)
    OBVIOUS
  <2> HIDE DEF T
  <2> QED
    BY <1>1, <1>6, <1>7, <2>1, Induction
<1>9. N \in T
  BY <1>1, <1>8
<1> QED
  BY <1>1, <1>2, <1>9

-----------------------------------------------------------------------------

\* The index files each node it was told of where a search for its centre
\* comes by, unless the node moved since.
SpatialIInv ==
    /\ indexType \in IndexTypes /\ BoxesTyped
    /\ active \subseteq Body /\ moved \subseteq managed /\ managed \subseteq Body
    /\ Tree \in Trees
    /\ \A n \in Body \ managed : filed[n] = {}
    /\ HasIndex => \A n \in managed \ moved : Findable(Tree, n)

\* An operation leaves the tree it computed.
LEMMA TreeSet ==
    ASSUME NEW t \in Trees, SetTree(t), indexType' = indexType, aabb' = aabb
    PROVE  /\ Tree' = t /\ filed' = t.filed
           /\ \A m \in Body : Findable(t, m) => Findable(Tree, m)'
<1>1. Tree' = t /\ filed' = t.filed
  BY TreeParts DEF SetTree, Tree
<1>2. Divided' = Divided
  BY DEF Divided
<1> QED
  BY <1>1, <1>2 DEF Findable

\* The empty tree files no node.
LEMMA EmptyTreeSound == EmptyTree \in Trees /\ \A n \in Body : EmptyTree.filed[n] = {}
<1> HIDE DEF CellPath
<1> QED
  BY DEF EmptyTree, Trees, Filing

\* The invariant holds when the index is made.
LEMMA IndexInitSound == IndexInit => SpatialIInv
<1> SUFFICES ASSUME IndexInit PROVE SpatialIInv
  OBVIOUS
<1>1. Tree = EmptyTree /\ filed = EmptyTree.filed
  BY DEF IndexInit, Tree, EmptyTree
<1>2. BoxesTyped
  BY DEF IndexInit, BoxesTyped
<1> QED
  BY <1>1, <1>2, EmptyTreeSound DEF IndexInit, SpatialIInv

\* Every operation of the index keeps its invariant.
LEMMA IndexKept == SpatialIInv /\ [IndexNext]_indexVars => SpatialIInv'
<1> SUFFICES ASSUME SpatialIInv, [IndexNext]_indexVars PROVE SpatialIInv'
  OBVIOUS
<1> USE DEF SpatialIInv
<1>1. ASSUME NEW n \in Body, AddNode(n) PROVE SpatialIInv'
  <2> DEFINE t == IF HasIndex THEN InsertNode(Tree, n) ELSE Tree
  <2>1. /\ n \notin managed /\ managed' = managed \cup {n} /\ SetTree(t)
        /\ indexType' = indexType /\ aabb' = aabb /\ active' = active /\ moved' = moved
    BY <1>1 DEF AddNode
  <2>2. Tree.filed = filed /\ filed[n] = {}
    BY <2>1 DEF Tree
  <2>3. /\ t \in Trees
        /\ HasIndex => Findable(t, n) /\ \A m \in Body \ {n} : Findable(Tree, m) => Findable(t, m)
        /\ \A m \in Body \ {n} : filed[m] = {} => t.filed[m] = {}
    BY <2>2, InsertSound
  <2> HIDE DEF t
  <2>4. /\ Tree' = t /\ filed' = t.filed
        /\ \A m \in Body : Findable(t, m) => Findable(Tree, m)'
    BY <2>1, <2>3, TreeSet
  <2>5. BoxesTyped' /\ (HasIndex' <=> HasIndex)
    BY <2>1 DEF BoxesTyped, HasIndex
  <2>6. HasIndex' => \A m \in managed' \ moved' : Findable(Tree, m)'
    BY <2>1, <2>3, <2>4, <2>5
  <2> QED
    BY <2>1, <2>3, <2>4, <2>5, <2>6
<1>2. ASSUME NEW n \in Body, RemoveNode(n) PROVE SpatialIInv'
  <2> DEFINE t == RemoveFrom(Tree, n)
  <2>1. /\ managed' = managed \ {n} /\ moved' = moved \ {n} /\ SetTree(t)
        /\ indexType' = indexType /\ aabb' = aabb /\ active' = active
    BY <1>2 DEF RemoveNode
  <2>2. Tree.filed = filed
    BY DEF Tree
  <2>3. t \in Trees /\ t.filed[n] = {} /\ \A m \in Body \ {n} : t.filed[m] = filed[m]
    BY <2>2, RemoveSound
  <2>4. \A m \in Body \ {n} : Findable(Tree, m) => Findable(t, m)
    BY <2>2, <2>3 DEF Findable
  <2> HIDE DEF t
  <2>5. /\ Tree' = t /\ filed' = t.filed
        /\ \A m \in Body : Findable(t, m) => Findable(Tree, m)'
    BY <2>1, <2>3, TreeSet
  <2>6. BoxesTyped' /\ (HasIndex' <=> HasIndex)
    BY <2>1 DEF BoxesTyped, HasIndex
  <2>7. HasIndex' => \A m \in managed' \ moved' : Findable(Tree, m)'
    BY <2>1, <2>4, <2>5, <2>6
  <2> QED
    BY <2>1, <2>3, <2>5, <2>6, <2>7
<1>3. ASSUME NEW n \in Body, NEW box \in Box, UpdateNode(n, box) PROVE SpatialIInv'
  <2>1. /\ aabb' = [aabb EXCEPT ![n] = box]
        /\ moved' = IF n \in managed THEN moved \cup {n} ELSE moved
        /\ indexType' = indexType /\ active' = active /\ managed' = managed
        /\ split' = split /\ filed' = filed
    BY <1>3 DEF UpdateNode
  <2>2. BoxesTyped' /\ (HasIndex' <=> HasIndex) /\ Divided' = Divided /\ Tree' = Tree
    BY <2>1 DEF BoxesTyped, HasIndex, Divided, Tree
  <2>3. \A m \in Body \ {n} : aabb'[m] = aabb[m]
    BY <2>1 DEF BoxesTyped
  <2>4. \A m \in Body \ {n} : Findable(Tree, m) => Findable(Tree, m)'
    BY <2>2, <2>3 DEF Findable
  <2>5. HasIndex' => \A m \in managed' \ moved' : Findable(Tree, m)'
    BY <2>1, <2>2, <2>4
  <2> QED
    BY <2>1, <2>2, <2>5
<1>4. ASSUME indexType' = indexType, aabb' = aabb, managed' = managed, moved' = moved,
             split' = split, filed' = filed, active' \subseteq Body
      PROVE  SpatialIInv'
  <2>1. BoxesTyped' /\ (HasIndex' <=> HasIndex) /\ Divided' = Divided /\ Tree' = Tree
    BY <1>4 DEF BoxesTyped, HasIndex, Divided, Tree
  <2>2. \A m \in Body : Findable(Tree, m) => Findable(Tree, m)'
    BY <1>4, <2>1 DEF Findable
  <2> QED
    BY <1>4, <2>1, <2>2
<1>5. ASSUME NEW n \in Body, SetActive(n) PROVE SpatialIInv'
  BY <1>4, <1>5 DEF SetActive
<1>6. CASE ClearNodes
  <2>1. /\ managed' = {} /\ moved' = {} /\ SetTree(EmptyTree)
        /\ indexType' = indexType /\ aabb' = aabb /\ active' = active
    BY <1>6 DEF ClearNodes
  <2>2. Tree' = EmptyTree /\ filed' = EmptyTree.filed
    BY <2>1, EmptyTreeSound, TreeSet
  <2>3. BoxesTyped'
    BY <2>1 DEF BoxesTyped
  <2> QED
    BY <2>1, <2>2, <2>3, EmptyTreeSound
<1>7. CASE RebuildIndex
  <2> DEFINE S == {n \in moved : aabb[n] # NoBox}
  <2>1. PICK order \in SetToSeqs(S) : SetTree(Refiled(order))
    BY <1>7 DEF RebuildIndex
  <2>2. /\ moved' = {} /\ managed' = managed
        /\ indexType' = indexType /\ aabb' = aabb /\ active' = active
    BY <1>7 DEF RebuildIndex
  <2>3. S \in SUBSET Body /\ S \subseteq managed
    OBVIOUS
  <2>4. \A n \in moved \ S : Findable(Tree, n)
    BY DEF Findable
  <2> HIDE DEF S
  <2>5. /\ Refiled(order) \in Trees
        /\ \A m \in S : Findable(Refiled(order), m)
        /\ \A m \in Body : Findable(Tree, m) => Findable(Refiled(order), m)
        /\ \A m \in Body \ S : filed[m] = {} => Refiled(order).filed[m] = {}
    BY <2>3, RefiledSound
  <2>6. /\ Tree' = Refiled(order) /\ filed' = Refiled(order).filed
        /\ \A m \in Body : Findable(Refiled(order), m) => Findable(Tree, m)'
    BY <2>1, <2>2, <2>5, TreeSet
  <2>7. BoxesTyped' /\ (HasIndex' <=> HasIndex)
    BY <2>2 DEF BoxesTyped, HasIndex
  <2>8. HasIndex' => \A m \in managed' \ moved' : Findable(Tree, m)'
    <3>1. SUFFICES ASSUME HasIndex, NEW m \in managed PROVE Findable(Tree, m)'
      BY <2>2, <2>7
    <3>2. m \in S \/ Findable(Tree, m)
      BY <2>4, <3>1
    <3> QED
      BY <2>5, <2>6, <3>2
  <2> QED
    BY <2>2, <2>3, <2>5, <2>6, <2>7, <2>8
<1>8. CASE UNCHANGED indexVars
  BY <1>4, <1>8 DEF indexVars
<1> QED
  BY <1>1, <1>2, <1>3, <1>5, <1>6, <1>7, <1>8 DEF IndexNext

\* The invariant of the index is inductive.
THEOREM SpatialInvariant == SpatialSpec => []SpatialIInv
BY IndexInitSound, IndexKept, PTL DEF SpatialSpec

-----------------------------------------------------------------------------

\* The corner of an interval that is farthest along a direction is no nearer than
\* a point of the interval; the point is doubled.
LEMMA Farthest ==
    ASSUME NEW k \in Int, NEW s \in Int, NEW low \in Int, NEW high \in Int,
           s >= 2 * low, s <= 2 * high
    PROVE  /\ k * (IF k > 0 THEN high ELSE low) \in Int
           /\ k * s \in Int
           /\ k * s <= 2 * (k * (IF k > 0 THEN high ELSE low))
<1>1. \A a, b \in Int : a * b \in Int
  OBVIOUS
<1>2. \A a, b \in Int : a >= 0 /\ b >= 0 => a * b >= 0
  OBVIOUS
<1>3. CASE k > 0
  <2>1. k * (2 * high - s) >= 0
    BY <1>2, <1>3
  <2>2. k * (2 * high - s) = 2 * (k * high) - k * s
    OBVIOUS
  <2>3. k * high \in Int /\ k * s \in Int
    BY <1>1
  <2> QED
    BY <1>3, <2>1, <2>2, <2>3
<1>4. CASE ~(k > 0)
  <2>1. (0 - k) * (s - 2 * low) >= 0
    <3>1. 0 - k \in Int /\ 0 - k >= 0 /\ s - 2 * low \in Int /\ s - 2 * low >= 0
      BY <1>4
    <3> QED
      BY <1>2, <3>1
  <2>2. (0 - k) * (s - 2 * low) = 2 * (k * low) - k * s
    OBVIOUS
  <2>3. k * low \in Int /\ k * s \in Int
    BY <1>1
  <2> QED
    BY <1>4, <2>1, <2>2, <2>3
<1> QED
  BY <1>3, <1>4

\* A frustum with the centre of a box meets a cell with the centre of the box.
LEMMA FrustumMeets ==
    ASSUME NEW planes \in QueryFrusta, NEW box, NEW cell, IsBox(box), IsBox(cell),
           CentreIn(box, cell), CentreInFrustum(box, planes)
    PROVE  FrustumIntersectsAABB(planes, cell)
<1> DEFINE centre(p, d) == p.normal[d] * (Low(box, d) + High(box, d))
           along(p, d) == p.normal[d] * (IF p.normal[d] > 0 THEN High(cell, d) ELSE Low(cell, d))
<1>1. ASSUME NEW p \in planes
      PROVE  along(p, "x") + along(p, "y") + along(p, "z") + p.d >= 0
  <2>1. centre(p, "x") + centre(p, "y") + centre(p, "z") + 2 * p.d >= 0
    BY DEF CentreInFrustum
  <2>2. ASSUME NEW d \in Axis
        PROVE  /\ along(p, d) \in Int /\ centre(p, d) \in Int
               /\ centre(p, d) <= 2 * along(p, d)
    <3>1. /\ Low(cell, d) \in Int /\ High(cell, d) \in Int
          /\ Low(box, d) \in Int /\ High(box, d) \in Int
      BY DEF IsBox, Interval, Low, High
    <3>2. p.normal[d] \in Int
      BY SpatialAssumption
    <3>3. /\ Low(box, d) + High(box, d) \in Int
          /\ Low(box, d) + High(box, d) >= 2 * Low(cell, d)
          /\ Low(box, d) + High(box, d) <= 2 * High(cell, d)
      BY <3>1 DEF CentreIn
    <3> QED
      BY ONLY <3>1, <3>2, <3>3, Farthest
  <2>3. "x" \in Axis /\ "y" \in Axis /\ "z" \in Axis
    BY DEF Axis
  <2>4. p.d \in Int
    BY <2>3, SpatialAssumption
  <2> HIDE DEF along, centre
  <2> QED
    BY <2>1, <2>2, <2>3, <2>4
<1> QED
  BY <1>1 DEF FrustumIntersectsAABB

\* What the invariant says of a node that is traversed.
LEMMA SettledFacts ==
    ASSUME SpatialIInv, NEW n \in Traversed
    PROVE  /\ n \in Body /\ n \in managed /\ n \in active /\ aabb[n] # NoBox
           /\ aabb[n] \in Box /\ IsBox(aabb[n])
           /\ \A d \in Axis : Low(aabb[n], d) <= High(aabb[n], d)
           /\ CentreIn(aabb[n], aabb[n])
           /\ n \in Settled => n \notin moved /\ CentreIn(aabb[n], Bounds)
<1>1. n \in Body /\ n \in managed /\ n \in active /\ aabb[n] # NoBox
  BY DEF Traversed, SpatialIInv
<1>2. BoxesTyped
  BY DEF SpatialIInv
<1>3. /\ aabb[n] \in Box /\ IsBox(aabb[n])
      /\ \A d \in Axis : Low(aabb[n], d) <= High(aabb[n], d)
  BY <1>1, <1>2, BoxIsBox
<1>4. CentreIn(aabb[n], aabb[n])
  <2>1. \A d \in Axis : Low(aabb[n], d) \in Int /\ High(aabb[n], d) \in Int
    BY <1>3 DEF IsBox, Interval, Low, High
  <2> QED
    BY <1>3, <2>1 DEF CentreIn
<1> QED
  BY <1>1, <1>3, <1>4 DEF Settled

\* A search comes by a settled node if it enters every cell with its centre.
LEMMA Found ==
    ASSUME SpatialIInv, HasIndex, NEW n \in Settled, NEW matching, n \in matching,
           NEW meeting,
           \A p \in Cells : /\ p \in CellPath /\ IsBox(CellBounds(p))
                            /\ CentreIn(aabb[n], CellBounds(p)) => p \in meeting
    PROVE  n \in Search(meeting, matching)
<1>1. n \in Traversed
  BY DEF Settled
<1>2. n \in Body /\ n \in managed \ moved /\ aabb[n] # NoBox /\ CentreIn(aabb[n], Bounds)
  BY <1>1, SettledFacts
<1>3. Findable(Tree, n) /\ Tree.filed = filed
  BY <1>2 DEF SpatialIInv, Tree
<1>4. PICK leaf \in filed[n] : OnTheWay(Divided, leaf, aabb[n])
  BY <1>2, <1>3 DEF Findable
<1>5. ASSUME NEW p \in Ancestors(leaf) PROVE p \in meeting
  <2>1. p \in Cells
    BY <1>2 DEF Cells
  <2>2. CentreIn(aabb[n], CellIn(Divided, p)) /\ CellBounds(p) = CellIn(Divided, p)
    BY <1>4, <2>1, CellsOfIndex DEF OnTheWay
  <2> QED
    BY <2>1, <2>2
<1> QED
  BY <1>4, <1>5 DEF Search

\* The cells that lead to a node are boxes.
LEMMA CellsAreBoxes ==
    ASSUME SpatialIInv
    PROVE  \A p \in Cells : p \in CellPath /\ IsBox(CellBounds(p))
<1>1. SUFFICES ASSUME NEW p \in Cells PROVE p \in CellPath /\ IsBox(CellBounds(p))
  OBVIOUS
<1>2. PICK n \in Body : \E leaf \in filed[n] : p \in Ancestors(leaf)
  BY DEF Cells
<1>3. filed \in [Body -> SUBSET CellPath]
  <2>1. Tree \in Trees /\ Tree.filed = filed
    BY DEF SpatialIInv, Tree
  <2> QED
    BY <2>1, TreeParts
<1>4. PICK leaf \in CellPath : p \in Ancestors(leaf)
  BY <1>2, <1>3
<1>5. p \in CellPath /\ {} \in SUBSET Axis
  BY <1>4, AncestorsGrow
<1> QED
  BY <1>5, CellsOfIndex, CellsHalve

\* What is found is filed, and so was told of.
LEMMA FoundIsManaged ==
    ASSUME SpatialIInv, NEW meeting, NEW matching \in SUBSET Asked
    PROVE  Search(meeting, matching) \subseteq matching \cap managed \cap Traversed
<1>1. SUFFICES ASSUME NEW n \in Search(meeting, matching) PROVE n \in managed
  BY DEF Search, Traversed, Asked
<1>2. n \in Body /\ filed[n] # {}
  BY DEF Search, Asked, SpatialIInv
<1> QED
  BY <1>2 DEF SpatialIInv

\* Questions for a box.
LEMMA BoxQueriesExact ==
    ASSUME SpatialIInv, NEW q \in QueryBoxes
    PROVE  /\ QueryAABB(q) \subseteq managed
           /\ indexType # "Quadtree" => \A n \in QueryAABB(q) : AABBIntersects(aabb[n], q)
           /\ \A n \in Settled : CentreIn(aabb[n], q) => n \in QueryAABB(q)
           /\ QueryContained(q) \cap Settled \subseteq QueryAABB(q)
<1> DEFINE meeting == {p \in Cells : AABBIntersects(CellBounds(p), q)}
           touches(n) == \A d \in Divided : ~(\/ High(aabb[n], d) < Low(q, d)
                                              \/ Low(aabb[n], d) > High(q, d))
           matching == {n \in Asked : touches(n)}
<1>1. /\ HasIndex => QueryAABB(q) = Search(meeting, matching)
      /\ ~HasIndex => QueryAABB(q) = {n \in Traversed : AABBIntersects(aabb[n], q)}
  BY Zenon DEF QueryAABB
<1>2. IsBox(q)
  BY SpatialAssumption DEF IsBox
<1>3. matching \in SUBSET Asked
  OBVIOUS
<1>4. \A n : AABBIntersects(aabb[n], q) => touches(n)
  BY DividedAxes DEF AABBIntersects
<1>5. indexType = "Octree" => \A n : touches(n) => AABBIntersects(aabb[n], q)
  BY DEF AABBIntersects, Divided
<1>6. indexType \in {"Octree", "Quadtree", "None"}
  BY SpatialAssumption DEF SpatialIInv
<1>7. QueryAABB(q) \subseteq managed
  <2>1. CASE HasIndex
    <3> HIDE DEF meeting, matching
    <3> QED
      BY <1>1, <1>3, <2>1, FoundIsManaged
  <2>2. CASE ~HasIndex
    BY <1>1, <2>2 DEF Traversed
  <2> QED
    BY <2>1, <2>2
<1>8. ASSUME indexType # "Quadtree", NEW n \in QueryAABB(q) PROVE AABBIntersects(aabb[n], q)
  <2>1. CASE HasIndex
    <3>1. n \in matching /\ indexType = "Octree"
      BY <1>1, <1>6, <1>8, <2>1 DEF Search, HasIndex
    <3> QED
      BY <1>5, <3>1
  <2>2. CASE ~HasIndex
    BY <1>1, <1>8, <2>2
  <2> QED
    BY <2>1, <2>2
<1>9. ASSUME NEW n \in Settled, CentreIn(aabb[n], q) PROVE n \in QueryAABB(q)
  <2>1. n \in Traversed
    BY DEF Settled
  <2>2. /\ n \in Body /\ n \in active /\ aabb[n] # NoBox /\ IsBox(aabb[n])
        /\ \A d \in Axis : Low(aabb[n], d) <= High(aabb[n], d)
    BY <2>1, SettledFacts
  <2>3. AABBIntersects(aabb[n], q)
    BY <1>2, <1>9, <2>2, CentreMeets
  <2>4. CASE HasIndex
    <3>1. n \in matching
      BY <1>4, <2>2, <2>3 DEF Asked
    <3>2. ASSUME NEW p \in Cells, CentreIn(aabb[n], CellBounds(p)) PROVE p \in meeting
      <4>1. IsBox(CellBounds(p))
        BY CellsAreBoxes
      <4>2. ASSUME NEW d \in Axis
            PROVE  ~(High(CellBounds(p), d) < Low(q, d) \/ Low(CellBounds(p), d) > High(q, d))
        <5>1. /\ Low(q, d) \in Int /\ High(q, d) \in Int
              /\ Low(aabb[n], d) \in Int /\ High(aabb[n], d) \in Int
              /\ Low(CellBounds(p), d) \in Int /\ High(CellBounds(p), d) \in Int
          BY <1>2, <2>2, <4>1 DEF IsBox, Interval, Low, High
        <5>2. /\ Low(aabb[n], d) + High(aabb[n], d) >= 2 * Low(q, d)
              /\ Low(aabb[n], d) + High(aabb[n], d) <= 2 * High(q, d)
              /\ Low(aabb[n], d) + High(aabb[n], d) >= 2 * Low(CellBounds(p), d)
              /\ Low(aabb[n], d) + High(aabb[n], d) <= 2 * High(CellBounds(p), d)
          BY <1>9, <3>2 DEF CentreIn
        <5> QED
          BY <5>1, <5>2
      <4> QED
        BY <4>2 DEF AABBIntersects
    <3>3. \A p \in Cells : /\ p \in CellPath /\ IsBox(CellBounds(p))
                           /\ CentreIn(aabb[n], CellBounds(p)) => p \in meeting
      BY <3>2, CellsAreBoxes
    <3> HIDE DEF meeting, matching
    <3> QED
      BY <1>1, <2>4, <3>1, <3>3, Found
  <2>5. CASE ~HasIndex
    BY <1>1, <2>1, <2>3, <2>5
  <2> QED
    BY <2>4, <2>5
<1>10. ASSUME NEW n \in QueryContained(q), n \in Settled PROVE n \in QueryAABB(q)
  <2>1. n \in Traversed /\ AABBContains(aabb[n], q)
    BY DEF QueryContained
  <2>2. /\ IsBox(aabb[n]) /\ \A d \in Axis : Low(aabb[n], d) <= High(aabb[n], d)
    BY <2>1, SettledFacts
  <2>3. ASSUME NEW d \in Axis
        PROVE  /\ Low(aabb[n], d) + High(aabb[n], d) >= 2 * Low(q, d)
               /\ Low(aabb[n], d) + High(aabb[n], d) <= 2 * High(q, d)
    <3>1. /\ Low(q, d) \in Int /\ High(q, d) \in Int
          /\ Low(aabb[n], d) \in Int /\ High(aabb[n], d) \in Int
      BY <1>2, <2>2 DEF IsBox, Interval, Low, High
    <3> QED
      BY <2>1, <2>2, <3>1 DEF AABBContains
  <2> QED
    BY <1>9, <1>10, <2>3 DEF CentreIn
<1> QED
  BY <1>7, <1>8, <1>9, <1>10

\* Questions for a frustum.
LEMMA FrustumQueriesExact ==
    ASSUME SpatialIInv, NEW planes \in QueryFrusta
    PROVE  /\ HasIndex => QueryFrustum(planes) \subseteq LinearFrustum(planes)
           /\ \A n \in Settled : CentreInFrustum(aabb[n], planes) => n \in QueryFrustum(planes)
<1> DEFINE meeting == {p \in Cells : FrustumIntersectsAABB(planes, CellBounds(p))}
           matching == {n \in Asked : FrustumIntersectsAABB(planes, aabb[n])}
<1>1. /\ HasIndex => QueryFrustum(planes) = Search(meeting, matching)
      /\ ~HasIndex => QueryFrustum(planes) = Traversed
  BY Zenon DEF QueryFrustum
<1>2. ASSUME HasIndex, NEW n \in QueryFrustum(planes) PROVE n \in LinearFrustum(planes)
  <2>1. matching \in SUBSET Asked
    OBVIOUS
  <2>2. n \in matching \cap managed \cap Traversed
    <3> HIDE DEF meeting, matching
    <3> QED
      BY <1>1, <1>2, <2>1, FoundIsManaged
  <2> QED
    BY <2>2 DEF LinearFrustum
<1>3. ASSUME NEW n \in Settled, CentreInFrustum(aabb[n], planes)
      PROVE  n \in QueryFrustum(planes)
  <2>1. n \in Traversed
    BY DEF Settled
  <2>2. /\ n \in Body /\ n \in active /\ aabb[n] # NoBox /\ IsBox(aabb[n])
        /\ CentreIn(aabb[n], aabb[n])
    BY <2>1, SettledFacts
  <2>3. n \in matching
    BY <1>3, <2>2, FrustumMeets DEF Asked
  <2>4. \A p \in Cells : /\ p \in CellPath /\ IsBox(CellBounds(p))
                         /\ CentreIn(aabb[n], CellBounds(p)) => p \in meeting
    BY <1>3, <2>2, CellsAreBoxes, FrustumMeets
  <2> HIDE DEF meeting, matching
  <2> QED
    BY <1>1, <2>1, <2>3, <2>4, Found
<1> QED
  BY <1>2, <1>3

\* A node is never filed twice.
LEMMA FiledOnce == SpatialIInv => IndexTypeOK
<1> SUFFICES ASSUME SpatialIInv PROVE IndexTypeOK
  OBVIOUS
<1>1. ASSUME NEW n \in Body PROVE Cardinality(filed[n]) <= 1
  <2>1. Tree \in Trees /\ Tree.filed = filed
    BY DEF SpatialIInv, Tree
  <2>2. filed[n] = {} \/ \E leaf \in CellPath : filed[n] = {leaf}
    BY <2>1, TreeParts
  <2>3. \A leaf : Cardinality({leaf}) = 1
    BY FS_Singleton
  <2>4. Cardinality(filed[n]) \in {0, 1}
    BY ONLY <2>2, <2>3, FS_EmptySet, Zenon
  <2> QED
    BY <2>4
<1> QED
  BY <1>1 DEF IndexTypeOK, SpatialIInv, BoxesTyped

\* The index may miss what only reaches into the question with its rim, and
\* misleads in no other way.
LEMMA QueriesSound == SpatialIInv => QueriesExact
<1> SUFFICES ASSUME SpatialIInv PROVE QueriesExact
  OBVIOUS
<1>1. \A q \in QueryBoxes :
        /\ QueryAABB(q) \subseteq managed
        /\ indexType # "Quadtree" => \A n \in QueryAABB(q) : AABBIntersects(aabb[n], q)
        /\ \A n \in Settled : CentreIn(aabb[n], q) => n \in QueryAABB(q)
        /\ QueryContained(q) \cap Settled \subseteq QueryAABB(q)
  BY BoxQueriesExact
<1>2. \A planes \in QueryFrusta :
        /\ HasIndex => QueryFrustum(planes) \subseteq LinearFrustum(planes)
        /\ \A n \in Settled : CentreInFrustum(aabb[n], planes) => n \in QueryFrustum(planes)
  BY FrustumQueriesExact
<1> QED
  BY <1>1, <1>2, FiledOnce DEF QueriesExact

-----------------------------------------------------------------------------

\* The steps at which a ray is between the planes of the box on an axis.
Between(ray, box, d, t) ==
    /\ ray.origin[d] + t * ray.direction[d] >= Low(box, d)
    /\ ray.origin[d] + t * ray.direction[d] <= High(box, d)

\* What a ray was narrowed to, after some axes.
Span == ((0 .. MaxReach) \cup {Infinity}) \X {k \in Int : -Infinity <= k /\ k <= FltMax}

Narrow(ray, box, t, d) ==
    <<StdMax(t[1], Slab(ray, box, d)[1]), StdMin(t[2], Slab(ray, box, d)[2])>>

\* Rays and boxes are within reach of each other.
LEMMA RayTyped ==
    ASSUME NEW ray \in Rays, NEW box \in Box, NEW d \in Axis
    PROVE  /\ ray.origin[d] \in Int /\ ray.direction[d] \in {-1, 0, 1}
           /\ Low(box, d) \in Int /\ High(box, d) \in Int /\ Low(box, d) <= High(box, d)
           /\ Low(box, d) - ray.origin[d] \in -MaxReach .. MaxReach
           /\ High(box, d) - ray.origin[d] \in -MaxReach .. MaxReach
           /\ MaxReach \in Nat /\ MaxReach < 1000 /\ NaN \notin Int
<1>1. box[d] \in Interval /\ Low(box, d) <= High(box, d)
  BY SpatialAssumption
<1>2. Low(box, d) \in Int /\ High(box, d) \in Int
  BY <1>1 DEF Interval, Low, High
<1>3. ray.origin[d] \in Int /\ ray.direction[d] \in -1 .. 1
  BY SpatialAssumption
<1>4. {Low(box, d) - ray.origin[d], High(box, d) - ray.origin[d]} \subseteq -MaxReach .. MaxReach
  BY SpatialAssumption
<1>5. MaxReach \in Nat /\ MaxReach < 1000 /\ NaN \notin Int
  BY SpatialAssumption DEF FltMax
<1> QED
  BY <1>1, <1>2, <1>3, <1>4, <1>5

\* One slab narrows a span to the steps between its planes, whichever way the
\* ray runs and also when it runs along one of them.
LEMMA SlabNarrows ==
    ASSUME NEW ray \in Rays, NEW box \in Box, NEW d \in Axis, NEW span \in Span
    PROVE  /\ Narrow(ray, box, span, d) \in Span
           /\ \A t \in 0 .. MaxReach :
                  Narrow(ray, box, span, d)[1] <= t /\ t <= Narrow(ray, box, span, d)[2]
                  <=> span[1] <= t /\ t <= span[2] /\ Between(ray, box, d, t)
           /\ Narrow(ray, box, span, d)[2] < Narrow(ray, box, span, d)[1]
              \/ Narrow(ray, box, span, d)[1] \in 0 .. MaxReach
<1> DEFINE o == ray.origin[d]
           v == ray.direction[d]
           l == Low(box, d)
           h == High(box, d)
           a == StdMax(span[1], Slab(ray, box, d)[1])
           b == StdMin(span[2], Slab(ray, box, d)[2])
<1>1. /\ o \in Int /\ v \in {-1, 0, 1} /\ l \in Int /\ h \in Int /\ l <= h
      /\ l - o \in -MaxReach .. MaxReach /\ h - o \in -MaxReach .. MaxReach
      /\ MaxReach \in Nat /\ MaxReach < 1000 /\ NaN \notin Int
  BY RayTyped
<1>2. /\ span[1] \in (0 .. MaxReach) \cup {1001}
      /\ span[2] \in Int /\ -1001 <= span[2] /\ span[2] <= 1000
  BY DEF Span, FltMax, Infinity
<1>3. /\ Narrow(ray, box, span, d) = <<a, b>>
      /\ \A t : Between(ray, box, d, t) <=> o + t * v >= l /\ o + t * v <= h
  BY DEF Narrow, Between
<1>4. SUFFICES /\ a \in (0 .. MaxReach) \cup {1001} /\ b \in Int /\ -1001 <= b /\ b <= 1000
               /\ \A t \in 0 .. MaxReach :
                      a <= t /\ t <= b
                      <=> span[1] <= t /\ t <= span[2] /\ o + t * v >= l /\ o + t * v <= h
               /\ b < a \/ a \in 0 .. MaxReach
  BY <1>3 DEF Span, FltMax, Infinity
<1>5. CASE v = 0
  <2>1. /\ Slab(ray, box, d)[1] = IF l - o = 0 THEN NaN ELSE IF l - o > 0 THEN 1001 ELSE -1001
        /\ Slab(ray, box, d)[2] = IF h - o = 0 THEN NaN ELSE IF h - o > 0 THEN 1001 ELSE -1001
    BY <1>5 DEF Slab, TimesInverse, Infinity
  <2>2. a = IF l - o > 0 THEN 1001 ELSE span[1]
    BY <1>1, <1>2, <2>1 DEF StdMax
  <2>3. b = IF h - o < 0 THEN -1001 ELSE span[2]
    BY <1>1, <1>2, <2>1 DEF StdMin
  <2>4. \A t \in 0 .. MaxReach : o + t * v = o
    BY <1>1, <1>5
  <2> HIDE DEF a, b, o, v, l, h
  <2> QED
    BY <1>1, <1>2, <2>2, <2>3, <2>4
<1>6. CASE v = 1
  <2>1. Slab(ray, box, d)[1] = l - o /\ Slab(ray, box, d)[2] = h - o
    BY <1>1, <1>6 DEF Slab, TimesInverse
  <2>2. /\ a = IF span[1] < l - o THEN l - o ELSE span[1]
        /\ b = IF h - o < span[2] THEN h - o ELSE span[2]
    BY <1>1, <2>1 DEF StdMax, StdMin
  <2>3. \A t \in 0 .. MaxReach : o + t * v = o + t
    BY <1>1, <1>6
  <2> HIDE DEF a, b, o, v, l, h
  <2>4. l - o \in -MaxReach .. MaxReach /\ h - o \in -MaxReach .. MaxReach
    BY <1>1
  <2>5. /\ a \in (0 .. MaxReach) \cup {1001} /\ b \in Int /\ -1001 <= b /\ b <= 1000
        /\ b < a \/ a \in 0 .. MaxReach
    BY <1>1, <1>2, <2>2, <2>4
  <2>6. ASSUME NEW t \in 0 .. MaxReach
        PROVE  a <= t /\ t <= b
               <=> span[1] <= t /\ t <= span[2] /\ o + t * v >= l /\ o + t * v <= h
    BY <1>1, <1>2, <2>2, <2>3, <2>4
  <2> QED
    BY <2>5, <2>6
<1>7. CASE v = -1
  <2>1. Slab(ray, box, d)[1] = o - h /\ Slab(ray, box, d)[2] = o - l
    BY <1>1, <1>7 DEF Slab, TimesInverse
  <2>2. /\ a = IF span[1] < o - h THEN o - h ELSE span[1]
        /\ b = IF o - l < span[2] THEN o - l ELSE span[2]
    BY <1>1, <2>1 DEF StdMax, StdMin
  <2>3. \A t \in 0 .. MaxReach : o + t * v = o - t
    BY <1>1, <1>7
  <2> HIDE DEF a, b, o, v, l, h
  <2>4. o - h \in -MaxReach .. MaxReach /\ o - l \in -MaxReach .. MaxReach
    BY <1>1
  <2>5. /\ a \in (0 .. MaxReach) \cup {1001} /\ b \in Int /\ -1001 <= b /\ b <= 1000
        /\ b < a \/ a \in 0 .. MaxReach
    BY <1>1, <1>2, <2>2, <2>4
  <2>6. ASSUME NEW t \in 0 .. MaxReach
        PROVE  a <= t /\ t <= b
               <=> span[1] <= t /\ t <= span[2] /\ o + t * v >= l /\ o + t * v <= h
    BY <1>1, <1>2, <2>2, <2>3, <2>4
  <2> QED
    BY <2>5, <2>6
<1> QED
  BY <1>1, <1>5, <1>6, <1>7

\* A ray hits a box where it enters it.
LEMMA RayHits ==
    ASSUME NEW ray \in Rays, NEW box \in Box
    PROVE  IF Inside(ray, box) = {} THEN RayDistance(ray, box) = FltMax
           ELSE /\ RayDistance(ray, box) \in Inside(ray, box)
                /\ \A t \in Inside(ray, box) : RayDistance(ray, box) <= t
<1> DEFINE s0 == <<0, FltMax>>
           s1 == Narrow(ray, box, s0, "x")
           s2 == Narrow(ray, box, s1, "y")
           s3 == Narrow(ray, box, s2, "z")
<1>1. RayDistance(ray, box) = IF s3[2] < s3[1] THEN FltMax ELSE s3[1]
  BY DEF RayDistance, Narrow
<1>2. Axis = {"x", "y", "z"}
  BY DEF Axis
<1>3. \A t : t \in Inside(ray, box) <=> /\ t \in 0 .. MaxReach
                                        /\ Between(ray, box, "x", t) /\ Between(ray, box, "y", t)
                                        /\ Between(ray, box, "z", t)
  BY <1>2 DEF Inside, Between
<1>4. s0 \in Span /\ MaxReach \in Nat /\ MaxReach < FltMax
  BY SpatialAssumption DEF Span, FltMax, Infinity
<1>5. \A t \in 0 .. MaxReach : s0[1] <= t /\ t <= s0[2]
  BY SpatialAssumption DEF FltMax
<1> HIDE DEF s0
<1>6. /\ s1 \in Span
      /\ \A t \in 0 .. MaxReach :
             s1[1] <= t /\ t <= s1[2] <=> s0[1] <= t /\ t <= s0[2] /\ Between(ray, box, "x", t)
  BY <1>2, <1>4, SlabNarrows
<1> HIDE DEF s1
<1>7. /\ s2 \in Span
      /\ \A t \in 0 .. MaxReach :
             s2[1] <= t /\ t <= s2[2] <=> s1[1] <= t /\ t <= s1[2] /\ Between(ray, box, "y", t)
  BY <1>2, <1>6, SlabNarrows
<1> HIDE DEF s2
<1>8. /\ s3 \in Span
      /\ \A t \in 0 .. MaxReach :
             s3[1] <= t /\ t <= s3[2] <=> s2[1] <= t /\ t <= s2[2] /\ Between(ray, box, "z", t)
      /\ s3[2] < s3[1] \/ s3[1] \in 0 .. MaxReach
  BY <1>2, <1>7, SlabNarrows
<1> HIDE DEF s3
<1>9. \A t : t \in Inside(ray, box) <=> t \in 0 .. MaxReach /\ s3[1] <= t /\ t <= s3[2]
  BY <1>3, <1>5, <1>6, <1>7, <1>8
<1>10. s3[1] \in Int /\ s3[2] \in Int
  BY <1>4, <1>8 DEF Span, Infinity, FltMax
<1>11. CASE s3[2] < s3[1]
  <2>1. Inside(ray, box) = {}
    BY <1>4, <1>9, <1>10, <1>11
  <2> QED
    BY <1>1, <1>11, <2>1
<1>12. CASE ~(s3[2] < s3[1])
  <2>1. s3[1] \in Inside(ray, box) /\ \A t \in Inside(ray, box) : s3[1] <= t
    BY <1>4, <1>8, <1>9, <1>10, <1>12
  <2> QED
    BY <1>1, <1>12, <2>1
<1> QED
  BY <1>11, <1>12

\* How far a point is from the box on an axis.
Gap(point, box, d) ==
    IF point[d] < Low(box, d) THEN Low(box, d) - point[d]
    ELSE IF point[d] > High(box, d) THEN point[d] - High(box, d)
    ELSE 0

\* Squares are natural numbers and grow with the number.
LEMMA Squares ==
    /\ \A a \in Int : a * a \in Nat
    /\ \A a, b \in Nat : a <= b => a * a <= b * b
<1>1. ASSUME NEW a \in Int PROVE a * a \in Nat
  <2>1. a * a \in Int /\ a * a >= 0
    OBVIOUS
  <2> QED
    BY <2>1
<1>2. ASSUME NEW a \in Nat, NEW b \in Nat, a <= b PROVE a * a <= b * b
  <2>1. (b - a) * (b + a) >= 0
    <3>1. b - a \in Nat /\ b + a \in Nat
      BY <1>2
    <3>2. \A i, j \in Nat : i * j >= 0
      OBVIOUS
    <3> QED
      BY <3>1, <3>2
  <2>2. (b - a) * (b + a) = b * b - a * a
    OBVIOUS
  <2>3. a * a \in Int /\ b * b \in Int
    OBVIOUS
  <2> QED
    BY <2>1, <2>2, <2>3
<1> QED
  BY <1>1, <1>2

\* The distance of the origin of a ray from a box is a natural number.
LEMMA DistanceTyped ==
    ASSUME NEW ray \in Rays, NEW box \in Box
    PROVE  DistanceToAABB(ray.origin, box) \in Nat
<1>1. ASSUME NEW d \in Axis PROVE Gap(ray.origin, box, d) * Gap(ray.origin, box, d) \in Nat
  <2>1. Gap(ray.origin, box, d) \in Int
    BY RayTyped DEF Gap
  <2> QED
    BY <2>1, Squares
<1>2. "x" \in Axis /\ "y" \in Axis /\ "z" \in Axis
  BY DEF Axis
<1>3. DistanceToAABB(ray.origin, box) = Gap(ray.origin, box, "x") * Gap(ray.origin, box, "x")
                                        + Gap(ray.origin, box, "y") * Gap(ray.origin, box, "y")
                                        + Gap(ray.origin, box, "z") * Gap(ray.origin, box, "z")
  BY DEF DistanceToAABB, Gap
<1> QED
  BY <1>1, <1>2, <1>3

\* An axis counts if it is in the set.
One(A, d) == IF d \in A THEN 1 ELSE 0

\* The axes in a set are counted one by one.
LEMMA CountAxes ==
    ASSUME NEW A \in SUBSET Axis
    PROVE  Cardinality(A) = One(A, "x") + One(A, "y") + One(A, "z")
<1> DEFINE Bx == A \cap {"x"}
           Bxy == A \cap {"x", "y"}
<1>1. IsFiniteSet({}) /\ Cardinality({}) = 0
  BY FS_EmptySet
<1>2. IsFiniteSet(Bx) /\ Cardinality(Bx) = One(A, "x")
  <2>1. CASE "x" \in A
    <3>1. Bx = {"x"}
      BY <2>1
    <3>2. IsFiniteSet({"x"}) /\ Cardinality({"x"}) = 1
      BY FS_Singleton
    <3> QED
      BY <2>1, <3>1, <3>2 DEF One
  <2>2. CASE "x" \notin A
    <3>1. Bx = {}
      BY <2>2
    <3> QED
      BY <1>1, <2>2, <3>1 DEF One
  <2> QED
    BY <2>1, <2>2
<1>3. IsFiniteSet(Bxy) /\ Cardinality(Bxy) = One(A, "x") + One(A, "y")
  <2>1. CASE "y" \in A
    <3>1. Bxy = Bx \cup {"y"} /\ "y" \notin Bx
      BY <2>1
    <3>2. /\ IsFiniteSet(Bx \cup {"y"})
          /\ Cardinality(Bx \cup {"y"}) = IF "y" \in Bx THEN Cardinality(Bx) ELSE Cardinality(Bx) + 1
      BY <1>2, FS_AddElement
    <3> HIDE DEF Bx, Bxy
    <3> QED
      BY <1>2, <2>1, <3>1, <3>2 DEF One
  <2>2. CASE "y" \notin A
    <3>1. Bxy = Bx
      BY <2>2
    <3> QED
      BY <1>2, <2>2, <3>1 DEF One
  <2> QED
    BY <2>1, <2>2
<1>4. CASE "z" \in A
  <2>1. A = Bxy \cup {"z"} /\ "z" \notin Bxy
    BY <1>4 DEF Axis
  <2>2. /\ IsFiniteSet(Bxy \cup {"z"})
        /\ Cardinality(Bxy \cup {"z"}) = IF "z" \in Bxy THEN Cardinality(Bxy) ELSE Cardinality(Bxy) + 1
    BY <1>3, FS_AddElement
  <2> HIDE DEF Bxy
  <2> QED
    BY <1>3, <1>4, <2>1, <2>2 DEF One
<1>5. CASE "z" \notin A
  <2>1. A = Bxy
    BY <1>5 DEF Axis
  <2> HIDE DEF Bxy
  <2> QED
    BY <1>3, <1>5, <2>1 DEF One
<1> QED
  BY <1>4, <1>5

\* The origin of a ray is no farther from a box than the way to any point of it.
LEMMA NoFarther ==
    ASSUME NEW ray \in Rays, NEW box \in Box, NEW t \in Inside(ray, box)
    PROVE  DistanceToAABB(ray.origin, box)
           <= t * t * Cardinality({d \in Axis : ray.direction[d] # 0})
<1> DEFINE A == {d \in Axis : ray.direction[d] # 0}
           gap(d) == Gap(ray.origin, box, d)
<1>1. t \in Nat /\ MaxReach \in Nat
  BY SpatialAssumption DEF Inside
<1>2. ASSUME NEW d \in Axis
      PROVE  /\ gap(d) * gap(d) \in Nat
             /\ gap(d) * gap(d) <= IF d \in A THEN t * t ELSE 0
  <2>1. /\ ray.origin[d] \in Int /\ ray.direction[d] \in {-1, 0, 1}
        /\ Low(box, d) \in Int /\ High(box, d) \in Int /\ Low(box, d) <= High(box, d)
    BY RayTyped
  <2>2. /\ ray.origin[d] + t * ray.direction[d] >= Low(box, d)
        /\ ray.origin[d] + t * ray.direction[d] <= High(box, d)
    BY DEF Inside
  <2>3. t * ray.direction[d] = IF ray.direction[d] = 0 THEN 0
                               ELSE IF ray.direction[d] = 1 THEN t ELSE 0 - t
    BY <1>1, <2>1
  <2>4. gap(d) \in Nat /\ gap(d) <= t /\ (d \notin A => gap(d) = 0)
    BY <1>1, <2>1, <2>2, <2>3 DEF Gap
  <2> HIDE DEF gap
  <2>5. gap(d) * gap(d) \in Nat /\ gap(d) * gap(d) <= t * t
    BY <1>1, <2>4, Squares
  <2>6. d \notin A => gap(d) * gap(d) = 0
    BY <2>4
  <2> QED
    BY <2>5, <2>6
<1>3. "x" \in Axis /\ "y" \in Axis /\ "z" \in Axis
  BY DEF Axis
<1>4. DistanceToAABB(ray.origin, box) = gap("x") * gap("x") + gap("y") * gap("y") + gap("z") * gap("z")
  BY DEF DistanceToAABB, Gap
<1>5. Cardinality(A) = One(A, "x") + One(A, "y") + One(A, "z")
  <2>1. A \in SUBSET Axis
    OBVIOUS
  <2> QED
    BY <2>1, CountAxes
<1>6. \A d \in Axis : (IF d \in A THEN t * t ELSE 0) = t * t * One(A, d)
  BY <1>1, Squares DEF One
<1>7. \A d : One(A, d) \in {0, 1}
  BY DEF One
<1> HIDE DEF A, gap
<1> DEFINE sq == t * t
<1>8. sq \in Nat
  BY <1>1, Squares
<1>9. /\ gap("x") * gap("x") <= sq * One(A, "x")
      /\ gap("y") * gap("y") <= sq * One(A, "y")
      /\ gap("z") * gap("z") <= sq * One(A, "z")
  BY <1>2, <1>3, <1>6
<1>10. /\ gap("x") * gap("x") \in Nat /\ gap("y") * gap("y") \in Nat /\ gap("z") * gap("z") \in Nat
  BY <1>2, <1>3
<1> HIDE DEF sq
<1>11. sq * (One(A, "x") + One(A, "y") + One(A, "z"))
       = sq * One(A, "x") + sq * One(A, "y") + sq * One(A, "z")
  BY <1>7, <1>8
<1>12. sq * One(A, "x") \in Int /\ sq * One(A, "y") \in Int /\ sq * One(A, "z") \in Int
  BY <1>7, <1>8
<1>13. DistanceToAABB(ray.origin, box) <= sq * Cardinality(A)
  BY <1>4, <1>5, <1>9, <1>10, <1>11, <1>12
<1> QED
  BY <1>13 DEF A, sq

\* Rays hit what they pass through, and nothing is nearer than the nearest.
LEMMA RaysSound == SpatialIInv => RaysExact
<1> SUFFICES ASSUME SpatialIInv PROVE RaysExact
  OBVIOUS
<1> SUFFICES ASSUME NEW ray \in Rays
             PROVE  LET entry(n) == LET at == Inside(ray, aabb[n]) IN CHOOSE t \in at : \A u \in at : t <= u
                        hit == {n \in Traversed : Inside(ray, aabb[n]) # {}}
                        length == Cardinality({d \in Axis : ray.direction[d] # 0})
                    IN  /\ Raycast(ray) = {n \in hit : \A q \in hit : entry(n) <= entry(q)}
                        /\ \A n \in FindNearest(ray.origin), q \in hit :
                               DistanceToAABB(ray.origin, aabb[n]) <= entry(q) * entry(q) * length
                        /\ FindNearest(ray.origin) = {} => Traversed = {}
  BY Zenon DEF RaysExact
<1> DEFINE entry(n) == CHOOSE t \in Inside(ray, aabb[n]) : \A u \in Inside(ray, aabb[n]) : t <= u
           hit == {n \in Traversed : Inside(ray, aabb[n]) # {}}
           length == Cardinality({d \in Axis : ray.direction[d] # 0})
           far == [n \in Traversed |-> RayDistance(ray, aabb[n])]
           away == [n \in Traversed |-> DistanceToAABB(ray.origin, aabb[n])]
<1>1. \A n \in Traversed : aabb[n] \in Box
  BY SettledFacts
<1>2. MaxReach \in Nat /\ MaxReach < 1000 /\ FltMax = 1000
  BY SpatialAssumption DEF FltMax
<1>3. \A n \in Traversed : Inside(ray, aabb[n]) \in SUBSET (0 .. MaxReach)
  BY DEF Inside
<1>4. ASSUME NEW n \in Traversed
      PROVE  IF n \in hit
             THEN /\ far[n] = entry(n) /\ entry(n) \in Inside(ray, aabb[n])
                  /\ entry(n) \in Nat /\ entry(n) < FltMax
             ELSE far[n] = FltMax
  <2>1. far[n] = RayDistance(ray, aabb[n])
    OBVIOUS
  <2>2. IF Inside(ray, aabb[n]) = {} THEN far[n] = FltMax
        ELSE /\ far[n] \in Inside(ray, aabb[n])
             /\ \A t \in Inside(ray, aabb[n]) : far[n] <= t
    BY <1>1, <2>1, RayHits
  <2>3. CASE n \in hit
    <3>1. /\ far[n] \in Inside(ray, aabb[n])
          /\ \A t \in Inside(ray, aabb[n]) : far[n] <= t
      BY <2>2, <2>3
    <3> HIDE DEF far
    <3>2. /\ entry(n) \in Inside(ray, aabb[n])
          /\ \A t \in Inside(ray, aabb[n]) : entry(n) <= t
      BY <3>1, Zenon
    <3> HIDE DEF entry, hit
    <3>3. far[n] \in 0 .. MaxReach /\ entry(n) \in 0 .. MaxReach
      BY <1>3, <3>1, <3>2
    <3>4. far[n] = entry(n)
      BY <1>2, <3>1, <3>2, <3>3
    <3> QED
      BY <1>2, <2>3, <3>2, <3>3, <3>4
  <2>4. CASE n \notin hit
    BY <2>2, <2>4
  <2> QED
    BY <2>3, <2>4
<1>5. Raycast(ray) = {n \in Traversed : /\ far[n] < FltMax
                                        /\ \A q \in Traversed : far[n] <= far[q]}
  BY DEF Raycast, Closest
<1>6. FindNearest(ray.origin) = {n \in Traversed : /\ away[n] < FltMax
                                                   /\ \A q \in Traversed : away[n] <= away[q]}
  BY DEF FindNearest, Closest
<1>7. hit \subseteq Traversed
  OBVIOUS
<1>8. \A n \in Traversed : /\ away[n] = DistanceToAABB(ray.origin, aabb[n])
                           /\ away[n] \in Nat /\ away[n] < FltMax
  BY <1>1, DistanceTyped, SpatialAssumption
<1>9. \A q \in hit : away[q] <= entry(q) * entry(q) * length
  <2>1. TAKE q \in hit
  <2>2. entry(q) \in Inside(ray, aabb[q]) /\ aabb[q] \in Box
    BY <1>1, <1>4
  <2> HIDE DEF entry
  <2>3. DistanceToAABB(ray.origin, aabb[q]) <= entry(q) * entry(q) * length
    BY <2>2, NoFarther
  <2> QED
    BY <1>7, <1>8, <2>3
<1>10. \A q \in hit : entry(q) * entry(q) * length \in Int
  <2>1. length \in Nat
    <3>1. IsFiniteSet({"x", "y", "z"})
      <4>1. IsFiniteSet({})
        BY FS_EmptySet
      <4>2. IsFiniteSet({} \cup {"x"})
        BY <4>1, FS_AddElement
      <4>3. IsFiniteSet(({} \cup {"x"}) \cup {"y"})
        BY <4>2, FS_AddElement
      <4>4. IsFiniteSet((({} \cup {"x"}) \cup {"y"}) \cup {"z"})
        BY <4>3, FS_AddElement
      <4>5. (({} \cup {"x"}) \cup {"y"}) \cup {"z"} = {"x", "y", "z"}
        OBVIOUS
      <4> QED
        BY <4>4, <4>5
    <3>2. IsFiniteSet({d \in Axis : ray.direction[d] # 0})
      BY <3>1, FS_Subset DEF Axis
    <3> QED
      BY <3>2, FS_CardinalityType
  <2> HIDE DEF length
  <2>2. TAKE q \in hit
  <2>3. entry(q) \in Nat
    BY <1>4, <1>7
  <2> HIDE DEF entry
  <2>4. \A a, b \in Nat : a * b \in Nat
    OBVIOUS
  <2>5. entry(q) * entry(q) \in Nat
    BY <2>3, <2>4
  <2> QED
    BY <2>1, <2>4, <2>5
<1> HIDE DEF entry, hit, far, away, length
<1>11. Raycast(ray) = {n \in hit : \A q \in hit : entry(n) <= entry(q)}
  <2>1. ASSUME NEW n \in Traversed
        PROVE  /\ far[n] < FltMax /\ \A q \in Traversed : far[n] <= far[q]
               <=> n \in hit /\ \A q \in hit : entry(n) <= entry(q)
    <3>1. CASE n \in hit
      <4>1. far[n] = entry(n) /\ entry(n) \in Nat /\ entry(n) < FltMax
        BY <1>4, <3>1
      <4>2. \A q \in Traversed : entry(n) <= far[q] <=> (q \in hit => entry(n) <= entry(q))
        BY <1>2, <1>4, <4>1
      <4> QED
        BY <1>7, <3>1, <4>1, <4>2
    <3>2. CASE n \notin hit
      BY <1>2, <1>4, <3>2
    <3> QED
      BY <3>1, <3>2
  <2> QED
    BY <1>5, <1>7, <2>1
<1>12. ASSUME NEW n \in FindNearest(ray.origin), NEW q \in hit
       PROVE  DistanceToAABB(ray.origin, aabb[n]) <= entry(q) * entry(q) * length
  <2>1. /\ n \in Traversed /\ q \in Traversed /\ away[n] <= away[q]
        /\ away[n] = DistanceToAABB(ray.origin, aabb[n])
        /\ away[n] \in Nat /\ away[q] \in Nat
    BY <1>6, <1>7, <1>8
  <2>2. away[q] <= entry(q) * entry(q) * length /\ entry(q) * entry(q) * length \in Int
    BY <1>9, <1>10
  <2> QED
    BY <2>1, <2>2
<1>13. ASSUME Traversed # {} PROVE FindNearest(ray.origin) # {}
  <2>1. {away[n] : n \in Traversed} \in SUBSET Nat
    BY <1>8
  <2>2. PICK a \in {away[n] : n \in Traversed} : \A b \in {away[n] : n \in Traversed} : a <= b
    BY <1>13, <2>1, LeastNumber
  <2>3. PICK n \in Traversed : a = away[n]
    BY <2>2
  <2> QED
    BY <1>6, <1>8, <2>2, <2>3
<1> QED
  BY <1>11, <1>12, <1>13 DEF entry, hit, length

\* No search of static nodes is misled, by the index or by the arithmetic of a
\* ray: for any nodes, boxes, world, tree depth and questions.
THEOREM SpatialSearchesExact == SpatialSpec => []SearchesExact
<1>1. SpatialIInv => SearchesExact
  BY QueriesSound, RaysSound DEF SearchesExact
<1> QED
  BY <1>1, SpatialInvariant, PTL
=============================================================================
