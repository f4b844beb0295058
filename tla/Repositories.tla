----------------------------- MODULE Repositories -----------------------------
(***************************************************************************)
(* The asset repositories: ResourceManagerImpl with ResourceManifest and   *)
(* ResourceRepositoryConfig (TenEngine-013-resource/src), driven by the    *)
(* resource browser (TenEngine-024-editor/src/ResourceViewImpl.cpp).       *)
(*                                                                         *)
(* repositories.json names the repositories; manifest.json of each lists   *)
(* its resources, each with the folder it is shown in, and its folders;    *)
(* the files of a resource are in a directory of the repository.  All of   *)
(* it is also in memory.  An operation of the browser runs on the main     *)
(* thread and writes files one at a time; a file being written is empty    *)
(* between its opening and its writing, which reads as no file.  A file    *)
(* that cannot be opened stays as it was; an import and a move do not ask. *)
(* The program may crash between any two writes: memory is lost, and the   *)
(* next start reads what is on disk.                                       *)
(*                                                                         *)
(* A resource's path in id_to_path_ is its directory in the repository     *)
(* id_to_repo_ names, so one table stands for both.  Left out: types and   *)
(* display names, the order and repetition of entries, half-filled         *)
(* directories (nothing refers to one), a write that fails although the    *)
(* file was opened, the cache (module ResourceCache).                      *)
(***************************************************************************)
EXTENDS Naturals, Sequences, SequencesExt, FiniteSets

CONSTANTS Repo,       \* names of repositories
          Main,       \* the repository of a new project
          Resource,   \* GUIDs that Import may generate
          Path,       \* bound: folders and their nesting, sequences of names
          MaxNotSaved, \* bound: resources whose imports and moves fail to save
          None        \* no resource, no repository, no file

Root == <<>>
Folder == Path \ {Root}

ASSUME MainAssumption == Main \in Repo
ASSUME MaxNotSavedAssumption == MaxNotSaved \in Nat
ASSUME PathAssumption == Root \in Path /\ \A p \in Folder : Front(p) \in Path

\* ResourceManifest: the folder of each resource listed, and the folders.
Manifest == [resources: UNION {[S -> Path] : S \in SUBSET Resource},
             assetFolders: SUBSET Folder]

ASSUME NoneAssumption == /\ \A m \in Manifest : m # None
                         /\ \A S \in SUBSET Repo : S # None

EmptyManifest == [resources |-> [g \in {} |-> Root], assetFolders |-> {}]

VARIABLES stored,        \* manifest.json of each repository, None if absent or empty
          storedConfig,  \* repositories.json, None if absent or empty
          dirs,          \* complete directories of files: repository and resource
          manifests, repo_config, id_to_repo,   \* the tables in memory
          pc,            \* what the main thread does next
          id, source, target,   \* of the import or the move that is running
          pending,       \* resources the move still has to take
          edits,         \* manifests that are still to be saved
          config,        \* AddRepository's, None but in CreateRepository
          used,          \* GUIDs Import has generated
          imported,      \* history: imported, and not lost by a crash
          notSaved       \* history: resources of an import or a move of which
                         \* a manifest could not be saved

disk == <<stored, storedConfig, dirs>>
memory == <<manifests, repo_config, id_to_repo>>
job == <<id, source, target, pending, edits, config>>
history == <<used, imported, notSaved>>
vars == <<disk, memory, pc, job, history>>

NoEdits == [r \in {} |-> EmptyManifest]
JobOver == /\ id' = None /\ source' = None /\ target' = None
           /\ pending' = {} /\ edits' = NoEdits /\ config' = None

Guids(m) == DOMAIN m.resources
With(m, g, p) == [m EXCEPT !.resources = [h \in Guids(m) \cup {g} |-> IF h = g THEN p ELSE m.resources[h]]]
Without(m, g) == [m EXCEPT !.resources = [h \in Guids(m) \ {g} |-> m.resources[h]]]

\* LoadManifest, into a manifest that was empty.
LoadManifest(r) == IF stored[r] = None THEN EmptyManifest ELSE stored[r]

LoadRepositoryConfig == IF storedConfig = None THEN {Main} ELSE storedConfig

\* The resources that a start of the program would find.
Listed == UNION {Guids(LoadManifest(r)) : r \in LoadRepositoryConfig}

Init ==
    /\ stored = [r \in Repo |-> None]
    /\ storedConfig = None
    /\ dirs = {}
    /\ manifests = [r \in {} |-> EmptyManifest]
    /\ repo_config = {}
    /\ id_to_repo = [g \in {} |-> Main]
    /\ pc = "load"
    /\ id = None /\ source = None /\ target = None
    /\ pending = {}
    /\ edits = NoEdits
    /\ config = None
    /\ used = {} /\ imported = {} /\ notSaved = {}

-----------------------------------------------------------------------------
(* LoadAllManifests, with which most operations of the browser end *)

\* Without a repositories.json one is written, or not.  A resource that two
\* repositories list belongs to the later of them, here to either.
LoadAllManifests ==
    /\ pc = "load"
    /\ storedConfig' \in {storedConfig, LoadRepositoryConfig}
    /\ repo_config' = LoadRepositoryConfig
    /\ manifests' = [r \in LoadRepositoryConfig |-> LoadManifest(r)]
    /\ id_to_repo' \in {home \in [Listed -> LoadRepositoryConfig] :
                           \A g \in Listed : g \in Guids(LoadManifest(home[g]))}
    /\ pc' = "idle"
    /\ JobOver
    /\ UNCHANGED <<stored, dirs, history>>

-----------------------------------------------------------------------------
(* ImportIntoRepository, for one file after another *)

BeginImport(r) ==
    /\ pc = "idle"
    /\ r \in repo_config
    /\ target' = r
    /\ pc' = "import"
    /\ UNCHANGED <<disk, memory, id, source, pending, edits, config, history>>

\* The copy is imported in a directory of its own, which then gets its name.
\* A file whose Import fails leaves nothing, and the next one follows.
ImportFile ==
    /\ pc = "import"
    /\ \E g \in Resource \ used :
           /\ id' = g
           /\ dirs' = dirs \cup {<<target, g>>}
           /\ used' = used \cup {g}
    /\ pc' = "list"
    /\ UNCHANGED <<stored, storedConfig, memory, source, target, pending, edits, config, imported, notSaved>>

\* Only textures, meshes and materials have a storage path: any other type
\* is given up, and its directory stays.
GiveUpImport ==
    /\ pc = "list"
    /\ pc' = "import"
    /\ UNCHANGED <<disk, memory, job, history>>

\* The resource is listed in memory.
Enlist(p) ==
    /\ pc = "list"
    /\ p \in Path
    /\ manifests' = [manifests EXCEPT ![target] = With(@, id, p)]
    /\ id_to_repo' = [g \in DOMAIN id_to_repo \cup {id} |-> IF g = id THEN target ELSE id_to_repo[g]]
    /\ UNCHANGED <<storedConfig, dirs, repo_config, job, used>>

\* History: a manifest with the entry of the resource cannot be opened.
CannotSave ==
    /\ Cardinality(notSaved \cup {id}) <= MaxNotSaved
    /\ notSaved' = notSaved \cup {id}
    /\ UNCHANGED stored

\* manifest.json is opened.
ListImported(p) ==
    /\ Enlist(p)
    /\ stored' = [stored EXCEPT ![target] = None]
    /\ pc' = "saveImported"
    /\ UNCHANGED <<imported, notSaved>>

\* It cannot be opened, and the import answers true all the same.
ImportNotSaved(p) ==
    /\ Enlist(p)
    /\ CannotSave
    /\ imported' = imported \cup {id}
    /\ pc' = "import"

SaveImported ==
    /\ pc = "saveImported"
    /\ stored' = [stored EXCEPT ![target] = manifests[target]]
    /\ imported' = imported \cup {id}
    /\ pc' = "import"
    /\ UNCHANGED <<storedConfig, dirs, memory, job, used, notSaved>>

EndImport ==
    /\ pc = "import"
    /\ pc' = "load"
    /\ UNCHANGED <<disk, memory, job, history>>

-----------------------------------------------------------------------------
(* MoveResourceToRepository, for a resource or for all those of a folder *)

\* OK in the dialog Change Repository.
ChangeRepository(ids, r) ==
    /\ pc = "idle"
    /\ r \in repo_config
    /\ ids \subseteq DOMAIN id_to_repo
    /\ ids # {}
    /\ \A g \in ids : id_to_repo[g] # r
    /\ pending' = ids
    /\ target' = r
    /\ pc' = "move"
    /\ UNCHANGED <<disk, memory, id, source, edits, config, history>>

\* Slip: the files are moved where they are copied.
CopyFilesMoving ==
    /\ pc = "move"
    /\ \E g \in pending :
           /\ <<id_to_repo[g], g>> \in dirs
           /\ id' = g
           /\ source' = id_to_repo[g]
           /\ dirs' = (dirs \ {<<id_to_repo[g], g>>}) \cup {<<target, g>>}
           /\ pending' = pending \ {g}
    /\ pc' = "relist"
    /\ UNCHANGED <<stored, storedConfig, memory, target, edits, config, history>>

\* The destination is one of GetRepositoryList and so has a manifest in
\* memory.  Without the resource's directory the iterator over it throws, and
\* that is a crash.
CopyFiles ==
    /\ pc = "move"
    /\ \E g \in pending :
           /\ <<id_to_repo[g], g>> \in dirs
           /\ id' = g
           /\ source' = id_to_repo[g]
           /\ dirs' = dirs \cup {<<target, g>>}
           /\ pending' = pending \ {g}
    /\ pc' = "relist"
    /\ UNCHANGED <<stored, storedConfig, memory, target, edits, config, history>>

\* A file cannot be copied: the resource stays where it is.
CopyFails ==
    /\ pc = "move"
    /\ \E g \in pending : pending' = pending \ {g}
    /\ UNCHANGED <<disk, memory, pc, id, source, target, edits, config, history>>

\* Both manifests change in memory.
Transfer ==
    /\ pc = "relist"
    /\ manifests' = [manifests EXCEPT ![source] = Without(@, id),
                                      ![target] = With(@, id, manifests[source].resources[id])]
    /\ id_to_repo' = [id_to_repo EXCEPT ![id] = target]
    /\ UNCHANGED <<storedConfig, dirs, repo_config, job, used, imported>>

\* The manifest of the source is opened.
Relist ==
    /\ Transfer
    /\ stored' = [stored EXCEPT ![source] = None]
    /\ pc' = "saveSource"
    /\ UNCHANGED notSaved

\* It cannot be opened, and the move goes on.
RelistNotSaved ==
    /\ Transfer
    /\ CannotSave
    /\ pc' = "openTarget"

\* Slip: only the manifest of the source is saved.
SaveSourceOnly ==
    /\ pc = "saveSource"
    /\ stored' = [stored EXCEPT ![source] = manifests[source]]
    /\ pc' = "removeFiles"
    /\ UNCHANGED <<storedConfig, dirs, memory, job, history>>

SaveSource ==
    /\ pc = "saveSource"
    /\ stored' = [stored EXCEPT ![source] = manifests[source]]
    /\ pc' = "openTarget"
    /\ UNCHANGED <<storedConfig, dirs, memory, job, history>>

OpenTarget ==
    /\ pc = "openTarget"
    /\ stored' = [stored EXCEPT ![target] = None]
    /\ pc' = "saveTarget"
    /\ UNCHANGED <<storedConfig, dirs, memory, job, history>>

\* The manifest of the target cannot be opened: the files of the source go all
\* the same.
TargetNotSaved ==
    /\ pc = "openTarget"
    /\ CannotSave
    /\ pc' = "removeFiles"
    /\ UNCHANGED <<storedConfig, dirs, memory, job, used, imported>>

SaveTarget ==
    /\ pc = "saveTarget"
    /\ stored' = [stored EXCEPT ![target] = manifests[target]]
    /\ pc' = "removeFiles"
    /\ UNCHANGED <<storedConfig, dirs, memory, job, history>>

RemoveFiles ==
    /\ pc = "removeFiles"
    /\ dirs' = dirs \ {<<source, id>>}
    /\ pc' = "move"
    /\ UNCHANGED <<stored, storedConfig, memory, job, history>>

EndMove ==
    /\ pc = "move"
    /\ pending = {}
    /\ pc' = "load"
    /\ UNCHANGED <<disk, memory, job, history>>

-----------------------------------------------------------------------------
(* The operations that edit what LoadManifest reads, and save it *)

InFolder(p, folder) == IsPrefix(folder, p)
Refolder(m, to) == [resources |-> [g \in Guids(m) |-> to[m.resources[g]]],
                    assetFolders |-> {to[p] : p \in m.assetFolders}]

\* GetDirectChildFolderSegments: the folders the browser shows.
Shown == {p \in Folder : \E r \in repo_config :
              \/ p \in manifests[r].assetFolders
              \/ \E q \in manifests[r].assetFolders \cup Range(manifests[r].resources) :
                     IsStrictPrefix(p, q)}

BeginEdits(e, next) ==
    /\ pc = "idle"
    /\ edits' = e
    /\ pc' = next
    /\ UNCHANGED <<disk, memory, id, source, target, pending, config, history>>

\* A resource is dropped on a folder.
UpdateAssetPath(g, p) ==
    /\ g \in DOMAIN id_to_repo
    /\ p \in Shown \cup {Root}
    /\ g \in Guids(LoadManifest(id_to_repo[g]))
    /\ BeginEdits([r \in {id_to_repo[g]} |-> With(LoadManifest(r), g, p)], "edit")

\* A folder is dropped on another, which is not one of its own descendants.
MoveAssetFolder(folder, newParent) ==
    LET moved == Append(newParent, Last(folder))
        to == [p \in Path |-> IF InFolder(p, folder)
                               THEN moved \o SubSeq(p, Len(folder) + 1, Len(p)) ELSE p]
        new == [r \in repo_config |-> Refolder(LoadManifest(r), to)]
    IN  /\ folder \in Shown
        /\ newParent \in Shown \cup {Root}
        /\ ~InFolder(newParent, folder)
        /\ \A r \in repo_config : new[r] \in Manifest   \* within Path
        /\ BeginEdits([r \in {q \in repo_config : new[q] # LoadManifest(q)} |-> new[r]], "edit")

\* The dialog New Folder, which does not load the manifests again.
AddAssetFolder(r, p) ==
    /\ r \in repo_config
    /\ p \notin LoadManifest(r).assetFolders
    /\ Front(p) \in Shown \cup {Root}
    /\ BeginEdits([q \in {r} |-> [LoadManifest(r) EXCEPT !.assetFolders = @ \cup {p}]], "add")

\* The dialog Delete Folder takes the repository from GetRepoForAssetPath: one
\* that has something in the folder.
RemoveAssetFolder(r, folder) ==
    LET old == LoadManifest(r)
        to == [p \in Path |-> IF InFolder(p, folder) THEN Front(folder) ELSE p]
        kept == {p \in old.assetFolders : ~InFolder(p, folder)}
    IN  /\ r \in repo_config
        /\ \E p \in old.assetFolders \cup Range(old.resources) : InFolder(p, folder)
        /\ BeginEdits([q \in {r} |-> [resources |-> Refolder(old, to).resources, assetFolders |-> kept]], "edit")

OpenEdit(r) ==
    /\ pc \in {"edit", "add"}
    /\ r \in DOMAIN edits
    /\ stored' = [stored EXCEPT ![r] = None]
    /\ target' = r
    /\ pc' = IF pc = "edit" THEN "saveEdit" ELSE "saveAdd"
    /\ UNCHANGED <<storedConfig, dirs, memory, id, source, pending, edits, config, history>>

\* Slip: the manifest in memory is replaced whether or not it was saved.
EditNotSavedReplacing(r) ==
    /\ pc \in {"edit", "add"}
    /\ r \in DOMAIN edits
    /\ manifests' = [manifests EXCEPT ![r] = edits[r]]
    /\ edits' = [q \in DOMAIN edits \ {r} |-> edits[q]]
    /\ UNCHANGED <<disk, repo_config, id_to_repo, pc, id, source, target, pending, config, history>>

\* The file cannot be opened: SaveManifest returns false.
EditNotSaved(r) ==
    /\ pc \in {"edit", "add"}
    /\ r \in DOMAIN edits
    /\ edits' = [q \in DOMAIN edits \ {r} |-> edits[q]]
    /\ UNCHANGED <<disk, memory, pc, id, source, target, pending, config, history>>

\* The manifest in memory is replaced when the file is saved.
SaveEdit ==
    /\ pc \in {"saveEdit", "saveAdd"}
    /\ stored' = [stored EXCEPT ![target] = edits[target]]
    /\ manifests' = [manifests EXCEPT ![target] = edits[target]]
    /\ edits' = [q \in DOMAIN edits \ {target} |-> edits[q]]
    /\ pc' = IF pc = "saveEdit" THEN "edit" ELSE "add"
    /\ UNCHANGED <<storedConfig, dirs, repo_config, id_to_repo, id, source, target, pending, config, history>>

EndEdits ==
    /\ pc \in {"edit", "add"}
    /\ DOMAIN edits = {}
    /\ pc' = IF pc = "edit" THEN "load" ELSE "idle"
    /\ JobOver
    /\ UNCHANGED <<disk, memory, history>>

-----------------------------------------------------------------------------
(* CreateRepository *)

\* A file that cannot be opened leaves everything as it is.
CreateRepository(r) ==
    /\ pc = "idle"
    /\ r \notin LoadRepositoryConfig
    /\ config' = LoadRepositoryConfig \cup {r}
    /\ storedConfig' = None
    /\ pc' = "saveConfig"
    /\ UNCHANGED <<stored, dirs, memory, id, source, target, pending, edits, history>>

SaveConfig ==
    /\ pc = "saveConfig"
    /\ storedConfig' = config
    /\ pc' = "load"
    /\ UNCHANGED <<stored, dirs, memory, job, history>>

-----------------------------------------------------------------------------
(* The program dies and is started again: Editor::Run loads the manifests *)

Crash ==
    /\ pc # "load"
    /\ manifests' = NoEdits
    /\ repo_config' = {}
    /\ id_to_repo' = [g \in {} |-> Main]
    /\ pc' = "load"
    /\ JobOver
    /\ imported' = imported \cap Listed
    /\ UNCHANGED <<disk, used, notSaved>>

Import == \/ \E r \in Repo : BeginImport(r)
          \/ ImportFile \/ GiveUpImport
          \/ \E p \in Path : ListImported(p) \/ ImportNotSaved(p)
          \/ SaveImported \/ EndImport

Move == \/ \E ids \in SUBSET Resource, r \in Repo : ChangeRepository(ids, r)
        \/ CopyFiles \/ CopyFails \/ Relist \/ RelistNotSaved \/ SaveSource
        \/ OpenTarget \/ TargetNotSaved \/ SaveTarget \/ RemoveFiles \/ EndMove

Edit == \/ \E g \in Resource, p \in Path : UpdateAssetPath(g, p)
        \/ \E p \in Folder, q \in Path : MoveAssetFolder(p, q)
        \/ \E r \in Repo, p \in Folder : AddAssetFolder(r, p) \/ RemoveAssetFolder(r, p)
        \/ \E r \in Repo : OpenEdit(r) \/ EditNotSaved(r)
        \/ SaveEdit \/ EndEdits

Next == \/ LoadAllManifests \/ Import \/ Move \/ Edit
        \/ \E r \in Repo : CreateRepository(r)
        \/ SaveConfig \/ Crash

Spec == Init /\ [][Next]_vars

-----------------------------------------------------------------------------

\* Types: manifests and tables are over the repositories of the
\* configuration, a file's manifest is a manifest or there is none.
TypeOK ==
    /\ stored \in [Repo -> Manifest \cup {None}]
    /\ storedConfig \in (SUBSET Repo \ {{}}) \cup {None}
    /\ dirs \subseteq Repo \X Resource
    /\ repo_config \subseteq Repo
    /\ DOMAIN manifests = repo_config
    /\ \A r \in repo_config : manifests[r] \in Manifest
    /\ DOMAIN id_to_repo \subseteq used
    /\ \A g \in DOMAIN id_to_repo : g \in Guids(manifests[id_to_repo[g]])
    /\ id \in Resource \cup {None}
    /\ {source, target} \subseteq Repo \cup {None}
    /\ pending \subseteq Resource
    /\ imported \cup notSaved \subseteq used /\ used \subseteq Resource

\* Between two operations of the browser what is in memory is what the next
\* start would read, also when a manifest could not be saved.  The table of
\* repositories says which lists a resource, and there is only that one, but for
\* a resource an import or a move could not save.
MemoryMatchesDisk ==
    pc = "idle" =>
        /\ repo_config = LoadRepositoryConfig
        /\ \A r \in repo_config : manifests[r] = LoadManifest(r)
        /\ \A g \in DOMAIN id_to_repo : g \in Guids(manifests[id_to_repo[g]])
        /\ \A r \in repo_config : \A g \in Guids(manifests[r]) :
               g \in DOMAIN id_to_repo /\ (id_to_repo[g] = r \/ g \in notSaved)

\* On disk no resource is ever listed by two repositories, and what one lists
\* has its files there: at every moment, so also where a crash leaves it, and
\* whatever happened to other resources, but not for one whose move or import
\* could not save a manifest.
OneListing ==
    \A r, q \in Repo : r # q => Guids(LoadManifest(r)) \cap Guids(LoadManifest(q)) \subseteq notSaved

ListedHasFiles ==
    \A r \in Repo : \A g \in Guids(LoadManifest(r)) \ notSaved : <<r, g>> \in dirs

DiskSound == OneListing /\ ListedHasFiles

\* A resource whose import was answered true stays listed, unless a crash
\* took the manifest that was being saved, or its own import or a move of its
\* own could not save one.
NothingLost == pc = "idle" => imported \ notSaved \subseteq DOMAIN id_to_repo

\* ResourceManager.h promises of MoveResourceToRepository that it updates both
\* manifests: when it has answered true, the target's lists the resource and the
\* source's does not.
MovesUpdateBoth ==
    pc = "move" /\ source # None =>
        id \in Guids(LoadManifest(target)) \ Guids(LoadManifest(source))
===============================================================================
