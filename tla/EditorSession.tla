---------------------------- MODULE EditorSession ----------------------------
(***************************************************************************)
(* An editing session: EditorImpl and SceneViewImpl (TenEngine-024-editor) *)
(* over the scene.                                                         *)
(*                                                                         *)
(* Everything runs on the main thread, one handler of the user interface   *)
(* at a time.  Levels are opened asynchronously: the answer of the         *)
(* resource manager arrives between two other handlers, whatever they have *)
(* done meanwhile.  The session keeps addresses and handles across         *)
(* handlers: the level's handle, the selected entities, the copied nodes,  *)
(* and the snapshot of transforms that play mode restores.                 *)
(***************************************************************************)
EXTENDS SceneWorlds

CONSTANTS LevelPath,          \* files of levels
          Desc,               \* what such a file can describe
          MenuName,           \* the name that the menu gives to new entities
          HandlerSets,        \* bound: the sets of optional handlers, "edit", "play",
                              \* "clipboard" and "disable", of which a session uses one
          MaxSelected,        \* bound: how many entities are selected at a time
          MaxEdited,          \* bound: entities whose transform is not the default one
          MaxDisabled         \* bound: live entities that are not active

ASSUME DescAssumption ==
    \A desc \in Desc : desc \in Seq(Item) /\ \A i \in DOMAIN desc : desc[i].up < i
ASSUME SessionAssumption == MenuName \in Name /\ LevelPath # {} /\ Null \notin LevelPath

VARIABLES scene,
          uses,        \* bound: the optional handlers of this session
          level,       \* EditorImpl::m_levelHandle, which the scene view shares
          path,        \* m_currentLevelPath
          loading,     \* the path of the level that is being loaded, or Null
          selection,   \* SceneViewImpl::m_selection, which the property panel shares
          clipboard,   \* m_clipboard
          play,        \* m_playModeState
          snapshot,    \* m_playModeSnapshot.entityTransforms
          hasCamera,   \* m_playModeSnapshot.hasCameraState
          began        \* history: the transforms when play was last begun from
                       \* Stopped, or Null once the level or the snapshot has changed

session == <<level, path, loading, selection, clipboard>>
playing == <<play, snapshot, hasCamera, began>>
sessionVars == <<scene, uses, session, playing>>

NoSnapshot == [n \in Node |-> Null]

\* Everything has its type, and an entity has a transform as long as it lives.
SessionTypeOK ==
    /\ scene \in Scene
    /\ \A n \in Node : n \in scene.live <=> scene.local[n] # Null
    /\ uses \in HandlerSets
    /\ level \in World \cup {Null}
    /\ path \in LevelPath \cup {Null}
    /\ loading \in LevelPath \cup {Null}
    /\ selection \subseteq Node
    /\ clipboard \in Seq(Item)
    /\ play \in {"Stopped", "Playing", "Paused"}
    /\ snapshot \in [Node -> Value \cup {Null}]
    /\ hasCamera \in BOOLEAN
    /\ began \in [Node -> Value \cup {Null}] \cup {Null}

SessionInit ==
    /\ scene = NoScene
    /\ uses \in HandlerSets
    /\ level = Null
    /\ path = Null
    /\ loading = Null
    /\ selection = {}
    /\ clipboard = <<>>
    /\ play = "Stopped"
    /\ snapshot = NoSnapshot
    /\ hasCamera = FALSE
    /\ began = Null

-----------------------------------------------------------------------------
(* Levels *)

\* Distinct free addresses for k new entities.
Addresses(k) ==
    {at \in [1..k -> Node \ scene.live] : \A i, j \in 1..k : at[i] = at[j] => i = j}

\* A level described by desc takes the place of the one that was shown, which
\* stays loaded.
Show(desc) ==
    \E w \in World \ scene.worlds, at \in Addresses(Len(desc)) :
        /\ scene' = CreateLevel(scene, w, desc, at)
        /\ level' = w
        /\ began' = Null

\* OnNewScene, from the dialogue that names the file.
OnNewScene(p) ==
    /\ Show(<<>>)
    /\ path' = p
    /\ UNCHANGED <<loading, selection, clipboard, play, snapshot, hasCamera>>

\* OpenLevel does nothing while a level is being loaded.
OpenLevel(p) ==
    /\ loading = Null
    /\ loading' = p
    /\ UNCHANGED <<scene, level, path, selection, clipboard, playing>>

\* OnLevelLoaded with a result, and without one.
OnLevelLoaded ==
    /\ loading # Null
    /\ \E desc \in Desc : Show(desc)
    /\ path' = loading
    /\ loading' = Null
    /\ UNCHANGED <<selection, clipboard, play, snapshot, hasCamera>>

OnLevelLoadFailed ==
    /\ loading # Null
    /\ loading' = Null
    /\ UNCHANGED <<scene, level, path, selection, clipboard, playing>>

\* Slip: the level is unloaded and its handle kept.
DeleteLevelFileKeepingHandle(p) ==
    /\ p = path
    /\ path' = Null
    /\ scene' = (IF level = Null THEN scene ELSE UnloadLevel(scene, level))
    /\ began' = Null
    /\ UNCHANGED <<level, loading, selection, clipboard, play, snapshot, hasCamera>>

\* DeleteLevelFile: the file of the level that is shown, which is unloaded.
\* Another file leaves the session as it is.
DeleteLevelFile(p) ==
    /\ p = path
    /\ path' = Null
    /\ scene' = (IF level = Null THEN scene ELSE UnloadLevel(scene, level))
    /\ level' = Null
    /\ began' = Null
    /\ UNCHANGED <<loading, selection, clipboard, play, snapshot, hasCamera>>

\* OnSave exports the level from its roots; a scene without a file gets one.
OnSave ==
    /\ level # Null
    /\ scene' = GetRootNodes(scene, level)
    /\ path' = IF path = Null THEN CHOOSE p \in LevelPath : TRUE ELSE path
    /\ UNCHANGED <<level, loading, selection, clipboard, playing>>

-----------------------------------------------------------------------------
(* The scene view and the property panel *)

\* SceneViewImpl::OnDraw: the roots are fetched and drawn.
OnDraw ==
    /\ level # Null
    /\ scene' = Traverse(scene, level)
    /\ UNCHANGED <<session, playing>>

\* OnNodeClicked on a node that is drawn, without and with the control key.
OnNodeClicked(n) ==
    /\ level # Null
    /\ n \in Visited(scene, level)
    /\ selection' \in {{n}, IF n \in selection THEN selection \ {n} ELSE selection \cup {n}}
    /\ Cardinality(selection') <= MaxSelected
    /\ UNCHANGED <<scene, level, path, loading, clipboard, playing>>

\* OnDelete destroys what is registered under the selected ids.
OnDelete ==
    /\ selection # {}
    /\ scene' = FoldLeft(DestroyEntity, scene, SetToSeq(selection \cap scene.entities))
    /\ selection' = {}
    /\ UNCHANGED <<level, path, loading, clipboard, playing>>

\* What ExportNodeToDesc describes of the subtrees of tops, each node with the
\* top it was reached from.
Exported(tops) == {c \in tops \X Node : c[1] \in Above(scene.parent, c[2])}

\* The nodes of a description, in an order with the parents first.
OrdersOf(C) == {q \in [1 .. Cardinality(C) -> C] :
    /\ \A i, j \in DOMAIN q : q[i] = q[j] => i = j
    /\ \A i, j \in DOMAIN q : q[j] = <<q[i][1], scene.parent[q[i][2]]>> => j < i}

Described(q) ==
    [i \in DOMAIN q |->
        [name |-> scene.name[q[i][2]],
         up |-> IF q[i][2] = q[i][1] THEN 0
                ELSE CHOOSE j \in DOMAIN q : q[j] = <<q[i][1], scene.parent[q[i][2]]>>]]

\* OnCopy: the selected entities whose parent is not selected.
OnCopy ==
    /\ selection # {}
    /\ LET tops == {n \in selection \cap scene.entities : scene.parent[n] \notin selection}
       IN  \E q \in OrdersOf(Exported(tops)) : clipboard' = Described(q)
    /\ UNCHANGED <<scene, level, path, loading, selection, playing>>

\* CreateEntityFromDesc, which sets the parent and registers no second time.
PasteNode(s, at, i) ==
    LET made == CreateEntity(s, at[i], level, clipboard[i].name)
    IN  IF clipboard[i].up = 0 THEN made ELSE SetParent(made, at[i], at[clipboard[i].up])

Pasted(at) ==
    LET pasted[i \in 0 .. Len(clipboard)] ==
            IF i = 0 THEN SetActiveWorld(scene, level) ELSE PasteNode(pasted[i - 1], at, i)
    IN  pasted[Len(clipboard)]

OnPaste ==
    /\ level \in scene.levels
    /\ clipboard # <<>>
    /\ \E at \in Addresses(Len(clipboard)) : scene' = Pasted(at)
    /\ UNCHANGED <<session, playing>>

\* CreateEmptyEntity and the menu items for primitives, cameras and lights.
CreateEmptyEntity ==
    /\ level \in scene.levels
    /\ \E n \in Node \ scene.live :
          scene' = CreateEntity(SetActiveWorld(scene, level), n, level, MenuName)
    /\ UNCHANGED <<session, playing>>

\* The property panel changes the transform of a selected entity.
DrawTransform(n, v) ==
    /\ n \in selection \cap scene.entities
    /\ scene' = [scene EXCEPT !.local[n] = v]
    /\ Cardinality({m \in scene.live : scene'.local[m] # Default}) <= MaxEdited
    /\ UNCHANGED <<session, playing>>

\* Entity::SetEnabled, by whoever has found the entity in the level.
SetEnabled(n, b) ==
    /\ level # Null /\ Above(scene.parent, n) \cap scene.nodes[level] # {}
    /\ scene' = [scene EXCEPT !.active[n] = b]
    /\ Cardinality({m \in scene.live : ~scene'.active[m]}) <= MaxDisabled
    /\ UNCHANGED <<session, playing>>

-----------------------------------------------------------------------------
(* Play mode *)

\* SavePlayModeSnapshot.
SavePlayModeSnapshot ==
    IF level = Null
    THEN /\ snapshot' = NoSnapshot
         /\ hasCamera' = FALSE
         /\ UNCHANGED scene
    ELSE /\ scene' = Traverse(scene, level)
         /\ snapshot' = [n \in Node |-> IF n \in Visited(scene', level) THEN scene.local[n] ELSE Null]
         /\ hasCamera' = TRUE

\* RestorePlayModeSnapshot from the snapshot snap: by id, whatever entity has
\* it now.
Restored(s, snap) ==
    LET t == Traverse(s, level)
    IN  [t EXCEPT !.local = [n \in Node |-> IF n \in Visited(t, level) /\ snap[n] # Null
                                            THEN snap[n] ELSE @[n]]]

RestorePlayModeSnapshot ==
    IF (snapshot = NoSnapshot /\ ~hasCamera) \/ level = Null
    THEN UNCHANGED <<scene, snapshot, hasCamera>>
    ELSE /\ scene' = Restored(scene, snapshot)
         /\ snapshot' = NoSnapshot
         /\ hasCamera' = FALSE

EnterPlayMode ==
    /\ play # "Playing"
    /\ SavePlayModeSnapshot
    /\ play' = "Playing"
    /\ began' = IF play = "Stopped" /\ level # Null THEN snapshot' ELSE Null
    /\ UNCHANGED session

\* Slip: pausing takes a snapshot too.
PausePlayModeSaving ==
    /\ play = "Playing"
    /\ SavePlayModeSnapshot
    /\ play' = "Paused"
    /\ UNCHANGED <<began, session>>

PausePlayMode ==
    /\ play = "Playing"
    /\ play' = "Paused"
    /\ UNCHANGED <<scene, snapshot, hasCamera, began, session>>

StopPlayMode ==
    /\ play # "Stopped"
    /\ play' = "Stopped"
    /\ RestorePlayModeSnapshot
    /\ began' = Null
    /\ UNCHANGED session

\* StepFrame runs one update of the game; when stopped it saves before and
\* restores after it, which leaves no snapshot.
StepFrame ==
    /\ play # "Playing"
    /\ IF play = "Paused" THEN UNCHANGED <<scene, snapshot, hasCamera>>
       ELSE IF level = Null THEN SavePlayModeSnapshot
       ELSE /\ scene' = Traverse(scene, level)
            /\ snapshot' = NoSnapshot
            /\ hasCamera' = FALSE
    /\ UNCHANGED <<play, began, session>>

-----------------------------------------------------------------------------

\* OnMenuItemClicked; its other items change nothing of the session.
OnMenuItemClicked == OnSave \/ CreateEmptyEntity

\* The dialogues: new scene, open level, delete level.
Modals == \E p \in LevelPath : OnNewScene(p) \/ OpenLevel(p) \/ DeleteLevelFile(p)

\* OnDraw of the scene view and of the property panel, with what the user does
\* while they are drawn.
Panels ==
    \/ OnDraw
    \/ \E n \in Node : OnNodeClicked(n)
    \/ "clipboard" \in uses /\ (OnCopy \/ OnPaste)
    \/ "edit" \in uses /\ \E n \in Node, v \in Value : DrawTransform(n, v)

PlayMode == EnterPlayMode \/ PausePlayMode \/ StopPlayMode \/ StepFrame

\* One handler of DrawMainEditorUI, the answer of the resource manager, or a
\* change by other code.  After a deleted entity has been dereferenced nothing
\* is known of the program.
SessionNext ==
    /\ ~scene.touchedFreed
    /\ UNCHANGED uses
    /\ \/ OnMenuItemClicked
       \/ Modals
       \/ Panels
       \/ "play" \in uses /\ PlayMode
       \/ OnLevelLoaded
       \/ OnLevelLoadFailed
       \/ "disable" \in uses /\ \E n \in Node, b \in BOOLEAN : SetEnabled(n, b)

SessionSpec == SessionInit /\ [][SessionNext]_sessionVars

\* A session that also uses the Delete command of the scene view, which
\* destroys entities without unregistering them.
NextDeleting == SessionNext \/ (~scene.touchedFreed /\ OnDelete /\ UNCHANGED uses)

-----------------------------------------------------------------------------
(* Properties *)

\* The entities form a forest over live entities: a child's parent and a
\* parent's children agree and neither is ever a deleted entity, whatever was
\* deleted, unloaded or pasted in between (Entity::SetParent, Entity::~Entity).
TreeSound ==
    \A n \in Node :
        /\ scene.parent[n] # Null => scene.parent[n] \in scene.live
        /\ n \notin scene.live => scene.children[n] = {} /\ scene.parent[n] = Null
        /\ \A c \in Node : c \in scene.children[n] <=> scene.parent[c] = n

\* A look-up by name finds no deleted entity and none of another world or
\* name, although destroying an entity erases the entry of any namesake and
\* addresses of entities and worlds are used again (EntityManager::FindEntityByName).
NamesFindLive ==
    \A w \in World, m \in Name :
        LET n == scene.byName[w][m]
        IN  n # Null => n \in scene.live /\ scene.home[n] = w /\ scene.name[n] = m

\* The handle that the editor keeps across the end of a load, a new scene and
\* the deletion of a file is the handle of a level that is loaded, and that
\* level is the current one (EditorImpl::m_levelHandle, WorldManager::m_currentLevel).
HandleIsLoaded ==
    level # Null => level \in scene.levels \cap scene.worlds /\ scene.currentLevel = level

\* The level's tables are well formed, its tree, its names and its handle sound.
SceneSound == SessionTypeOK /\ TreeSound /\ NamesFindLive /\ HandleIsLoaded

\* No handler dereferences an entity that has been deleted: neither the tables
\* of the level that is shown nor the cache of its roots hold one, although
\* the worlds of levels that were left behind do (SceneWorld::GetRootNodes).
NeverTouchesFreed == ~scene.touchedFreed

\* Unloading a level destroys all its entities: an entity survives the world
\* it was made for only if it, or one above it, was not active and the
\* traversal passed it by (WorldManager::UnloadLevel).
UnloadLeavesNothing ==
    \A n \in scene.live :
        scene.home[n] \notin scene.levels => \E m \in Above(scene.parent, n) : ~scene.active[m]

\* Stopping puts back every transform that was there when play began, over
\* pauses, steps and edits, for the entities a traversal finds at both ends,
\* unless the level was changed or play was resumed after a pause meanwhile
\* (EditorImpl::StopPlayMode).
StopRestores ==
    [][ (play # "Stopped" /\ play' = "Stopped" /\ began # Null)
        => \A n \in Visited(scene', level) : began[n] # Null => scene'.local[n] = began[n] ]_sessionVars
=============================================================================
