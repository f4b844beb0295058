--------------------------- MODULE EditorSettings ---------------------------
(***************************************************************************)
(* Three objects of the editor that keep settings and a file each          *)
(* (TenEngine-024-editor): the bindings of keys to actions                 *)
(* (KeyBindingSystem.cpp), the layouts of the panels (LayoutManager.cpp)   *)
(* and the preferences (EditorPreferences.cpp).  They share nothing.       *)
(*                                                                         *)
(* A new session makes new objects and loads the files.  A file is text:   *)
(* of a float it keeps six digits, and a line that joins several texts is  *)
(* taken apart at the first of each mark, wherever the texts hold it.      *)
(* Whole numbers, and ids of the program's own actions and panels, hold no *)
(* mark and are read as written.  No text has a line break or begins with  *)
(* a # or a [.  Callbacks that tell of changes are left out.               *)
(***************************************************************************)
EXTENDS Integers, Sequences, SequencesExt, Functions

CONSTANTS ActionIds,        \* ids of actions in their order, that of std::map
          DefaultBinding,   \* of each action
          KeyCombo, NoKey,  \* NoKey: any with key code 0
          NoAction, NoFile,
          Panel,            \* panels to look at
          CustomLayout,     \* names for custom layouts
          KeyOfPref,        \* actions the preferences bind
          SixDigits,        \* of a float: the one that six digits of it say
          Word,             \* words and marks that texts of tools are made of
          ToolText,         \* such texts
          MaxCalls          \* bound: calls, over all sessions

Number == 0 .. 3    \* values of preferences

\* The marks of a line.
Equals == "="
Comma == ","

ASSUME SettingsAssumption ==
    /\ SixDigits \in [Number -> Number]
    /\ Equals \in Word /\ Comma \in Word /\ ToolText \subseteq Seq(Word)
    /\ ActionIds \in Seq(Range(ActionIds))
    /\ NoKey \notin KeyCombo
    /\ DefaultBinding \in [Range(ActionIds) -> KeyCombo \cup {NoKey}]
    /\ MaxCalls \in Nat

VARIABLES
    keys,           \* [current, lookup, shared]: currentBinding of the registered
                    \* actions, m_keyToAction, and history: combinations that two
                    \* actions had at a time
    rebinding,      \* m_rebindingActionId
    bindingsFile,   \* a line for each action, in their order
    layouts,        \* m_layouts
    shown,          \* [current, viewport, panels]
    layoutFile,
    prefs,          \* [values, bindings, tools]
    prefsFile,
    saved,          \* history: what each object was when its file was written
    fresh,          \* history: the object that has just loaded its file in a new session
    calls

keyVars == <<keys, rebinding, bindingsFile>>
layoutVars == <<layouts, shown, layoutFile>>
prefVars == <<prefs, prefsFile>>
countVars == <<saved, fresh, calls>>
settingsVars == <<keyVars, layoutVars, prefVars, countVars>>

Action == Range(ActionIds)

\* A call, and what of the three objects it leaves alone.
Call == calls < MaxCalls /\ calls' = calls + 1 /\ fresh' = "none"
KeyCall == Call /\ UNCHANGED <<layoutVars, prefVars, saved>>
LayoutCall == Call /\ UNCHANGED <<keyVars, prefVars, saved>>
PrefCall == Call /\ UNCHANGED <<keyVars, layoutVars, saved>>

Save(object, what) == Call /\ saved' = [saved EXCEPT ![object] = what]

NewSession(object) == fresh' = object /\ UNCHANGED <<saved, calls>>

\* An entry of a std::map set; and all entries of one set in another.
With(f, x, y) == [z \in DOMAIN f \cup {x} |-> IF z = x THEN y ELSE f[z]]
Over(f, g) == [z \in DOMAIN f \cup DOMAIN g |-> IF z \in DOMAIN f THEN f[z] ELSE g[z]]

\* The first of some places; 0 for none.
FirstOf(S) == IF S = {} THEN 0 ELSE CHOOSE i \in S : \A j \in S : i <= j

-----------------------------------------------------------------------------
(* Key bindings *)

Registered(k) == DOMAIN k.current

\* Erasing a combination from m_keyToAction asks not whose it is.
Erase(lookup, combo) == Restrict(lookup, DOMAIN lookup \ {combo})

Bound(lookup, combo, action) ==
    IF combo = NoKey THEN lookup ELSE With(lookup, combo, action)

Shared(current) ==
    {c \in KeyCombo : \E a, b \in DOMAIN current : a # b /\ current[a] = c /\ current[b] = c}

NoKeys == [current |-> <<>>, lookup |-> <<>>, shared |-> {}]

RegisterActionIn(k, action) ==
    IF action \in Registered(k) THEN k
    ELSE LET combo == DefaultBinding[action]
             current == With(k.current, action, combo)
         IN  [current |-> current,
              lookup |-> Bound(k.lookup, combo, action),
              shared |-> k.shared \cup Shared(current)]

\* Slip: the old combination stays in the table.
SetBindingKeepingOld(k, action, combo) ==
    IF action \notin Registered(k) THEN k
    ELSE LET current == [k.current EXCEPT ![action] = combo]
         IN  [current |-> current,
              lookup |-> Bound(k.lookup, combo, action),
              shared |-> k.shared \cup Shared(current)]

SetBindingIn(k, action, combo) ==
    IF action \notin Registered(k) THEN k
    ELSE LET current == [k.current EXCEPT ![action] = combo]
         IN  [current |-> current,
              lookup |-> Bound(Erase(k.lookup, k.current[action]), combo, action),
              shared |-> k.shared \cup Shared(current)]

\* What Do makes of k for one action after another, in the order of the map.
EachAction(k, Do(_, _)) ==
    LET after[i \in 0 .. Len(ActionIds)] ==
            IF i = 0 THEN k ELSE Do(after[i - 1], ActionIds[i])
    IN  after[Len(ActionIds)]

SetKeys(k) == keys' = k /\ UNCHANGED bindingsFile

RegisterAction(action) ==
    /\ action \notin Registered(keys) /\ SetKeys(RegisterActionIn(keys, action))
    /\ UNCHANGED rebinding /\ KeyCall

UnregisterAction(action) ==
    /\ action \in Registered(keys)
    /\ SetKeys([keys EXCEPT !.lookup = Erase(@, keys.current[action]),
                            !.current = Restrict(@, DOMAIN @ \ {action})])
    /\ UNCHANGED rebinding /\ KeyCall

\* SetBinding, and ClearBinding, which binds nothing.
SetBinding(action, combo) ==
    /\ SetKeys(SetBindingIn(keys, action, combo)) /\ UNCHANGED rebinding /\ KeyCall

ResetBinding(action) == SetBinding(action, DefaultBinding[action])

ResetAllBindings ==
    /\ SetKeys(EachAction(keys, LAMBDA k, a : SetBindingIn(k, a, DefaultBinding[a])))
    /\ UNCHANGED rebinding /\ KeyCall

\* A row of the panel: its button asks for a key, and the next key pressed is
\* taken, or the button withdraws the question.
StartRebind(action) ==
    /\ action \in Registered(keys) /\ rebinding # action
    /\ rebinding' = action /\ UNCHANGED <<keys, bindingsFile>> /\ KeyCall

RebindTo(combo) ==
    /\ rebinding \in Registered(keys) /\ rebinding' = NoAction
    /\ SetKeys(SetBindingIn(keys, rebinding, combo)) /\ KeyCall

CancelRebind ==
    /\ rebinding # NoAction /\ rebinding' = NoAction
    /\ UNCHANGED <<keys, bindingsFile>> /\ KeyCall

SaveBindings ==
    /\ bindingsFile' = keys.current
    /\ UNCHANGED <<keys, rebinding, layoutVars, prefVars>>
    /\ Save("keys", keys.current)

LoadedBindings(k) ==
    IF bindingsFile = NoFile THEN k
    ELSE EachAction(k, LAMBDA j, a : IF a \in DOMAIN bindingsFile
                                     THEN SetBindingIn(j, a, bindingsFile[a]) ELSE j)

LoadBindings ==
    /\ bindingsFile # NoFile /\ SetKeys(LoadedBindings(keys))
    /\ UNCHANGED rebinding /\ KeyCall

AllRegistered == EachAction(NoKeys, RegisterActionIn)

KeySession ==
    /\ bindingsFile # NoFile
    /\ SetKeys(LoadedBindings(AllRegistered)) /\ rebinding' = NoAction
    /\ NewSession("keys") /\ UNCHANGED <<layoutVars, prefVars>>

KeyInit == keys = AllRegistered /\ rebinding = NoAction /\ bindingsFile = NoFile

KeyNext ==
    \/ \E a \in Action : \/ RegisterAction(a) \/ UnregisterAction(a)
                         \/ ResetBinding(a) \/ StartRebind(a)
                         \/ \E c \in KeyCombo \cup {NoKey} : SetBinding(a, c)
    \/ \E c \in KeyCombo : RebindTo(c)
    \/ ResetAllBindings \/ CancelRebind \/ SaveBindings \/ LoadBindings \/ KeySession

\* What ProcessKeyEvent executes.
Dispatched(combo) == IF combo \in DOMAIN keys.lookup THEN keys.lookup[combo] ELSE NoAction

-----------------------------------------------------------------------------
(* Layouts *)

\* The rectangle of a panel, by what it was set by.
NoRect == "0 0 0 0"

Builtin(name, viewport, visible) ==
    [name |-> name, isBuiltin |-> TRUE, viewport |-> viewport,
     panels |-> [p \in Panel |-> [visible |-> p \in visible, docked |-> TRUE,
                                  rect |-> IF p \in visible THEN name ELSE NoRect]]]

Custom(name, viewport, panels) ==
    [name |-> name, isBuiltin |-> FALSE, viewport |-> viewport, panels |-> panels]

BuiltinLayouts ==
    <<Builtin("Default", "Single", {"SceneView", "Properties", "Resources", "Console"}),
      Builtin("2D", "Single", {"SceneView", "Properties", "Console"}),
      Builtin("3D", "Quad", {"SceneView", "Properties", "Resources", "Console"}),
      Builtin("Wide", "TwoHorizontal",
              {"SceneView", "Properties", "Resources", "Console", "Profiler"})>>

\* GetLayout finds the first of a name; 0 for none.
Find(ls, name) == FirstOf({i \in DOMAIN ls : ls[i].name = name})

\* ApplyLayout gives the panels of the layout its values, others keep theirs.
Applied(s, layout) ==
    [current |-> layout.name, viewport |-> layout.viewport,
     panels |-> Over(layout.panels, s.panels)]

ApplyLayout(name) ==
    /\ Find(layouts, name) # 0
    /\ shown' = Applied(shown, layouts[Find(layouts, name)])
    /\ UNCHANGED <<layouts, layoutFile>> /\ LayoutCall

\* What is built in is not overwritten, and then nothing happens at all.
SaveCurrentLayoutAs(name) ==
    LET i == Find(layouts, name)
        layout == Custom(name, shown.viewport, shown.panels)
    IN  /\ i # 0 => ~layouts[i].isBuiltin
        /\ layouts' = IF i = 0 THEN Append(layouts, layout) ELSE [layouts EXCEPT ![i] = layout]
        /\ shown' = [shown EXCEPT !.current = name]
        /\ UNCHANGED layoutFile /\ LayoutCall

\* RemoveLayout takes the first custom layout of the name away.
WithoutLayout(ls, name) ==
    LET i == FirstOf({j \in DOMAIN ls : ls[j].name = name /\ ~ls[j].isBuiltin})
    IN  IF i = 0 THEN ls ELSE RemoveAt(ls, i)

RemoveLayout(name) ==
    /\ layouts' = WithoutLayout(layouts, name)
    /\ UNCHANGED <<shown, layoutFile>> /\ LayoutCall

\* AddLayout, of a layout taken from the list: a copy under a name.
AddLayout(name, i) ==
    /\ i \in DOMAIN layouts
    /\ layouts' = Append(WithoutLayout(layouts, name),
                         Custom(name, layouts[i].viewport, layouts[i].panels))
    /\ UNCHANGED <<shown, layoutFile>> /\ LayoutCall

\* SetPanelVisible or TogglePanel; DockPanel or FloatPanel; SetPanelDockRect; and
\* SetViewportLayout.
ChangePanel(p) ==
    /\ \/ shown' = [shown EXCEPT !.panels[p].visible = ~@]
       \/ shown' = [shown EXCEPT !.panels[p].docked = ~@]
       \/ shown' = [shown EXCEPT !.panels[p].rect = "moved"]
    /\ UNCHANGED <<layouts, layoutFile>> /\ LayoutCall

SetViewportLayout(viewport) ==
    /\ shown' = [shown EXCEPT !.viewport = viewport]
    /\ UNCHANGED <<layouts, layoutFile>> /\ LayoutCall

\* SaveToFile: of the panels of custom layouts it writes the visibility only.
SaveToFile ==
    /\ layoutFile' = [shown |-> shown,
                      custom |-> [i \in 1 .. Len(layouts) - Len(BuiltinLayouts) |->
                          LET l == layouts[i + Len(BuiltinLayouts)]
                          IN  [name |-> l.name, viewport |-> l.viewport,
                               visible |-> [p \in DOMAIN l.panels |-> l.panels[p].visible]]]]
    /\ UNCHANGED <<layouts, shown, keyVars, prefVars>>
    /\ Save("layouts", [shown |-> shown, layouts |-> layouts])

\* LoadFromFile adds the custom layouts to those there are.
ReadLayout(l) ==
    Custom(l.name, l.viewport, [p \in DOMAIN l.visible |->
                                  [visible |-> l.visible[p], docked |-> TRUE, rect |-> NoRect]])

\* Slip: panels the session has already keep their values.
ReadFileMissing(ls, s) ==
    /\ layouts' = ls \o [i \in DOMAIN layoutFile.custom |-> ReadLayout(layoutFile.custom[i])]
    /\ shown' = [layoutFile.shown EXCEPT !.panels = Over(s.panels, @)]
    /\ UNCHANGED layoutFile

ReadFile(ls, s) ==
    /\ layouts' = ls \o [i \in DOMAIN layoutFile.custom |-> ReadLayout(layoutFile.custom[i])]
    /\ shown' = [layoutFile.shown EXCEPT !.panels = Over(@, s.panels)]
    /\ UNCHANGED layoutFile

LoadFromFile == layoutFile # NoFile /\ ReadFile(layouts, shown) /\ LayoutCall

DefaultShown == Applied([current |-> "Default", viewport |-> "Single", panels |-> <<>>],
                        BuiltinLayouts[1])

LayoutSession ==
    /\ layoutFile # NoFile
    /\ ReadFile(BuiltinLayouts, DefaultShown)
    /\ NewSession("layouts") /\ UNCHANGED <<keyVars, prefVars>>

LayoutInit == layouts = BuiltinLayouts /\ shown = DefaultShown /\ layoutFile = NoFile

LayoutNext ==
    \/ \E name \in CustomLayout \cup {"Default", "3D"} :
          ApplyLayout(name) \/ SaveCurrentLayoutAs(name) \/ RemoveLayout(name)
    \/ \E name \in CustomLayout \cup {"3D"}, i \in DOMAIN layouts : AddLayout(name, i)
    \/ \E p \in Panel : ChangePanel(p)
    \/ \E viewport \in {"Single", "TwoVertical"} : SetViewportLayout(viewport)
    \/ SaveToFile \/ LoadFromFile \/ LayoutSession

-----------------------------------------------------------------------------
(* Preferences: a float with limits, one without, a whole number, and one that
   is not saved stand for those of each kind. *)

Pref == {"fontSize", "gridSize", "undoHistorySize", "showStats"}
Written == Pref \ {"showStats"}
Float == {"fontSize", "gridSize"}

\* SetFontSize and its like keep a value within limits; whole structures and
\* files are taken as they are.
Clamp(v) == IF v < 1 THEN 1 ELSE IF v > 2 THEN 2 ELSE v

DefaultValues == [p \in Pref |-> 1]
DefaultKeys == [a \in {"undo"} |-> "Ctrl+Z"]
DefaultPrefs == [values |-> DefaultValues, bindings |-> DefaultKeys, tools |-> <<>>]

SetFontSize(v) ==
    /\ prefs' = [prefs EXCEPT !.values["fontSize"] = Clamp(v)]
    /\ UNCHANGED prefsFile /\ PrefCall

SetPreferences(p, v) ==
    /\ prefs' = [prefs EXCEPT !.values[p] = v]
    /\ UNCHANGED prefsFile /\ PrefCall

SetKeyBinding(a, k) ==
    /\ prefs' = [prefs EXCEPT !.bindings = With(@, a, k)]
    /\ UNCHANGED prefsFile /\ PrefCall

\* An action without a default loses its binding.
ResetKeyBinding(a) ==
    /\ prefs' = [prefs EXCEPT !.bindings =
                   IF a \in DOMAIN DefaultKeys THEN With(@, a, DefaultKeys[a])
                   ELSE Restrict(@, DOMAIN @ \ {a})]
    /\ UNCHANGED prefsFile /\ PrefCall

ResetAllKeyBindings ==
    /\ prefs' = [prefs EXCEPT !.bindings = DefaultKeys]
    /\ UNCHANGED prefsFile /\ PrefCall

\* ResetToDefaults leaves the keys as they are.
ResetToDefaults ==
    /\ prefs' = [DefaultPrefs EXCEPT !.bindings = prefs.bindings]
    /\ UNCHANGED prefsFile /\ PrefCall

OtherTools(name) ==
    LET kept[i \in 0 .. Len(prefs.tools)] ==
            IF i = 0 THEN <<>>
            ELSE IF prefs.tools[i].name = name THEN kept[i - 1]
            ELSE Append(kept[i - 1], prefs.tools[i])
    IN  kept[Len(prefs.tools)]

AddExternalTool(tool) ==
    /\ prefs' = [prefs EXCEPT !.tools = Append(OtherTools(tool.name), tool)]
    /\ UNCHANGED prefsFile /\ PrefCall

RemoveExternalTool(name) ==
    /\ prefs' = [prefs EXCEPT !.tools = OtherTools(name)]
    /\ UNCHANGED prefsFile /\ PrefCall

\* A text up to its first mark, and from there on.  A line that was written has both.
Mark(text, mark) == FirstOf({i \in DOMAIN text : text[i] = mark})
Before(text, mark) == SubSeq(text, 1, Mark(text, mark) - 1)
After(text, mark) == SubSeq(text, Mark(text, mark) + 1, Len(text))

LineOf(tool) == tool.name \o <<Equals>> \o tool.path \o <<Comma>> \o tool.arguments

ToolOf(name, value) ==
    [name |-> name, path |-> Before(value, Comma), arguments |-> After(value, Comma)]

\* Slip: the line is taken apart at its comma first.
ToolInByComma(line) ==
    LET head == Before(line, Comma)
    IN  [name |-> Before(head, Equals), path |-> After(head, Equals), arguments |-> After(line, Comma)]

ToolIn(line) == ToolOf(Before(line, Equals), After(line, Equals))

\* What the text of a value says.
Printed(p, v) == IF p \in Float THEN SixDigits[v] ELSE v

SavePreferences ==
    /\ prefsFile' = [values |-> [p \in Written |-> Printed(p, prefs.values[p])],
                     bindings |-> prefs.bindings,
                     lines |-> [i \in DOMAIN prefs.tools |-> LineOf(prefs.tools[i])]]
    /\ UNCHANGED <<prefs, keyVars, layoutVars>>
    /\ Save("prefs", prefs)

ReadTools == [i \in DOMAIN prefsFile.lines |-> ToolIn(prefsFile.lines[i])]

\* Slip: what there is wins over the file.
ReadPrefsMissing(p) ==
    [values |-> Over(p.values, prefsFile.values),
     bindings |-> Over(p.bindings, prefsFile.bindings),
     tools |-> p.tools \o ReadTools]

\* Load overwrites values and keys, and adds the tools to those there are.
ReadPrefs(p) ==
    [values |-> Over(prefsFile.values, p.values),
     bindings |-> Over(prefsFile.bindings, p.bindings),
     tools |-> p.tools \o ReadTools]

LoadPreferences ==
    /\ prefsFile # NoFile
    /\ prefs' = ReadPrefs(prefs) /\ UNCHANGED prefsFile /\ PrefCall

PrefSession ==
    /\ prefsFile # NoFile
    /\ prefs' = ReadPrefs(DefaultPrefs) /\ UNCHANGED prefsFile
    /\ NewSession("prefs") /\ UNCHANGED <<keyVars, layoutVars>>

PrefInit == prefs = DefaultPrefs /\ prefsFile = NoFile

PrefNext ==
    \/ \E v \in Number : SetFontSize(v) \/ \E p \in Pref : SetPreferences(p, v)
    \/ \E a \in KeyOfPref : ResetKeyBinding(a) \/ SetKeyBinding(a, "F1")
    \/ \E name, path, arguments \in ToolText :
          AddExternalTool([name |-> name, path |-> path, arguments |-> arguments])
    \/ \E name \in ToolText : RemoveExternalTool(name)
    \/ ResetAllKeyBindings \/ ResetToDefaults
    \/ SavePreferences \/ LoadPreferences \/ PrefSession

SettingsInit ==
    /\ KeyInit /\ LayoutInit /\ PrefInit
    /\ saved = [object \in {"keys", "layouts", "prefs"} |-> NoFile]
    /\ fresh = "none" /\ calls = 0

SettingsNext == KeyNext \/ LayoutNext \/ PrefNext

SettingsSpec == SettingsInit /\ [][SettingsNext]_settingsVars

-----------------------------------------------------------------------------

\* m_keyToAction names registered actions only, each under its own combination;
\* and a combination that no two actions ever had at a time runs the action it
\* is shown with, through any registering, rebinding, resetting and loading.
KeysDispatch ==
    /\ \A c \in DOMAIN keys.lookup :
          keys.lookup[c] \in Registered(keys) /\ keys.current[keys.lookup[c]] = c
    /\ \A a \in Registered(keys) :
          keys.current[a] \in KeyCombo \ keys.shared => Dispatched(keys.current[a]) = a

\* The layout that ApplyLayout would find, as far as files know it.
Known(ls, name) ==
    LET i == Find(ls, name)
    IN  IF i = 0 THEN NoFile
        ELSE [viewport |-> ls[i].viewport,
              visible |-> [p \in DOMAIN ls[i].panels |-> ls[i].panels[p].visible]]

\* A tool that its line can tell: the marks come where they belong.
Tellable(tool) == Equals \notin Range(tool.name) /\ Comma \notin Range(tool.path)

\* A new session that loads what the last one saved shows what that one showed:
\* bindings of actions; panels, viewports and custom layouts but for how these
\* dock their panels; preferences but for those that are not written, whole
\* numbers as they were and floats to six digits; as many tools, and each whose
\* name has no "=" and whose path no comma as it was, whatever others are called.
\* And what is built in is never overwritten, hidden or removed by a custom layout.
SettingsSurvive ==
    /\ fresh = "keys" => \A a \in DOMAIN saved.keys : keys.current[a] = saved.keys[a]
    /\ fresh = "layouts" =>
          /\ shown = saved.layouts.shown
          /\ \A name \in CustomLayout : Known(layouts, name) = Known(saved.layouts.layouts, name)
    /\ fresh = "prefs" =>
          /\ \A p \in Written : prefs.values[p] =
                IF p \in Float THEN SixDigits[saved.prefs.values[p]] ELSE saved.prefs.values[p]
          /\ prefs.bindings = saved.prefs.bindings
          /\ Len(prefs.tools) = Len(saved.prefs.tools)
          /\ \A i \in DOMAIN saved.prefs.tools :
                Tellable(saved.prefs.tools[i]) => prefs.tools[i] = saved.prefs.tools[i]
    /\ \A i \in DOMAIN BuiltinLayouts :
          layouts[i] = BuiltinLayouts[i] /\ Find(layouts, layouts[i].name) = i
=============================================================================
