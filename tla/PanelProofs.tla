----------------------------- MODULE PanelProofs -----------------------------
(***************************************************************************)
(* Panel uses the URI map as Symap says, so that what is proved of Symap   *)
(* holds of the map in the program: every step of opening a plugin and of  *)
(* exchanging values with it is a step of the map, or leaves it alone.     *)
(* And what the window says of the presets is true.                        *)
(***************************************************************************)
EXTENDS Panel, SymapProofs

\* The properties that are left to make controls of are those of a plugin.
PropertiesLeft == plugin \in Plugins /\ left \subseteq plugin.properties

-----------------------------------------------------------------------------
LEMMA InitLeft == Init => SymapInit /\ PropertiesLeft
BY DEF Init, PropertiesLeft

\* The steps of jalv_create_controls that go through the properties.
LEMMA LoopSteps ==
  ASSUME PropertiesLeft,
         NextLoop \/ MarkReadable \/ AddControl \/ MakeControl
  PROVE  PropertiesLeft' /\ [SymapNext]_symapVars
<1>1. CASE NextLoop
  BY <1>1 DEF NextLoop, PropertiesLeft
<1>2. CASE MarkReadable
  BY <1>2 DEF MarkReadable, PropertiesLeft
<1>3. CASE AddControl
  BY <1>3 DEF AddControl, PropertiesLeft, SymapNext
<1>4. CASE MakeControl
  <2>1. PICK q \in left : BeginMap(q.uri) /\ left' = left \ {q}
    BY <1>4 DEF MakeControl
  <2>2. q.uri \in Symbol
    BY <2>1, PluginsAssumption DEF PropertiesLeft, PropertyData
  <2>3. plugin' = plugin
    BY <1>4 DEF MakeControl
  <2> QED
    BY <2>1, <2>2, <2>3 DEF PropertiesLeft, SymapNext
<1> QED
  BY <1>1, <1>2, <1>3, <1>4

\* The other steps of the URI map.
LEMMA MapSteps ==
  ASSUME PropertiesLeft, MapUri \/ PluginMaps
  PROVE  PropertiesLeft' /\ [SymapNext]_symapVars
<1>1. CASE MapUri
  BY <1>1 DEF MapUri, opening, PropertiesLeft, SymapNext
<1>2. CASE PluginMaps
  <2>1. (\E sym \in plugin.maps : BeginMap(sym)) \/ Return
    BY <1>2 DEF PluginMaps
  <2>2. plugin.maps \subseteq Symbol
    BY PluginsAssumption DEF PropertiesLeft
  <2>3. UNCHANGED opening
    BY <1>2 DEF PluginMaps
  <2> QED
    BY <2>1, <2>2, <2>3 DEF opening, PropertiesLeft, SymapNext
<1> QED
  BY <1>1, <1>2

\* The steps that make ports, open the window, and all that come later leave
\* the map and the properties alone.
LEMMA OtherSteps ==
  ASSUME PropertiesLeft,
         \/ CreatePort \/ OpenState \/ ControlArgument \/ OpenWindow
         \/ User \/ Command \/ Update \/ Process \/ Output
  PROVE  PropertiesLeft' /\ UNCHANGED symapVars
<1> SUFFICES UNCHANGED <<plugin, left>> /\ UNCHANGED symapVars
  BY DEF PropertiesLeft
<1>1. CASE CreatePort
  BY <1>1 DEF CreatePort, opening
<1>2. CASE OpenState
  BY <1>2 DEF OpenState, opening
<1>3. CASE ControlArgument
  BY <1>3 DEF ControlArgument, opening
<1>4. CASE OpenWindow
  BY <1>4 DEF OpenWindow, opening
<1>5. CASE UserMoves
  BY <1>5 DEF UserMoves, opening
<1>6. CASE UserTurnsDial
  BY <1>6 DEF UserTurnsDial, opening
<1>7. CASE UserTypes
  BY <1>7 DEF UserTypes, opening
<1>8. CASE RequestValue
  BY <1>8 DEF RequestValue, opening
<1>9. CASE PluginUiWrites
  BY <1>9 DEF PluginUiWrites, opening
<1>10. CASE LoadPreset
  BY <1>10 DEF LoadPreset, opening
<1>11. CASE SavePreset
  BY <1>11 DEF SavePreset, opening
<1>12. CASE SavePresetAs
  BY <1>12 DEF SavePresetAs, opening
<1>13. CASE DeletePreset
  BY <1>13 DEF DeletePreset, opening
<1>14. CASE ConsoleSets
  BY <1>14 DEF ConsoleSets, SetFromString, opening
<1>15. CASE ConsoleSetsIndex
  BY <1>15 DEF ConsoleSetsIndex, SetFromString, opening
<1>16. CASE ConsoleSetsText
  BY <1>16 DEF ConsoleSetsText, opening
<1>17. CASE ConsolePreset
  BY <1>17 DEF ConsolePreset, opening
<1>18. CASE PortEvent
  BY <1>18 DEF PortEvent, opening
<1>19. CASE PropertyEvent
  BY <1>19 DEF PropertyEvent, opening
<1>20. CASE ValuelessSet
  BY <1>20 DEF ValuelessSet, opening
<1>21. CASE Process
  BY <1>21 DEF Process, opening
<1>22. CASE Output
  BY <1>22 DEF Output, opening
<1> QED
  BY <1>1, <1>2, <1>3, <1>4, <1>5, <1>6, <1>7, <1>8, <1>9, <1>10, <1>11, <1>12, <1>13, <1>14, <1>15, <1>16, <1>17, <1>18, <1>19, <1>20, <1>21, <1>22
     DEF User, Command, Update

\* What each step is to the map.
LEMMA StepOfMap ==
  ASSUME PropertiesLeft, [Next]_vars
  PROVE  PropertiesLeft' /\ [SymapNext]_symapVars
<1>1. CASE UNCHANGED vars
  BY <1>1 DEF vars, opening, symapVars, PropertiesLeft
<1>2. CASE Next
  BY <1>2, LoopSteps, MapSteps, OtherSteps DEF Next, Opening
<1> QED
  BY <1>1, <1>2

-----------------------------------------------------------------------------
\* The program uses the map only by calls that hold its lock, with symbols.
THEOREM ImplementsSymap == Spec => SymapSpec
<1> QED
  BY InitLeft, StepOfMap, PTL DEF Spec, SymapSpec

\* The map of a program is sorted and complete, for any plugins: their
\* properties are mapped in any order, before what they map themselves.
THEOREM MapStaysSorted == Spec => []IndexSorted
BY ImplementsSymap, IndexStaysSorted

\* The ID that a control was made with keeps its meaning.
THEOREM MapKeepsMeaning == Spec => IdsStable
BY ImplementsSymap, IdsKeepMeaning

-----------------------------------------------------------------------------
(* The presets.                                                            *)

Opened == phase \in {"arguments", "window", "running"}

\* The menu lists what is on disk, the window tells of the current preset, and
\* a preset of the user's that is the current one is on disk: it can be saved
\* again without a new menu.
PresetInv ==
  /\ preset \in {NoPreset, Shipped, Mine, Unsaved}
  /\ ~Opened => preset = NoPreset /\ disk = {} /\ window = Plain
  /\ Opened => menu = OnDisk
  /\ frontend # "gtk" => window = Plain /\ disk = {}
  /\ (frontend = "gtk" /\ preset # Unsaved) => window = WindowFor(preset)
  /\ preset = Mine => disk # {}
  /\ fault \in {"uri", "freed"} => preset = Unsaved

LEMMA PlainWindow == WindowFor(NoPreset) = Plain
BY Zenon DEF WindowFor, Plain, NoPreset

LEMMA FourPresets ==
  /\ NoPreset # Shipped /\ NoPreset # Mine /\ NoPreset # Unsaved
  /\ Shipped # Mine /\ Shipped # Unsaved /\ Mine # Unsaved
BY DEF NoPreset, Shipped, Mine, Unsaved

LEMMA PresetInvInit == Init => PresetInv
BY PlainWindow, FourPresets DEF Init, PresetInv, Opened

\* Steps that have to do neither with presets nor with the end of jalv_open.
LEMMA PresetInvElsewhere ==
  ASSUME PresetInv, UNCHANGED <<session, frontend>>, Opened' <=> Opened,
         fault' = fault \/ fault' \notin {"uri", "freed"}
  PROVE  PresetInv'
<1>1. UNCHANGED <<preset, disk, menu, window, frontend>>
  BY DEF session
<1>2. OnDisk' = OnDisk
  BY <1>1 DEF OnDisk
<1> QED
  BY <1>1, <1>2 DEF PresetInv

LEMMA PresetInvSet ==
  ASSUME PresetInv, NEW how, NEW i, NEW type, NEW body,
         SetValue(how, i, type, body), UNCHANGED <<opening, session>>
  PROVE  PresetInv'
<1>1. fault' = fault \/ fault' = "realloc"
  BY DEF SetValue
<1> QED
  BY <1>1, PresetInvElsewhere DEF opening, Opened

\* The handlers of presets.
LEMMA PresetInvLoad ==
  ASSUME PresetInv, LoadPreset
  PROVE  PresetInv'
<1>0. /\ Opened /\ UNCHANGED <<frontend, phase, disk, menu>> /\ Opened'
      /\ frontend # "console" /\ menu = OnDisk
  BY DEF LoadPreset, At, opening, PresetInv, Opened
<1>1. PICK name \in menu :
        IF frontend = "gtk" /\ preset = Unsaved
        THEN fault' = "uri" /\ UNCHANGED <<preset, controls, rings, window>>
        ELSE /\ frontend = "gtk" => preset # Chosen(name)
             /\ ApplyPreset(name)
             /\ window' = UpdatedWindow(preset')
             /\ UNCHANGED fault
  BY DEF LoadPreset
<1>2. OnDisk' = OnDisk
  BY <1>0 DEF OnDisk
<1>3. CASE frontend = "gtk" /\ preset = Unsaved
  BY <1>0, <1>1, <1>2, <1>3, FourPresets DEF PresetInv
<1>4. CASE ~(frontend = "gtk" /\ preset = Unsaved)
  <2>1. /\ preset' = Chosen(name)
        /\ window' = UpdatedWindow(preset')
        /\ fault' = fault /\ fault = "none"
    BY <1>0, <1>1, <1>4 DEF ApplyPreset, LoadPreset, At
  <2>2. name = "shipped" \/ (name = "mine" /\ disk # {})
    BY <1>0, <1>1 DEF OnDisk, Listed
  <2>3. preset' = Shipped \/ (preset' = Mine /\ disk # {})
    BY <2>1, <2>2 DEF Chosen
  <2>4. window' = IF frontend = "gtk" THEN WindowFor(preset') ELSE window
    BY <2>1 DEF UpdatedWindow
  <2> QED
    BY <1>0, <1>2, <2>1, <2>3, <2>4, FourPresets DEF PresetInv
<1> QED
  BY <1>3, <1>4

LEMMA PresetInvConsole ==
  ASSUME PresetInv, ConsolePreset
  PROVE  PresetInv'
<1>0. /\ Opened /\ UNCHANGED <<frontend, phase, disk, menu, window, fault>> /\ Opened'
      /\ frontend = "console" /\ fault = "none"
  BY DEF ConsolePreset, Typed, At, opening, memory, Opened
<1>1. PICK name \in OnDisk \union {"unknown"} : ApplyPreset(name)
  BY DEF ConsolePreset
<1>2. OnDisk' = OnDisk /\ disk = {} /\ name \in {"shipped", "unknown"}
  BY <1>0, <1>1 DEF OnDisk, Listed, PresetInv
<1>3. preset' \in {NoPreset, Shipped}
  BY <1>1, <1>2 DEF ApplyPreset, Chosen, OnDisk, Listed
<1> QED
  BY <1>0, <1>2, <1>3, FourPresets DEF PresetInv

LEMMA PresetInvSave ==
  ASSUME PresetInv, SavePreset
  PROVE  PresetInv'
<1>0. /\ Opened /\ UNCHANGED <<frontend, phase, menu, window>> /\ Opened'
      /\ window.save /\ fault = "none"
  BY DEF SavePreset, At, opening, Opened
<1>unsaved. CASE preset = Unsaved /\ fault' = "uri" /\ UNCHANGED <<preset, disk>>
  BY <1>0, <1>unsaved, FourPresets DEF PresetInv, OnDisk
<1> SUFFICES ASSUME preset.uri = "file" PROVE PresetInv'
  BY <1>unsaved DEF SavePreset
<1>1. preset = Mine
  BY <1>0 DEF PresetInv, NoPreset, Shipped, Mine, Unsaved
<1>2. window # Plain
  BY <1>0 DEF Plain
<1>3. frontend = "gtk" /\ menu = Listed(disk) /\ disk # {} /\ window = WindowFor(Mine)
  BY <1>0, <1>1, <1>2, FourPresets DEF PresetInv, OnDisk
<1>4. CASE preset' = Mine /\ disk' = {PortValues} /\ UNCHANGED fault
  BY <1>0, <1>3, <1>4, FourPresets DEF PresetInv, OnDisk, Listed
<1>5. CASE preset' = Unsaved /\ UNCHANGED disk
  BY <1>0, <1>3, <1>5, FourPresets DEF PresetInv, OnDisk
<1>6. preset # Unsaved
  BY <1>1 DEF Mine, Unsaved
<1> QED
  BY <1>4, <1>5, <1>6 DEF SavePreset

LEMMA PresetInvSaveAs ==
  ASSUME PresetInv, SavePresetAs
  PROVE  PresetInv'
<1>0. /\ Opened /\ UNCHANGED <<frontend, phase, fault>> /\ Opened'
      /\ frontend = "gtk" /\ fault = "none" /\ menu = OnDisk
  BY DEF SavePresetAs, At, opening, memory, Opened, PresetInv
<1>1. CASE preset' = Unsaved /\ UNCHANGED <<disk, menu, window>>
  <2>1. OnDisk' = OnDisk
    BY <1>1 DEF OnDisk
  <2> QED
    BY <1>0, <1>1, <2>1, FourPresets DEF PresetInv
<1>2. CASE /\ preset' = Mine
           /\ disk' = {PortValues}
           /\ menu' = Listed(disk')
           /\ window' = UpdatedWindow(Mine)
  <2>1. menu' = OnDisk' /\ disk' # {} /\ window' = WindowFor(Mine)
    BY <1>0, <1>2 DEF OnDisk, UpdatedWindow
  <2> QED
    BY <1>0, <1>2, <2>1, FourPresets DEF PresetInv
<1> QED
  BY <1>1, <1>2 DEF SavePresetAs

LEMMA PresetInvDelete ==
  ASSUME PresetInv, DeletePreset
  PROVE  PresetInv'
<1>0. /\ Opened /\ UNCHANGED <<frontend, phase, fault>> /\ Opened'
      /\ fault = "none" /\ menu = OnDisk /\ window.delete
      /\ preset' = NoPreset /\ window' = UpdatedWindow(NoPreset)
  BY DEF DeletePreset, At, opening, memory, Opened, PresetInv
<1>1. window # Plain
  BY <1>0 DEF Plain
<1>2. frontend = "gtk" /\ window' = WindowFor(preset')
  BY <1>0, <1>1 DEF PresetInv, UpdatedWindow
<1>3. menu' = OnDisk'
  BY <1>0 DEF DeletePreset, OnDisk
<1> QED
  BY <1>0, <1>2, <1>3, FourPresets DEF PresetInv

LEMMA PresetInvStep == PresetInv /\ [Next]_vars => PresetInv'
<1> SUFFICES ASSUME PresetInv, [Next]_vars PROVE PresetInv'
  OBVIOUS
<1>1. CASE CreatePort
  BY <1>1, PresetInvElsewhere DEF CreatePort, At, Opened, memory
<1>2. CASE NextLoop
  BY <1>2, PresetInvElsewhere DEF NextLoop, Opened, memory
<1>3. CASE MarkReadable
  BY <1>3, PresetInvElsewhere DEF MarkReadable, Opened, memory
<1>4. CASE MakeControl
  BY <1>4, PresetInvElsewhere DEF MakeControl, Opened, memory
<1>5. CASE MapUri
  BY <1>5, PresetInvElsewhere DEF MapUri, Opened, memory, opening
<1>6. CASE AddControl
  BY <1>6, PresetInvElsewhere DEF AddControl, Opened, memory
<1>7. CASE PluginMaps
  BY <1>7, PresetInvElsewhere DEF PluginMaps, Opened, memory, opening
<1>8. CASE OpenState
  BY <1>8 DEF OpenState, At, PresetInv, Opened, OnDisk, Listed, memory
<1>9. CASE ControlArgument
  BY <1>9, PresetInvElsewhere DEF ControlArgument, At, Opened, memory
<1>10. CASE OpenWindow
  BY <1>10, PresetInvElsewhere DEF OpenWindow, At, Opened, memory
<1>11. CASE UserMoves
  BY <1>11, PresetInvElsewhere DEF UserMoves, Opened, opening
<1>12. CASE UserTurnsDial
  BY <1>12, PresetInvElsewhere DEF UserTurnsDial, Opened, opening, memory
<1>13. CASE UserTypes
  BY <1>13, PresetInvSet DEF UserTypes
<1>14. CASE RequestValue
  BY <1>14, PresetInvSet DEF RequestValue
<1>15. CASE PluginUiWrites
  BY <1>15, PresetInvElsewhere DEF PluginUiWrites, Opened, opening, memory
<1>16. CASE ConsoleSets
  BY <1>16, PresetInvElsewhere DEF ConsoleSets, SetFromString, Opened, opening
<1>17. CASE ConsoleSetsIndex
  BY <1>17, PresetInvElsewhere DEF ConsoleSetsIndex, SetFromString, Opened, opening
<1>18. CASE ConsoleSetsText
  BY <1>18, PresetInvSet DEF ConsoleSetsText
<1>19. CASE PortEvent
  BY <1>19, PresetInvElsewhere DEF PortEvent, Opened, opening
<1>20. CASE PropertyEvent
  BY <1>20, PresetInvSet DEF PropertyEvent
<1>21. CASE ValuelessSet
  BY <1>21, PresetInvElsewhere DEF ValuelessSet, Opened, opening
<1>22. CASE Process
  BY <1>22, PresetInvElsewhere DEF Process, Opened, opening, memory
<1>23. CASE Output
  BY <1>23, PresetInvElsewhere DEF Output, Opened, opening, memory
<1>24. CASE UNCHANGED vars
  BY <1>24, PresetInvElsewhere DEF vars, Opened, opening, memory
<1> QED
  BY <1>1, <1>2, <1>3, <1>4, <1>5, <1>6, <1>7, <1>8, <1>9, <1>10, <1>11, <1>12,
     <1>13, <1>14, <1>15, <1>16, <1>17, <1>18, <1>19, <1>20, <1>21, <1>22, <1>23,
     <1>24, PresetInvLoad, PresetInvConsole, PresetInvSave, PresetInvSaveAs,
     PresetInvDelete
     DEF Next, Opening, User, Command, Update

\* What the window and the menu say of the presets is true, whatever the user
\* loads, saves and deletes, and wherever saving fails: the one state whose
\* URI is misused is the one that could not be saved.
THEOREM WindowTellsTruth == Spec => []WindowTellsPreset
<1>1. PresetInv => WindowTellsPreset
  BY DEF PresetInv, WindowTellsPreset, Opened
<1> QED
  BY <1>1, PresetInvInit, PresetInvStep, PTL DEF Spec
=============================================================================
