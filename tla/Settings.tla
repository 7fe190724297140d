------------------------------- MODULE Settings -------------------------------
(***************************************************************************)
(* The settings from three sides: the keys that switch them, the profiles  *)
(* that are saved, loaded and shared, and the page that handles the files. *)
(* A behaviour uses one side; the others rest in their initial state.  Of  *)
(* the profiles it uses the file or the shared code: no step reads both.   *)
(***************************************************************************)
EXTENDS Integers

CONSTANTS
  Order, Left, Right, BindKeys, Saved,                                  \* of Binds
  Fields, KindOf, Wide, Keys, StoreModes, Numbers, Factory, Known, Retired, Authors,
  Odd, Absent, Foreign,                                                 \* of ConfigStore
  Files, Sorted, Typed, PathOf                                          \* of ConfigMenu

VARIABLES
  using,   \* the side that is used
  value, active, key, mode, prev, down, pressed, answered,
  current, file, source, saving, code,
  disk, list, selected, needs, creating, wrong, deleting, resetting, clicked, moved, written,
  lost, outside

Binds == INSTANCE Binds WITH Keys <- BindKeys
Store == INSTANCE ConfigStore WITH Modes <- StoreModes
Page == INSTANCE ConfigMenu

ASSUME BindsAssumption == Binds!OrderAssumption /\ Binds!KeysAssumption /\ Binds!SavedAssumption
ASSUME StoreAssumption ==
  Store!FieldsAssumption /\ Store!FactoryAssumption /\ Store!FormsAssumption
ASSUME PageAssumption == Page!SortedAssumption /\ Page!PathAssumption

bindsVars == <<value, active, key, mode, prev, down, pressed, answered>>
storeVars == <<current, file, source, saving, code>>
pageVars == <<disk, list, selected, needs, creating, wrong, deleting, resetting, clicked, moved,
              written, lost, outside>>
vars == <<using, bindsVars, storeVars, pageVars>>

Init ==
  /\ using \in {"binds", "files", "codes", "page"}
  /\ Binds!Init /\ Store!Init /\ Page!Init
  /\ using # "page" => disk = {}

BindsStep == using = "binds" /\ Binds!Next /\ UNCHANGED <<using, storeVars, pageVars>>
StoreStep ==
  /\ \/ using = "files" /\ UNCHANGED code
     \/ using = "codes" /\ UNCHANGED <<file, source, saving>>
  /\ Store!Next
  /\ UNCHANGED <<using, bindsVars, pageVars>>
PageStep == using = "page" /\ Page!Next /\ UNCHANGED <<using, bindsVars, storeVars>>

Next == BindsStep \/ StoreStep \/ PageStep

Spec == Init /\ [][Next]_vars

-----------------------------------------------------------------------------
\* xui.cpp:901-913, settings.hpp:1627-1638: two settings that exclude each other
\* are never both on, whatever keys, clicks and configs switch them.
Exclusive == Binds!Exclusive

\* xui.cpp:915-921: a key that is held toggles its setting once.
TogglesOncePerHold == Binds!TogglesOncePerHold

\* xui.cpp:863-878, 901-913: of two settings that exclude each other the one
\* that was pressed last stays on.
LastPressWins == Binds!LastPressWins

\* config.hpp:832-883, 1088-1098: an import of a difference gives what the author of
\* the code had, whatever was set before and whichever version made the code; of a
\* field in another form it takes a part or leaves the baseline's.
ImportRestores == Store!ImportRestores

\* config.hpp:350-428, 776-806, 937-979: a load gives every field of the file that
\* can be read as it was when the file was written, whatever is wrong with others,
\* and changes nothing else; a file that does not parse changes nothing at all.
LoadKeepsToFile == Store!LoadKeepsToFile

\* config.hpp:287-310, 354-374: after a load, an import or a reset a toggle with a
\* key is as active as it is on, so that the first press is not lost, unless the
\* setting was left in the middle.
ToggleInStep == Store!ToggleInStep

\* menu.config.cpp:279-297: a new config never writes over one that the page
\* could have known of.
CreateOverwritesNone == Page!CreateOverwritesNone

\* menu.config.cpp:327-332: the save button writes over the config whose row was
\* clicked last, as long as the list has not changed.
SaveHitsSelected == Page!SaveHitsSelected
=============================================================================
