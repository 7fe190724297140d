----------------------------- MODULE ConfigMenu ------------------------------
(***************************************************************************)
(* The config page of the menu: the list of config files, the selected row *)
(* kept as an index, the dialog for a new name, and the buttons, of which  *)
(* a frame sees at most one click.  A frame that begins with needs_refresh *)
(* set reads the directory again before it draws anything.                 *)
(***************************************************************************)
EXTENDS Integers, Sequences, SequencesExt

CONSTANTS
  Files,   \* names of config files, as the directory has them
  Sorted,  \* the same names in the order of std::sort
  Typed,   \* other names a user types or an import carries
  PathOf   \* file_path: the file that each name stands for

\* Assumed of the constants where the module is used.
SortedAssumption == Sorted \in Seq(Files) /\ IsInjective(Sorted) /\ Range(Sorted) = Files
PathAssumption ==
  /\ PathOf \in [Files \cup Typed -> Files]
  /\ \A f \in Files : PathOf[f] = f

None == ""

VARIABLES
  disk,      \* the config files in the directory
  list,      \* config_list
  selected,  \* the selected row, -1 without one
  needs,     \* needs_refresh
  creating,  \* new_config_open
  wrong,     \* new_config_error
  deleting,  \* confirm_delete
  resetting, \* confirm_reset
  clicked,   \* history: the file of the row clicked last, None without one
  moved,     \* history: has the list changed since that click
  written,   \* history: the file that the save button wrote in the last step
  lost,      \* history: a file that creating a config wrote over
  outside    \* history: the directory was changed since the page read it

vars == <<disk, list, selected, needs, creating, wrong, deleting, resetting, clicked, moved, written,
          lost, outside>>

confirms == <<deleting, resetting>>
dialog == <<creating, wrong>>
selection == <<clicked, moved>>

\* The directory's files among the first n names, in their order.
ListingOf[n \in 0 .. Len(Sorted)] ==
  IF n = 0 THEN <<>>
  ELSE IF Sorted[n] \in disk THEN Append(ListingOf[n - 1], Sorted[n])
  ELSE ListingOf[n - 1]

Listing == ListingOf[Len(Sorted)]

\* Rows count from 0, as the code counts them.
Row(i) == list[i + 1]
HasSelection == selected \in 0 .. Len(list) - 1

Init ==
  /\ disk \in SUBSET Files
  /\ list = <<>>
  /\ selected = -1
  /\ needs = TRUE
  /\ creating = FALSE /\ wrong = FALSE
  /\ deleting = FALSE /\ resetting = FALSE
  /\ clicked = None /\ moved = FALSE /\ written = None /\ lost = None
  /\ outside = FALSE

NoWrite == written' = None /\ lost' = None

-----------------------------------------------------------------------------
\* A selection past the end of the new list is dropped; any other keeps its row
\* number.
Refresh ==
  /\ needs
  /\ needs' = FALSE
  /\ list' = Listing
  /\ moved' = (moved \/ Listing # list)
  /\ selected' = IF selected >= Len(Listing) THEN -1 ELSE selected
  /\ outside' = FALSE
  /\ NoWrite
  /\ UNCHANGED <<disk, dialog, confirms, clicked>>

\* Mutated forms used to test the properties stand before what they mutate.
ClickRowFromOne(i) ==
  /\ ~needs
  /\ selected' = i + 1
  /\ clicked' = Row(i)
  /\ moved' = FALSE
  /\ deleting' = FALSE /\ resetting' = FALSE
  /\ NoWrite
  /\ UNCHANGED <<disk, list, needs, dialog, outside>>

\* A click on a row selects it and loads its config, whether that succeeds or
\* not.
ClickRow(i) ==
  /\ ~needs
  /\ selected' = i
  /\ clicked' = Row(i)
  /\ moved' = FALSE
  /\ deleting' = FALSE /\ resetting' = FALSE
  /\ NoWrite
  /\ UNCHANGED <<disk, list, needs, dialog, outside>>

\* After three seconds a pending question is dropped.
ConfirmEnds ==
  /\ deleting \/ resetting
  /\ deleting' = FALSE /\ resetting' = FALSE
  /\ UNCHANGED <<disk, list, selected, needs, dialog, selection, written, lost, outside>>

-----------------------------------------------------------------------------
\* The first level shows the buttons, the second the dialog instead of them.
OpenDialog ==
  /\ ~needs /\ ~creating
  /\ creating' = TRUE /\ wrong' = FALSE
  /\ NoWrite
  /\ UNCHANGED <<disk, list, selected, needs, confirms, selection, outside>>

CloseDialog ==
  /\ ~needs /\ creating
  /\ creating' = FALSE /\ wrong' = FALSE
  /\ NoWrite
  /\ UNCHANGED <<disk, list, selected, needs, confirms, selection, outside>>

\* registry::save, which may fail before it has made the file.
Saves(name) == disk' \in {disk, disk \cup {PathOf[name]}}

Overwritten(name) == IF PathOf[name] \in disk /\ ~outside THEN PathOf[name] ELSE None

CreateUnchecked(name) ==
  /\ ~needs /\ creating
  /\ Saves(name)
  /\ needs' = TRUE
  /\ creating' = FALSE /\ wrong' = FALSE
  /\ written' = None /\ lost' = Overwritten(name)
  /\ UNCHANGED <<list, selected, confirms, selection, outside>>

\* A name that the list holds is refused; any other is saved under.
Create(name) ==
  /\ ~needs /\ creating
  /\ ~Contains(list, name)
  /\ Saves(name)
  /\ needs' = TRUE
  /\ creating' = FALSE /\ wrong' = FALSE
  /\ written' = None /\ lost' = Overwritten(name)
  /\ UNCHANGED <<list, selected, confirms, selection, outside>>

Refuse(name) ==
  /\ ~needs /\ creating
  /\ Contains(list, name)
  /\ wrong' = TRUE
  /\ NoWrite
  /\ UNCHANGED <<disk, list, selected, needs, creating, confirms, selection, outside>>

\* The save button writes over the config of the selected row.
Save ==
  /\ ~needs /\ ~creating
  /\ HasSelection
  /\ Saves(Row(selected))
  /\ written' = PathOf[Row(selected)]
  /\ needs' = TRUE
  /\ lost' = None
  /\ UNCHANGED <<list, selected, dialog, confirms, selection, outside>>

\* An imported config is saved under the name it carries.
Import(name) ==
  /\ ~needs /\ ~creating
  /\ Saves(name)
  /\ needs' = TRUE
  /\ NoWrite
  /\ UNCHANGED <<list, selected, dialog, confirms, selection, outside>>

-----------------------------------------------------------------------------
\* Reset and delete ask first, and asking one question drops the other.
AskReset ==
  /\ ~needs /\ ~creating /\ ~resetting
  /\ resetting' = TRUE /\ deleting' = FALSE
  /\ NoWrite
  /\ UNCHANGED <<disk, list, selected, needs, dialog, selection, outside>>

ConfirmReset ==
  /\ ~needs /\ ~creating /\ resetting
  /\ resetting' = FALSE
  /\ NoWrite
  /\ UNCHANGED <<disk, list, selected, needs, dialog, deleting, selection, outside>>

AskDelete ==
  /\ ~needs /\ ~creating /\ ~deleting
  /\ HasSelection
  /\ deleting' = TRUE /\ resetting' = FALSE
  /\ NoWrite
  /\ UNCHANGED <<disk, list, selected, needs, dialog, selection, outside>>

\* Deleting may fail, and drops the selection all the same.
ConfirmDelete ==
  /\ ~needs /\ ~creating /\ deleting
  /\ HasSelection
  /\ disk' \in {disk, disk \ {PathOf[Row(selected)]}}
  /\ selected' = -1
  /\ needs' = TRUE
  /\ deleting' = FALSE
  /\ clicked' = None
  /\ moved' = FALSE
  /\ NoWrite
  /\ UNCHANGED <<list, dialog, resetting, outside>>

\* Another process of the game, or its user, adds or removes a file.
Outside(f) ==
  /\ disk' \in {disk \cup {f}, disk \ {f}}
  /\ outside' = TRUE
  /\ UNCHANGED <<list, selected, needs, dialog, confirms, selection, written, lost>>

Next ==
  \/ Refresh
  \/ \E f \in Files : Outside(f)
  \/ \E i \in 0 .. Len(list) - 1 : ClickRow(i)
  \/ ConfirmEnds
  \/ OpenDialog \/ CloseDialog
  \/ \E name \in Files \cup Typed : Create(name) \/ Refuse(name) \/ Import(name)
  \/ Save
  \/ AskReset \/ ConfirmReset
  \/ AskDelete \/ ConfirmDelete

Spec == Init /\ [][Next]_vars

-----------------------------------------------------------------------------
TypeOK ==
  /\ disk \subseteq Files
  /\ list \in Seq(Files)
  /\ selected \in -1 .. Len(Sorted) - 1
  /\ \A b \in {needs, creating, wrong, deleting, resetting, moved, outside} : b \in BOOLEAN
  /\ {clicked, written, lost} \subseteq Files \cup {None}

\* A new config never writes over one that the page could have known of: a name
\* that exists is refused with an error.
CreateOverwritesNone == lost = None

\* The save button writes over the config whose row was clicked last, however
\* many buttons were pressed since, as long as the list has not changed: the
\* selection is a row number, and another list has another config in the row.
SaveHitsSelected == written \in {clicked, None} \/ moved
=============================================================================
