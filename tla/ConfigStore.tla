----------------------------- MODULE ConfigStore -----------------------------
(***************************************************************************)
(* What a config keeps of the settings: the whole of them in a file, which *)
(* is cut to nothing before it is written, and the difference from a       *)
(* baseline in a shared code.  The baseline of version 2 is the blank      *)
(* profile the program starts with, that of version 1 the factory's values.*)
(* What comes in may hold a field in another form than this version writes *)
(* it in: such a field is read as far as it goes, and nobody is told.      *)
(***************************************************************************)
EXTENDS Naturals

CONSTANTS
  Fields,   \* the registered fields
  KindOf,   \* of each: "setting", or a field_type that a blank profile sets to 0
            \* ("byte") or leaves alone ("number"), or the map of skins ("map")
  Wide,     \* the fields that consist of several parts
  Keys,     \* virtual keys, without 0
  Modes,    \* bind modes, with "toggle"
  Numbers,  \* values of the fields that are no settings
  Factory,  \* the values the program is built with
  Known,    \* the fields that older versions knew
  Retired,  \* fields of other versions that this one does not register
  Authors,  \* the profiles of those whose files and codes come in
  Odd,      \* JSON of a type that a part cannot be read from
  Absent,   \* a member that a JSON object does not have
  Foreign   \* objects with fields in forms that this version does not write

ValuesOf(f) ==
  IF KindOf[f] = "setting"
  THEN [value : BOOLEAN, active : BOOLEAN, key : Keys \cup {0}, mode : Modes]
  ELSE [n : Numbers, m : IF f \in Wide THEN Numbers ELSE {0}]
Profiles == {p \in [Fields -> UNION {ValuesOf(f) : f \in Fields}] :
               \A f \in Fields : p[f] \in ValuesOf(f)}

\* Assumed of the constants where the module is used.
FieldsAssumption ==
  /\ KindOf \in [Fields -> {"setting", "byte", "number", "map"}]
  /\ Keys \subseteq Nat \ {0} /\ Numbers \subseteq Nat /\ 0 \in Numbers
  /\ "toggle" \in Modes
  /\ Known \subseteq Fields /\ Retired \cap Fields = {}
FactoryAssumption == Factory \in Profiles /\ Authors \subseteq Profiles

\* The JSON that a field may come in.  A bind that is no object, or whose key is
\* of another type, has an odd k; without a bind k is absent.  A field that is no
\* object has neither v nor a bind, and a key or a mode that a bind does not have
\* is read as 0, the toggle.  Of a pair the parts are read in order; an array that
\* is too short is odd where it ends, and a colour from its start.
FormsOf(f) ==
  IF KindOf[f] = "setting"
  THEN [v : BOOLEAN \cup {Odd, Absent}, k : Keys \cup {0, Odd, Absent}, m : Modes \cup {Odd}]
  ELSE [n : Numbers \cup {Odd}, m : (IF f \in Wide THEN Numbers ELSE {0}) \cup {Odd}]
FormsAssumption ==
  /\ {Odd, Absent} \cap Numbers = {} /\ {Odd, Absent} \cap BOOLEAN = {}
  /\ {Odd, Absent} \cap (Keys \cup {0}) = {} /\ {Odd, Absent} \cap Modes = {}
  /\ \A object \in Foreign :
       DOMAIN object \subseteq Fields /\ \A f \in DOMAIN object : object[f] \in FormsOf(f)

VARIABLES
  current,  \* the live values
  file,     \* the config file: what state it is in and the fields it holds
  source,   \* history: what the writer of the file meant to keep
  saving,   \* a save has cut the file and not written it yet
  code      \* the shared code on the clipboard, and what its author had

vars == <<current, file, source, saving, code>>

-----------------------------------------------------------------------------
\* bind_to_json and field_to_json: a bind without a key is null, which is read as
\* a toggle without a key, and nothing says whether a bind is active.
ToJson(f, v) ==
  IF KindOf[f] = "setting"
  THEN [v |-> v.value, k |-> v.key, m |-> IF v.key = 0 THEN "toggle" ELSE v.mode]
  ELSE v

Json(profile, some) == [f \in some |-> ToJson(f, profile[f])]

\* The get or the value of a setting's member that throws.
Throws(j) == j.v = Odd \/ j.k = Odd \/ (j.k # Absent /\ j.m = Odd)

\* Mutated forms used to test the properties stand before what they mutate.
ActivityKept(j, k, m, value, old) == old.active

\* A toggle with a key becomes as active as its value, unless the code threw on
\* the way there.
Activity(j, k, m, value, old) ==
  IF ~Throws(j) /\ k # 0 /\ m = "toggle" THEN value ELSE old.active

\* json_to_bind and the setting's case of json_to_field: the value, the key, the
\* mode and the activity are set in this order, until one of them throws.
SettingFrom(j, old) ==
  LET value == IF j.v \in {Odd, Absent} THEN old.value ELSE j.v
      bound == j.v # Odd /\ j.k \notin {Odd, Absent}
      k == IF bound THEN j.k ELSE old.key
      m == IF bound /\ j.m # Odd THEN j.m ELSE old.mode
  IN  [value |-> value, key |-> k, mode |-> m, active |-> Activity(j, k, m, value, old)]

\* What the parts of a field are that are not read: as they were, but the map of
\* skins is cleared first.
Unread(f, old) == IF KindOf[f] = "map" THEN [n |-> 0, m |-> 0] ELSE old

\* json_to_field, which swallows what is thrown.
FromJson(f, j, old) ==
  IF KindOf[f] = "setting" THEN SettingFrom(j, old)
  ELSE [n |-> IF j.n = Odd THEN Unread(f, old).n ELSE j.n,
        m |-> IF j.n = Odd \/ j.m = Odd THEN Unread(f, old).m ELSE j.m]

AppliedUntilThrown(object, profile) ==
  [f \in Fields |->
     IF f \in DOMAIN object
        /\ (KindOf[f] = "setting"
            \/ ~\E g \in Fields \cap DOMAIN object : KindOf[g] = "setting" /\ Throws(object[g]))
     THEN FromJson(f, object[f], profile[f]) ELSE profile[f]]

\* from_json: the fields of an object that are registered are applied, however
\* far, and the others keep what they have.
Applied(object, profile) ==
  [f \in Fields |-> IF f \in DOMAIN object THEN FromJson(f, object[f], profile[f]) ELSE profile[f]]

\* apply_blank_profile leaves the numbers and colours alone.
Blank(profile) ==
  [f \in Fields |->
     CASE KindOf[f] = "setting" -> [value |-> FALSE, active |-> FALSE, key |-> 0, mode |-> "toggle"]
       [] KindOf[f] \in {"byte", "map"} -> [n |-> 0, m |-> 0]
       [] KindOf[f] = "number" -> profile[f]]

\* initialize takes factory_defaults before it blanks the profile, and defaults
\* after.
Baseline(version) == IF version < 2 THEN Json(Factory, Fields) ELSE Json(Blank(Factory), Fields)

\* to_json_delta drops what equals the baseline.
Delta(profile, version) ==
  LET all == Json(profile, Fields)
  IN  [f \in {g \in Fields : all[g] # Baseline(version)[g]} |-> all[f]]

FromDeltaOneBaseline(object, version, profile) ==
  Applied(object, Applied(Baseline(2), profile))

\* from_json_delta sets every field to the baseline of the code's version and then
\* applies the code's own.
FromDelta(object, version, profile) == Applied(object, Applied(Baseline(version), profile))

NoCode == [delta |-> FALSE, version |-> 0, fields |-> <<>>, of |-> <<>>]

\* An object with some of its fields in another form.
Over(object, odd) ==
  [f \in DOMAIN object \cup DOMAIN odd |-> IF f \in DOMAIN odd THEN odd[f] ELSE object[f]]

\* A whole config as another version writes it, which knew fewer fields and had
\* some that this one has not.
Whole(profile) ==
  [f \in Known \cup Retired |->
     IF f \in Known THEN ToJson(f, profile[f]) ELSE [n |-> 0, m |-> 0]]

Init ==
  /\ current = Blank(Factory)
  /\ file = [state |-> "missing", fields |-> <<>>]
  /\ source = <<>>
  /\ saving = FALSE
  /\ code = NoCode

-----------------------------------------------------------------------------
\* The menu and the binds change the live values.
Edit(f, v) ==
  /\ ~saving
  /\ current' = [current EXCEPT ![f] = v]
  /\ UNCHANGED <<file, source, saving, code>>

\* save: the file is created anew, which empties one that is there.
SaveCuts ==
  /\ ~saving
  /\ saving' = TRUE
  /\ file' = [state |-> "empty", fields |-> <<>>]
  /\ source' = Json(current, Fields)
  /\ UNCHANGED <<current, code>>

\* A write that fails or comes up short makes it return FALSE, and leaves what
\* was written.
SaveWrites ==
  /\ saving
  /\ saving' = FALSE
  /\ file' \in {[state |-> "whole", fields |-> source], [state |-> "torn", fields |-> <<>>]}
  /\ UNCHANGED <<current, source, code>>

\* The game ends at any point; the next one starts with the blank profile.
Restart ==
  /\ saving' = FALSE
  /\ current' = Blank(Factory)
  /\ UNCHANGED <<file, source, code>>

\* A file of an older version, or one that the user brought, is in place.
Bring(profile, odd) ==
  /\ ~saving
  /\ file' = [state |-> "whole", fields |-> Over(Whole(profile), odd)]
  /\ source' = Json(profile, Known \ DOMAIN odd)
  /\ UNCHANGED <<current, saving, code>>

\* load: a file that is missing, empty or torn does not inflate and parse, and
\* is refused before anything is applied.
Load ==
  /\ ~saving
  /\ current' = IF file.state = "whole" THEN Applied(file.fields, current) ELSE current
  /\ UNCHANGED <<file, source, saving, code>>

\* reset_defaults of the menu.
Reset ==
  /\ ~saving
  /\ current' = Applied(Baseline(2), current)
  /\ UNCHANGED <<file, source, saving, code>>

-----------------------------------------------------------------------------
\* The code of this program, one that somebody else made with either version, or
\* a code that carries a whole config instead of a difference.
Export ==
  /\ ~saving
  /\ code' = [delta |-> TRUE, version |-> 2, fields |-> Delta(current, 2),
              of |-> Json(current, Fields)]
  /\ UNCHANGED <<current, file, source, saving>>

Receive(profile, version, odd) ==
  /\ ~saving
  /\ code' = [delta |-> TRUE, version |-> version, fields |-> Over(Delta(profile, version), odd),
              of |-> Json(profile, Fields \ DOMAIN odd)]
  /\ UNCHANGED <<current, file, source, saving>>

ReceiveWhole(profile, odd) ==
  /\ ~saving
  /\ code' = [delta |-> FALSE, version |-> 2, fields |-> Over(Whole(profile), odd),
              of |-> Json(profile, Known \ DOMAIN odd)]
  /\ UNCHANGED <<current, file, source, saving>>

\* import_payload: a code without a difference goes to from_json, like a file.
Import ==
  /\ ~saving
  /\ code # NoCode
  /\ current' = IF code.delta THEN FromDelta(code.fields, code.version, current)
                ELSE Applied(code.fields, current)
  /\ UNCHANGED <<file, source, saving, code>>

Next ==
  \/ \E f \in Fields : \E v \in ValuesOf(f) : Edit(f, v)
  \/ SaveCuts
  \/ SaveWrites
  \/ Restart
  \/ \E profile \in Authors, odd \in Foreign :
       \/ Bring(profile, odd)
       \/ \E version \in {1, 2} : Receive(profile, version, odd)
       \/ ReceiveWhole(profile, odd)
  \/ Load
  \/ Reset
  \/ Export
  \/ Import

Spec == Init /\ [][Next]_vars

-----------------------------------------------------------------------------
TypeOK ==
  /\ current \in Profiles
  /\ file.state \in {"missing", "empty", "torn", "whole"}
  /\ DOMAIN file.fields \subseteq Fields \cup Retired
  /\ saving \in BOOLEAN
  /\ code.delta \in BOOLEAN /\ code.version \in 0 .. 2

\* A part of w is that of old, or what JSON j has for it.
Between(f, w, old, j) ==
  IF KindOf[f] = "setting"
  THEN w.value \in {old.value, j.v} /\ w.key \in {old.key, j.k} /\ w.mode \in {old.mode, j.m}
  ELSE w.n \in {Unread(f, old).n, j.n} /\ w.m \in {Unread(f, old).m, j.m}

\* The profile new follows from old by an object whose author meant to keep meant:
\* whatever is wrong with other fields, a field in the form of this version is as
\* its author had it, one in another form takes a part or leaves it, and one that
\* the object does not have stays.
Follows(new, object, meant, old) ==
  \A f \in Fields :
    IF f \in DOMAIN meant THEN ToJson(f, new[f]) = meant[f]
    ELSE IF f \in DOMAIN object THEN Between(f, new[f], old[f], object[f])
    ELSE new[f] = old[f]

\* An import of a difference gives what the author of the code had, whichever
\* version made it; even a field that came in another form holds nothing of the
\* profile that was set before, but whether its bind is active.  A code with a whole
\* config leaves the fields it does not have.
ImportRestores ==
  [][Import => Follows(current', code.fields, code.of,
                       IF code.delta THEN Applied(Baseline(code.version), Blank(Factory))
                       ELSE current)]_vars

\* A file that does not parse changes nothing.  A load of any other gives every
\* field that it has in the form of this version as it was when the file was
\* written, and leaves the fields it does not have; no field in another form
\* keeps the others from being loaded.
LoadKeepsToFile ==
  [][Load => IF file.state = "whole" THEN Follows(current', file.fields, source, current)
             ELSE current' = current]_vars

\* The object sets field f without an exception.
Sets(object, f) == f \in DOMAIN object /\ ~Throws(object[f])

\* After a load, an import or a reset the first press of a key is not lost: a
\* toggle with a key that the config set is as active as it is on, unless what
\* came threw in the middle of the setting.
ToggleInStep ==
  [][\A f \in Fields :
       /\ KindOf[f] = "setting" /\ current'[f].key # 0 /\ current'[f].mode = "toggle"
       /\ \/ Reset
          \/ Load /\ Sets(file.fields, f)
          \/ Import /\ (Sets(code.fields, f) \/ (code.delta /\ f \notin DOMAIN code.fields))
       => current'[f].active = current'[f].value]_vars
=============================================================================
