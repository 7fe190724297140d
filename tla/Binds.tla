-------------------------------- MODULE Binds --------------------------------
(***************************************************************************)
(* xui::binds: the settings that a key switches, the keyboard state that   *)
(* window messages keep between two frames, and the menu, which assigns    *)
(* keys, changes modes and clicks check boxes.  Two settings exclude each  *)
(* other, the antiaim directions of settings::finalize_binds.              *)
(***************************************************************************)
EXTENDS Integers, Sequences, SequencesExt

CONSTANTS
  Order,   \* the registered settings, in the order of registration
  Left,    \* the setting that gives way to none when a config has both on
  Right,   \* the setting that excludes Left and is excluded by it
  Keys,    \* virtual keys, without 0
  Saved    \* what configs hold: functions from settings to their entries

Settings == Range(Order)
Modes == {"toggle", "hold_on", "hold_off"}

\* Assumed of the constants where the module is used.
OrderAssumption ==
  /\ Order \in Seq(Settings) /\ IsInjective(Order)
  /\ {Left, Right} \subseteq Settings /\ Left # Right
KeysAssumption == Keys \subseteq Nat \ {0}
SavedAssumption ==
  \A file \in Saved : \E S \in SUBSET Settings :
    file \in [S -> [value : BOOLEAN, key : Keys \cup {0}, mode : Modes]]

VARIABLES
  value,     \* setting::value, what the features read
  active,    \* bind_info::active
  key,       \* bind_info::key, 0 without a key
  mode,      \* bind_info::mode
  prev,      \* prev_key_state
  down,      \* keys of the input state
  pressed,   \* key_presses of the frame
  answered   \* history: which setting has toggled on which key while it is down

vars == <<value, active, key, mode, prev, down, pressed, answered>>

\* A setting of the factory keeps its default value; the blank profile, which
\* the program starts with, clears every value and every key.
Init ==
  /\ value = [s \in Settings |-> FALSE]
  /\ active = [s \in Settings |-> FALSE]
  /\ key = [s \in Settings |-> 0]
  /\ mode = [s \in Settings |-> "toggle"]
  /\ prev = [k \in Keys |-> FALSE]
  /\ down = [k \in Keys |-> FALSE]
  /\ pressed = {}
  /\ answered = {}

Pair == {Left, Right}
Other(s) == IF s = Left THEN Right ELSE Left

-----------------------------------------------------------------------------
\* feed_wndproc: a key that is down already repeats, which is no press.
KeyDown(k) ==
  /\ ~down[k]
  /\ down' = [down EXCEPT ![k] = TRUE]
  /\ pressed' = pressed \cup {k}
  /\ UNCHANGED <<value, active, key, mode, prev, answered>>

KeyUp(k) ==
  /\ down[k]
  /\ down' = [down EXCEPT ![k] = FALSE]
  /\ answered' = {a \in answered : a[2] # k}
  /\ UNCHANGED <<value, active, key, mode, prev, pressed>>

-----------------------------------------------------------------------------
\* Values and activity are changed together, as pairs.
On == [value |-> TRUE, active |-> TRUE]
Off == [value |-> FALSE, active |-> FALSE]
Switch(b) == IF b THEN On ELSE Off

JustPressed(s) == down[key[s]] /\ ~prev[key[s]]
Presses(s) == key[s] # 0 /\ mode[s] = "toggle" /\ JustPressed(s)

\* Mutated forms used to test the properties stand before what they mutate.
ToggleNoExclusion(now, s) == [now EXCEPT ![s] = Switch(~now[s].active)]

\* A press of the key of a toggle setting flips it, and switches the setting it
\* excludes off.
Toggle(now, s) ==
  LET alone == IF s \in Pair /\ now[Other(s)].value
               THEN [now EXCEPT ![Other(s)] = Off]
               ELSE now
  IN  [alone EXCEPT ![s] = Switch(~now[s].active)]

\* A setting that is held on is on while its key is down.
HoldOn(now, s) ==
  LET held == down[key[s]]
      alone == IF s \in Pair /\ held THEN [now EXCEPT ![Other(s)] = Off] ELSE now
  IN  [alone EXCEPT ![s] = Switch(held)]

HoldOff(now, s) == [now EXCEPT ![s] = Switch(~down[key[s]])]

\* One setting in the first loop of process, which passes over those without a
\* key.
ProcessOne(now, s) ==
  IF key[s] = 0 THEN now
  ELSE CASE mode[s] = "toggle" -> IF JustPressed(s) THEN Toggle(now, s) ELSE now
         [] mode[s] = "hold_on" -> HoldOn(now, s)
         [] mode[s] = "hold_off" -> HoldOff(now, s)

Live == [s \in Settings |-> [value |-> value[s], active |-> active[s]]]

\* After the first n settings.
Processed[n \in 0 .. Len(Order)] ==
  IF n = 0 THEN Live ELSE ProcessOne(Processed[n - 1], Order[n])

\* The second loop: of an excluding pair that is on, the one registered first
\* stays.
Enforce(now) ==
  LET first == SelectSeq(Order, LAMBDA s : s \in Pair)[1]
  IN  IF now[Left].value /\ now[Right].value
      THEN [now EXCEPT ![Other(first)] = Off]
      ELSE now

RememberNothing == prev

\* The third loop: the state of the keys in use is kept for the next frame.
Remember ==
  [k \in Keys |-> IF \E s \in Settings : key[s] = k THEN down[k] ELSE prev[k]]

\* begin processes the binds before the frame draws the menu.
Process ==
  LET now == Enforce(Processed[Len(Order)])
  IN  /\ value' = [s \in Settings |-> now[s].value]
      /\ active' = [s \in Settings |-> now[s].active]
      /\ prev' = Remember
      /\ answered' = answered \cup {<<s, key[s]>> : s \in {t \in Settings : Presses(t)}}
      /\ UNCHANGED <<key, mode, down, pressed>>

\* end clears what was pressed in the frame.
EndFrame ==
  /\ pressed # {}
  /\ pressed' = {}
  /\ UNCHANGED <<value, active, key, mode, prev, down, answered>>

-----------------------------------------------------------------------------
ClickNoExclusion(s) ==
  /\ value' = [value EXCEPT ![s] = ~@]
  /\ active' = [active EXCEPT ![s] = ~value[s]]
  /\ UNCHANGED <<key, mode, prev, down, pressed, answered>>

\* A click on the check box.
Click(s) ==
  LET on == ~value[s]
      off == IF on /\ s \in Pair THEN {Other(s)} ELSE {}
  IN  /\ value' = [t \in Settings |-> IF t = s THEN on ELSE t \notin off /\ value[t]]
      /\ active' = [t \in Settings |-> IF t = s THEN on ELSE t \notin off /\ active[t]]
      /\ UNCHANGED <<key, mode, prev, down, pressed, answered>>

\* The listening badge or popup takes the first key that the frame saw.
AssignKey(s, k) ==
  /\ k \in pressed
  /\ key' = [key EXCEPT ![s] = k]
  /\ UNCHANGED <<value, active, mode, prev, down, pressed, answered>>

\* Escape clears the key; the popup's third item clears the mode too.
ClearKey(s) ==
  /\ key' = [key EXCEPT ![s] = 0]
  /\ active' = [active EXCEPT ![s] = FALSE]
  /\ \/ UNCHANGED mode
     \/ mode' = [mode EXCEPT ![s] = "toggle"]
  /\ UNCHANGED <<value, prev, down, pressed, answered>>

\* The popup's second item.
NextMode(s) ==
  /\ mode' = [mode EXCEPT ![s] =
       CASE @ = "toggle" -> "hold_on" [] @ = "hold_on" -> "hold_off" [] @ = "hold_off" -> "toggle"]
  /\ UNCHANGED <<value, active, key, prev, down, pressed, answered>>

-----------------------------------------------------------------------------
\* finalize_binds follows every load, import and reset.
Finalize(loaded) ==
  IF loaded[Left].value /\ loaded[Right].value
  THEN [loaded EXCEPT ![Right] = Off]
  ELSE loaded

\* from_json of a config: a setting without an entry is left alone, one without
\* a key loses its mode, and activity follows the value of a toggle with a key.
Load(file) ==
  LET Has(s) == s \in DOMAIN file
      k == [s \in Settings |-> IF Has(s) THEN file[s].key ELSE key[s]]
      m == [s \in Settings |-> IF ~Has(s) THEN mode[s]
                               ELSE IF file[s].key = 0 THEN "toggle" ELSE file[s].mode]
      now == Finalize([s \in Settings |->
               [value |-> IF Has(s) THEN file[s].value ELSE value[s],
                active |-> IF Has(s) /\ k[s] # 0 /\ m[s] = "toggle"
                           THEN file[s].value ELSE active[s]]])
  IN  /\ key' = k
      /\ mode' = m
      /\ value' = [s \in Settings |-> now[s].value]
      /\ active' = [s \in Settings |-> now[s].active]
      /\ UNCHANGED <<prev, down, pressed, answered>>

Next ==
  \/ \E k \in Keys : KeyDown(k) \/ KeyUp(k)
  \/ Process
  \/ EndFrame
  \/ \E s \in Settings : Click(s) \/ ClearKey(s) \/ NextMode(s)
  \/ \E s \in Settings, k \in Keys : AssignKey(s, k)
  \/ \E file \in Saved : Load(file)

Spec == Init /\ [][Next]_vars

-----------------------------------------------------------------------------
TypeOK ==
  /\ value \in [Settings -> BOOLEAN] /\ active \in [Settings -> BOOLEAN]
  /\ key \in [Settings -> Keys \cup {0}] /\ mode \in [Settings -> Modes]
  /\ prev \in [Keys -> BOOLEAN] /\ down \in [Keys -> BOOLEAN]
  /\ pressed \subseteq Keys
  /\ answered \subseteq Settings \X Keys

\* The two directions are never on together, whatever keys, clicks and configs
\* set them.
Exclusive == ~(value[Left] /\ value[Right])

\* A setting toggles at most once while its key stays down, however often it
\* was given the key, another key or none in the meantime.
TogglesOncePerHold ==
  \A s \in Settings : Presses(s) => <<s, key[s]>> \notin answered

\* Of the two directions the one whose key was pressed last wins: a press that
\* switches one on is not undone by the other, which is on but not pressed.
LastPressWins ==
  [][Process => \A s \in Pair :
       /\ Presses(s) /\ ~active[s]
       /\ key[Other(s)] = 0 \/ mode[Other(s)] = "toggle"
       /\ ~Presses(Other(s))
       => value'[s] /\ ~value'[Other(s)]]_vars
=============================================================================
