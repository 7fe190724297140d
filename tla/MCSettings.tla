----------------------------- MODULE MCSettings -----------------------------
EXTENDS Settings, TLC

CONSTANTS l, r, glow, range, skins, gone

\* Binds: two settings that exclude each other.
TwoSettings == <<l, r>>

Entry(v, k, m) == [value |-> v, key |-> k, mode |-> m]

\* A config with both directions on, one without keys that switches all off,
\* and one of an older version that knows a single setting.
SavedPair ==
  {(l :> Entry(TRUE, 1, "toggle")) @@ (r :> Entry(TRUE, 2, "hold_off")),
   (l :> Entry(FALSE, 0, "hold_on")) @@ (r :> Entry(FALSE, 0, "toggle")),
   (r :> Entry(TRUE, 1, "toggle"))}

\* Store: a setting, a number of two parts, which a blank profile leaves alone,
\* and the map of skins, which it blanks as it does a byte.
Kinds == (glow :> "setting") @@ (range :> "number") @@ (skins :> "map")

Profile(v, k, m, n, n2, s) ==
  (glow :> [value |-> v, active |-> FALSE, key |-> k, mode |-> m])
  @@ (range :> [n |-> n, m |-> n2]) @@ (skins :> [n |-> s, m |-> 0])

\* The factory has everything on: the setting with a key it is held on by, and
\* parts that are not zero.
Built == Profile(TRUE, 1, "hold_on", 1, 1, 1)

\* One who kept the factory's values, one who changed all of them, and one who
\* took the key away and kept the mode.
Others ==
  {Built, Profile(FALSE, 1, "toggle", 0, 0, 0), Profile(TRUE, 0, "hold_on", 0, 1, 1)}

\* What this version writes; a value with a bind that is no object; a bind alone,
\* with a key and no mode that can be read; half a range with skins that are no
\* map; and a value and a range of another type.
Strange ==
  {<<>>,
   glow :> [v |-> TRUE, k |-> Odd, m |-> "toggle"],
   glow :> [v |-> Absent, k |-> 1, m |-> Odd],
   (range :> [n |-> 0, m |-> Odd]) @@ (skins :> [n |-> Odd, m |-> 0]),
   (glow :> [v |-> Odd, k |-> 0, m |-> "toggle"]) @@ (range :> [n |-> Odd, m |-> 0])}

\* Page: names that are file names.
AllFiles == {"a_b", "legit", "rage"}
InOrder == <<"a_b", "legit", "rage">>
CleanNames == {}
CleanPath == [f \in AllFiles |-> f]
=============================================================================
