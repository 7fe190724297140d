---------------------------- MODULE SettingsProofs ----------------------------
(***************************************************************************)
(* The settings for any fields, profiles, keys and files.                  *)
(***************************************************************************)
EXTENDS Settings, Sequences, TLAPS

-----------------------------------------------------------------------------
(***************************************************************************)
(* The store: what goes into a file or a code comes out of it.             *)
(***************************************************************************)

JsonOf(f) == {Store!ToJson(f, v) : v \in Store!ValuesOf(f)}

LEMMA Assumed ==
  /\ KindOf \in [Fields -> {"setting", "byte", "number", "map"}]
  /\ Keys \subseteq Nat \ {0} /\ Numbers \subseteq Nat /\ 0 \in Numbers
  /\ "toggle" \in StoreModes
  /\ Known \subseteq Fields /\ Retired \cap Fields = {}
  /\ Factory \in Store!Profiles /\ Authors \subseteq Store!Profiles
BY StoreAssumption DEF Store!FieldsAssumption, Store!FactoryAssumption

LEMMA FormsAssumed ==
  /\ {Odd, Absent} \cap Numbers = {} /\ {Odd, Absent} \cap BOOLEAN = {}
  /\ {Odd, Absent} \cap (Keys \cup {0}) = {} /\ {Odd, Absent} \cap StoreModes = {}
  /\ \A object \in Foreign :
       DOMAIN object \subseteq Fields /\ \A f \in DOMAIN object : object[f] \in Store!FormsOf(f)
BY StoreAssumption DEF Store!FormsAssumption

\* A profile is a function that gives every field a value of its kind.
LEMMA IsProfile ==
  ASSUME NEW p
  PROVE  p \in Store!Profiles <=>
           p = [f \in Fields |-> p[f]] /\ \A f \in Fields : p[f] \in Store!ValuesOf(f)
<1> HIDE DEF Store!ValuesOf
<1>1. p \in Store!Profiles <=>
        /\ p \in [Fields -> UNION {Store!ValuesOf(f) : f \in Fields}]
        /\ \A f \in Fields : p[f] \in Store!ValuesOf(f)
  BY DEF Store!Profiles
<1> QED
  BY <1>1

SettingValues == [value : BOOLEAN, active : BOOLEAN, key : Keys \cup {0}, mode : StoreModes]
SettingForms ==
  [v : BOOLEAN \cup {Odd, Absent}, k : Keys \cup {0, Odd, Absent}, m : StoreModes \cup {Odd}]
Seconds(f) == IF f \in Wide THEN Numbers ELSE {0}
PairValues(f) == [n : Numbers, m : Seconds(f)]
PairForms(f) == [n : Numbers \cup {Odd}, m : Seconds(f) \cup {Odd}]

LEMMA Shapes ==
  ASSUME NEW f \in Fields
  PROVE  /\ KindOf[f] = "setting" =>
              Store!ValuesOf(f) = SettingValues /\ Store!FormsOf(f) = SettingForms
         /\ KindOf[f] # "setting" =>
              Store!ValuesOf(f) = PairValues(f) /\ Store!FormsOf(f) = PairForms(f)
         /\ Seconds(f) \subseteq Numbers /\ 0 \in Seconds(f) /\ 0 \in Numbers
         /\ Odd \notin Numbers /\ Odd \notin Seconds(f)
BY Assumed, FormsAssumed
   DEF Store!ValuesOf, Store!FormsOf, SettingValues, SettingForms, PairValues, PairForms, Seconds

InStep(f, w) ==
  KindOf[f] = "setting" /\ w.key # 0 /\ w.mode = "toggle" => w.active = w.value

\* Whatever form a field comes in, it is read as a value of its kind, of which
\* every part is as it was or as it came; and a toggle with a key is as active as
\* it is on, unless reading it threw.
LEMMA FormRead ==
  ASSUME NEW f \in Fields, NEW j \in Store!FormsOf(f), NEW old \in Store!ValuesOf(f),
         NEW w, w = Store!FromJson(f, j, old)
  PROVE  /\ w \in Store!ValuesOf(f)
         /\ Store!Between(f, w, old, j)
         /\ ~Store!Throws(j) => InStep(f, w)
<1>1. CASE KindOf[f] = "setting"
  <2>1. j \in SettingForms /\ old \in SettingValues
    BY <1>1, Shapes
  <2>2. w = Store!SettingFrom(j, old)
    BY <1>1 DEF Store!FromJson
  <2> DEFINE x == IF j.v \in {Odd, Absent} THEN old.value ELSE j.v
             bound == j.v # Odd /\ j.k \notin {Odd, Absent}
             k == IF bound THEN j.k ELSE old.key
             m == IF bound /\ j.m # Odd THEN j.m ELSE old.mode
             a == IF ~Store!Throws(j) /\ k # 0 /\ m = "toggle" THEN x ELSE old.active
  <2>3. w = [value |-> x, key |-> k, mode |-> m, active |-> a]
    BY <2>2 DEF Store!SettingFrom, Store!Activity
  <2>4. x \in BOOLEAN /\ x \in {old.value, j.v}
    BY <2>1 DEF SettingForms, SettingValues
  <2>5. k \in Keys \cup {0} /\ k \in {old.key, j.k}
    BY <2>1 DEF SettingForms, SettingValues
  <2>6. m \in StoreModes /\ m \in {old.mode, j.m}
    BY <2>1 DEF SettingForms, SettingValues
  <2>7. a \in BOOLEAN /\ (~Store!Throws(j) /\ k # 0 /\ m = "toggle" => a = x)
    <3> HIDE DEF x, k, m
    <3> QED
      BY <2>1, <2>4 DEF SettingValues
  <2> HIDE DEF x, bound, k, m, a
  <2>8. w \in SettingValues
    BY <2>3, <2>4, <2>5, <2>6, <2>7 DEF SettingValues
  <2>9. Store!Between(f, w, old, j)
    BY <1>1, <2>3, <2>4, <2>5, <2>6 DEF Store!Between
  <2>10. ~Store!Throws(j) => InStep(f, w)
    BY <2>3, <2>7 DEF InStep
  <2> QED
    BY <1>1, <2>8, <2>9, <2>10, Shapes
<1>2. CASE KindOf[f] # "setting"
  <2>1. j \in PairForms(f) /\ old \in PairValues(f)
    BY <1>2, Shapes
  <2> DEFINE base == Store!Unread(f, old)
  <2>2. base \in PairValues(f)
    BY <2>1, Shapes DEF Store!Unread, PairValues
  <2>3. w = [n |-> IF j.n = Odd THEN base.n ELSE j.n,
             m |-> IF j.n = Odd \/ j.m = Odd THEN base.m ELSE j.m]
    BY <1>2 DEF Store!FromJson
  <2> HIDE DEF base
  <2>4. w \in PairValues(f)
    BY <2>1, <2>2, <2>3 DEF PairValues, PairForms
  <2>5. w.n \in {base.n, j.n} /\ w.m \in {base.m, j.m}
    BY <2>3
  <2> QED
    BY <1>2, <2>4, <2>5, Shapes DEF base, Store!Between, InStep
<1> QED
  BY <1>1, <1>2

\* What is written of a value is read as a value that would be written so again,
\* and nothing throws; which value it is does not depend on the one before, but
\* for whether a bind is active.
LEMMA RoundTrip ==
  ASSUME NEW f \in Fields, NEW v \in Store!ValuesOf(f), NEW j, j = Store!ToJson(f, v),
         NEW old \in Store!ValuesOf(f), NEW w, w = Store!FromJson(f, j, old)
  PROVE  /\ j \in Store!FormsOf(f)
         /\ Store!ToJson(f, w) = j
         /\ KindOf[f] = "setting" =>
              ~Store!Throws(j) /\ w.value = j.v /\ w.key = j.k /\ w.mode = j.m
         /\ KindOf[f] # "setting" => w = j
<1>1. CASE KindOf[f] = "setting"
  <2>1. v \in SettingValues /\ old \in SettingValues
    BY <1>1, Shapes
  <2>2. j = [v |-> v.value, k |-> v.key, m |-> IF v.key = 0 THEN "toggle" ELSE v.mode]
    BY <1>1 DEF Store!ToJson
  <2>3. /\ j.v \in BOOLEAN /\ j.k \in Keys \cup {0} /\ j.m \in StoreModes
        /\ j.k = 0 => j.m = "toggle"
    BY <2>1, <2>2, Assumed DEF SettingValues
  <2>4. j.v \notin {Odd, Absent} /\ j.k \notin {Odd, Absent} /\ j.m # Odd
    BY <2>3, FormsAssumed
  <2>5. j \in SettingForms
    BY <2>2, <2>3 DEF SettingForms
  <2>6. ~Store!Throws(j)
    BY <2>4 DEF Store!Throws
  <2>7. w = Store!SettingFrom(j, old)
    BY <1>1 DEF Store!FromJson
  <2>8. w.value = j.v /\ w.key = j.k /\ w.mode = j.m
    BY <2>4, <2>7 DEF Store!SettingFrom
  <2>9. Store!ToJson(f, w) = j
    BY <1>1, <2>2, <2>3, <2>8 DEF Store!ToJson
  <2> QED
    BY <1>1, <2>5, <2>6, <2>8, <2>9, Shapes
<1>2. CASE KindOf[f] # "setting"
  <2>1. v \in PairValues(f) /\ j = v
    BY <1>2, Shapes DEF Store!ToJson
  <2>2. j \in PairForms(f) /\ j.n # Odd /\ j.m # Odd
    BY <2>1, Shapes DEF PairValues, PairForms
  <2>3. w = j
    BY <1>2, <2>1, <2>2 DEF Store!FromJson, PairValues
  <2> QED
    BY <1>2, <2>2, <2>3, Shapes DEF Store!ToJson
<1> QED
  BY <1>1, <1>2

\* What an object that came in does to a profile.
LEMMA AppliedProfile ==
  ASSUME NEW p \in Store!Profiles, NEW object,
         \A f \in Fields \cap DOMAIN object : object[f] \in Store!FormsOf(f)
  PROVE  /\ Store!Applied(object, p) \in Store!Profiles
         /\ \A f \in Fields :
              LET w == Store!Applied(object, p)[f]
              IN  IF f \in DOMAIN object
                  THEN /\ w = Store!FromJson(f, object[f], p[f])
                       /\ Store!Between(f, w, p[f], object[f])
                       /\ object[f] \in JsonOf(f) => Store!ToJson(f, w) = object[f]
                       /\ ~Store!Throws(object[f]) => InStep(f, w)
                  ELSE w = p[f]
<1> DEFINE q == Store!Applied(object, p)
<1>1. q = [f \in Fields |-> IF f \in DOMAIN object
                            THEN Store!FromJson(f, object[f], p[f]) ELSE p[f]]
  BY DEF Store!Applied
<1>2. ASSUME NEW f \in Fields
      PROVE  /\ q[f] \in Store!ValuesOf(f)
             /\ IF f \in DOMAIN object
                THEN /\ q[f] = Store!FromJson(f, object[f], p[f])
                     /\ Store!Between(f, q[f], p[f], object[f])
                     /\ object[f] \in JsonOf(f) => Store!ToJson(f, q[f]) = object[f]
                     /\ ~Store!Throws(object[f]) => InStep(f, q[f])
                ELSE q[f] = p[f]
  <2>1. p[f] \in Store!ValuesOf(f)
    BY IsProfile
  <2>2. CASE f \notin DOMAIN object
    BY <1>1, <2>1, <2>2
  <2>3. CASE f \in DOMAIN object
    <3>1. q[f] = Store!FromJson(f, object[f], p[f]) /\ object[f] \in Store!FormsOf(f)
      BY <1>1, <2>3
    <3> HIDE DEF q
    <3>2. ASSUME object[f] \in JsonOf(f) PROVE Store!ToJson(f, q[f]) = object[f]
      <4>1. PICK v \in Store!ValuesOf(f) : object[f] = Store!ToJson(f, v)
        BY <3>2 DEF JsonOf
      <4> QED
        BY <2>1, <3>1, <4>1, RoundTrip
    <3> QED
      BY <2>1, <2>3, <3>1, <3>2, FormRead
  <2> QED
    BY <2>2, <2>3
<1>3. q = [f \in Fields |-> q[f]]
  BY <1>1
<1> HIDE DEF q
<1>4. q \in Store!Profiles
  BY <1>2, <1>3, IsProfile
<1> QED
  BY <1>2, <1>4 DEF q

LEMMA BlankProfile ==
  ASSUME NEW p \in Store!Profiles
  PROVE  Store!Blank(p) \in Store!Profiles
<1> DEFINE q == Store!Blank(p)
<1>1. q = [f \in Fields |->
             CASE KindOf[f] = "setting" -> [value |-> FALSE, active |-> FALSE, key |-> 0, mode |-> "toggle"]
               [] KindOf[f] \in {"byte", "map"} -> [n |-> 0, m |-> 0]
               [] KindOf[f] = "number" -> p[f]]
  BY DEF Store!Blank
<1>2. ASSUME NEW f \in Fields PROVE q[f] \in Store!ValuesOf(f)
  <2>1. p[f] \in Store!ValuesOf(f)
    BY IsProfile
  <2>2. KindOf[f] \in {"setting", "byte", "number", "map"}
    BY Assumed
  <2>3. CASE KindOf[f] = "setting"
    <3>1. q[f] = [value |-> FALSE, active |-> FALSE, key |-> 0, mode |-> "toggle"]
      BY <1>1, <2>3
    <3>2. \A b \in BOOLEAN, k \in Keys \cup {0}, m \in StoreModes :
            [value |-> b, active |-> b, key |-> k, mode |-> m] \in SettingValues
      BY DEF SettingValues
    <3>3. "toggle" \in StoreModes
      BY Assumed
    <3>4. [value |-> FALSE, active |-> FALSE, key |-> 0, mode |-> "toggle"] \in SettingValues
      BY <3>2, <3>3
    <3> HIDE DEF q
    <3> QED
      BY <2>3, <3>1, <3>4, Shapes
  <2>4. CASE KindOf[f] \in {"byte", "map"}
    BY <1>1, <2>4, Shapes DEF PairValues
  <2>5. CASE KindOf[f] = "number"
    BY <1>1, <2>1, <2>5
  <2> QED
    BY <2>2, <2>3, <2>4, <2>5
<1>3. q = [f \in Fields |-> q[f]]
  BY <1>1
<1> HIDE DEF q
<1>4. q \in Store!Profiles
  BY <1>2, <1>3, IsProfile
<1> QED
  BY <1>4 DEF q

LEMMA JsonFields ==
  ASSUME NEW p \in Store!Profiles, NEW some, some \subseteq Fields
  PROVE  /\ DOMAIN Store!Json(p, some) = some
         /\ \A f \in some : /\ Store!Json(p, some)[f] = Store!ToJson(f, p[f])
                            /\ Store!Json(p, some)[f] \in JsonOf(f)
BY IsProfile DEF Store!Json, JsonOf

LEMMA JsonForms ==
  ASSUME NEW f \in Fields, NEW j \in JsonOf(f)
  PROVE  j \in Store!FormsOf(f) /\ (KindOf[f] = "setting" => ~Store!Throws(j))
<1>1. PICK v \in Store!ValuesOf(f) : j = Store!ToJson(f, v)
  BY DEF JsonOf
<1>2. \A w : w = Store!FromJson(f, j, v) =>
             j \in Store!FormsOf(f) /\ (KindOf[f] = "setting" => ~Store!Throws(j))
  BY <1>1, RoundTrip
<1> QED
  BY <1>2

LEMMA BaselineFields ==
  ASSUME NEW version
  PROVE  /\ DOMAIN Store!Baseline(version) = Fields
         /\ \A f \in Fields : Store!Baseline(version)[f] \in JsonOf(f)
BY JsonFields, BlankProfile, Assumed DEF Store!Baseline

LEMMA BaselineForms ==
  ASSUME NEW version
  PROVE  /\ DOMAIN Store!Baseline(version) = Fields
         /\ \A f \in Fields : /\ Store!Baseline(version)[f] \in JsonOf(f)
                             /\ Store!Baseline(version)[f] \in Store!FormsOf(f)
BY BaselineFields, JsonForms

\* The baseline sets a profile to the same, whatever it was before, but for
\* whether its binds are active.
SameParts(f, v, w) ==
  IF KindOf[f] = "setting" THEN v.value = w.value /\ v.key = w.key /\ v.mode = w.mode
  ELSE v = w

LEMMA BaselineSets ==
  ASSUME NEW p \in Store!Profiles, NEW q \in Store!Profiles, NEW version, NEW f \in Fields
  PROVE  LET v == Store!Applied(Store!Baseline(version), p)[f]
             w == Store!Applied(Store!Baseline(version), q)[f]
         IN  /\ SameParts(f, v, w)
             /\ Store!ToJson(f, v) = Store!Baseline(version)[f]
             /\ InStep(f, v)
<1> DEFINE j == Store!Baseline(version)[f]
           v == Store!Applied(Store!Baseline(version), p)[f]
           w == Store!Applied(Store!Baseline(version), q)[f]
<1>1. PICK u \in Store!ValuesOf(f) : j = Store!ToJson(f, u)
  BY BaselineFields DEF JsonOf
<1>2. p[f] \in Store!ValuesOf(f) /\ q[f] \in Store!ValuesOf(f)
  BY IsProfile
<1>3. /\ v = Store!FromJson(f, j, p[f]) /\ Store!ToJson(f, v) = j
      /\ ~Store!Throws(j) => InStep(f, v)
  BY BaselineForms, AppliedProfile
<1>4. w = Store!FromJson(f, j, q[f])
  BY BaselineForms, AppliedProfile
<1> HIDE DEF v, w, j
<1>5. /\ KindOf[f] = "setting" =>
           ~Store!Throws(j) /\ v.value = j.v /\ v.key = j.k /\ v.mode = j.m
      /\ KindOf[f] # "setting" => v = j
  BY <1>1, <1>2, <1>3, RoundTrip
<1>6. /\ KindOf[f] = "setting" => w.value = j.v /\ w.key = j.k /\ w.mode = j.m
      /\ KindOf[f] # "setting" => w = j
  BY <1>1, <1>2, <1>4, RoundTrip
<1>7. SameParts(f, v, w)
  BY <1>5, <1>6 DEF SameParts
<1>8. InStep(f, v)
  BY <1>3, <1>5 DEF InStep
<1> QED
  BY <1>3, <1>7, <1>8 DEF v, w, j

LEMMA BetweenSame ==
  ASSUME NEW f \in Fields, NEW x, NEW v, NEW w, NEW j, SameParts(f, v, w), Store!Between(f, x, v, j)
  PROVE  Store!Between(f, x, w, j)
BY DEF SameParts, Store!Between, Store!Unread

\* A file that is whole has the fields of this version as its writer meant to keep
\* them, and others in whatever form; a damaged one has nothing.
FileInv ==
  /\ file.state = "whole" =>
       /\ \A f \in Fields \cap DOMAIN file.fields : file.fields[f] \in Store!FormsOf(f)
       /\ \A f \in DOMAIN source : /\ f \in Fields \cap DOMAIN file.fields
                                  /\ file.fields[f] = source[f] /\ source[f] \in JsonOf(f)
  /\ file.state # "whole" => file.fields = <<>>
  /\ saving => \A f \in DOMAIN source : f \in Fields /\ source[f] \in JsonOf(f)

\* A difference has what its author had and the baseline of its version has not,
\* but for fields in whatever form; a code with a whole config is like a file.
CodeOf(c) ==
  /\ c.delta \in BOOLEAN
  /\ \A f \in Fields \cap DOMAIN c.fields : c.fields[f] \in Store!FormsOf(f)
  /\ \A f \in DOMAIN c.of :
       /\ f \in Fields /\ c.of[f] \in JsonOf(f)
       /\ IF f \in DOMAIN c.fields THEN c.fields[f] = c.of[f]
          ELSE c.delta /\ c.of[f] = Store!Baseline(c.version)[f]
  /\ c.delta => \A f \in Fields : f \in DOMAIN c.of \/ f \in DOMAIN c.fields

StoreInv ==
  /\ current \in Store!Profiles
  /\ FileInv
  /\ code = Store!NoCode \/ CodeOf(code)

LEMMA StoreInit == Init => StoreInv
<1> SUFFICES ASSUME Init PROVE StoreInv
  OBVIOUS
<1>1. Store!Init
  BY DEF Init
<1>2. current \in Store!Profiles
  BY <1>1, BlankProfile, Assumed DEF Store!Init
<1> QED
  BY <1>1, <1>2 DEF Store!Init, StoreInv, FileInv

LEMMA EditProfile ==
  ASSUME current \in Store!Profiles, NEW f \in Fields, NEW v \in Store!ValuesOf(f),
         current' = [current EXCEPT ![f] = v]
  PROVE  current' \in Store!Profiles
<1> HIDE DEF Store!ValuesOf
<1>1. current = [g \in Fields |-> current[g]] /\ \A g \in Fields : current[g] \in Store!ValuesOf(g)
  BY IsProfile
<1>2. current' = [g \in Fields |-> IF g = f THEN v ELSE current[g]]
  BY <1>1
<1>3. current' = [g \in Fields |-> current'[g]]
  BY <1>2
<1>4. \A g \in Fields : current'[g] \in Store!ValuesOf(g)
  BY <1>1, <1>2
<1> QED
  BY <1>3, <1>4, IsProfile

\* Fields in another form are put over what an author had.
LEMMA OverFields ==
  ASSUME NEW object, NEW odd \in Foreign
  PROVE  /\ DOMAIN odd \subseteq Fields
         /\ DOMAIN Store!Over(object, odd) = DOMAIN object \cup DOMAIN odd
         /\ \A f \in DOMAIN odd :
              Store!Over(object, odd)[f] = odd[f] /\ odd[f] \in Store!FormsOf(f)
         /\ \A f \in DOMAIN object \ DOMAIN odd : Store!Over(object, odd)[f] = object[f]
BY FormsAssumed DEF Store!Over

\* A code with a difference, of either version.
LEMMA CodeMade ==
  ASSUME NEW p \in Store!Profiles, NEW version, NEW odd \in Foreign, NEW c,
         c = [delta |-> TRUE, version |-> version,
              fields |-> Store!Over(Store!Delta(p, version), odd),
              of |-> Store!Json(p, Fields \ DOMAIN odd)]
  PROVE  CodeOf(c)
<1> DEFINE d == Store!Delta(p, version)
<1>1. d = [f \in {g \in Fields : Store!Json(p, Fields)[g] # Store!Baseline(version)[g]} |->
             Store!Json(p, Fields)[f]]
  BY DEF Store!Delta
<1>2. /\ DOMAIN d \subseteq Fields
      /\ \A f \in Fields :
           /\ Store!Json(p, Fields)[f] = Store!ToJson(f, p[f])
           /\ Store!ToJson(f, p[f]) \in JsonOf(f)
           /\ IF f \in DOMAIN d THEN d[f] = Store!ToJson(f, p[f])
              ELSE Store!ToJson(f, p[f]) = Store!Baseline(version)[f]
  BY <1>1, JsonFields
<1>3. /\ c.delta = TRUE /\ c.version = version /\ c.fields = Store!Over(d, odd)
      /\ c.of = Store!Json(p, Fields \ DOMAIN odd)
  OBVIOUS
<1> HIDE DEF d
<1>4. /\ DOMAIN c.of = Fields \ DOMAIN odd
      /\ \A f \in DOMAIN c.of : c.of[f] = Store!ToJson(f, p[f])
  BY <1>3, JsonFields
<1>5. /\ DOMAIN odd \subseteq Fields /\ DOMAIN Store!Over(d, odd) = DOMAIN d \cup DOMAIN odd
      /\ \A f \in DOMAIN odd :
           Store!Over(d, odd)[f] = odd[f] /\ odd[f] \in Store!FormsOf(f)
      /\ \A f \in DOMAIN d \ DOMAIN odd : Store!Over(d, odd)[f] = d[f]
  BY OverFields
<1>6. /\ DOMAIN odd \subseteq Fields /\ DOMAIN c.fields = DOMAIN d \cup DOMAIN odd
      /\ \A f \in DOMAIN odd : c.fields[f] \in Store!FormsOf(f)
      /\ \A f \in DOMAIN d \ DOMAIN odd : c.fields[f] = d[f]
  BY <1>3, <1>5
<1>7. ASSUME NEW f \in Fields \cap DOMAIN c.fields PROVE c.fields[f] \in Store!FormsOf(f)
  BY <1>2, <1>6, JsonForms
<1>8. ASSUME NEW f \in DOMAIN c.of
      PROVE  /\ f \in Fields /\ c.of[f] \in JsonOf(f)
             /\ IF f \in DOMAIN c.fields THEN c.fields[f] = c.of[f]
                ELSE c.delta /\ c.of[f] = Store!Baseline(c.version)[f]
  BY <1>2, <1>3, <1>4, <1>6
<1>9. \A f \in Fields : f \in DOMAIN c.of \/ f \in DOMAIN c.fields
  BY <1>4, <1>6
<1> QED
  BY <1>3, <1>7, <1>8, <1>9 DEF CodeOf

\* A whole config that comes in, as a file or in a code.
LEMMA WholeFields ==
  ASSUME NEW p \in Authors, NEW odd \in Foreign, NEW object, NEW meant,
         object = Store!Over(Store!Whole(p), odd), meant = Store!Json(p, Known \ DOMAIN odd)
  PROVE  /\ \A f \in Fields \cap DOMAIN object : object[f] \in Store!FormsOf(f)
         /\ \A f \in DOMAIN meant : /\ f \in Fields \cap DOMAIN object
                                   /\ object[f] = meant[f] /\ meant[f] \in JsonOf(f)
<1> DEFINE whole == Store!Whole(p)
<1>1. p \in Store!Profiles /\ Known \subseteq Fields /\ Retired \cap Fields = {}
  BY Assumed
<1>2. /\ DOMAIN whole = Known \cup Retired
      /\ \A f \in Known : whole[f] = Store!ToJson(f, p[f]) /\ whole[f] \in JsonOf(f)
  BY <1>1, IsProfile DEF Store!Whole, JsonOf
<1> HIDE DEF whole
<1>3. /\ DOMAIN meant = Known \ DOMAIN odd
      /\ \A f \in DOMAIN meant : meant[f] = Store!ToJson(f, p[f])
  BY <1>1, JsonFields
<1>4. /\ DOMAIN odd \subseteq Fields /\ DOMAIN object = DOMAIN whole \cup DOMAIN odd
      /\ \A f \in DOMAIN odd : object[f] \in Store!FormsOf(f)
      /\ \A f \in DOMAIN whole \ DOMAIN odd : object[f] = whole[f]
  BY OverFields DEF whole
<1>5. ASSUME NEW f \in Fields \cap DOMAIN object PROVE object[f] \in Store!FormsOf(f)
  BY <1>1, <1>2, <1>4, JsonForms
<1> QED
  BY <1>1, <1>2, <1>3, <1>4, <1>5

LEMMA BroughtFile ==
  ASSUME NEW p \in Authors, NEW odd \in Foreign, Store!Bring(p, odd)
  PROVE  FileInv'
<1>1. /\ file' = [state |-> "whole", fields |-> Store!Over(Store!Whole(p), odd)]
      /\ source' = Store!Json(p, Known \ DOMAIN odd)
      /\ ~saving'
  BY DEF Store!Bring
<1>2. file'.state = "whole" /\ file'.fields = Store!Over(Store!Whole(p), odd)
  BY <1>1
<1> QED
  BY <1>1, <1>2, WholeFields DEF FileInv

LEMMA WholeCode ==
  ASSUME NEW p \in Authors, NEW odd \in Foreign, Store!ReceiveWhole(p, odd)
  PROVE  CodeOf(code')
<1>1. /\ code'.delta = FALSE /\ code'.fields = Store!Over(Store!Whole(p), odd)
      /\ code'.of = Store!Json(p, Known \ DOMAIN odd)
  BY DEF Store!ReceiveWhole
<1> DEFINE object == code'.fields
           meant == code'.of
<1>2. /\ \A f \in Fields \cap DOMAIN object : object[f] \in Store!FormsOf(f)
      /\ \A f \in DOMAIN meant : /\ f \in Fields \cap DOMAIN object
                                /\ object[f] = meant[f] /\ meant[f] \in JsonOf(f)
  <2>1. object = Store!Over(Store!Whole(p), odd) /\ meant = Store!Json(p, Known \ DOMAIN odd)
    BY <1>1
  <2> HIDE DEF object, meant
  <2> QED
    BY <2>1, WholeFields
<1> QED
  BY <1>1, <1>2 DEF CodeOf

\* The code of this program has no field in another form.
LEMMA ExportedCode ==
  ASSUME current \in Store!Profiles, Store!Export
  PROVE  CodeOf(code')
<1> DEFINE d == Store!Delta(current, 2)
<1>1. d = [f \in {g \in Fields : Store!Json(current, Fields)[g] # Store!Baseline(2)[g]} |->
             Store!Json(current, Fields)[f]]
  BY DEF Store!Delta
<1>2. /\ code'.delta = TRUE /\ code'.version = 2 /\ code'.fields = d
      /\ code'.of = Store!Json(current, Fields)
  BY DEF Store!Export
<1>3. /\ DOMAIN d \subseteq Fields
      /\ \A f \in Fields :
           IF f \in DOMAIN d THEN d[f] = Store!Json(current, Fields)[f]
           ELSE Store!Json(current, Fields)[f] = Store!Baseline(2)[f]
  BY <1>1
<1>4. /\ DOMAIN Store!Json(current, Fields) = Fields
      /\ \A f \in Fields : Store!Json(current, Fields)[f] \in JsonOf(f)
  BY JsonFields
<1>5. \A f \in Fields : Store!Json(current, Fields)[f] \in Store!FormsOf(f)
  BY <1>4, JsonForms
<1> HIDE DEF d
<1>6. ASSUME NEW f \in Fields \cap DOMAIN code'.fields PROVE code'.fields[f] \in Store!FormsOf(f)
  BY <1>2, <1>3, <1>5
<1>7. ASSUME NEW f \in DOMAIN code'.of
      PROVE  /\ f \in Fields /\ code'.of[f] \in JsonOf(f)
             /\ IF f \in DOMAIN code'.fields THEN code'.fields[f] = code'.of[f]
                ELSE code'.delta /\ code'.of[f] = Store!Baseline(code'.version)[f]
  BY <1>2, <1>3, <1>4
<1>8. \A f \in Fields : f \in DOMAIN code'.of \/ f \in DOMAIN code'.fields
  BY <1>2, <1>4
<1> QED
  BY <1>2, <1>6, <1>7, <1>8 DEF CodeOf

LEMMA StoreStepInv ==
  ASSUME StoreInv, Store!Next
  PROVE  StoreInv'
<1> USE DEF StoreInv
<1>1. ASSUME NEW f \in Fields, NEW v \in Store!ValuesOf(f), Store!Edit(f, v) PROVE StoreInv'
  <2>1. current' \in Store!Profiles
    BY <1>1, EditProfile DEF Store!Edit
  <2> QED
    BY <1>1, <2>1 DEF Store!Edit, FileInv, CodeOf, Store!NoCode
<1>2. CASE Store!SaveCuts
  <2>1. FileInv'
    BY <1>2, JsonFields DEF Store!SaveCuts, FileInv
  <2> QED
    BY <1>2, <2>1 DEF Store!SaveCuts, CodeOf, Store!NoCode
<1>3. CASE Store!SaveWrites
  <2>1. \A f \in DOMAIN source : f \in Fields /\ source[f] \in JsonOf(f)
    BY <1>3 DEF Store!SaveWrites, FileInv
  <2>2. \A f \in DOMAIN source : source[f] \in Store!FormsOf(f)
    BY <2>1, JsonForms
  <2>3. CASE file' = [state |-> "whole", fields |-> source]
    BY <1>3, <2>1, <2>2, <2>3 DEF Store!SaveWrites, FileInv
  <2>4. CASE file' = [state |-> "torn", fields |-> <<>>]
    BY <1>3, <2>4 DEF Store!SaveWrites, FileInv
  <2>5. FileInv'
    BY <1>3, <2>3, <2>4 DEF Store!SaveWrites
  <2> QED
    BY <1>3, <2>5 DEF Store!SaveWrites, CodeOf, Store!NoCode
<1>4. CASE Store!Restart
  <2>1. current' \in Store!Profiles
    BY <1>4, BlankProfile, Assumed DEF Store!Restart
  <2> QED
    BY <1>4, <2>1 DEF Store!Restart, FileInv, CodeOf, Store!NoCode
<1>5. ASSUME NEW p \in Authors, NEW odd \in Foreign, Store!Bring(p, odd) PROVE StoreInv'
  <2>1. FileInv'
    BY <1>5, BroughtFile
  <2> QED
    BY <1>5, <2>1 DEF Store!Bring, CodeOf, Store!NoCode
<1>6. ASSUME NEW p \in Authors, NEW version \in {1, 2}, NEW odd \in Foreign,
             Store!Receive(p, version, odd)
      PROVE  StoreInv'
  <2>1. CodeOf(code')
    BY <1>6, CodeMade, Assumed DEF Store!Receive
  <2> QED
    BY <1>6, <2>1 DEF Store!Receive, FileInv
<1>11. ASSUME NEW p \in Authors, NEW odd \in Foreign, Store!ReceiveWhole(p, odd) PROVE StoreInv'
  <2>1. CodeOf(code')
    BY <1>11, WholeCode
  <2> QED
    BY <1>11, <2>1 DEF Store!ReceiveWhole, FileInv
<1>7. CASE Store!Load
  <2>1. current' \in Store!Profiles
    BY <1>7, AppliedProfile DEF Store!Load, FileInv
  <2> QED
    BY <1>7, <2>1 DEF Store!Load, FileInv, CodeOf, Store!NoCode
<1>8. CASE Store!Reset
  <2>1. current' \in Store!Profiles
    BY <1>8, AppliedProfile, BaselineForms DEF Store!Reset
  <2> QED
    BY <1>8, <2>1 DEF Store!Reset, FileInv, CodeOf, Store!NoCode
<1>9. CASE Store!Export
  <2>1. CodeOf(code')
    BY <1>9, ExportedCode
  <2> QED
    BY <1>9, <2>1 DEF Store!Export, FileInv
<1>10. CASE Store!Import
  <2> DEFINE base == IF code.delta THEN Store!Applied(Store!Baseline(code.version), current)
                     ELSE current
  <2>1. base \in Store!Profiles
    BY AppliedProfile, BaselineForms
  <2>2. /\ \A f \in Fields \cap DOMAIN code.fields : code.fields[f] \in Store!FormsOf(f)
        /\ current' = Store!Applied(code.fields, base)
    BY <1>10 DEF Store!Import, Store!FromDelta, CodeOf
  <2> HIDE DEF base
  <2>3. current' \in Store!Profiles
    BY <2>1, <2>2, AppliedProfile
  <2> QED
    BY <1>10, <2>3 DEF Store!Import, FileInv, CodeOf, Store!NoCode
<1> QED
  BY <1>1, <1>2, <1>3, <1>4, <1>5, <1>6, <1>7, <1>8, <1>9, <1>10, <1>11
     DEF Store!Next

LEMMA StoreInvariant == Spec => []StoreInv
<1>1. Init => StoreInv
  BY StoreInit
<1>2. StoreInv /\ [Next]_vars => StoreInv'
  <2> SUFFICES ASSUME StoreInv, [Next]_vars PROVE StoreInv'
    OBVIOUS
  <2>1. CASE StoreStep
    BY <2>1, StoreStepInv DEF StoreStep
  <2>2. CASE UNCHANGED storeVars
    BY <2>2 DEF storeVars, StoreInv, FileInv, CodeOf, Store!NoCode
  <2> QED
    BY <2>1, <2>2 DEF Next, BindsStep, PageStep, vars
<1> QED
  BY <1>1, <1>2, PTL DEF Spec

\* An import of a difference sets every field twice: to the baseline, and to the
\* code's.
LEMMA Imported ==
  ASSUME StoreInv, Store!Import, NEW f \in Fields
  PROVE  LET base == IF code.delta
                     THEN Store!Applied(Store!Baseline(code.version), Store!Blank(Factory))
                     ELSE current
         IN  /\ IF f \in DOMAIN code.of THEN Store!ToJson(f, current'[f]) = code.of[f]
                ELSE IF f \in DOMAIN code.fields
                THEN Store!Between(f, current'[f], base[f], code.fields[f])
                ELSE current'[f] = base[f]
             /\ Store!Sets(code.fields, f) \/ (code.delta /\ f \notin DOMAIN code.fields)
                  => InStep(f, current'[f])
<1> DEFINE first == Store!Applied(Store!Baseline(code.version), Store!Blank(Factory))
           base == IF code.delta THEN first ELSE current
           mid == IF code.delta THEN Store!Applied(Store!Baseline(code.version), current)
                  ELSE current
<1>1. CodeOf(code) /\ current \in Store!Profiles /\ current' = Store!Applied(code.fields, mid)
  BY DEF StoreInv, Store!Import, Store!FromDelta
<1>2. Store!Blank(Factory) \in Store!Profiles
  BY BlankProfile, Assumed
<1>3. mid \in Store!Profiles
  BY <1>1, AppliedProfile, BaselineForms
<1>4. /\ SameParts(f, mid[f], base[f])
      /\ code.delta => /\ Store!ToJson(f, mid[f]) = Store!Baseline(code.version)[f]
                       /\ InStep(f, mid[f])
      /\ ~code.delta => mid[f] = base[f]
  <2>1. CASE code.delta
    <3>1. mid[f] = Store!Applied(Store!Baseline(code.version), current)[f] /\ base[f] = first[f]
      BY <2>1
    <3> QED
      BY <1>1, <1>2, <2>1, <3>1, BaselineSets
  <2>2. CASE ~code.delta
    BY <2>2 DEF SameParts
  <2> QED
    BY <2>1, <2>2
<1> HIDE DEF mid, base
<1>5. \A g \in Fields \cap DOMAIN code.fields : code.fields[g] \in Store!FormsOf(g)
  BY <1>1 DEF CodeOf
<1>6. IF f \in DOMAIN code.fields
      THEN /\ Store!Between(f, current'[f], mid[f], code.fields[f])
           /\ code.fields[f] \in JsonOf(f) => Store!ToJson(f, current'[f]) = code.fields[f]
           /\ ~Store!Throws(code.fields[f]) => InStep(f, current'[f])
      ELSE current'[f] = mid[f]
  BY <1>1, <1>3, <1>5, AppliedProfile
<1>7. CASE f \in DOMAIN code.of
  <2>1. /\ code.of[f] \in JsonOf(f)
        /\ IF f \in DOMAIN code.fields THEN code.fields[f] = code.of[f]
           ELSE code.delta /\ code.of[f] = Store!Baseline(code.version)[f]
    BY <1>1, <1>7 DEF CodeOf
  <2>2. Store!ToJson(f, current'[f]) = code.of[f]
    BY <1>4, <1>6, <2>1
  <2>3. Store!Sets(code.fields, f) \/ (code.delta /\ f \notin DOMAIN code.fields)
          => InStep(f, current'[f])
    BY <1>4, <1>6 DEF Store!Sets
  <2> QED
    BY <1>7, <2>2, <2>3 DEF base
<1>8. CASE f \notin DOMAIN code.of /\ f \in DOMAIN code.fields
  <2>1. Store!Between(f, current'[f], base[f], code.fields[f])
    BY <1>4, <1>6, <1>8, BetweenSame
  <2>2. Store!Sets(code.fields, f) => InStep(f, current'[f])
    BY <1>6, <1>8 DEF Store!Sets
  <2> QED
    BY <1>8, <2>1, <2>2 DEF base
<1>9. CASE f \notin DOMAIN code.of /\ f \notin DOMAIN code.fields
  <2>1. ~code.delta
    BY <1>1, <1>9 DEF CodeOf
  <2>2. current'[f] = base[f] /\ ~Store!Sets(code.fields, f)
    BY <1>4, <1>6, <1>9, <2>1 DEF Store!Sets
  <2> QED
    BY <1>9, <2>1, <2>2 DEF base
<1> QED
  BY <1>7, <1>8, <1>9

\* config.hpp:832-883, 1088-1098: an import gives what the author of the code had,
\* for any two profiles, either version of the code and fields in any form.
THEOREM SettingsImportRestores == Spec => ImportRestores
<1> DEFINE base == IF code.delta
                   THEN Store!Applied(Store!Baseline(code.version), Store!Blank(Factory))
                   ELSE current
<1>1. ASSUME StoreInv, Store!Import PROVE Store!Follows(current', code.fields, code.of, base)
  BY <1>1, Imported DEF Store!Follows
<1>2. StoreInv => [Store!Import => Store!Follows(current', code.fields, code.of, base)]_(Store!vars)
  BY <1>1
<1> QED
  BY <1>2, StoreInvariant, PTL DEF ImportRestores, Store!ImportRestores

LEMMA Loaded ==
  ASSUME StoreInv, Store!Load, file.state = "whole", NEW f \in Fields
  PROVE  /\ IF f \in DOMAIN source THEN Store!ToJson(f, current'[f]) = source[f]
            ELSE IF f \in DOMAIN file.fields
            THEN Store!Between(f, current'[f], current[f], file.fields[f])
            ELSE current'[f] = current[f]
         /\ Store!Sets(file.fields, f) => InStep(f, current'[f])
<1>1. /\ current \in Store!Profiles /\ current' = Store!Applied(file.fields, current)
      /\ \A g \in Fields \cap DOMAIN file.fields : file.fields[g] \in Store!FormsOf(g)
      /\ \A g \in DOMAIN source : /\ g \in Fields \cap DOMAIN file.fields
                                 /\ file.fields[g] = source[g] /\ source[g] \in JsonOf(g)
  BY DEF StoreInv, FileInv, Store!Load
<1>2. IF f \in DOMAIN file.fields
      THEN /\ Store!Between(f, current'[f], current[f], file.fields[f])
           /\ file.fields[f] \in JsonOf(f) => Store!ToJson(f, current'[f]) = file.fields[f]
           /\ ~Store!Throws(file.fields[f]) => InStep(f, current'[f])
      ELSE current'[f] = current[f]
  BY <1>1, AppliedProfile
<1> QED
  BY <1>1, <1>2 DEF Store!Sets

\* config.hpp:350-428, 776-806, 937-979: a load gives every field of this version's
\* form as the writer of the file had it, whatever versions wrote and read it and
\* whatever is wrong with other fields, leaves the fields that the file does not
\* have, and takes nothing of a damaged file.
THEOREM SettingsLoadKeepsToFile == Spec => LoadKeepsToFile
<1> DEFINE Kept == IF file.state = "whole"
                   THEN Store!Follows(current', file.fields, source, current)
                   ELSE current' = current
<1>1. ASSUME StoreInv, Store!Load PROVE Kept
  <2>1. CASE file.state # "whole"
    BY <1>1, <2>1 DEF Store!Load
  <2>2. CASE file.state = "whole"
    BY <1>1, <2>2, Loaded DEF Store!Follows
  <2> QED
    BY <2>1, <2>2
<1>2. StoreInv => [Store!Load => Kept]_(Store!vars)
  BY <1>1
<1> QED
  BY <1>2, StoreInvariant, PTL DEF LoadKeepsToFile, Store!LoadKeepsToFile

\* config.hpp:287-310, 354-374: a toggle with a key that a load, an import or a
\* reset has set without an exception is as active as it is on.
THEOREM SettingsToggleInStep == Spec => ToggleInStep
<1> DEFINE Came(f) ==
             \/ Store!Reset
             \/ Store!Load /\ Store!Sets(file.fields, f)
             \/ Store!Import /\ (Store!Sets(code.fields, f)
                                 \/ (code.delta /\ f \notin DOMAIN code.fields))
           Answers ==
             \A f \in Fields :
               /\ KindOf[f] = "setting" /\ current'[f].key # 0 /\ current'[f].mode = "toggle"
               /\ Came(f)
               => current'[f].active = current'[f].value
<1>1. ASSUME StoreInv PROVE Answers
  <2> SUFFICES ASSUME NEW f \in Fields, Came(f) PROVE InStep(f, current'[f])
    BY DEF InStep
  <2>1. CASE Store!Import /\ (Store!Sets(code.fields, f)
                              \/ (code.delta /\ f \notin DOMAIN code.fields))
    BY <1>1, <2>1, Imported
  <2>2. CASE Store!Reset
    <3>1. current \in Store!Profiles /\ current' = Store!Applied(Store!Baseline(2), current)
      BY <1>1, <2>2 DEF Store!Reset, StoreInv
    <3> QED
      BY <3>1, BaselineSets
  <2>3. CASE Store!Load /\ Store!Sets(file.fields, f)
    <3>1. file.state = "whole"
      BY <1>1, <2>3 DEF StoreInv, FileInv, Store!Sets
    <3> QED
      BY <1>1, <2>3, <3>1, Loaded
  <2> QED
    BY <2>1, <2>2, <2>3
<1>2. StoreInv => [Answers]_(Store!vars)
  BY <1>1
<1> QED
  BY <1>2, StoreInvariant, PTL DEF ToggleInStep, Store!ToggleInStep

-----------------------------------------------------------------------------
(***************************************************************************)
(* The keys.                                                               *)
(***************************************************************************)

Switches == [Binds!Settings -> [value : BOOLEAN, active : BOOLEAN]]

\* What a press is answered by is down and remembered until the key is let go.
BindsInv ==
  /\ value \in [Binds!Settings -> BOOLEAN] /\ active \in [Binds!Settings -> BOOLEAN]
  /\ key \in [Binds!Settings -> BindKeys \cup {0}] /\ mode \in [Binds!Settings -> Binds!Modes]
  /\ prev \in [BindKeys -> BOOLEAN] /\ down \in [BindKeys -> BOOLEAN]
  /\ pressed \subseteq BindKeys
  /\ \A a \in answered : a \in Binds!Settings \X BindKeys /\ down[a[2]] /\ prev[a[2]]
  /\ Binds!Exclusive

LEMMA BindsAssumed ==
  /\ Order \in Seq(Binds!Settings) /\ {Left, Right} \subseteq Binds!Settings /\ Left # Right
  /\ \A j, k \in 1 .. Len(Order) : Order[j] = Order[k] => j = k
  /\ \A s \in Binds!Settings : \E k \in 1 .. Len(Order) : s = Order[k]
  /\ Len(Order) \in Nat /\ \A k \in 1 .. Len(Order) : Order[k] \in Binds!Settings
  /\ BindKeys \subseteq Nat \ {0}
<1>1. Binds!OrderAssumption /\ Binds!KeysAssumption
  BY BindsAssumption
<1>2. Order \in Seq(Binds!Settings)
  BY <1>1 DEF Binds!OrderAssumption
<1>3. DOMAIN Order = 1 .. Len(Order) /\ Len(Order) \in Nat
      /\ \A k \in 1 .. Len(Order) : Order[k] \in Binds!Settings
  BY <1>2
<1> QED
  BY <1>1, <1>2, <1>3
     DEF Binds!OrderAssumption, Binds!KeysAssumption, Binds!Settings, Binds!Range, Binds!IsInjective

\* The press of s alone switches one of the pair on.
WinningPress(s) ==
  /\ Binds!Presses(s) /\ ~active[s]
  /\ key[Binds!Other(s)] = 0 \/ mode[Binds!Other(s)] = "toggle"
  /\ ~Binds!Presses(Binds!Other(s))

\* After n settings of the loop: a winning press has won, or its setting is still
\* to come and nothing has touched the pair.
LoopKeeps(n, now) ==
  /\ now \in Switches
  /\ \A s \in Binds!Pair : WinningPress(s) =>
       IF \E k \in 1 .. n : Order[k] = s
       THEN now[s].value /\ ~now[Binds!Other(s)].value
       ELSE now[s] = Binds!Live[s] /\ now[Binds!Other(s)] = Binds!Live[Binds!Other(s)]

LoopTurn(n, now) == Binds!ProcessOne(now, Order[n])

BindsLoop == INSTANCE Loops
  WITH Size <- Len(Order), Base <- Binds!Live, Turn <- LoopTurn, Holds <- LoopKeeps

LEMMA ProcessedIsLoop == Binds!Processed = BindsLoop!Run
BY Zenon DEF Binds!Processed, BindsLoop!Run, LoopTurn

\* One turn changes its setting and the one that excludes it, and nothing without
\* a press or a key that is held.
LEMMA TurnChanges ==
  ASSUME BindsInv, NEW now \in Switches, NEW t \in Binds!Settings,
         NEW after, after = Binds!ProcessOne(now, t)
  PROVE  /\ after \in Switches
         /\ \A u \in Binds!Settings :
              u # t /\ ~(t \in Binds!Pair /\ u = Binds!Other(t)) => after[u] = now[u]
         /\ key[t] = 0 \/ (mode[t] = "toggle" /\ ~Binds!Presses(t)) => after = now
         /\ Binds!Presses(t) =>
              /\ after[t].value <=> ~now[t].active
              /\ t \in Binds!Pair => ~after[Binds!Other(t)].value
<1> USE DEF Switches
<1>0. /\ Left \in Binds!Settings /\ Right \in Binds!Settings /\ Left # Right
      /\ mode[t] \in {"toggle", "hold_on", "hold_off"}
      /\ Binds!Other(t) \in Binds!Settings /\ (t \in Binds!Pair => Binds!Other(t) # t)
  <2>1. Left \in Binds!Settings /\ Right \in Binds!Settings /\ Left # Right
    BY BindsAssumed
  <2>2. mode \in [Binds!Settings -> Binds!Modes]
    BY DEF BindsInv
  <2>3. mode[t] \in {"toggle", "hold_on", "hold_off"}
    BY <2>2 DEF Binds!Modes
  <2>4. Binds!Other(t) \in Binds!Settings /\ (t \in Binds!Pair => Binds!Other(t) # t)
    BY <2>1 DEF Binds!Other, Binds!Pair
  <2> QED
    BY <2>1, <2>3, <2>4
<1> DEFINE o == Binds!Other(t)
<1>1. CASE key[t] = 0
  BY <1>1 DEF Binds!ProcessOne, Binds!Presses
<1>2. CASE key[t] # 0 /\ mode[t] = "toggle" /\ ~Binds!JustPressed(t)
  BY <1>2 DEF Binds!ProcessOne, Binds!Presses
<1>3. CASE key[t] # 0 /\ mode[t] = "toggle" /\ Binds!JustPressed(t)
  <2>1. after = Binds!Toggle(now, t) /\ Binds!Presses(t)
    BY <1>3 DEF Binds!ProcessOne, Binds!Presses
  <2>2. Binds!Switch(~now[t].active) \in [value : BOOLEAN, active : BOOLEAN]
        /\ Binds!Off \in [value : BOOLEAN, active : BOOLEAN] /\ ~Binds!Off.value
        /\ (Binds!Switch(~now[t].active).value <=> ~now[t].active)
    BY DEF Binds!Switch, Binds!On, Binds!Off
  <2>3. CASE t \in Binds!Pair /\ now[o].value
    <3>1. after = [[now EXCEPT ![o] = Binds!Off] EXCEPT ![t] = Binds!Switch(~now[t].active)]
      BY <2>1, <2>3 DEF Binds!Toggle
    <3> HIDE DEF o
    <3> QED
      BY <1>0, <1>3, <2>1, <2>2, <2>3, <3>1 DEF o
  <2>4. CASE ~(t \in Binds!Pair /\ now[o].value)
    <3>1. after = [now EXCEPT ![t] = Binds!Switch(~now[t].active)]
      BY <2>1, <2>4 DEF Binds!Toggle
    <3> QED
      BY <1>0, <1>3, <2>1, <2>2, <2>4, <3>1
  <2> QED
    BY <2>3, <2>4
<1>4. CASE key[t] # 0 /\ mode[t] = "hold_on"
  <2>1. after = Binds!HoldOn(now, t) /\ ~Binds!Presses(t)
    BY <1>4 DEF Binds!ProcessOne, Binds!Presses
  <2>2. Binds!Switch(down[key[t]]) \in [value : BOOLEAN, active : BOOLEAN]
        /\ Binds!Off \in [value : BOOLEAN, active : BOOLEAN]
    BY DEF Binds!Switch, Binds!On, Binds!Off
  <2> QED
    BY <1>0, <1>4, <2>1, <2>2 DEF Binds!HoldOn
<1>5. CASE key[t] # 0 /\ mode[t] = "hold_off"
  <2>1. after = Binds!HoldOff(now, t) /\ ~Binds!Presses(t)
    BY <1>5 DEF Binds!ProcessOne, Binds!Presses
  <2>2. Binds!Switch(~down[key[t]]) \in [value : BOOLEAN, active : BOOLEAN]
    BY DEF Binds!Switch, Binds!On, Binds!Off
  <2> QED
    BY <1>0, <1>5, <2>1, <2>2 DEF Binds!HoldOff
<1> QED
  BY <1>0, <1>1, <1>2, <1>3, <1>4, <1>5

LEMMA TurnKeeps ==
  ASSUME BindsInv, NEW n \in 1 .. Len(Order), NEW now, LoopKeeps(n - 1, now)
  PROVE  LoopKeeps(n, LoopTurn(n, now))
<1>0. Len(Order) \in Nat
  BY BindsAssumed
<1>1. PICK t \in Binds!Settings : t = Order[n]
  BY BindsAssumed
<1>2. PICK after : after = Binds!ProcessOne(now, t)
  OBVIOUS
<1>3. now \in Switches
  BY DEF LoopKeeps
<1>4. ASSUME NEW s \in Binds!Pair, WinningPress(s)
      PROVE  IF \E k \in 1 .. n : Order[k] = s
             THEN after[s].value /\ ~after[Binds!Other(s)].value
             ELSE after[s] = Binds!Live[s] /\ after[Binds!Other(s)] = Binds!Live[Binds!Other(s)]
  <2> DEFINE o == Binds!Other(s)
  <2>1. /\ s \in Binds!Settings /\ o \in Binds!Settings /\ o # s /\ o \in Binds!Pair
        /\ Binds!Other(o) = s
    <3>1. Left \in Binds!Settings /\ Right \in Binds!Settings /\ Left # Right
      BY BindsAssumed
    <3>2. s = Left \/ s = Right
      BY DEF Binds!Pair
    <3> QED
      BY <3>1, <3>2 DEF Binds!Pair, Binds!Other
  <2>2. IF \E k \in 1 .. n - 1 : Order[k] = s
        THEN now[s].value /\ ~now[o].value
        ELSE now[s] = Binds!Live[s] /\ now[o] = Binds!Live[o]
    BY <1>4 DEF LoopKeeps
  <2> HIDE DEF o
  <2>3. \A k \in 1 .. n - 1 : Order[k] # t
    <3>1. \A k \in 1 .. n - 1 : k \in 1 .. Len(Order) /\ k # n
      BY <1>0
    <3> QED
      BY <1>1, <3>1, BindsAssumed
  <2>4. (\E k \in 1 .. n : Order[k] = s) <=> (t = s \/ \E k \in 1 .. n - 1 : Order[k] = s)
    <3>1. \A k : k \in 1 .. n <=> k \in 1 .. n - 1 \/ k = n
      BY <1>0
    <3> QED
      BY <1>1, <3>1
  <2>5. CASE t = s
    <3>1. now[s] = Binds!Live[s] /\ ~Binds!Live[s].active
      BY <1>4, <2>1, <2>2, <2>3, <2>5 DEF WinningPress, Binds!Live, BindsInv
    <3>2. after[s].value /\ ~after[o].value
      BY <1>2, <1>3, <1>4, <2>1, <2>5, <3>1, TurnChanges DEF WinningPress, o
    <3> QED
      BY <2>4, <2>5, <3>2 DEF o
  <2>6. CASE t = o
    <3>1. after = now
      <4>1. key[o] = 0 \/ (mode[o] = "toggle" /\ ~Binds!Presses(o))
        BY <1>4 DEF WinningPress, o
      <4> QED
        BY <1>2, <1>3, <2>6, <4>1, TurnChanges
    <3> QED
      BY <2>1, <2>2, <2>4, <2>6, <3>1 DEF o
  <2>7. CASE t # s /\ t # o
    <3>1. t \notin Binds!Pair
      BY <1>4, <2>7 DEF Binds!Pair, Binds!Other, o
    <3>2. after[s] = now[s] /\ after[o] = now[o]
      BY <1>2, <1>3, <2>1, <2>7, <3>1, TurnChanges
    <3> QED
      BY <2>2, <2>4, <2>7, <3>2 DEF o
  <2> QED
    BY <2>5, <2>6, <2>7
<1>5. after \in Switches
  BY <1>2, <1>3, TurnChanges
<1> QED
  BY <1>1, <1>2, <1>4, <1>5 DEF LoopKeeps, LoopTurn

\* The whole loop.
LEMMA LoopResult ==
  ASSUME BindsInv
  PROVE  /\ Binds!Processed[Len(Order)] \in Switches
         /\ \A s \in Binds!Pair : WinningPress(s) =>
              /\ Binds!Processed[Len(Order)][s].value
              /\ ~Binds!Processed[Len(Order)][Binds!Other(s)].value
<1>1. Len(Order) \in Nat
  BY BindsAssumed
<1>2. LoopKeeps(0, Binds!Live)
  <2>1. Binds!Live \in Switches
    BY DEF Binds!Live, Switches, BindsInv
  <2> QED
    BY <2>1 DEF LoopKeeps
<1>3. \A n \in 1 .. Len(Order) : \A now : LoopKeeps(n - 1, now) => LoopKeeps(n, LoopTurn(n, now))
  BY TurnKeeps
<1>4. \A n \in 0 .. Len(Order) : LoopKeeps(n, BindsLoop!Run[n])
  <2> HIDE DEF LoopKeeps, LoopTurn
  <2> QED
    BY <1>1, <1>2, <1>3, BindsLoop!LoopInvariant
<1>5. LoopKeeps(Len(Order), Binds!Processed[Len(Order)])
  BY <1>1, <1>4, ProcessedIsLoop
<1>6. \A s \in Binds!Pair : \E k \in 1 .. Len(Order) : Order[k] = s
  BY BindsAssumed DEF Binds!Pair
<1> QED
  BY <1>5, <1>6 DEF LoopKeeps

\* The second loop leaves at most one of the pair on, and touches nothing else
\* when that is so already.
LEMMA Enforced ==
  ASSUME NEW now \in Switches
  PROVE  /\ Binds!Enforce(now) \in Switches
         /\ ~(Binds!Enforce(now)[Left].value /\ Binds!Enforce(now)[Right].value)
         /\ ~(now[Left].value /\ now[Right].value) => Binds!Enforce(now) = now
<1>1. PICK gives \in {Left, Right} :
        Binds!Enforce(now) = IF now[Left].value /\ now[Right].value
                             THEN [now EXCEPT ![gives] = Binds!Off] ELSE now
  <2> DEFINE first == SelectSeq(Order, LAMBDA s : s \in Binds!Pair)[1]
  <2>1. Binds!Enforce(now) = IF now[Left].value /\ now[Right].value
                             THEN [now EXCEPT ![Binds!Other(first)] = Binds!Off] ELSE now
    BY Zenon DEF Binds!Enforce
  <2> HIDE DEF first
  <2>2. Binds!Other(first) \in {Left, Right}
    BY DEF Binds!Other
  <2> QED
    BY <2>1, <2>2
<1>2. Left \in Binds!Settings /\ Right \in Binds!Settings
  BY BindsAssumed
<1> QED
  BY <1>1, <1>2 DEF Switches, Binds!Off

LEMMA ProcessKeeps ==
  ASSUME BindsInv, Binds!Process
  PROVE  BindsInv'
<1> DEFINE all == Binds!Processed[Len(Order)]
           now == Binds!Enforce(all)
<1>1. all \in Switches
  BY LoopResult
<1>2. now \in Switches /\ ~(now[Left].value /\ now[Right].value)
  <2> HIDE DEF all
  <2> QED
    BY <1>1, Enforced
<1>3. /\ value' = [s \in Binds!Settings |-> now[s].value]
      /\ active' = [s \in Binds!Settings |-> now[s].active]
  BY DEF Binds!Process
<1> HIDE DEF now
<1>4. value' \in [Binds!Settings -> BOOLEAN] /\ active' \in [Binds!Settings -> BOOLEAN]
  BY <1>2, <1>3 DEF Switches
<1>5. ~(value'[Left] /\ value'[Right])
  BY <1>2, <1>3, BindsAssumed
<1>6. /\ prev' = [k \in BindKeys |-> IF \E s \in Binds!Settings : key[s] = k THEN down[k] ELSE prev[k]]
      /\ answered' = answered \cup
           {<<s, key[s]>> : s \in {t \in Binds!Settings : Binds!Presses(t)}}
      /\ UNCHANGED <<key, mode, down, pressed>>
  BY DEF Binds!Process, Binds!Remember
<1>7. prev' \in [BindKeys -> BOOLEAN]
  BY <1>6 DEF BindsInv
<1>8. ASSUME NEW a \in answered' PROVE a \in Binds!Settings \X BindKeys /\ down'[a[2]] /\ prev'[a[2]]
  <2>1. CASE a \in answered
    BY <1>6, <2>1 DEF BindsInv
  <2>2. CASE a \notin answered
    <3>1. PICK t \in Binds!Settings : Binds!Presses(t) /\ a = <<t, key[t]>>
      BY <1>6, <1>8, <2>2
    <3>2. key[t] \in BindKeys /\ down[key[t]]
      BY <3>1 DEF Binds!Presses, Binds!JustPressed, BindsInv
    <3> QED
      BY <1>6, <3>1, <3>2
  <2> QED
    BY <2>1, <2>2
<1> QED
  BY <1>4, <1>5, <1>6, <1>7, <1>8 DEF BindsInv, Binds!Exclusive

LEMMA LoadKeeps ==
  ASSUME BindsInv, NEW f \in Saved, Binds!Load(f)
  PROVE  BindsInv'
<1>1. PICK S \in SUBSET Binds!Settings :
        f \in [S -> [value : BOOLEAN, key : BindKeys \cup {0}, mode : Binds!Modes]]
  BY BindsAssumption DEF Binds!SavedAssumption
<1> DEFINE k == [s \in Binds!Settings |-> IF s \in DOMAIN f THEN f[s].key ELSE key[s]]
           m == [s \in Binds!Settings |->
                   IF ~(s \in DOMAIN f) THEN mode[s]
                   ELSE IF f[s].key = 0 THEN "toggle" ELSE f[s].mode]
           loaded == [s \in Binds!Settings |->
                        [value |-> IF s \in DOMAIN f THEN f[s].value ELSE value[s],
                         active |-> IF s \in DOMAIN f /\ k[s] # 0 /\ m[s] = "toggle"
                                    THEN f[s].value ELSE active[s]]]
           now == Binds!Finalize(loaded)
<1>2. k \in [Binds!Settings -> BindKeys \cup {0}] /\ m \in [Binds!Settings -> Binds!Modes]
  BY <1>1 DEF BindsInv, Binds!Modes
<1>3. /\ key' = k /\ mode' = m
      /\ value' = [s \in Binds!Settings |-> now[s].value]
      /\ active' = [s \in Binds!Settings |-> now[s].active]
      /\ UNCHANGED <<prev, down, pressed, answered>>
  BY Zenon DEF Binds!Load
<1>4. loaded \in Switches
  <2> HIDE DEF k, m
  <2> QED
    BY <1>1 DEF BindsInv, Switches
<1> HIDE DEF k, m, loaded
<1>5. now \in Switches /\ ~(now[Left].value /\ now[Right].value)
  BY <1>4, BindsAssumed DEF Binds!Finalize, Binds!Off, Switches
<1> HIDE DEF now
<1>6. /\ value' \in [Binds!Settings -> BOOLEAN] /\ active' \in [Binds!Settings -> BOOLEAN]
      /\ ~(value'[Left] /\ value'[Right])
  BY <1>3, <1>5, BindsAssumed DEF Switches
<1> QED
  BY <1>2, <1>3, <1>6 DEF BindsInv, Binds!Exclusive

LEMMA ClickKeeps ==
  ASSUME BindsInv, NEW s \in Binds!Settings, Binds!Click(s)
  PROVE  BindsInv'
<1>1. /\ value' \in [Binds!Settings -> BOOLEAN] /\ active' \in [Binds!Settings -> BOOLEAN]
      /\ UNCHANGED <<key, mode, prev, down, pressed, answered>>
  BY DEF Binds!Click, BindsInv
<1>2. ~(value'[Left] /\ value'[Right])
  BY BindsAssumed DEF Binds!Click, BindsInv, Binds!Exclusive, Binds!Pair, Binds!Other
<1> QED
  BY <1>1, <1>2 DEF BindsInv, Binds!Exclusive

LEMMA BindsStepInv ==
  ASSUME BindsInv, Binds!Next
  PROVE  BindsInv'
<1> USE DEF BindsInv, Binds!Exclusive
<1>1. ASSUME NEW k \in BindKeys, Binds!KeyDown(k) PROVE BindsInv'
  BY <1>1 DEF Binds!KeyDown
<1>2. ASSUME NEW k \in BindKeys, Binds!KeyUp(k) PROVE BindsInv'
  BY <1>2 DEF Binds!KeyUp
<1>3. CASE Binds!Process
  BY <1>3, ProcessKeeps
<1>4. CASE Binds!EndFrame
  BY <1>4 DEF Binds!EndFrame
<1>5. ASSUME NEW s \in Binds!Settings, Binds!Click(s) PROVE BindsInv'
  BY <1>5, ClickKeeps
<1>6. ASSUME NEW s \in Binds!Settings, Binds!ClearKey(s) PROVE BindsInv'
  BY <1>6 DEF Binds!ClearKey, Binds!Modes
<1>7. ASSUME NEW s \in Binds!Settings, Binds!NextMode(s) PROVE BindsInv'
  <2>1. mode' \in [Binds!Settings -> Binds!Modes]
    BY <1>7 DEF Binds!NextMode, Binds!Modes
  <2> QED
    BY <1>7, <2>1 DEF Binds!NextMode
<1>8. ASSUME NEW s \in Binds!Settings, NEW k \in BindKeys, Binds!AssignKey(s, k) PROVE BindsInv'
  BY <1>8 DEF Binds!AssignKey
<1>9. ASSUME NEW f \in Saved, Binds!Load(f) PROVE BindsInv'
  BY <1>9, LoadKeeps
<1> QED
  BY <1>1, <1>2, <1>3, <1>4, <1>5, <1>6, <1>7, <1>8, <1>9 DEF Binds!Next

LEMMA BindsInvariant == Spec => []BindsInv
<1>1. Init => BindsInv
  <2> SUFFICES ASSUME Init PROVE BindsInv
    OBVIOUS
  <2>1. Binds!Init /\ Left \in Binds!Settings
    BY BindsAssumed DEF Init
  <2> QED
    BY <2>1 DEF Binds!Init, BindsInv, Binds!Modes, Binds!Exclusive
<1>2. BindsInv /\ [Next]_vars => BindsInv'
  <2> SUFFICES ASSUME BindsInv, [Next]_vars PROVE BindsInv'
    OBVIOUS
  <2>1. CASE BindsStep
    BY <2>1, BindsStepInv DEF BindsStep
  <2>2. CASE UNCHANGED bindsVars
    BY <2>2 DEF bindsVars, BindsInv, Binds!Exclusive
  <2> QED
    BY <2>1, <2>2 DEF Next, StoreStep, PageStep, vars
<1> QED
  BY <1>1, <1>2, PTL DEF Spec

\* xui.cpp:901-913, settings.hpp:1627-1638: the two settings that exclude each
\* other are never both on, for any registered settings, keys and configs.
THEOREM SettingsExclusive == Spec => []Exclusive
<1>1. BindsInv => Exclusive
  BY DEF BindsInv, Exclusive
<1> QED
  BY <1>1, BindsInvariant, PTL

\* xui.cpp:915-921: a key that is held toggles a setting once, whatever keys are
\* given and taken in the meantime.
THEOREM SettingsTogglesOncePerHold == Spec => []TogglesOncePerHold
<1>1. BindsInv => TogglesOncePerHold
  BY DEF BindsInv, TogglesOncePerHold, Binds!TogglesOncePerHold, Binds!Presses, Binds!JustPressed
<1> QED
  BY <1>1, BindsInvariant, PTL

\* xui.cpp:863-878, 901-913: of the two settings that exclude each other the one
\* that was pressed last stays on, in whatever order they are registered.
THEOREM SettingsLastPressWins == Spec => LastPressWins
<1> DEFINE Wins ==
      \A s \in Binds!Pair :
        /\ Binds!Presses(s) /\ ~active[s]
        /\ key[Binds!Other(s)] = 0 \/ mode[Binds!Other(s)] = "toggle"
        /\ ~Binds!Presses(Binds!Other(s))
        => value'[s] /\ ~value'[Binds!Other(s)]
<1>1. ASSUME BindsInv, Binds!Process, NEW s \in Binds!Pair, WinningPress(s)
      PROVE  value'[s] /\ ~value'[Binds!Other(s)]
  <2> DEFINE all == Binds!Processed[Len(Order)]
  <2>1. /\ all \in Switches
        /\ all[s].value /\ ~all[Binds!Other(s)].value
    BY <1>1, LoopResult
  <2>2. value' = [t \in Binds!Settings |-> Binds!Enforce(all)[t].value]
    BY <1>1 DEF Binds!Process
  <2> HIDE DEF all
  <2>3. s \in Binds!Settings /\ Binds!Other(s) \in Binds!Settings
        /\ {s, Binds!Other(s)} = {Left, Right}
    BY BindsAssumed DEF Binds!Pair, Binds!Other
  <2>4. ~(all[Left].value /\ all[Right].value)
    BY <2>1, <2>3
  <2>5. Binds!Enforce(all) = all
    BY <2>1, <2>4, Enforced
  <2> QED
    BY <2>1, <2>2, <2>3, <2>5
<1>2. BindsInv => [Binds!Process => Wins]_(Binds!vars)
  BY <1>1 DEF WinningPress
<1> QED
  BY <1>2, BindsInvariant, PTL DEF LastPressWins, Binds!LastPressWins

-----------------------------------------------------------------------------
(***************************************************************************)
(* The page.                                                               *)
(***************************************************************************)

\* No name stands for the file of another.
NamesAreFiles == \A name \in Files \cup Typed : PathOf[name] = name

\* A selected row is a row of the list, and the row that was clicked while the
\* list is the one it was clicked in; what the page has read and nobody else has
\* changed holds every file of the directory.
PageInv ==
  /\ disk \subseteq Files
  /\ list \in Seq(Files)
  /\ selected \in Int /\ selected >= -1 /\ selected < Len(list)
  /\ ~moved /\ selected >= 0 => clicked = Page!Row(selected)
  /\ Page!SaveHitsSelected
  /\ ~needs /\ ~outside => \A f \in disk : \E k \in 1 .. Len(list) : list[k] = f
  /\ NamesAreFiles => lost = Page!None

LEMMA PageAssumed ==
  /\ Sorted \in Seq(Files) /\ Len(Sorted) \in Nat
  /\ \A k \in 1 .. Len(Sorted) : Sorted[k] \in Files
  /\ \A f \in Files : \E k \in 1 .. Len(Sorted) : Sorted[k] = f
  /\ \A f \in Files : PathOf[f] = f
<1>1. Page!SortedAssumption /\ Page!PathAssumption
  BY PageAssumption
<1>2. Sorted \in Seq(Files)
  BY <1>1 DEF Page!SortedAssumption
<1>3. DOMAIN Sorted = 1 .. Len(Sorted) /\ Len(Sorted) \in Nat
      /\ \A k \in 1 .. Len(Sorted) : Sorted[k] \in Files
  BY <1>2
<1> QED
  BY <1>1, <1>2, <1>3 DEF Page!SortedAssumption, Page!PathAssumption, Page!Range

\* After n names: those of them that the directory has are in the list.
ListKeeps(n, l) ==
  /\ l \in Seq(Files)
  /\ \A j \in 1 .. n : Sorted[j] \in disk => \E k \in 1 .. Len(l) : l[k] = Sorted[j]

ListTurn(n, l) == IF Sorted[n] \in disk THEN Append(l, Sorted[n]) ELSE l

ListLoop == INSTANCE Loops
  WITH Size <- Len(Sorted), Base <- <<>>, Turn <- ListTurn, Holds <- ListKeeps

LEMMA ListingIsLoop == Page!ListingOf = ListLoop!Run
BY Zenon DEF Page!ListingOf, ListLoop!Run, ListTurn

\* An element stays where it is when another is appended.
LEMMA Appended ==
  ASSUME NEW S, NEW l \in Seq(S), NEW e \in S
  PROVE  /\ Append(l, e) \in Seq(S)
         /\ Len(Append(l, e)) = Len(l) + 1
         /\ Append(l, e)[Len(l) + 1] = e
         /\ \A k \in 1 .. Len(l) : Append(l, e)[k] = l[k]
OBVIOUS

LEMMA ListTurnKeeps ==
  ASSUME NEW n \in 1 .. Len(Sorted), NEW l, ListKeeps(n - 1, l)
  PROVE  ListKeeps(n, ListTurn(n, l))
<1>1. Len(Sorted) \in Nat /\ Sorted[n] \in Files
  BY PageAssumed
<1>2. \A j : j \in 1 .. n <=> j \in 1 .. n - 1 \/ j = n
  BY <1>1
<1>3. l \in Seq(Files) /\ Len(l) \in Nat
      /\ \A j \in 1 .. n - 1 : Sorted[j] \in disk => \E k \in 1 .. Len(l) : l[k] = Sorted[j]
  BY DEF ListKeeps
<1>4. CASE Sorted[n] \notin disk
  BY <1>2, <1>3, <1>4 DEF ListKeeps, ListTurn
<1>5. CASE Sorted[n] \in disk
  <2> DEFINE m == Append(l, Sorted[n])
  <2>1. m \in Seq(Files) /\ Len(m) = Len(l) + 1 /\ m[Len(l) + 1] = Sorted[n]
        /\ \A k \in 1 .. Len(l) : m[k] = l[k]
    BY <1>1, <1>3, Appended
  <2> HIDE DEF m
  <2>2. ASSUME NEW j \in 1 .. n, Sorted[j] \in disk PROVE \E k \in 1 .. Len(m) : m[k] = Sorted[j]
    <3>1. CASE j = n
      <4>1. Len(l) + 1 \in 1 .. Len(m)
        BY <1>3, <2>1
      <4> QED
        BY <2>1, <3>1, <4>1
    <3>2. CASE j \in 1 .. n - 1
      <4>1. PICK k \in 1 .. Len(l) : l[k] = Sorted[j]
        BY <1>3, <2>2, <3>2
      <4>2. k \in 1 .. Len(m)
        BY <1>3, <2>1
      <4> QED
        BY <2>1, <4>1, <4>2
    <3> QED
      BY <1>2, <3>1, <3>2
  <2>3. ListKeeps(n, m)
    BY <2>1, <2>2 DEF ListKeeps
  <2> QED
    BY <1>5, <2>3 DEF ListTurn, m
<1> QED
  BY <1>4, <1>5

\* The whole listing.
LEMMA ListingResult ==
  ASSUME disk \subseteq Files
  PROVE  /\ Page!Listing \in Seq(Files)
         /\ \A f \in disk : \E k \in 1 .. Len(Page!Listing) : Page!Listing[k] = f
<1>1. Len(Sorted) \in Nat
  BY PageAssumed
<1>2. ListKeeps(0, <<>>)
  BY DEF ListKeeps
<1>3. \A n \in 1 .. Len(Sorted) : \A l : ListKeeps(n - 1, l) => ListKeeps(n, ListTurn(n, l))
  BY ListTurnKeeps
<1>4. \A n \in 0 .. Len(Sorted) : ListKeeps(n, ListLoop!Run[n])
  <2> HIDE DEF ListKeeps, ListTurn
  <2> QED
    BY <1>1, <1>2, <1>3, ListLoop!LoopInvariant
<1>5. ListKeeps(Len(Sorted), Page!Listing)
  BY <1>1, <1>4, ListingIsLoop DEF Page!Listing
<1> HIDE DEF ListTurn
<1>6. \A f \in disk : \E j \in 1 .. Len(Sorted) : Sorted[j] = f
  BY PageAssumed
<1> QED
  BY <1>5, <1>6 DEF ListKeeps

LEMMA RefreshKeeps ==
  ASSUME PageInv, Page!Refresh
  PROVE  PageInv'
<1> DEFINE new == Page!Listing
<1>1. /\ new \in Seq(Files) /\ Len(new) \in Nat
      /\ \A f \in disk : \E k \in 1 .. Len(new) : new[k] = f
  <2>1. disk \subseteq Files
    BY DEF PageInv
  <2> QED
    BY <2>1, ListingResult
<1>2. /\ list' = new /\ selected' = IF selected >= Len(new) THEN -1 ELSE selected
      /\ moved' = (moved \/ new # list)
      /\ written' = Page!None /\ lost' = Page!None
      /\ disk' = disk /\ clicked' = clicked
  BY DEF Page!Refresh, Page!NoWrite
<1> HIDE DEF new
<1>3. ~moved' <=> ~moved /\ new = list
  BY <1>2, Zenon
<1>4. selected' \in Int /\ selected' >= -1 /\ selected' < Len(list')
  BY <1>1, <1>2 DEF PageInv
<1>5. ~moved' /\ selected' >= 0 => clicked' = list'[selected' + 1]
  BY <1>1, <1>2, <1>3 DEF PageInv, Page!Row
<1> QED
  BY <1>1, <1>2, <1>4, <1>5 DEF PageInv, Page!Row, Page!SaveHitsSelected

LEMMA PageStepInv ==
  ASSUME PageInv, Page!Next
  PROVE  PageInv'
<1> USE DEF PageInv, Page!SaveHitsSelected, Page!NoWrite, Page!Row, Page!dialog, Page!confirms,
            Page!selection
<1>1. CASE Page!Refresh
  BY <1>1, RefreshKeeps
<1>2. ASSUME NEW f \in Files, Page!Outside(f) PROVE PageInv'
  BY <1>2 DEF Page!Outside
<1>3. ASSUME NEW i \in 0 .. Len(list) - 1, Page!ClickRow(i) PROVE PageInv'
  BY <1>3 DEF Page!ClickRow
<1>4. CASE Page!ConfirmEnds
  BY <1>4 DEF Page!ConfirmEnds
<1>5. CASE Page!OpenDialog \/ Page!CloseDialog
  BY <1>5 DEF Page!OpenDialog, Page!CloseDialog
<1>6. ASSUME NEW name \in Files \cup Typed,
             Page!Create(name) \/ Page!Refuse(name) \/ Page!Import(name)
      PROVE  PageInv'
  <2>1. PathOf[name] \in Files
    BY PageAssumption DEF Page!PathAssumption
  <2>2. CASE Page!Create(name)
    <3>1. NamesAreFiles => lost' = Page!None
      BY <2>2 DEF Page!Create, Page!Contains, Page!Overwritten, NamesAreFiles
    <3> QED
      BY <2>1, <2>2, <3>1 DEF Page!Create, Page!Saves
  <2>3. CASE Page!Refuse(name)
    BY <2>3 DEF Page!Refuse
  <2>4. CASE Page!Import(name)
    BY <2>1, <2>4 DEF Page!Import, Page!Saves
  <2> QED
    BY <1>6, <2>2, <2>3, <2>4
<1>7. CASE Page!Save
  <2>1. Page!Row(selected) \in Files /\ PathOf[Page!Row(selected)] = Page!Row(selected)
    <3>1. list \in Seq(Files) /\ selected + 1 \in 1 .. Len(list)
      BY <1>7 DEF Page!Save, Page!HasSelection
    <3>2. list[selected + 1] \in Files
      BY <3>1
    <3> QED
      BY <3>2, PageAssumed
  <2>2. selected >= 0
    BY <1>7 DEF Page!Save, Page!HasSelection
  <2> QED
    BY <1>7, <2>1, <2>2 DEF Page!Save, Page!Saves
<1>8. CASE Page!AskReset \/ Page!ConfirmReset \/ Page!AskDelete
  BY <1>8 DEF Page!AskReset, Page!ConfirmReset, Page!AskDelete
<1>9. CASE Page!ConfirmDelete
  BY <1>9 DEF Page!ConfirmDelete, Page!HasSelection
<1> QED
  BY <1>1, <1>2, <1>3, <1>4, <1>5, <1>6, <1>7, <1>8, <1>9 DEF Page!Next

LEMMA PageInvariant == Spec => []PageInv
<1>1. Init => PageInv
  BY DEF Init, Page!Init, PageInv, Page!Row, Page!SaveHitsSelected
<1>2. PageInv /\ [Next]_vars => PageInv'
  <2> SUFFICES ASSUME PageInv, [Next]_vars PROVE PageInv'
    OBVIOUS
  <2>1. CASE PageStep
    BY <2>1, PageStepInv DEF PageStep
  <2>2. CASE UNCHANGED pageVars
    BY <2>2 DEF pageVars, PageInv, Page!Row, Page!SaveHitsSelected
  <2> QED
    BY <2>1, <2>2 DEF Next, StoreStep, BindsStep, vars
<1> QED
  BY <1>1, <1>2, PTL DEF Spec

\* menu.config.cpp:327-332: the save button writes over the config whose row was
\* clicked last, for any files and whoever else changes the directory, as long as
\* the list has not changed.
THEOREM SettingsSaveHitsSelected == Spec => []SaveHitsSelected
<1>1. PageInv => SaveHitsSelected
  BY DEF PageInv, SaveHitsSelected
<1> QED
  BY <1>1, PageInvariant, PTL

\* menu.config.cpp:279-297: a new config never writes over one that the page
\* could have known of, provided that no name stands for the file of another; the
\* names that file_path rewrites do, and the code checks the name alone.
THEOREM SettingsCreateOverwritesNone ==
  ASSUME NamesAreFiles
  PROVE  Spec => []CreateOverwritesNone
<1>1. PageInv => CreateOverwritesNone
  BY NamesAreFiles DEF PageInv, CreateOverwritesNone, Page!CreateOverwritesNone
<1> QED
  BY <1>1, PageInvariant, PTL
=============================================================================
