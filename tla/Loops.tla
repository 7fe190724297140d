--------------------------------- MODULE Loops ---------------------------------
(***************************************************************************)
(* A loop of the code that turns a value over and over, written in the     *)
(* models as a recursive function, and the rule by which its result is     *)
(* proved: what holds at the start and is kept by every turn holds at the  *)
(* end.  The module is instantiated for a loop with its turns and its      *)
(* invariant; the rule rests on the natural numbers being well-founded.    *)
(***************************************************************************)
EXTENDS Integers, WellFoundedInduction, TLAPS

CONSTANTS
  Size,        \* how many turns the loop makes
  Base,        \* the value it starts with
  Turn(_, _),  \* the value after turn n, of the value before it
  Holds(_, _)  \* what is claimed of the value after n turns

Run[n \in 0 .. Size] == IF n = 0 THEN Base ELSE Turn(n, Run[n - 1])

\* Every set of numbers that has an element has a least one.
LEMMA LeastNumber ==
  ASSUME NEW T, T \subseteq Nat, T # {}
  PROVE  \E m \in T : \A k \in T : m <= k
<1> DEFINE Below == {p \in Nat \X Nat : p[1] < p[2]}
<1>1. OpToRel(<, Nat) = Below
  BY Zenon DEF OpToRel
<1>2. IsWellFoundedOn(Below, Nat)
  BY <1>1, NatLessThanWellFounded, Zenon
<1>3. \A j, k \in T : j < k => <<j, k>> \in Below
  OBVIOUS
<1> HIDE DEF Below
<1>4. \E m \in T : \A k \in T : <<k, m>> \notin Below
  BY <1>2, WFMin
<1>5. \E m \in T : \A k \in T : ~ k < m
  BY <1>3, <1>4
<1> QED
  BY <1>5

\* The equation that defines a loop has a solution, however many turns it makes.
LEMMA LoopExists ==
  ASSUME Size \in Nat
  PROVE  \E f : f = [n \in 0 .. Size |-> IF n = 0 THEN Base ELSE Turn(n, f[n - 1])]
<1> DEFINE Solves(m, f) == f = [n \in 0 .. m |-> IF n = 0 THEN Base ELSE Turn(n, f[n - 1])]
           Without == {m \in Nat : ~ \E f : Solves(m, f)}
<1>1. ASSUME NEW m \in Without, \A k \in Without : m <= k PROVE FALSE
  <2>1. CASE m = 0
    <3>1. Solves(0, [n \in 0 .. 0 |-> Base])
      OBVIOUS
    <3> QED
      BY <2>1, <3>1
  <2>2. CASE m # 0
    <3>1. m - 1 \in Nat /\ m - 1 \notin Without
      BY <1>1, <2>2
    <3>2. PICK f : Solves(m - 1, f)
      BY <3>1
    <3> DEFINE g == [n \in 0 .. m |-> IF n = m THEN Turn(m, f[m - 1]) ELSE f[n]]
    <3>3. \A n \in 0 .. m : g[n] = IF n = 0 THEN Base ELSE Turn(n, g[n - 1])
      BY <2>2, <3>2
    <3>4. g = [n \in 0 .. m |-> g[n]]
      OBVIOUS
    <3> HIDE DEF g
    <3>5. Solves(m, g)
      BY <3>3, <3>4
    <3> QED
      BY <3>5
  <2> QED
    BY <2>1, <2>2
<1> HIDE DEF Without
<1>2. Without \subseteq Nat
  BY DEF Without
<1>3. Without = {}
  BY <1>1, <1>2, LeastNumber
<1> QED
  BY <1>3 DEF Without

\* A loop makes its turns.
THEOREM LoopRuns ==
  ASSUME Size \in Nat
  PROVE  /\ Run[0] = Base
         /\ \A n \in 1 .. Size : Run[n] = Turn(n, Run[n - 1])
<1>1. Run = [n \in 0 .. Size |-> IF n = 0 THEN Base ELSE Turn(n, Run[n - 1])]
  BY LoopExists, Zenon DEF Run
<1> QED
  BY <1>1

\* What holds at the start and is kept by every turn holds of the loop.
THEOREM LoopInvariant ==
  ASSUME Size \in Nat,
         Holds(0, Base),
         \A n \in 1 .. Size : \A value : Holds(n - 1, value) => Holds(n, Turn(n, value))
  PROVE  \A n \in 0 .. Size : Holds(n, Run[n])
<1> DEFINE Fails == {n \in 0 .. Size : ~Holds(n, Run[n])}
<1>1. ASSUME NEW m \in Fails, \A k \in Fails : m <= k PROVE FALSE
  <2>1. m # 0
    BY LoopRuns
  <2>2. m - 1 \in 0 .. Size /\ m - 1 \notin Fails /\ m \in 1 .. Size
    BY <1>1, <2>1
  <2>3. Holds(m - 1, Run[m - 1])
    BY <2>2
  <2> QED
    BY <2>2, <2>3, LoopRuns
<1> HIDE DEF Fails
<1>2. Fails \subseteq Nat
  BY DEF Fails
<1>3. Fails = {}
  BY <1>1, <1>2, LeastNumber
<1> QED
  BY <1>3 DEF Fails
=============================================================================
