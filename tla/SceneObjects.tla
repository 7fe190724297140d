----------------------------- MODULE SceneObjects -----------------------------
(***************************************************************************)
(* The copies of players that the player chams put into the scene: one per *)
(* pawn for backtrack, one per pawn for the shot fired last at it.  The    *)
(* engine owns the objects and reuses their addresses; the library keeps   *)
(* the addresses in two maps, here one set of ghosts.                      *)
(***************************************************************************)
EXTENDS FiniteSets, Functions

CONSTANTS
  Pawns,      \* addresses of the other players' pawns
  Addresses   \* addresses of scene objects

VARIABLES
  mesh,     \* what the engine has at each address
  ghosts,   \* m_objects of backtrack and m_entries of onshot, with their kind
  pending   \* m_pending of onshot: the pawns of the shots not shown yet

ghostVars == <<mesh, ghosts, pending>>

Kinds == {"backtrack", "onshot"}
Ghost == [kind : Kinds, pawn : Pawns, at : Addresses]

GhostInit ==
  /\ mesh = [a \in Addresses |-> "free"]
  /\ ghosts = {}
  /\ pending = {}

\* object::destroy: the engine deletes the object some time later.  One that is
\* being deleted already is only forgotten; whatever else lies at the address
\* gets the call.
Destroyed(gone) ==
  [a \in Addresses |->
     IF (\E g \in gone : g.at = a) /\ mesh[a] \in {"own", "foreign"} THEN "dying" ELSE mesh[a]]

\* object::create of each of "asked", some of which fail.
Created(asked) ==
  UNION {{{[kind |-> x[1], pawn |-> x[2], at |-> f[x]] : x \in made} :
            f \in Injection(made, {a \in Addresses : mesh[a] = "free"})} :
          made \in SUBSET asked}

\* Ragebot queues a shot in create_move.
Push(p, on) ==
  /\ on
  /\ pending' = pending \cup {p}
  /\ UNCHANGED <<mesh, ghosts>>

\* Mutated forms used to test the properties stand before what they mutate.
\* The maps are erased without their objects.
GoneUndestroyed(gone) == mesh

Left(gone) == Destroyed(gone)

\* backtrack::update, which keeps one ghost for each wanted pawn and none for
\* the others, then onshot::update, which replaces the ghosts of pending pawns
\* and drops the faded ones.
GhostFrame(on, alive, wanted, faded) ==
  LET traced == IF "backtrack" \in on /\ alive THEN wanted ELSE {}
      shot == IF "onshot" \in on THEN pending ELSE {}
      Stays(g) ==
        IF g.kind = "backtrack" THEN g.pawn \in traced
        ELSE "onshot" \in on /\ g.pawn \notin pending \cup faded
      gone == {g \in ghosts : ~Stays(g)}
      traces == {p \in traced : ~\E g \in ghosts : g.kind = "backtrack" /\ g.pawn = p}
  IN  \E new \in Created(({"backtrack"} \X traces) \cup ({"onshot"} \X shot)) :
        /\ ghosts' = (ghosts \ gone) \cup new
        /\ mesh' = [a \in Addresses |->
                      IF \E g \in new : g.at = a THEN "own" ELSE Left(gone)[a]]
        /\ pending' = {}

GhostShutdownBacktrack ==
  LET gone == {g \in ghosts : g.kind = "backtrack"}
  IN  /\ mesh' = Left(gone)
      /\ ghosts' = {}
      /\ pending' = {}

\* shutdown of both.
GhostShutdown ==
  /\ mesh' = Left(ghosts)
  /\ ghosts' = {}
  /\ pending' = {}

-----------------------------------------------------------------------------
\* The engine: other objects come and go, deleted ones are freed in the end, and
\* a level takes all of them with it.
EngineMakes(a) ==
  /\ mesh[a] = "free"
  /\ mesh' = [mesh EXCEPT ![a] = "foreign"]
  /\ UNCHANGED <<ghosts, pending>>

EngineFrees(a) ==
  /\ mesh[a] \in {"foreign", "dying"}
  /\ mesh' = [mesh EXCEPT ![a] = "free"]
  /\ UNCHANGED <<ghosts, pending>>

EngineFreesAll ==
  /\ mesh' = [a \in Addresses |-> "free"]
  /\ UNCHANGED <<ghosts, pending>>

Own == {a \in Addresses : mesh[a] = "own"}
=============================================================================
