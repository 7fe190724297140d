--------------------------- MODULE PrimitiveLayers ---------------------------
(***************************************************************************)
(* One call of the player chams' on_generate_primitives.  The engine       *)
(* generates the primitives of a scene object into an output buffer of a   *)
(* fixed array and a separate overflow array; the handler has it generate  *)
(* them once for each layer of the settings, and gives the primitives that *)
(* a call added the layer's material.  A player's handler first does so for*)
(* the copies it keeps of the player, its ghosts, which are drawn last.    *)
(* The buffer belongs to one render thread.  It is read with probes that   *)
(* may fail.                                                               *)
(***************************************************************************)
EXTENDS Integers, Sequences

CONSTANTS
  FixedCapacity,   \* fixed_capacity of the engine's buffer
  SaneLimit,       \* sane_primitive_limit of count()
  Generated,       \* bound: numbers of primitives that one engine call adds
  Old              \* bound: numbers of primitives in the buffer at the start

\* Assumed of the constants where the module is used.
SizeAssumption ==
  /\ FixedCapacity \in Nat /\ SaneLimit \in Nat
  /\ Generated \subseteq Nat /\ Old \subseteq Nat

VARIABLES
  fixed,     \* the entries of the fixed array
  overflow,  \* the entries of the overflow array
  stray,     \* history: writes that hit neither array's entries
  todo,      \* the engine calls and markings the handler still makes
  since,     \* prev_count of the ghost it is generating, -1 if unknown
  spoiled    \* history: a probe failed, a count was insane, a material is not loaded

vars == <<fixed, overflow, stray, todo, since, spoiled>>

Layers == {"secondary", "primary", "plain", "overlay", "clone"}
Ghosts == {"backtrack", "onshot"}
Config == [primary : BOOLEAN, secondary : BOOLEAN, overlay : BOOLEAN]
When(condition, steps) == IF condition THEN steps ELSE <<>>
Step(object, layer) == [object |-> object, layer |-> layer]

\* apply_config: secondary, primary, one plain call when neither is on, overlay.
Applied(cfg, object, forceOriginal) ==
  When(cfg.secondary, <<Step(object, "secondary")>>)
  \o When(cfg.primary, <<Step(object, "primary")>>)
  \o When(~cfg.primary /\ ~cfg.secondary /\ (cfg.overlay \/ forceOriginal),
          <<Step(object, "plain")>>)
  \o When(cfg.overlay, <<Step(object, "overlay")>>)

Ghost(on, cfg, object) ==
  When(on, <<Step(object, "count")>> \o Applied(cfg, object, TRUE)
           \o <<Step(object, "mark")>>)

\* The player's own object.  Without a layer the handler returns false and its
\* caller has the engine generate the object; a translucent local player gets
\* clones of the engine's materials.
Player(enabled, cfg, translucent) ==
  IF ~enabled \/ ~(cfg.primary \/ cfg.secondary \/ cfg.overlay)
  THEN <<Step("own", "plain")>>
  ELSE IF translucent THEN <<Step("own", "clone")>> \o When(cfg.overlay, <<Step("own", "overlay")>>)
  ELSE Applied(cfg, "own", FALSE)

\* Arms, weapon and attachments of the view model have no such test.
ViewModel(enabled, cfg) ==
  IF enabled THEN Applied(cfg, "own", FALSE) ELSE <<Step("own", "plain")>>

Made(object, layer) == [object |-> object, layer |-> layer, mat |-> "engine", last |-> FALSE]

\* The engine fills the fixed array first, then the overflow array.
Room == IF FixedCapacity > Len(fixed) THEN FixedCapacity - Len(fixed) ELSE 0
Copies(n, p) == [k \in 1 .. n |-> p]
Least(a, b) == IF a < b THEN a ELSE b
FixedWith(n, p) == fixed \o Copies(Least(n, Room), p)
OverflowWith(n, p) == overflow \o Copies(n - Least(n, Room), p)

Init ==
  /\ \E n \in Old :
       /\ fixed = Copies(Least(n, FixedCapacity), Made("other", "plain"))
       /\ overflow = Copies(n - Least(n, FixedCapacity), Made("other", "plain"))
  /\ stray = {}
  /\ \E cfg \in Config, enabled \in BOOLEAN :
       \/ todo = ViewModel(enabled, cfg)
       \/ \E translucent, backtrack, onshot \in BOOLEAN, ghostCfg \in Config :
            todo = Ghost(backtrack, ghostCfg, "backtrack")
                   \o Ghost(onshot, ghostCfg, "onshot")
                   \o Player(enabled, cfg, translucent)
  /\ since = -1
  /\ spoiled = FALSE

-----------------------------------------------------------------------------
\* primitive_output_buffer::count, of arrays with these many entries.
CountOf(nFixed, nOverflow) ==
  IF nFixed > SaneLimit - nOverflow THEN -1 ELSE nFixed + nOverflow

\* read_primitive_buffer: the count it yields, if its probe succeeds.
Reads(nFixed, nOverflow) == {CountOf(nFixed, nOverflow), -1}

\* Mutated forms used to test the properties stand before what they mutate.
AtOneAllocation(index, nFixed) == [array |-> "fixed", at |-> index]

\* primitive_output_buffer::at, as an array and an offset in it.
At(index, nFixed) ==
  IF index < nFixed
  THEN [array |-> "fixed", at |-> index]
  ELSE [array |-> "overflow", at |-> index - nFixed]

AddressesFromStart(from, to, nFixed) == {At(index, nFixed) : index \in 0 .. to - 1}

\* The entries with indices from .. to - 1, changed one by one.
Addresses(from, to, nFixed) == {At(index, nFixed) : index \in from .. to - 1}
Hit(addresses, array, k) == [array |-> array, at |-> k - 1] \in addresses

\* replace_primitive with a layer's material, and mark_primitive_last.
Painted(entries, array, addresses, layer) ==
  [k \in DOMAIN entries |->
     IF Hit(addresses, array, k) THEN [entries[k] EXCEPT !.mat = layer] ELSE entries[k]]
Marked(entries, array, addresses) ==
  [k \in DOMAIN entries |->
     IF Hit(addresses, array, k) THEN [entries[k] EXCEPT !.last = TRUE] ELSE entries[k]]
Outside(addresses, nFixed, nOverflow) ==
  {a \in addresses : a.at >= IF a.array = "fixed" THEN nFixed ELSE nOverflow}

Todo(step) == todo # <<>> /\ Head(todo) = step

\* apply_layer, apply_overlay, apply_clone, or the bare call of the engine.  A
\* material that is not loaded leaves the layer in the engine's material, and
\* keeps an overlay from being generated at all.
Generate(object, layer, n, loaded) ==
  /\ Todo(Step(object, layer))
  /\ \E before \in Reads(Len(fixed), Len(overflow)) :
     LET newFixed == FixedWith(n, Made(object, layer))
         newOverflow == OverflowWith(n, Made(object, layer))
     IN  \E after \in Reads(Len(newFixed), Len(newOverflow)) :
         LET paints == layer # "plain" /\ loaded /\ before >= 0 /\ before < after
             addresses == IF paints THEN Addresses(before, after, Len(newFixed)) ELSE {}
         IN  /\ IF layer = "overlay" /\ ~loaded
                THEN UNCHANGED <<fixed, overflow, stray>>
                ELSE /\ fixed' = Painted(newFixed, "fixed", addresses, layer)
                     /\ overflow' = Painted(newOverflow, "overflow", addresses, layer)
                     /\ stray' = stray \cup Outside(addresses, Len(newFixed), Len(newOverflow))
             /\ spoiled' = (spoiled \/ ~loaded \/ before = -1 \/ after = -1)
  /\ todo' = Tail(todo)
  /\ UNCHANGED since

\* A ghost's primitives are those added between the two readings around it.
CountGhost(object) ==
  /\ Todo(Step(object, "count"))
  /\ since' \in Reads(Len(fixed), Len(overflow))
  /\ spoiled' = (spoiled \/ since' = -1)
  /\ todo' = Tail(todo)
  /\ UNCHANGED <<fixed, overflow, stray>>

MarkGhostAll(object) ==
  /\ Todo(Step(object, "mark"))
  /\ \E after \in Reads(Len(fixed), Len(overflow)) :
     LET addresses == Addresses(0, after, Len(fixed))
     IN  /\ fixed' = Marked(fixed, "fixed", addresses)
         /\ overflow' = Marked(overflow, "overflow", addresses)
         /\ stray' = stray \cup Outside(addresses, Len(fixed), Len(overflow))
         /\ spoiled' = (spoiled \/ after = -1)
  /\ todo' = Tail(todo)
  /\ UNCHANGED since

MarkGhost(object) ==
  /\ Todo(Step(object, "mark"))
  /\ \E after \in Reads(Len(fixed), Len(overflow)) :
     LET addresses == IF since >= 0 /\ since < after
                      THEN Addresses(since, after, Len(fixed)) ELSE {}
     IN  /\ fixed' = Marked(fixed, "fixed", addresses)
         /\ overflow' = Marked(overflow, "overflow", addresses)
         /\ stray' = stray \cup Outside(addresses, Len(fixed), Len(overflow))
         /\ spoiled' = (spoiled \/ after = -1)
  /\ todo' = Tail(todo)
  /\ UNCHANGED since

Next ==
  \/ \E object \in Ghosts \cup {"own"}, layer \in Layers, n \in Generated, loaded \in BOOLEAN :
       Generate(object, layer, n, loaded)
  \/ \E object \in Ghosts : CountGhost(object) \/ MarkGhost(object)

Spec == Init /\ [][Next]_vars

-----------------------------------------------------------------------------
Primitive == [object : Ghosts \cup {"own", "other"}, layer : Layers,
              mat : Layers \cup {"engine"}, last : BOOLEAN]
Present == {fixed[k] : k \in DOMAIN fixed} \cup {overflow[k] : k \in DOMAIN overflow}

TypeOK ==
  /\ fixed \in Seq(Primitive) /\ Len(fixed) <= FixedCapacity
  /\ overflow \in Seq(Primitive)
  /\ since \in -1 .. SaneLimit
  /\ spoiled \in BOOLEAN

\* primitive_buffer.hpp:38-39: the fixed and the overflow array are not one
\* allocation.  No write leaves the entries the engine has put in either.
NoStrayWrites == stray = {}

\* A layer restyles the primitives of its own engine call and no others: never
\* those of another layer, another object or the engine's own pass, and, if every
\* probe succeeded and every material is loaded, all of its own, on whichever side
\* of the boundary they are.
LayersExact ==
  \A p \in Present :
    /\ p.mat \in {"engine", p.layer}
    /\ ~spoiled /\ p.layer # "plain" => p.mat = p.layer

\* The primitives drawn last are the ghosts', and all of theirs once the
\* handler is done with them.
GhostsDrawnLast ==
  /\ \A p \in Present : p.last => p.object \in Ghosts
  /\ ~spoiled /\ todo = <<>> => \A p \in Present : p.object \in Ghosts => p.last
=============================================================================
