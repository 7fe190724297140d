----------------------------- MODULE EntityCache -----------------------------
(***************************************************************************)
(* systems::entities: the vector of known entities that the hooks on the   *)
(* engine's entity list keep up to date, and that force_update rebuilds    *)
(* when a frame finds it empty.  The add and the remove hook change the    *)
(* cache before they let the engine change its list, and the engine's part *)
(* may create or destroy further entities; the hooks and the frame run on  *)
(* the game thread, so a rebuild is not interrupted by a hook.             *)
(***************************************************************************)
EXTENDS Integers, Sequences

CONSTANTS
  Entities,     \* entity pointers
  NoEntity,     \* the null pointer, an empty slot of the engine's list
  Kind,         \* classify_entity of each entity's schema name
  MaxIndex,     \* 0x3fff, the highest index the cache accepts
  ScanLimit,    \* 2048, where force_update stops
  HighestIndex  \* the highest index of the engine's list

\* Assumed of the constants where the module is used.
KindAssumption ==
  Kind \in [Entities -> {"player", "item", "projectile", "unknown"}]
NoEntityAssumption == NoEntity \notin Entities
IndexAssumption ==
  /\ MaxIndex \in Nat /\ ScanLimit \in Nat /\ HighestIndex \in Nat
  /\ ScanLimit <= MaxIndex + 1
  /\ MaxIndex <= HighestIndex

VARIABLES
  live,      \* the engine's entity list
  adding,    \* calls of add_entity whose engine part has not run yet
  removing,  \* indices whose engine part of remove_entity has not run yet
  cached,    \* m_cached
  cursor,    \* i of force_update, -1 when it does not run
  scanned,   \* history: force_update has run to its end
  unread     \* history: indices of which the class name could not be read when
             \* their entity was last added or scanned

vars == <<live, adding, removing, cached, cursor, scanned, unread>>

Indices == 0 .. HighestIndex
Entry == [ptr : Entities, index : 0 .. MaxIndex,
          type : {"player", "item", "projectile"}]

\* Entities that lived before the hooks were installed are in no hook's past.
Init ==
  /\ live \in [Indices -> Entities \cup {NoEntity}]
  /\ \A i, j \in Indices : live[i] = live[j] /\ live[i] # NoEntity => i = j
  /\ adding = {}
  /\ removing = {}
  /\ cached = <<>>
  /\ cursor = -1
  /\ scanned = FALSE
  /\ unread = {}

-----------------------------------------------------------------------------
\* The cache after on_add_entity: nothing is added for an index out of range,
\* for a class that is not supported or whose name one of the guarded reads of
\* get_schema_name does not get, or twice for one index.
Cacheable(i, e) == i <= MaxIndex /\ Kind[e] # "unknown"
Holds(i) == \E k \in DOMAIN cached : cached[k].index = i

\* Mutated forms used to test the properties stand before what they mutate.
With(i, e, readable) ==
  IF ~readable \/ ~Cacheable(i, e) \/ Holds(i) THEN cached
  ELSE Append(cached, [ptr |-> e, index |-> i, type |-> Kind[e]])

UnreadAfter(i, readable) == IF readable THEN unread \ {i} ELSE unread \cup {i}

WithoutSwap(i) ==
  IF ~Holds(i) THEN cached ELSE SubSeq(cached, 1, Len(cached) - 1)

\* The cache after on_remove_entity: the first entry with the index is
\* overwritten by the last one, which is popped.
Without(i) ==
  LET found == {k \in DOMAIN cached : cached[k].index = i}
      last == Len(cached)
      first == CHOOSE k \in found : \A l \in found : k <= l
  IN  IF found = {} THEN cached
      ELSE SubSeq([cached EXCEPT ![first] = cached[last]], 1, last - 1)

\* The add hook runs on_add_entity and hands on to the engine.
AddHook(i, e) ==
  /\ cursor = -1
  /\ live[i] = NoEntity
  /\ \A j \in Indices : live[j] # e
  /\ \A a \in adding : a.index # i /\ a.ptr # e
  /\ adding' = adding \cup {[index |-> i, ptr |-> e]}
  /\ \E readable \in BOOLEAN :
       cached' = With(i, e, readable) /\ unread' = UnreadAfter(i, readable)
  /\ UNCHANGED <<live, removing, cursor, scanned>>

EngineAdds(a) ==
  /\ cursor = -1
  /\ live' = [live EXCEPT ![a.index] = a.ptr]
  /\ adding' = adding \ {a}
  /\ UNCHANGED <<removing, cached, cursor, scanned, unread>>

\* The remove hook runs on_remove_entity, which also refuses an index out of
\* range, and hands on to the engine.
RemoveHook(i) ==
  /\ cursor = -1
  /\ live[i] # NoEntity
  /\ i \notin removing
  /\ cached' = IF i <= MaxIndex THEN Without(i) ELSE cached
  /\ removing' = removing \cup {i}
  /\ UNCHANGED <<live, adding, cursor, scanned, unread>>

EngineRemoves(i) ==
  /\ cursor = -1
  /\ live' = [live EXCEPT ![i] = NoEntity]
  /\ removing' = removing \ {i}
  /\ UNCHANGED <<adding, cached, cursor, scanned, unread>>

-----------------------------------------------------------------------------
\* A frame that finds the cache empty starts force_update, outside the hooks.
StartScan ==
  /\ cursor = -1
  /\ adding = {} /\ removing = {}
  /\ cached = <<>>
  /\ cursor' = 0
  /\ UNCHANGED <<live, adding, removing, cached, scanned, unread>>

\* An empty slot adds nothing; the class of any other is read, or cannot be.
ScanSlot ==
  IF live[cursor] = NoEntity THEN UNCHANGED <<cached, unread>>
  ELSE \E readable \in BOOLEAN :
         /\ cached' = With(cursor, live[cursor], readable)
         /\ unread' = UnreadAfter(cursor, readable)

ScanOneStops ==
  /\ cursor \in 0 .. ScanLimit - 1
  /\ ScanSlot
  /\ cursor' = IF live[cursor] = NoEntity THEN ScanLimit ELSE cursor + 1
  /\ UNCHANGED <<live, adding, removing, scanned>>

ScanOne ==
  /\ cursor \in 0 .. ScanLimit - 1
  /\ ScanSlot
  /\ cursor' = cursor + 1
  /\ UNCHANGED <<live, adding, removing, scanned>>

EndScan ==
  /\ cursor = ScanLimit
  /\ cursor' = -1
  /\ scanned' = TRUE
  /\ UNCHANGED <<live, adding, removing, cached, unread>>

Next ==
  \/ \E i \in Indices, e \in Entities : AddHook(i, e)
  \/ \E a \in adding : EngineAdds(a)
  \/ \E i \in Indices : RemoveHook(i)
  \/ \E i \in removing : EngineRemoves(i)
  \/ StartScan
  \/ ScanOne
  \/ EndScan

Spec == Init /\ [][Next]_vars

-----------------------------------------------------------------------------
TypeOK ==
  /\ live \in [Indices -> Entities \cup {NoEntity}]
  /\ adding \subseteq [index : Indices, ptr : Entities]
  /\ removing \subseteq Indices
  /\ cached \in Seq(Entry)
  /\ cursor \in -1 .. ScanLimit
  /\ scanned \in BOOLEAN
  /\ unread \subseteq Indices

Entries == {cached[k] : k \in DOMAIN cached}

\* No index is cached twice, so that one removal leaves nothing of it behind;
\* and what the cache says of an index is what the engine's list says, or what
\* the add that is on its way to the engine will make it say: a removed or a
\* reused index never keeps the pointer of the entity that is gone.
CacheFresh ==
  /\ \A k, l \in DOMAIN cached : cached[k].index = cached[l].index => k = l
  /\ \A c \in Entries :
       \/ live[c.index] = c.ptr /\ c.index \notin removing
       \/ [index |-> c.index, ptr |-> c.ptr] \in adding

\* Once force_update has run, every supported entity it can reach is cached,
\* whatever the hooks have done since, but for those whose class could not be read
\* when they came; the frame looks again only when the cache is empty, so that a
\* lost entry would stay lost, as those do.
CompleteOnceScanned ==
  scanned /\ cursor = -1 =>
    \A i \in Indices :
      /\ i < ScanLimit /\ live[i] # NoEntity /\ i \notin removing \cup unread
      /\ Cacheable(i, live[i])
      => \E c \in Entries : c.index = i /\ c.ptr = live[i]
=============================================================================
