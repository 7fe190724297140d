---------------------------- MODULE PrimitiveSort ----------------------------
(***************************************************************************)
(* One call of on_sort_primitives: the engine has sorted a render thread's *)
(* primitive list and the hook moves the primitives with an overlay        *)
(* material behind the others, so that the overlay is drawn last.  The call*)
(* asks for every primitive twice, in a pre-scan and in the partition,     *)
(* while other threads add materials to the table: `known` is the set of   *)
(* OverlayMaterials, which only grows, and may grow between two questions. *)
(***************************************************************************)
EXTENDS Integers, FiniteSets, Sequences

CONSTANTS
  Materials,   \* materials of primitives
  NoMaterial,  \* the null material
  Overlays,    \* the materials overlay layers use
  MaxTotal,    \* the longest list the call sorts, 1 << 20 in the code
  MaxLength    \* bound: the longest list the engine hands over

\* Assumed of the constants where the module is used.
MaterialAssumption == NoMaterial \notin Materials /\ Overlays \subseteq Materials
LengthAssumption == MaxTotal \in Nat /\ MaxLength \in Nat

VARIABLES
  known,         \* the overlay materials in the table
  knownAtStart,  \* history: those there when the call began
  list,          \* the engine's primitive entries
  original,      \* history: the list the call was given
  pc,            \* where the call is
  i,             \* the entry it is at
  firstOverlay,  \* first_overlay of the pre-scan
  lastRegular,   \* last_regular of the pre-scan
  asked,         \* the partition's answers: is the copied entry an overlay
  fault          \* history: which access of the list failed, if one did

vars == <<known, knownAtStart, list, original, pc, i, firstOverlay, lastRegular,
          asked, fault>>

scan == <<firstOverlay, lastRegular>>

\* A primitive is its material and where the engine had put it.
Lists ==
  UNION {{[k \in 1 .. n |-> [mat |-> f[k], place |-> k]] :
            f \in [1 .. n -> Materials \cup {NoMaterial}]} : n \in 0 .. MaxLength}

Total == Len(list)

Init ==
  /\ known \in SUBSET Overlays
  /\ knownAtStart = known
  /\ list \in Lists
  /\ original = list
  /\ pc = "enter"
  /\ i = 1
  /\ firstOverlay = Total + 1
  /\ lastRegular = 0
  /\ asked = <<>>
  /\ fault = "none"

\* Another render thread adds an overlay material.
Grow(m) ==
  /\ known' = known \cup {m}
  /\ UNCHANGED <<knownAtStart, list, original, pc, i, scan, asked, fault>>

-----------------------------------------------------------------------------
\* Early returns: nothing to order, a list of absurd length, or a table that
\* is still empty; a claimed slot that is not stored yet counts as an entry.
Enter ==
  /\ pc = "enter"
  /\ \/ Total \in {0, 1} /\ pc' = "done"
     \/ Total > MaxTotal /\ pc' = "done"
     \/ known = {} /\ pc' = "done"
     \/ Total \in 2 .. MaxTotal /\ pc' = "prescan"
  /\ UNCHANGED <<known, knownAtStart, list, original, i, scan, asked, fault>>

\* A null material or an unreadable entry ends the call.
PrescanStops ==
  /\ pc = "prescan"
  /\ i <= Total
  /\ fault' = IF list[i].mat = NoMaterial THEN "null" ELSE "read"
  /\ pc' = "done"
  /\ UNCHANGED <<known, knownAtStart, list, original, i, scan, asked>>

PrescanEntry ==
  /\ pc = "prescan"
  /\ i <= Total
  /\ list[i].mat # NoMaterial
  /\ IF list[i].mat \in known
     THEN /\ firstOverlay' = IF firstOverlay = Total + 1 THEN i ELSE firstOverlay
          /\ UNCHANGED lastRegular
     ELSE lastRegular' = i /\ UNCHANGED firstOverlay
  /\ i' = i + 1
  /\ UNCHANGED <<known, knownAtStart, list, original, pc, asked, fault>>

\* Mutated forms used to test the properties stand before what they mutate.
PrescanEndsEarly ==
  /\ pc = "prescan"
  /\ i > Total
  /\ pc' = IF lastRegular <= firstOverlay + 1 THEN "done" ELSE "copy"
  /\ asked' = [k \in {} |-> FALSE]
  /\ i' = 1
  /\ UNCHANGED <<known, knownAtStart, list, original, scan, fault>>

\* The overlays already are at the tail, or the list is copied.
PrescanEnds ==
  /\ pc = "prescan"
  /\ i > Total
  /\ pc' = IF lastRegular < firstOverlay THEN "done" ELSE "copy"
  /\ asked' = [k \in {} |-> FALSE]
  /\ i' = 1
  /\ UNCHANGED <<known, knownAtStart, list, original, scan, fault>>

Copy ==
  /\ pc = "copy"
  /\ \/ pc' = "partition" /\ UNCHANGED fault
     \/ pc' = "done" /\ fault' = "read"
  /\ UNCHANGED <<known, knownAtStart, list, original, i, scan, asked>>

\* stable_partition asks once for each entry, in an order of its own.
Ask(k) ==
  /\ pc = "partition"
  /\ k \in DOMAIN list \ DOMAIN asked
  /\ asked' = [j \in DOMAIN asked \cup {k} |->
                 IF j = k THEN list[k].mat \in known ELSE asked[j]]
  /\ UNCHANGED <<known, knownAtStart, list, original, pc, i, scan, fault>>

\* The first n entries of the copy, parted by the answers in their old order.
Parted[n \in 0 .. Len(original)] ==
  IF n = 0 THEN [regular |-> <<>>, overlay |-> <<>>]
  ELSE IF asked[n] THEN [Parted[n - 1] EXCEPT !.overlay = Append(@, original[n])]
  ELSE [Parted[n - 1] EXCEPT !.regular = Append(@, original[n])]

\* The copy after the partition.
Sorted == Parted[Len(original)].regular \o Parted[Len(original)].overlay

PartitionEnds ==
  /\ pc = "partition"
  /\ DOMAIN asked = DOMAIN list
  /\ pc' = IF \A k, l \in DOMAIN list : asked[k] = asked[l] THEN "done" ELSE "write"
  /\ UNCHANGED <<known, knownAtStart, list, original, i, scan, asked, fault>>

WriteSkipsFirst ==
  /\ pc = "write"
  /\ i <= Total
  /\ \/ /\ list' = [list EXCEPT ![i] = IF i = 1 THEN @ ELSE Sorted[i]]
        /\ i' = i + 1
        /\ UNCHANGED <<pc, fault>>
     \/ /\ pc' = "done" /\ fault' = "write"
        /\ UNCHANGED <<list, i>>
  /\ UNCHANGED <<known, knownAtStart, original, scan, asked>>

\* The copy is written back entry by entry; a write that fails ends the call
\* with the entries before it new and the others old.
Write ==
  /\ pc = "write"
  /\ i <= Total
  /\ \/ /\ list' = [list EXCEPT ![i] = Sorted[i]]
        /\ i' = i + 1
        /\ UNCHANGED <<pc, fault>>
     \/ /\ pc' = "done" /\ fault' = "write"
        /\ UNCHANGED <<list, i>>
  /\ UNCHANGED <<known, knownAtStart, original, scan, asked>>

WriteEnds ==
  /\ pc = "write"
  /\ i > Total
  /\ pc' = "done"
  /\ UNCHANGED <<known, knownAtStart, list, original, i, scan, asked, fault>>

Call ==
  \/ Enter
  \/ PrescanStops \/ PrescanEntry \/ PrescanEnds
  \/ Copy
  \/ \E k \in DOMAIN list : Ask(k)
  \/ PartitionEnds
  \/ Write \/ WriteEnds

Next == Call \/ \E m \in Overlays : Grow(m)

Spec == Init /\ [][Next]_vars

-----------------------------------------------------------------------------
Primitive == [mat : Materials \cup {NoMaterial}, place : 1 .. MaxLength]

TypeOK ==
  /\ known \subseteq Overlays
  /\ knownAtStart \subseteq known
  /\ list \in Seq(Primitive)
  /\ original \in Lists
  /\ pc \in {"enter", "prescan", "copy", "partition", "write", "done"}
  /\ i \in 1 .. Total + 1
  /\ firstOverlay \in 1 .. Total + 1
  /\ lastRegular \in 0 .. Total
  /\ DOMAIN asked \subseteq 1 .. Total
  /\ fault \in {"none", "null", "read", "write"}

\* A call that ends without a failed write leaves the engine every primitive
\* it had, each once: none is drawn twice and none is lost.
NothingLost ==
  pc = "done" /\ fault # "write" =>
    /\ Len(list) = Len(original)
    /\ {list[k] : k \in DOMAIN list} = {original[k] : k \in DOMAIN original}

\* The fate of a material the table did not change its mind about.
SurelyOverlay(p) == p.mat \in knownAtStart
SurelyRegular(p) == p.mat \notin known
Settled(p) == SurelyOverlay(p) \/ SurelyRegular(p)

\* The call is a stable partition, however the table grows between its two scans.
\* When it has sorted, or found nothing to sort, no primitive whose overlay
\* material was known before the call stands before one whose material is still
\* unknown after it.
OverlaysDrawnLast ==
  pc = "done" /\ fault = "none" /\ Total \in 2 .. MaxTotal =>
    \A k, l \in DOMAIN list :
      SurelyOverlay(list[k]) /\ SurelyRegular(list[l]) => l < k

\* Primitives that share their fate keep the engine's order, which the
\* pre-sorted depth order of the scene relies on.
EngineOrderKept ==
  pc = "done" /\ fault # "write" =>
    \A k, l \in DOMAIN list :
      /\ Settled(list[k]) /\ Settled(list[l])
      /\ SurelyOverlay(list[k]) <=> SurelyOverlay(list[l])
      /\ list[k].place < list[l].place
      => k < l

\* Both together: overlays last, and otherwise the order of the engine.
StablePartition == OverlaysDrawnLast /\ EngineOrderKept
=============================================================================
