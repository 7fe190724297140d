-------------------------- MODULE ShotTrackerProofs --------------------------
(***************************************************************************)
(* No record stays in the impact and miss tracker, the events of a shot    *)
(* are given to its own record, and a shot gets one verdict: for any       *)
(* number of commands, any size of the tracker above one record, and any   *)
(* time-outs that relate as those of the code do.                          *)
(***************************************************************************)
EXTENDS ShotTracker, FiniteSetTheorems, WellFoundedInduction, TLAPS

USE BoundAssumption, TimeoutAssumption

\* A record, a shot on its way, and what is kept of the variables that records
\* are made from.
ShotRecord ==
  [seq : Int, cmd : Nat, rage : BOOLEAN, victim : Victims \cup {NoVictim},
   weapon : Weapons, committed : BOOLEAN, fired : BOOLEAN,
   struck : BOOLEAN, resolved : BOOLEAN, missPending : BOOLEAN,
   time : Nat, committedAt : Nat, firedAt : Nat, struckAt : Nat, resolvedAt : Nat,
   order : Int, of : SUBSET (1 .. MaxCommand)]

Group ==
  [cmd : 1 .. MaxCommand, due : Nat, fired : BOOLEAN, impacts : 0 .. 2,
   hurts : Victims \cup {NoVictim}]

TrackerTypes ==
  /\ nextShot \in Int /\ nextImpact \in Int
  /\ now \in Nat \ {0}
  /\ command \in Nat /\ moved \in BOOLEAN
  /\ wire \in Seq(Group)

\* How the times of a record relate, and how far each of its time-outs can have
\* been passed at time t: by one unit, the length of a frame.
Timed(s, t) ==
  /\ s.time <= t /\ 0 < s.time
  /\ s.committedAt = 0 \/ s.committedAt = s.time
  /\ ~s.rage => s.committedAt = s.time
  /\ s.fired /\ ~s.struck /\ ~s.resolved => s.firedAt <= s.time + FireAge
  /\ s.struck => s.struckAt <= s.time + Window
  /\ s.resolved => t - s.resolvedAt <= Tombstone + 1
  /\ ~s.resolved /\ s.rage /\ s.missPending =>
       /\ t - s.resolvedAt <= Finalization + 1
       /\ \/ s.resolvedAt - s.time <= Window + Grace + 1
          \/ s.resolvedAt - s.time <= Absolute + 1
  /\ ~s.resolved /\ s.rage /\ ~s.missPending =>
       \/ t - s.time <= Window + Grace + 1
       \/ t - s.time <= Absolute + 1
  /\ ~s.resolved /\ ~s.rage =>
       IF s.struck THEN t - s.struckAt <= Grace + Finalization + 1
       ELSE IF s.fired THEN t - s.firedAt <= Absolute + 1
       ELSE t - s.time <= Absolute + 1

\* A list of such records, none younger than command c; those of the commands in
\* fresh were made in this unit.
Kept(p, c, fresh) ==
  /\ p \in Seq(ShotRecord)
  /\ \A i \in 1 .. Len(p) :
       /\ Timed(p[i], now)
       /\ p[i].cmd <= c
       /\ p[i].cmd \in fresh => p[i].time = now

\* The command of this unit, once it has been made.
Made == IF moved THEN {command} ELSE {}

\* The inductive invariant.  NoStaleShot bounds the age of a record alone; the
\* time-outs are counted from the last evidence, so the invariant also bounds how
\* late evidence may come.  A commitment sets off no time-out anew, since it comes
\* in the unit in which its record was made.
TrackerInv ==
  /\ TrackerTypes
  /\ moved => command > 0
  /\ Kept(pending, command, Made)

\* What a sweep leaves: a list of such records as of now, and as of the next unit.
Aging(p) ==
  /\ Kept(p, command, Made)
  /\ \A i \in 1 .. Len(p) : Timed(p[i], now + 1)

-----------------------------------------------------------------------------
\* Every set of numbers that has an element has a least one.
LEMMA LeastNumber ==
  ASSUME NEW T, T \subseteq Nat, T # {}
  PROVE  \E m \in T : \A k \in T : m <= k
<1> DEFINE Below == {p \in Nat \X Nat : p[1] < p[2]}
<1>1. OpToRel(<, Nat) = Below
  BY Zenon DEF OpToRel
<1>2. IsWellFoundedOn(Below, Nat)
  BY <1>1, NatLessThanWellFounded, Zenon
<1>3. \A j, k \in T : j < k => <<j, k>> \in Below
  OBVIOUS
<1> HIDE DEF Below
<1>4. \E m \in T : \A k \in T : <<k, m>> \notin Below
  BY <1>2, WFMin
<1>5. \E m \in T : \A k \in T : ~ k < m
  BY <1>3, <1>4
<1> QED
  BY <1>5

\* Searches end at an element that fits.
LEMMA LeastIn ==
  ASSUME NEW I, I \subseteq Nat, I # {}
  PROVE  Min(I) \in I
<1>1. \E m \in I : \A k \in I : m <= k
  BY LeastNumber
<1> QED
  BY <1>1 DEF Min

LEMMA GreatestIn ==
  ASSUME NEW n \in Nat, NEW I, I \subseteq 1 .. n, I # {}
  PROVE  Max(I) \in I
<1> DEFINE T == {n - k : k \in I}
<1>1. \A k \in I : k \in Nat /\ n - k \in Nat
  OBVIOUS
<1>2. T \subseteq Nat
  BY <1>1
<1>3. \A k \in I : n - k \in T
  OBVIOUS
<1>4. \A t \in T : \E k \in I : t = n - k
  OBVIOUS
<1> HIDE DEF T
<1>5. PICK m \in T : \A k \in T : m <= k
  BY <1>2, <1>3, LeastNumber
<1>6. PICK i \in I : m = n - i
  BY <1>4
<1>7. \A k \in I : n - i <= n - k
  BY <1>3, <1>5, <1>6
<1>8. \A k \in I : i >= k
  BY <1>1, <1>7
<1> QED
  BY <1>8 DEF Max

-----------------------------------------------------------------------------
\* A new record has all of its time before it.
LEMMA ShotFits ==
  ASSUME TrackerTypes, NEW c \in Nat, NEW rage \in BOOLEAN, NEW v \in Victims \cup {NoVictim},
         NEW w \in Weapons, NEW committed \in BOOLEAN, rage \/ committed
  PROVE  LET s == Shot(c, rage, v, w, committed)
         IN  s \in ShotRecord /\ Timed(s, now) /\ s.cmd = c /\ s.time = now
<1>1. now \in Nat /\ now > 0 /\ nextShot \in Int
  BY DEF TrackerTypes
<1>2. Shot(c, rage, v, w, committed) \in ShotRecord
  BY <1>1 DEF Shot, ShotRecord
<1>3. Timed(Shot(c, rage, v, w, committed), now)
  BY <1>1 DEF Shot, Timed
<1> QED
  BY <1>2, <1>3 DEF Shot

\* A commitment in the record's own unit.
LEMMA CommitFits ==
  ASSUME NEW s \in ShotRecord, Timed(s, now), s.time = now, now \in Nat,
         NEW r, r = [s EXCEPT !.committed = TRUE, !.committedAt = now]
  PROVE  r \in ShotRecord /\ Timed(r, now) /\ r.cmd = s.cmd /\ r.time = now
<1>1. r \in ShotRecord
  BY DEF ShotRecord
<1>2. /\ r.committedAt = now /\ r.time = s.time /\ r.rage = s.rage /\ r.fired = s.fired
      /\ r.struck = s.struck /\ r.resolved = s.resolved /\ r.missPending = s.missPending
      /\ r.firedAt = s.firedAt /\ r.struckAt = s.struckAt /\ r.resolvedAt = s.resolvedAt
      /\ r.cmd = s.cmd
  BY DEF ShotRecord
<1> QED
  BY <1>1, <1>2 DEF Timed

\* A weapon_fire comes no later than FireAge after the record.
LEMMA FireFits ==
  ASSUME NEW s \in ShotRecord, Timed(s, now), now \in Nat, FireMatches(s),
         NEW c \in 1 .. MaxCommand
  PROVE  LET r == Confirmed(s, c)
         IN  r \in ShotRecord /\ Timed(r, now) /\ r.cmd = s.cmd /\ r.time = s.time
<1> DEFINE r == Confirmed(s, c)
<1>1. r \in ShotRecord
  BY DEF ShotRecord, Confirmed
<1>2. /\ r.committedAt = s.committedAt /\ r.time = s.time /\ r.rage = s.rage /\ r.fired = TRUE
      /\ r.struck = s.struck /\ r.resolved = s.resolved /\ r.missPending = FALSE
      /\ r.firedAt = now /\ r.struckAt = s.struckAt /\ r.resolvedAt = s.resolvedAt
      /\ r.cmd = s.cmd
  BY DEF ShotRecord, Confirmed
<1>3. s.time \in Nat /\ s.committedAt \in Nat /\ s.struckAt \in Nat /\ s.resolvedAt \in Nat
  BY DEF ShotRecord
<1>4. now - s.time <= FireAge /\ ~s.resolved
  BY <1>3 DEF FireMatches, CommittedAt, Age, Timed
<1> HIDE DEF r
<1>5. Timed(r, now)
  BY <1>2, <1>3, <1>4 DEF Timed
<1> QED
  BY <1>1, <1>2, <1>5 DEF r

\* A bullet_impact comes no later than Window after the record.
LEMMA ImpactFits ==
  ASSUME NEW s \in ShotRecord, Timed(s, now), now \in Nat, nextImpact \in Int, InWindow(s),
         NEW c \in 1 .. MaxCommand
  PROVE  LET r == Struck(s, c)
         IN  r \in ShotRecord /\ Timed(r, now) /\ r.cmd = s.cmd /\ r.time = s.time
<1> DEFINE r == Struck(s, c)
<1>1. r \in ShotRecord
  BY DEF ShotRecord, Struck
<1>2. /\ r.committedAt = s.committedAt /\ r.time = s.time /\ r.rage = s.rage /\ r.fired = TRUE
      /\ r.struck = TRUE /\ r.resolved = s.resolved /\ r.missPending = FALSE
      /\ r.struckAt = now /\ r.resolvedAt = s.resolvedAt
      /\ r.cmd = s.cmd
  BY DEF ShotRecord, Struck
<1>3. s.time \in Nat /\ s.committedAt \in Nat /\ s.resolvedAt \in Nat
  BY DEF ShotRecord
<1>4. now - s.time <= Window
  BY DEF InWindow, Age
<1> HIDE DEF r
<1>5. Timed(r, now)
  BY <1>2, <1>3, <1>4 DEF Timed
<1> QED
  BY <1>1, <1>2, <1>5 DEF r

\* A hurt gives the record its tombstone time.
LEMMA HurtFits ==
  ASSUME NEW s \in ShotRecord, Timed(s, now), now \in Nat, NEW c \in 1 .. MaxCommand
  PROVE  LET r == Hurt(s, c)
         IN  r \in ShotRecord /\ Timed(r, now) /\ r.cmd = s.cmd /\ r.time = s.time
<1> DEFINE r == Hurt(s, c)
<1>1. r \in ShotRecord
  BY DEF ShotRecord, Hurt
<1>2. /\ r.committedAt = s.committedAt /\ r.time = s.time /\ r.rage = s.rage
      /\ r.struck = s.struck /\ r.resolved = TRUE
      /\ r.struckAt = s.struckAt /\ r.resolvedAt = now
      /\ r.cmd = s.cmd
  BY DEF ShotRecord, Hurt
<1>3. s.time \in Nat /\ s.committedAt \in Nat /\ s.struckAt \in Nat
  BY DEF ShotRecord
<1> HIDE DEF r
<1>5. Timed(r, now)
  BY <1>2, <1>3 DEF Timed
<1> QED
  BY <1>1, <1>2, <1>5 DEF r

\* A record that the sweep leaves has passed none of its time-outs.
LEMMA SweepFits ==
  ASSUME NEW s \in ShotRecord, Timed(s, now), now \in Nat, ~Miss(s), ~Forgotten(s)
  PROVE  LET r == Aged(s)
         IN  /\ r \in ShotRecord /\ r.cmd = s.cmd /\ r.time = s.time
             /\ Timed(r, now) /\ Timed(r, now + 1)
<1>1. /\ s.time \in Nat /\ s.committedAt \in Nat /\ s.struckAt \in Nat /\ s.resolvedAt \in Nat
      /\ s.firedAt \in Nat
  BY DEF ShotRecord
<1>2. CASE ~TimesOut(s)
  <2>1. Aged(s) = s
    BY <1>2 DEF Aged
  <2>2. Timed(s, now + 1)
    BY <1>1, <1>2 DEF Timed, TimesOut, Miss, Forgotten, Age, CommittedAt
  <2> QED
    BY <2>1, <2>2
<1>3. CASE TimesOut(s)
  <2> DEFINE r == [s EXCEPT !.missPending = TRUE, !.resolvedAt = now]
  <2>1. Aged(s) = r
    BY <1>3 DEF Aged
  <2>2. r \in ShotRecord
    BY DEF ShotRecord
  <2>3. /\ r.committedAt = s.committedAt /\ r.time = s.time /\ r.rage = s.rage
        /\ r.fired = s.fired /\ r.struck = s.struck /\ r.resolved = s.resolved
        /\ r.missPending = TRUE /\ r.firedAt = s.firedAt
        /\ r.struckAt = s.struckAt /\ r.resolvedAt = now /\ r.cmd = s.cmd
    BY DEF ShotRecord
  <2> HIDE DEF r
  <2>4. s.rage /\ ~s.resolved /\ ~s.missPending
    BY <1>3 DEF TimesOut
  <2>5. Timed(r, now) /\ Timed(r, now + 1)
    BY <1>1, <2>3, <2>4 DEF Timed
  <2> QED
    BY <2>1, <2>2, <2>3, <2>5
<1> QED
  BY <1>2, <1>3

-----------------------------------------------------------------------------
\* What appending to a sequence and taking a part of it leave.
LEMMA Appended ==
  ASSUME NEW S, NEW p \in Seq(S), NEW e \in S
  PROVE  /\ Append(p, e) \in Seq(S)
         /\ Len(Append(p, e)) = Len(p) + 1
         /\ Append(p, e)[Len(p) + 1] = e
         /\ \A k \in 1 .. Len(p) : Append(p, e)[k] = p[k]
OBVIOUS

LEMMA Part ==
  ASSUME NEW S, NEW p \in Seq(S), NEW m \in 1 .. Len(p) + 1, NEW n \in 0 .. Len(p), m <= n + 1
  PROVE  /\ SubSeq(p, m, n) \in Seq(S)
         /\ Len(SubSeq(p, m, n)) = n + 1 - m
         /\ \A k \in 1 .. n + 1 - m : SubSeq(p, m, n)[k] = p[m - 1 + k]
OBVIOUS

LEMMA Replaced ==
  ASSUME NEW S, NEW p \in Seq(S), NEW i \in 1 .. Len(p), NEW e \in S
  PROVE  /\ [p EXCEPT ![i] = e] \in Seq(S)
         /\ Len([p EXCEPT ![i] = e]) = Len(p)
         /\ \A k \in 1 .. Len(p) : [p EXCEPT ![i] = e][k] = IF k = i THEN e ELSE p[k]
OBVIOUS

\* A record that fits may take the place of another, or be added.
LEMMA ReplaceKeeps ==
  ASSUME NEW c, NEW fresh, NEW p, Kept(p, c, fresh), NEW i \in 1 .. Len(p), NEW r \in ShotRecord,
         Timed(r, now), r.cmd <= c, r.cmd \in fresh => r.time = now
  PROVE  Kept([p EXCEPT ![i] = r], c, fresh)
<1> DEFINE q == [p EXCEPT ![i] = r]
<1>1. p \in Seq(ShotRecord)
  BY DEF Kept
<1>2. q \in Seq(ShotRecord) /\ Len(q) = Len(p)
      /\ \A j \in 1 .. Len(p) : q[j] = IF j = i THEN r ELSE p[j]
  BY <1>1, Replaced
<1> HIDE DEF q
<1>3. Kept(q, c, fresh)
  BY <1>2 DEF Kept
<1> QED
  BY <1>3 DEF q

LEMMA AppendKeeps ==
  ASSUME NEW c, NEW fresh, NEW p, Kept(p, c, fresh), NEW r \in ShotRecord,
         Timed(r, now), r.cmd <= c, r.cmd \in fresh => r.time = now
  PROVE  Kept(Append(p, r), c, fresh)
<1> DEFINE q == Append(p, r)
<1>1. p \in Seq(ShotRecord) /\ Len(p) \in Nat
  BY DEF Kept
<1>2. q \in Seq(ShotRecord) /\ Len(q) = Len(p) + 1
      /\ q[Len(p) + 1] = r /\ \A j \in 1 .. Len(p) : q[j] = p[j]
  BY <1>1, Appended
<1> HIDE DEF q
<1>3. \A j \in 1 .. Len(q) : j \in 1 .. Len(p) \/ j = Len(p) + 1
  BY <1>1, <1>2
<1>4. Kept(q, c, fresh)
  BY <1>2, <1>3 DEF Kept
<1> QED
  BY <1>4 DEF q

\* The oldest records may be pushed out.
LEMMA TrimKeeps ==
  ASSUME NEW c, NEW fresh, NEW p, Kept(p, c, fresh)
  PROVE  Kept(SubSeq(p, Len(Overflowing(p)) + 1, Len(p)), c, fresh)
<1>1. p \in Seq(ShotRecord) /\ Len(p) \in Nat
  BY DEF Kept
<1>2. PICK k \in Nat : k <= Len(p) /\ k = Len(Overflowing(p))
  <2>1. CASE Len(p) > MaxPending
    <3>1. Len(p) - MaxPending \in 1 .. Len(p)
      BY <1>1, <2>1
    <3>2. Overflowing(p) = SubSeq(p, 1, Len(p) - MaxPending)
      BY <2>1 DEF Overflowing
    <3>3. Len(SubSeq(p, 1, Len(p) - MaxPending)) = Len(p) - MaxPending
      BY <1>1, <3>1
    <3>4. Len(p) - MaxPending \in Nat /\ Len(p) - MaxPending <= Len(p)
      BY <3>1
    <3> QED
      BY <3>2, <3>3, <3>4
  <2>2. CASE ~(Len(p) > MaxPending)
    BY <1>1, <2>2 DEF Overflowing
  <2> QED
    BY <2>1, <2>2
<1> DEFINE q == SubSeq(p, k + 1, Len(p))
<1>3. q \in Seq(ShotRecord) /\ Len(q) = Len(p) - k
      /\ \A j \in 1 .. Len(p) - k : q[j] = p[k + j]
  <2>1. /\ k + 1 \in 1 .. Len(p) + 1 /\ Len(p) \in 0 .. Len(p) /\ k + 1 <= Len(p) + 1
        /\ Len(p) + 1 - (k + 1) = Len(p) - k /\ \A j \in 1 .. Len(p) - k : k + 1 - 1 + j = k + j
    BY <1>1, <1>2
  <2> QED
    BY <1>1, <2>1, Part
<1>4. \A j \in 1 .. Len(p) - k : k + j \in 1 .. Len(p)
  BY <1>1, <1>2
<1> HIDE DEF q
<1>5. Kept(q, c, fresh)
  BY <1>3, <1>4 DEF Kept
<1> QED
  BY <1>2, <1>5 DEF q

-----------------------------------------------------------------------------
\* The three steps of a command with an attack in it.
LEMMA BoomedKeeps ==
  ASSUME TrackerTypes, NEW c \in Nat, NEW v \in Victims, NEW w \in Weapons,
         NEW p, Kept(p, c, {c})
  PROVE  Kept(Boomed(p, c, v, w), c, {c})
<1> DEFINE i == SelectInSeq(p, LAMBDA s : s.cmd = c)
           new == Shot(c, TRUE, v, w, FALSE)
           taken == [new EXCEPT !.seq = p[i].seq]
<1>1. new \in ShotRecord /\ Timed(new, now) /\ new.cmd = c /\ new.time = now
  BY ShotFits
<1>2. p \in Seq(ShotRecord)
  BY DEF Kept
<1>3. CASE i \in 1 .. Len(p)
  <2> HIDE DEF i, new
  <2>1. p[i].seq \in Int
    <3>1. p[i] \in ShotRecord
      BY <1>2, <1>3
    <3> QED
      BY <3>1 DEF ShotRecord
  <2>2. taken \in ShotRecord /\ taken.cmd = c /\ taken.time = now
    BY <1>1, <2>1 DEF ShotRecord
  <2>3. Timed(taken, now)
    BY <1>1 DEF Timed, ShotRecord
  <2> HIDE DEF taken
  <2>4. Kept([p EXCEPT ![i] = taken], c, {c})
    BY <1>3, <2>2, <2>3, ReplaceKeeps
  <2>5. Boomed(p, c, v, w) \in {Append(p, new), [p EXCEPT ![i] = taken], p}
    BY DEF Boomed, i, new, taken
  <2>6. Kept(Append(p, new), c, {c})
    BY <1>1, AppendKeeps
  <2> QED
    BY <2>4, <2>5, <2>6
<1>4. CASE i \notin 1 .. Len(p)
  <2>1. [p EXCEPT ![i] = taken] = p
    BY <1>2, <1>4
  <2>2. Boomed(p, c, v, w) \in {Append(p, new), p}
    BY <2>1 DEF Boomed
  <2> HIDE DEF i, new
  <2>3. Kept(Append(p, new), c, {c})
    BY <1>1, AppendKeeps
  <2> QED
    BY <2>2, <2>3
<1> QED
  BY <1>3, <1>4

LEMMA CommittedKeeps ==
  ASSUME TrackerTypes, NEW c \in Nat, NEW p, Kept(p, c, {c})
  PROVE  Kept(Committed(p, c), c, {c})
<1> DEFINE I == {k \in 1 .. Len(p) : p[k].cmd = c /\ ~p[k].resolved}
           i == IF I # {} THEN Max(I) ELSE 0
           r == [p[i] EXCEPT !.committed = TRUE, !.committedAt = now]
<1>1. p \in Seq(ShotRecord) /\ Len(p) \in Nat /\ now \in Nat
  BY DEF Kept, TrackerTypes
<1>2. Committed(p, c) = IF i = 0 \/ p[i].committed THEN p ELSE [p EXCEPT ![i] = r]
  BY DEF Committed, SelectLastInSeq
<1>3. CASE I = {}
  BY <1>2, <1>3
<1>4. CASE I # {}
  <2>1. i \in I
    BY <1>1, <1>4, GreatestIn
  <2>2. i \in 1 .. Len(p) /\ p[i].cmd = c /\ p[i].time = now /\ Timed(p[i], now)
    BY <2>1 DEF Kept
  <2> HIDE DEF i
  <2>3. p[i] \in ShotRecord
    BY <1>1, <2>2
  <2>4. r \in ShotRecord /\ Timed(r, now) /\ r.cmd = c /\ r.time = now
    BY <1>1, <2>2, <2>3, CommitFits
  <2> HIDE DEF r, I
  <2>5. r.cmd <= c /\ (r.cmd \in {c} => r.time = now)
    BY <2>4
  <2>6. Kept([p EXCEPT ![i] = r], c, {c})
    BY <2>2, <2>4, <2>5, ReplaceKeeps
  <2> QED
    BY <1>2, <2>6
<1> QED
  BY <1>3, <1>4

LEMMA FinalizedKeeps ==
  ASSUME TrackerTypes, NEW c \in Nat, NEW w \in Weapons, NEW p, Kept(p, c, {c})
  PROVE  Kept(Finalized(p, c, w), c, {c})
<1> DEFINE new == Shot(c, FALSE, NoVictim, w, TRUE)
<1>1. new \in ShotRecord /\ Timed(new, now) /\ new.cmd = c /\ new.time = now
  BY ShotFits
<1>2. Finalized(p, c, w) \in {p, Append(p, new)}
  BY DEF Finalized
<1> HIDE DEF new
<1>3. Kept(Append(p, new), c, {c})
  BY <1>1, AppendKeeps
<1> QED
  BY <1>2, <1>3

-----------------------------------------------------------------------------
\* What the server is sent and what it sends keeps its type.
LEMMA SentTypes ==
  ASSUME TrackerTypes, NEW c \in 1 .. MaxCommand, NEW w,
         NEW result \in Victims \cup {NoVictim, "rejected"}, Sent(c, w, result)
  PROVE  wire' \in Seq(Group)
<1> DEFINE k == SelectInSeq(wire, LAMBDA g : g.cmd = c)
           others == IF k = 0 THEN wire ELSE RemoveAt(wire, k)
           group == [cmd |-> c, due |-> now + Rtt, fired |-> FALSE,
                     impacts |-> IF w = "shotgun" THEN 2 ELSE 1, hurts |-> result]
<1>1. wire \in Seq(Group) /\ Len(wire) \in Nat
  BY DEF TrackerTypes
<1>2. k = 0 \/ k \in 1 .. Len(wire)
  <2> DEFINE I == {j \in 1 .. Len(wire) : wire[j].cmd = c}
  <2>1. k = IF I # {} THEN Min(I) ELSE 0
    BY DEF SelectInSeq
  <2>2. I \subseteq 1 .. Len(wire) /\ I \subseteq Nat
    OBVIOUS
  <2> HIDE DEF I
  <2>3. I # {} => Min(I) \in I
    BY <2>2, LeastIn
  <2> QED
    BY <2>1, <2>2, <2>3
<1> HIDE DEF k
<1>3. others \in Seq(Group)
  <2>1. CASE k \in 1 .. Len(wire)
    <3>1. SubSeq(wire, 1, k - 1) \in Seq(Group)
      BY <1>1, <2>1
    <3>2. SubSeq(wire, k + 1, Len(wire)) \in Seq(Group)
      BY <1>1, <2>1
    <3>3. SubSeq(wire, 1, k - 1) \o SubSeq(wire, k + 1, Len(wire)) \in Seq(Group)
      BY <3>1, <3>2
    <3> QED
      BY <1>1, <3>3 DEF RemoveAt
  <2> QED
    BY <1>1, <1>2, <2>1
<1> HIDE DEF others
<1>4. wire' = IF result = "rejected" THEN others ELSE Append(others, group)
  BY DEF Sent, others, k
<1>5. result # "rejected" => group \in Group
  BY DEF TrackerTypes, Group
<1> HIDE DEF group
<1> QED
  BY <1>3, <1>4, <1>5

LEMMA HeadTypes ==
  ASSUME TrackerTypes, wire # <<>>
  PROVE  Head(wire) \in Group /\ Head(wire).cmd \in 1 .. MaxCommand
<1>1. wire \in Seq(Group)
  BY DEF TrackerTypes
<1>2. Head(wire) \in Group
  BY <1>1
<1> QED
  BY <1>2 DEF Group

LEMMA RestTypes ==
  ASSUME TrackerTypes, wire # <<>>, NEW group \in Group
  PROVE  Rest(group) \in Seq(Group)
<1>1. wire \in Seq(Group)
  BY DEF TrackerTypes
<1>2. Tail(wire) \in Seq(Group) /\ [wire EXCEPT ![1] = group] \in Seq(Group)
  BY <1>1
<1> QED
  BY <1>2 DEF Rest

-----------------------------------------------------------------------------
\* An attack is recorded while its command is the youngest.
LEMMA CreateMoveStep ==
  ASSUME TrackerInv, NEW rage \in BOOLEAN, NEW commits \in BOOLEAN, NEW claimed \in BOOLEAN,
         NEW c \in 1 .. MaxCommand, NEW v \in Victims, NEW w \in Weapons,
         NEW result \in Victims \cup {NoVictim, "rejected"},
         CreateMove(c, rage, commits, claimed, v, w, result)
  PROVE  TrackerInv'
<1> DEFINE boomed == IF rage THEN Boomed(pending, c, v, w) ELSE pending
           shot == IF rage /\ commits THEN Committed(boomed, c) ELSE boomed
           made == IF claimed THEN Finalized(shot, c, w) ELSE shot
<1>1. TrackerTypes /\ Kept(pending, command, Made) /\ c \in Nat /\ command \in Nat
  BY DEF TrackerInv, TrackerTypes
<1>2. Kept(pending, c, {c})
  <2>1. (c = command + 1 /\ ~moved) \/ (c = command /\ moved)
    BY DEF CreateMove
  <2>2. CASE c = command + 1
    <3>1. ASSUME NEW i \in 1 .. Len(pending) PROVE pending[i].cmd \in Nat /\ pending[i].cmd <= command
      <4>1. pending[i] \in ShotRecord
        BY <1>1 DEF Kept
      <4> QED
        BY <1>1, <4>1 DEF Kept, ShotRecord
    <3> QED
      BY <1>1, <2>2, <3>1 DEF Kept
  <2>3. CASE c = command /\ moved
    BY <1>1, <2>3 DEF Kept, Made
  <2> QED
    BY <2>1, <2>2, <2>3
<1>3. Kept(boomed, c, {c})
  BY <1>1, <1>2, BoomedKeeps
<1> HIDE DEF boomed
<1>4. Kept(shot, c, {c})
  BY <1>1, <1>3, CommittedKeeps
<1> HIDE DEF shot
<1>5. Kept(made, c, {c})
  BY <1>1, <1>4, FinalizedKeeps
<1>6. /\ Trim(made) /\ nextShot' = nextShot + Len(made) - Len(pending)
      /\ Sent(c, w, result) /\ command' = c /\ moved' = TRUE
      /\ now' = now /\ nextImpact' = nextImpact
  BY DEF CreateMove, boomed, shot, made
<1> HIDE DEF made
<1>7. Kept(pending', c, {c})
  <2>1. pending' = SubSeq(made, Len(Overflowing(made)) + 1, Len(made))
    BY <1>6 DEF Trim
  <2> QED
    BY <1>5, <2>1, TrimKeeps
<1>8. TrackerTypes'
  <2>1. Len(made) \in Nat /\ Len(pending) \in Nat
    BY <1>1, <1>5 DEF Kept
  <2>2. wire' \in Seq(Group)
    BY <1>1, <1>6, SentTypes
  <2>3. nextShot \in Int /\ nextImpact \in Int /\ now \in Nat \ {0}
    BY <1>1 DEF TrackerTypes
  <2>4. nextShot' \in Int
    <3>1. nextShot' = nextShot + Len(made) - Len(pending)
      BY <1>6
    <3> QED
      BY <2>1, <2>3, <3>1
  <2>5. nextImpact' \in Int /\ now' \in Nat \ {0} /\ command' \in Nat
    BY <1>1, <1>6, <2>3
  <2>6. moved' \in BOOLEAN
    BY <1>6, Zenon
  <2> QED
    BY <2>2, <2>4, <2>5, <2>6 DEF TrackerTypes
<1>9. Kept(pending, command, Made)'
  BY <1>6, <1>7 DEF Kept, Made, Timed
<1> QED
  BY <1>1, <1>6, <1>8, <1>9 DEF TrackerInv

\* The searches for a fire and for an impact end at a record that is young enough.
LEMMA FireFound ==
  ASSUME TrackerInv, FireIndex > 0
  PROVE  FireIndex \in 1 .. Len(pending) /\ FireMatches(pending[FireIndex])
<1> DEFINE fits == {i \in DOMAIN pending : FireMatches(pending[i])}
           Errors == {FireError(pending[i]) : i \in fits}
           Better(i, j) ==
             \/ FireError(pending[i]) < FireError(pending[j])
             \/ FireError(pending[i]) = FireError(pending[j]) /\ i <= j
<1>1. pending \in Seq(ShotRecord) /\ DOMAIN pending = 1 .. Len(pending) /\ Len(pending) \in Nat
      /\ now \in Nat
  BY DEF TrackerInv, Kept, TrackerTypes
<1>2. ASSUME NEW i \in 1 .. Len(pending) PROVE FireError(pending[i]) \in Nat
  <2>1. pending[i] \in ShotRecord
    BY <1>1
  <2>2. CommittedAt(pending[i]) \in Nat
    BY <2>1 DEF ShotRecord, CommittedAt
  <2>3. Rtt \in Nat
    BY TimeoutAssumption
  <2>4. now - CommittedAt(pending[i]) - Rtt \in Int
    BY <1>1, <2>2, <2>3
  <2> QED
    BY <2>4 DEF FireError, Age
<1>3. FireIndex = IF fits = {} THEN 0 ELSE CHOOSE i \in fits : \A j \in fits : Better(i, j)
  BY DEF FireIndex
<1>4. fits # {}
  BY <1>3
<1>5. fits \subseteq 1 .. Len(pending) /\ fits \subseteq Nat
  BY <1>1
<1>6. \A i \in fits : FireMatches(pending[i])
  OBVIOUS
<1> HIDE DEF fits
<1>7. Errors \subseteq Nat /\ Errors # {}
  BY <1>2, <1>4, <1>5
<1>8. PICK e \in Errors : \A f \in Errors : e <= f
  BY <1>7, LeastNumber
<1> DEFINE Best == {i \in fits : FireError(pending[i]) = e}
<1>9. Best \subseteq Nat /\ Best # {}
  BY <1>5
<1>10. PICK i \in Best : \A j \in Best : i <= j
  BY <1>9, LeastNumber
<1>11. \A j \in fits : Better(i, j)
  <2> SUFFICES ASSUME NEW j \in fits PROVE Better(i, j)
    OBVIOUS
  <2>1. FireError(pending[i]) = e /\ FireError(pending[j]) \in Errors
    OBVIOUS
  <2>2. e \in Nat /\ FireError(pending[j]) \in Nat /\ e <= FireError(pending[j])
    BY <1>7, <1>8, <2>1
  <2>3. e = FireError(pending[j]) => j \in Best
    OBVIOUS
  <2> QED
    BY <1>10, <2>1, <2>2, <2>3
<1> HIDE DEF Better
<1>12. FireIndex \in fits
  BY <1>3, <1>4, <1>11 DEF Best
<1> QED
  BY <1>5, <1>6, <1>12

LEMMA FirstOfOne ==
  ASSUME NEW found \in Seq(Nat), FirstOf(found) > 0
  PROVE  \E j \in 1 .. Len(found) : FirstOf(found) = found[j]
<1> DEFINE K == {j \in 1 .. Len(found) : found[j] > 0}
           k == IF K # {} THEN Min(K) ELSE 0
<1>1. FirstOf(found) = IF k = 0 THEN 0 ELSE found[k]
  BY Zenon DEF FirstOf, SelectInSeq
<1>2. K \subseteq Nat /\ K \subseteq 1 .. Len(found)
  OBVIOUS
<1> HIDE DEF K
<1>3. k = 0 \/ k \in K
  BY <1>2, LeastIn
<1> HIDE DEF k
<1>4. k \in K
  BY <1>1, <1>3
<1> QED
  BY <1>1, <1>2, <1>4

\* What a search looks for in a record.
Evident(s) == s.seq = active \/ s.resolved \/ s.fired \/ s.struck \/ s.committed

LEMMA ImpactFound ==
  ASSUME TrackerInv, ImpactIndex > 0
  PROVE  /\ ImpactIndex \in 1 .. Len(pending)
         /\ InWindow(pending[ImpactIndex]) /\ Evident(pending[ImpactIndex])
<1> DEFINE A == {i \in 1 .. Len(pending) :
                   /\ pending[i].seq = active
                   /\ (~pending[i].struck \/ pending[i].weapon = "shotgun")
                   /\ InWindow(pending[i])}
           B == {i \in 1 .. Len(pending) :
                   pending[i].resolved /\ ~pending[i].struck /\ InWindow(pending[i])}
           C == {i \in 1 .. Len(pending) :
                   /\ ~pending[i].resolved /\ pending[i].fired
                   /\ ~pending[i].struck /\ InWindow(pending[i])}
           D == {i \in 1 .. Len(pending) :
                   /\ ~pending[i].resolved /\ pending[i].committed
                   /\ ~pending[i].struck /\ InWindow(pending[i])}
           First(I) == IF I # {} THEN Min(I) ELSE 0
<1>1. pending \in Seq(ShotRecord)
  BY DEF TrackerInv, Kept
<1>2. ImpactIndex = FirstOf(<<First(A), First(B), First(C), First(D)>>)
  BY Zenon DEF ImpactIndex, SelectInSeq
<1>3. ASSUME NEW I \in {A, B, C, D}
      PROVE  /\ First(I) \in Nat
             /\ First(I) > 0 => /\ First(I) \in 1 .. Len(pending)
                                /\ InWindow(pending[First(I)]) /\ Evident(pending[First(I)])
  <2>1. /\ I \subseteq 1 .. Len(pending) /\ I \subseteq Nat
        /\ \A i \in I : InWindow(pending[i]) /\ Evident(pending[i])
    <3>1. I \subseteq 1 .. Len(pending) /\ \A i \in I : InWindow(pending[i])
      OBVIOUS
    <3>2. \A i \in I : Evident(pending[i])
      <4>1. CASE I = A
        BY <4>1 DEF Evident
      <4>2. CASE I = B
        BY <4>2 DEF Evident
      <4>3. CASE I = C
        BY <4>3 DEF Evident
      <4>4. CASE I = D
        BY <4>4 DEF Evident
      <4> QED
        BY <4>1, <4>2, <4>3, <4>4
    <3> QED
      BY <3>1, <3>2
  <2> HIDE DEF A, B, C, D
  <2>2. I # {} => First(I) \in I
    BY <2>1, LeastIn
  <2>3. First(I) = 0 \/ First(I) \in I
    BY <2>2
  <2> HIDE DEF First
  <2>4. CASE First(I) = 0
    BY <2>4
  <2>5. CASE First(I) \in I
    BY <2>1, <2>5
  <2> QED
    BY <2>3, <2>4, <2>5
<1> HIDE DEF A, B, C, D, First
<1> DEFINE ks == <<First(A), First(B), First(C), First(D)>>
<1>4. ks \in Seq(Nat) /\ Len(ks) = 4 /\ ks[1] = First(A) /\ ks[2] = First(B)
      /\ ks[3] = First(C) /\ ks[4] = First(D)
  BY <1>3
<1> HIDE DEF ks
<1>5. PICK j \in 1 .. 4 : ImpactIndex = ks[j]
  BY <1>2, <1>4, FirstOfOne DEF ks
<1>6. ImpactIndex \in {First(A), First(B), First(C), First(D)}
  BY <1>4, <1>5
<1> QED
  BY <1>3, <1>6

-----------------------------------------------------------------------------
\* The loop of a sieve has a solution, however long the list is.
SiftTurn(p, T, n, sifted) == IF p[n] \in T THEN Append(sifted, p[n]) ELSE sifted

Sifts(p, T, m, f) ==
  f = [n \in 0 .. m |-> IF n = 0 THEN <<>> ELSE SiftTurn(p, T, n, f[n - 1])]

LEMMA SiftExists ==
  ASSUME NEW p, NEW T, Len(p) \in Nat
  PROVE  \E f : Sifts(p, T, Len(p), f)
<1> DEFINE Without == {m \in Nat : ~ \E f : Sifts(p, T, m, f)}
<1>1. ASSUME NEW m \in Without, \A k \in Without : m <= k PROVE FALSE
  <2>0. m \in Nat /\ ~ \E f : Sifts(p, T, m, f)
    OBVIOUS
  <2>1. CASE m = 0
    <3>1. Sifts(p, T, 0, [n \in 0 .. 0 |-> <<>>])
      BY DEF Sifts
    <3> HIDE DEF Without
    <3> QED
      BY <2>0, <2>1, <3>1
  <2>2. CASE m # 0
    <3>1. m - 1 \in Nat /\ m - 1 \notin Without
      <4> HIDE DEF Without
      <4> QED
        BY <1>1, <2>0, <2>2
    <3>2. PICK f : Sifts(p, T, m - 1, f)
      BY <3>1, Zenon
    <3> DEFINE g == [n \in 0 .. m |-> IF n = m THEN SiftTurn(p, T, m, f[m - 1]) ELSE f[n]]
    <3>3. \A n \in 0 .. m : g[n] = IF n = 0 THEN <<>> ELSE SiftTurn(p, T, n, g[n - 1])
      <4>1. \A n \in 0 .. m - 1 : f[n] = IF n = 0 THEN <<>> ELSE SiftTurn(p, T, n, f[n - 1])
        BY <3>2, Zenon DEF Sifts
      <4> SUFFICES ASSUME NEW n \in 0 .. m
                   PROVE  g[n] = IF n = 0 THEN <<>> ELSE SiftTurn(p, T, n, g[n - 1])
        OBVIOUS
      <4>2. CASE n = m
        <5>1. g[n] = SiftTurn(p, T, m, f[m - 1])
          BY <4>2
        <5>2. g[n - 1] = f[m - 1]
          BY <2>2, <4>2
        <5> QED
          BY <2>2, <4>2, <5>1, <5>2
      <4>3. CASE n # m
        <5>1. n \in 0 .. m - 1 /\ g[n] = f[n]
          BY <2>2, <4>3
        <5>2. n # 0 => g[n - 1] = f[n - 1]
          BY <2>2, <4>3
        <5> HIDE DEF g
        <5> QED
          BY <4>1, <5>1, <5>2
      <4> QED
        BY <4>2, <4>3
    <3>4. g = [n \in 0 .. m |-> g[n]]
      OBVIOUS
    <3> HIDE DEF g
    <3>5. Sifts(p, T, m, g)
      BY <3>3, <3>4, Zenon DEF Sifts
    <3> HIDE DEF Without
    <3> QED
      BY <2>0, <3>5
  <2> QED
    BY <2>1, <2>2
<1> HIDE DEF Without
<1>2. Without \subseteq Nat
  BY DEF Without
<1>3. Without = {}
  BY <1>1, <1>2, LeastNumber
<1> QED
  BY <1>3 DEF Without

\* What comes through a sieve: q is what T lets through of the first n members of
\* p, and m says where each stood.
Through(q, p, T, n, m) ==
  /\ Len(q) \in Nat
  /\ \A k \in 1 .. Len(q) : m[k] \in 1 .. n /\ q[k] = p[m[k]] /\ p[m[k]] \in T
  /\ \A k, l \in 1 .. Len(q) : k < l => m[k] < m[l]
  /\ \A i \in 1 .. n : p[i] \in T => \E k \in 1 .. Len(q) : m[k] = i

LEMMA SiftFacts ==
  ASSUME NEW S, NEW p \in Seq(S), NEW T
  PROVE  /\ Sift(p, T) \in Seq(S)
         /\ \E m : Through(Sift(p, T), p, T, Len(p), m)
<1> DEFINE f == CHOOSE f : f = [n \in 0 .. Len(p) |->
                                  IF n = 0 THEN <<>> ELSE SiftTurn(p, T, n, f[n - 1])]
           Right(n) == f[n] \in Seq(S) /\ \E m : Through(f[n], p, T, n, m)
           Wrong == {n \in 0 .. Len(p) : ~Right(n)}
<1>1. Len(p) \in Nat
  OBVIOUS
<1>2. f = [n \in 0 .. Len(p) |-> IF n = 0 THEN <<>> ELSE SiftTurn(p, T, n, f[n - 1])]
  <2>1. \E g : Sifts(p, T, Len(p), g)
    BY <1>1, SiftExists
  <2> QED
    BY <2>1, Zenon DEF Sifts
<1>3. Sift(p, T) = f[Len(p)]
  BY Zenon DEF Sift, SiftTurn
<1> HIDE DEF f
<1>4. /\ f[0] = <<>>
      /\ \A n \in 1 .. Len(p) : f[n] = SiftTurn(p, T, n, f[n - 1])
  <2>1. \A n \in 0 .. Len(p) : f[n] = IF n = 0 THEN <<>> ELSE SiftTurn(p, T, n, f[n - 1])
    BY <1>2, Zenon
  <2>2. 0 \in 0 .. Len(p) /\ \A n \in 1 .. Len(p) : n \in 0 .. Len(p) /\ n # 0
    BY <1>1
  <2> QED
    BY <2>1, <2>2
<1>5. ASSUME NEW n \in Wrong, \A k \in Wrong : n <= k PROVE FALSE
  <2>1. n # 0
    <3>1. Through(<<>>, p, T, 0, <<>>) /\ <<>> \in Seq(S)
      BY DEF Through
    <3>2. Right(0)
      BY <1>4, <3>1
    <3>3. ~Right(n)
      OBVIOUS
    <3> HIDE DEF Right, Wrong
    <3> QED
      BY <3>2, <3>3
  <2>2. n \in 1 .. Len(p) /\ n - 1 \in 0 .. Len(p) /\ n - 1 \notin Wrong
    <3>1. n \in 0 .. Len(p)
      OBVIOUS
    <3> HIDE DEF Wrong
    <3> QED
      BY <1>1, <1>5, <2>1, <3>1
  <2> DEFINE r == f[n - 1]
             q == f[n]
  <2>3. r \in Seq(S) /\ q = SiftTurn(p, T, n, r)
    BY <1>4, <2>2
  <2>4. PICK m : Through(r, p, T, n - 1, m)
    BY <2>2
  <2>5. ~Right(n)
    OBVIOUS
  <2> HIDE DEF q, r
  <2>6. CASE p[n] \notin T
    <3>1. q = r
      BY <2>3, <2>6 DEF SiftTurn
    <3>2. \A i \in 1 .. n : i = n \/ i \in 1 .. n - 1
      BY <2>2
    <3>3. \A i \in 1 .. n - 1 : i \in 1 .. n
      BY <2>2
    <3>4. Through(q, p, T, n, m)
      BY <2>4, <2>6, <3>1, <3>2, <3>3 DEF Through
    <3> QED
      BY <2>3, <2>5, <3>1, <3>4 DEF q
  <2>7. CASE p[n] \in T
    <3> DEFINE l == Len(r) + 1
               h == [k \in 1 .. l |-> IF k = l THEN n ELSE m[k]]
    <3>1. p[n] \in S
      BY <2>2
    <3>2. q = Append(r, p[n])
      BY <2>3, <2>7 DEF SiftTurn
    <3>3. /\ q \in Seq(S) /\ Len(q) = l /\ q[l] = p[n] /\ \A k \in 1 .. Len(r) : q[k] = r[k]
      BY <2>3, <3>1, <3>2, Appended
    <3>4. Len(r) \in Nat /\ l \in Nat
      BY <2>3
    <3>5. \A k \in 1 .. l : k = l \/ k \in 1 .. Len(r)
      BY <3>4
    <3>6. h[l] = n /\ \A k \in 1 .. Len(r) : h[k] = m[k]
      BY <3>4
    <3> HIDE DEF h
    <3>7. \A k \in 1 .. l : h[k] \in 1 .. n /\ q[k] = p[h[k]] /\ p[h[k]] \in T
      <4>1. \A i \in 1 .. n - 1 : i \in 1 .. n
        BY <2>2
      <4> SUFFICES ASSUME NEW k \in 1 .. l
                   PROVE  h[k] \in 1 .. n /\ q[k] = p[h[k]] /\ p[h[k]] \in T
        OBVIOUS
      <4>2. n \in 1 .. n
        BY <2>2
      <4>3. CASE k = l
        BY <2>7, <3>3, <3>6, <4>2, <4>3
      <4>4. CASE k \in 1 .. Len(r)
        BY <2>4, <3>3, <3>6, <4>1, <4>4 DEF Through
      <4> QED
        BY <3>5, <4>3, <4>4
    <3>8. \A j, k \in 1 .. l : j < k => h[j] < h[k]
      <4> SUFFICES ASSUME NEW j \in 1 .. l, NEW k \in 1 .. l, j < k PROVE h[j] < h[k]
        OBVIOUS
      <4>1. j \in 1 .. Len(r) /\ h[j] = m[j] /\ m[j] \in 1 .. n - 1
        BY <2>4, <3>4, <3>6 DEF Through
      <4>2. CASE k = l
        <5>1. h[k] = n /\ h[j] \in 1 .. n - 1
          BY <3>6, <4>1, <4>2
        <5> HIDE DEF l
        <5> QED
          BY <2>2, <5>1
      <4>3. CASE k # l
        <5>1. k \in 1 .. Len(r)
          BY <3>5, <4>3
        <5>2. m[j] < m[k]
          BY <2>4, <4>1, <5>1 DEF Through
        <5>3. h[k] = m[k]
          BY <3>6, <5>1
        <5> QED
          BY <4>1, <5>2, <5>3
      <4> QED
        BY <4>2, <4>3
    <3>9. \A i \in 1 .. n : p[i] \in T => \E k \in 1 .. l : h[k] = i
      <4> SUFFICES ASSUME NEW i \in 1 .. n, p[i] \in T PROVE \E k \in 1 .. l : h[k] = i
        OBVIOUS
      <4>1. CASE i = n
        <5>1. l \in 1 .. l
          BY <3>4
        <5> HIDE DEF l
        <5> QED
          BY <3>6, <4>1, <5>1
      <4>2. CASE i # n
        <5>1. i \in 1 .. n - 1
          BY <2>2, <4>2
        <5>2. PICK k \in 1 .. Len(r) : m[k] = i
          BY <2>4, <5>1 DEF Through
        <5>3. k \in 1 .. l /\ h[k] = i
          BY <3>4, <3>6, <5>2
        <5> QED
          BY <5>3
      <4> QED
        BY <4>1, <4>2
    <3>10. Through(q, p, T, n, h)
      BY <3>3, <3>4, <3>7, <3>8, <3>9 DEF Through
    <3> QED
      BY <2>5, <3>3, <3>10 DEF q
  <2> QED
    BY <2>6, <2>7
<1> HIDE DEF Wrong
<1>6. Wrong \subseteq Nat
  BY DEF Wrong
<1>7. Wrong = {}
  BY <1>5, <1>6, LeastNumber
<1>8. Len(p) \in 0 .. Len(p)
  BY <1>1
<1> QED
  BY <1>3, <1>7, <1>8 DEF Wrong

\* The sweep: each record that it leaves stood somewhere in the list.
Leaves(s) == ~Miss(s) /\ ~Forgotten(s)

Swept(q, p, m) ==
  /\ Len(q) \in Nat
  /\ q = [k \in 1 .. Len(q) |-> q[k]]
  /\ \A k \in 1 .. Len(q) : m[k] \in 1 .. Len(p) /\ q[k] = Aged(p[m[k]]) /\ Leaves(p[m[k]])
  /\ \A k, l \in 1 .. Len(q) : k < l => m[k] < m[l]
  /\ \A i \in 1 .. Len(p) : Leaves(p[i]) => \E k \in 1 .. Len(q) : m[k] = i

LEMMA Surviving ==
  ASSUME NEW S, NEW p \in Seq(S)
  PROVE  \E m : Swept(Survivors(p), p, m)
<1> DEFINE T == {s \in ToSet(p) : ~(Miss(s) \/ Forgotten(s))}
           kept == Sift(p, T)
           q == [i \in DOMAIN kept |-> Aged(kept[i])]
<1>1. Survivors(p) = q
  BY Zenon DEF Survivors
<1>2. \A i \in 1 .. Len(p) : p[i] \in T <=> Leaves(p[i])
  BY DEF ToSet, Leaves
<1> HIDE DEF T
<1>3. kept \in Seq(S) /\ \E m : Through(kept, p, T, Len(p), m)
  BY SiftFacts
<1>4. PICK m : Through(kept, p, T, Len(p), m)
  BY <1>3
<1> HIDE DEF kept
<1>5. Len(kept) \in Nat /\ DOMAIN kept = 1 .. Len(kept)
  BY <1>3
<1>6. /\ Len(q) = Len(kept) /\ q = [k \in 1 .. Len(kept) |-> q[k]]
      /\ \A k \in 1 .. Len(kept) : q[k] = Aged(kept[k])
  BY <1>5
<1> HIDE DEF q
<1>7. \A k \in 1 .. Len(kept) : m[k] \in 1 .. Len(p) /\ q[k] = Aged(p[m[k]]) /\ Leaves(p[m[k]])
  BY <1>2, <1>4, <1>6 DEF Through
<1>8. /\ \A k, l \in 1 .. Len(kept) : k < l => m[k] < m[l]
      /\ \A i \in 1 .. Len(p) : Leaves(p[i]) => \E k \in 1 .. Len(kept) : m[k] = i
  BY <1>2, <1>4 DEF Through
<1>9. Swept(q, p, m)
  BY <1>5, <1>6, <1>7, <1>8, Zenon DEF Swept
<1> QED
  BY <1>1, <1>9

LEMMA SweepKeeps ==
  ASSUME TrackerTypes, NEW p, Kept(p, command, Made)
  PROVE  Aging(Survivors(p))
<1> DEFINE q == Survivors(p)
<1>1. p \in Seq(ShotRecord) /\ now \in Nat
  BY DEF Kept, TrackerTypes
<1> HIDE DEF q
<1>2. PICK m : Swept(q, p, m)
  BY <1>1, Surviving DEF q
<1>3. ASSUME NEW k \in 1 .. Len(q)
      PROVE  /\ q[k] \in ShotRecord /\ Timed(q[k], now) /\ Timed(q[k], now + 1)
             /\ q[k].cmd <= command
             /\ q[k].cmd \in Made => q[k].time = now
  <2>1. PICK i \in 1 .. Len(p) : q[k] = Aged(p[i]) /\ Leaves(p[i])
    BY <1>2 DEF Swept
  <2>2. /\ p[i] \in ShotRecord /\ Timed(p[i], now) /\ p[i].cmd <= command
        /\ p[i].cmd \in Made => p[i].time = now
    BY <1>1 DEF Kept
  <2>3. /\ q[k] \in ShotRecord /\ q[k].cmd = p[i].cmd /\ q[k].time = p[i].time
        /\ Timed(q[k], now) /\ Timed(q[k], now + 1)
    BY <1>1, <2>1, <2>2, SweepFits DEF Leaves
  <2> QED
    BY <2>2, <2>3
<1>4. Len(q) \in Nat /\ q = [k \in 1 .. Len(q) |-> q[k]]
  BY <1>2, Zenon DEF Swept
<1>5. q \in Seq(ShotRecord)
  <2>1. \A k \in 1 .. Len(q) : q[k] \in ShotRecord
    BY <1>3
  <2>2. [k \in 1 .. Len(q) |-> q[k]] \in Seq(ShotRecord)
    BY <1>4, <2>1
  <2> QED
    BY <1>4, <2>2
<1> QED
  BY <1>3, <1>5 DEF Aging, Kept, q

-----------------------------------------------------------------------------
\* The events of the server.
LEMMA WeaponFireStep ==
  ASSUME TrackerInv, WeaponFire
  PROVE  TrackerInv'
<1> DEFINE c == Head(wire).cmd
           w == IF Head(wire).impacts = 2 THEN "shotgun" ELSE "rifle"
           token == Shot(Anonymous, FALSE, NoVictim, w, TRUE)
<1>1. /\ TrackerTypes /\ Kept(pending, command, Made) /\ now \in Nat /\ command \in Nat
      /\ wire # <<>> /\ c \in 1 .. MaxCommand /\ Head(wire) \in Group
  BY HeadTypes DEF TrackerInv, TrackerTypes, WeaponFire
<1>2. /\ now' = now /\ command' = command /\ moved' = moved /\ nextImpact' = nextImpact
      /\ wire' = [wire EXCEPT ![1].fired = TRUE] /\ Made' = Made
  BY DEF WeaponFire, Made
<1>3. ASSUME FireIndex > 0
      PROVE  Kept(pending', command, Made) /\ nextShot' = nextShot
  <2> DEFINE r == Confirmed(pending[FireIndex], c)
  <2>1. FireIndex \in 1 .. Len(pending) /\ FireMatches(pending[FireIndex])
    BY <1>3, FireFound
  <2>2. /\ pending[FireIndex] \in ShotRecord /\ Timed(pending[FireIndex], now)
        /\ pending[FireIndex].cmd <= command
        /\ pending[FireIndex].cmd \in Made => pending[FireIndex].time = now
    BY <1>1, <2>1 DEF Kept
  <2>3. /\ r \in ShotRecord /\ Timed(r, now)
        /\ r.cmd = pending[FireIndex].cmd /\ r.time = pending[FireIndex].time
    BY <1>1, <2>1, <2>2, FireFits
  <2>4. pending' = [pending EXCEPT ![FireIndex] = r] /\ nextShot' = nextShot
    BY <1>3 DEF WeaponFire
  <2> HIDE DEF r
  <2>5. Kept(pending', command, Made)
    BY <1>1, <2>1, <2>2, <2>3, <2>4, ReplaceKeeps
  <2> QED
    BY <2>4, <2>5
<1>4. ASSUME ~(FireIndex > 0)
      PROVE  Kept(pending', command, Made) /\ nextShot' = nextShot + 1
  <2> DEFINE r == Confirmed(token, c)
  <2>1. /\ token \in ShotRecord /\ Timed(token, now) /\ token.cmd = 0 /\ token.time = now
    BY <1>1, ShotFits DEF Anonymous, Weapons
  <2>2. FireMatches(token)
    BY <1>1 DEF FireMatches, Shot, CommittedAt, Age
  <2> HIDE DEF token
  <2>3. r \in ShotRecord /\ Timed(r, now) /\ r.cmd = 0 /\ r.time = now
    BY <1>1, <2>1, <2>2, FireFits
  <2>4. pending' = Append(pending, r) /\ nextShot' = nextShot + 1
    BY <1>4 DEF WeaponFire, token
  <2> HIDE DEF r
  <2>5. Kept(pending', command, Made)
    BY <1>1, <2>3, <2>4, AppendKeeps
  <2> QED
    BY <2>4, <2>5
<1>5. Kept(pending', command, Made) /\ nextShot' \in {nextShot, nextShot + 1}
  BY <1>3, <1>4
<1>6. wire' \in Seq(Group)
  <2>1. [Head(wire) EXCEPT !.fired = TRUE] \in Group
    BY <1>1 DEF Group
  <2>2. wire' = [wire EXCEPT ![1] = [Head(wire) EXCEPT !.fired = TRUE]]
    BY <1>1, <1>2 DEF TrackerTypes
  <2> QED
    BY <1>1, <2>1, <2>2 DEF TrackerTypes
<1>7. TrackerTypes'
  BY <1>1, <1>2, <1>5, <1>6 DEF TrackerTypes
<1>8. Kept(pending, command, Made)'
  BY <1>2, <1>5 DEF Kept, Timed
<1> QED
  BY <1>2, <1>7, <1>8 DEF TrackerInv

\* The sweep after an impact, and the end of the step.
LEMMA BulletImpactStep ==
  ASSUME TrackerInv, BulletImpact
  PROVE  TrackerInv'
<1> DEFINE c == Head(wire).cmd
<1>1. /\ TrackerTypes /\ Kept(pending, command, Made) /\ now \in Nat /\ command \in Nat
      /\ nextImpact \in Int
      /\ wire # <<>> /\ c \in 1 .. MaxCommand /\ Head(wire) \in Group
  BY HeadTypes DEF TrackerInv, TrackerTypes, BulletImpact
<1>2. Kept(Impacted, command, Made)
  <2>1. CASE ImpactIndex > 0
    <3> DEFINE r == Struck(pending[ImpactIndex], c)
    <3>1. ImpactIndex \in 1 .. Len(pending) /\ InWindow(pending[ImpactIndex])
      BY <2>1, ImpactFound
    <3>2. /\ pending[ImpactIndex] \in ShotRecord /\ Timed(pending[ImpactIndex], now)
          /\ pending[ImpactIndex].cmd <= command
          /\ pending[ImpactIndex].cmd \in Made => pending[ImpactIndex].time = now
      BY <1>1, <3>1 DEF Kept
    <3>3. /\ r \in ShotRecord /\ Timed(r, now)
          /\ r.cmd = pending[ImpactIndex].cmd /\ r.time = pending[ImpactIndex].time
      BY <1>1, <3>1, <3>2, ImpactFits
    <3>4. Impacted = [pending EXCEPT ![ImpactIndex] = r]
      BY <2>1 DEF Impacted
    <3> HIDE DEF r
    <3> QED
      BY <1>1, <3>1, <3>2, <3>3, <3>4, ReplaceKeeps
  <2>2. CASE ~(ImpactIndex > 0)
    BY <1>1, <2>2 DEF Impacted
  <2> QED
    BY <2>1, <2>2
<1>3. Aging(Survivors(Impacted))
  BY <1>1, <1>2, SweepKeeps
<1>4. /\ pending' = Survivors(Impacted)
      /\ now' = now /\ command' = command /\ moved' = moved /\ nextShot' = nextShot
      /\ nextImpact' \in {nextImpact, nextImpact + 1} /\ Made' = Made
      /\ wire' = Rest([Head(wire) EXCEPT !.impacts = @ - 1])
  BY DEF BulletImpact, CheckMisses, Made
<1>5. wire' \in Seq(Group)
  <2>1. [Head(wire) EXCEPT !.impacts = @ - 1] \in Group
    <3>1. Head(wire).impacts > 0
      BY DEF BulletImpact
    <3>2. PICK g \in Group : g = Head(wire)
      BY <1>1
    <3>3. g.impacts \in 0 .. 2 /\ g.impacts - 1 \in 0 .. 2
      BY <3>1, <3>2 DEF Group
    <3>4. [g EXCEPT !.impacts = g.impacts - 1] \in Group
      BY <3>3 DEF Group
    <3> QED
      BY <3>2, <3>4
  <2> QED
    BY <1>1, <1>4, <2>1, RestTypes
<1>6. TrackerTypes'
  <2>1. nextImpact' \in Int
    BY <1>1, <1>4
  <2> QED
    BY <1>1, <1>4, <1>5, <2>1 DEF TrackerTypes
<1>7. Kept(pending, command, Made)'
  BY <1>3, <1>4 DEF Aging, Kept, Timed
<1> QED
  BY <1>4, <1>6, <1>7 DEF TrackerInv

LEMMA PlayerHurtStep ==
  ASSUME TrackerInv, PlayerHurt
  PROVE  TrackerInv'
<1> DEFINE c == Head(wire).cmd
           i == HurtIndex(Head(wire).hurts)
<1>1. /\ TrackerTypes /\ Kept(pending, command, Made) /\ now \in Nat
      /\ wire # <<>> /\ c \in 1 .. MaxCommand /\ Head(wire) \in Group
  BY HeadTypes DEF TrackerInv, TrackerTypes, PlayerHurt
<1>2. /\ pending' = IF i > 0 THEN [pending EXCEPT ![i] = Hurt(@, c)] ELSE pending
      /\ now' = now /\ command' = command /\ moved' = moved /\ nextShot' = nextShot
      /\ nextImpact' = nextImpact /\ Made' = Made
      /\ wire' = Rest([Head(wire) EXCEPT !.hurts = NoVictim])
  BY DEF PlayerHurt, Made
<1> HIDE DEF i
<1>3. Kept(pending', command, Made)
  <2>1. CASE i > 0 /\ i \in 1 .. Len(pending)
    <3> DEFINE r == Hurt(pending[i], c)
    <3>1. /\ pending[i] \in ShotRecord /\ Timed(pending[i], now)
          /\ pending[i].cmd <= command
          /\ pending[i].cmd \in Made => pending[i].time = now
      BY <1>1, <2>1 DEF Kept
    <3>2. /\ r \in ShotRecord /\ Timed(r, now)
          /\ r.cmd = pending[i].cmd /\ r.time = pending[i].time
      BY <1>1, <3>1, HurtFits
    <3>3. pending' = [pending EXCEPT ![i] = r]
      BY <1>2, <2>1
    <3> HIDE DEF r
    <3> QED
      BY <1>1, <2>1, <3>1, <3>2, <3>3, ReplaceKeeps
  <2>2. CASE ~(i > 0)
    BY <1>1, <1>2, <2>2
  <2>3. CASE i \notin 1 .. Len(pending)
    <3>1. pending \in Seq(ShotRecord)
      BY <1>1 DEF Kept
    <3>2. pending' = pending
      BY <1>2, <2>3, <3>1
    <3> QED
      BY <1>1, <3>2
  <2> QED
    BY <2>1, <2>2, <2>3
<1>4. wire' \in Seq(Group)
  <2>1. [Head(wire) EXCEPT !.hurts = NoVictim] \in Group
    BY <1>1 DEF Group
  <2> QED
    BY <1>1, <1>2, <2>1, RestTypes
<1>5. TrackerTypes'
  BY <1>1, <1>2, <1>4 DEF TrackerTypes
<1>6. Kept(pending, command, Made)'
  BY <1>2, <1>3 DEF Kept, Timed
<1> QED
  BY <1>2, <1>5, <1>6 DEF TrackerInv

-----------------------------------------------------------------------------
\* A frame lets every time-out pass by one unit at most, after its sweep.
LEMMA FrameStep ==
  ASSUME TrackerInv, NEW works \in BOOLEAN, Frame(works)
  PROVE  TrackerInv'
<1>1. TrackerTypes /\ Kept(pending, command, Made) /\ now \in Nat
  BY DEF TrackerInv, TrackerTypes
<1>2. Aging(Survivors(pending))
  BY <1>1, SweepKeeps
<1>3. /\ pending' = Survivors(pending)
      /\ now' \in {now, now + 1} /\ moved' = FALSE /\ command' = command
      /\ nextShot' = nextShot /\ nextImpact' = nextImpact /\ wire' = wire
      /\ Made' = {}
  BY DEF Frame, CheckMisses, Made
<1>4. TrackerTypes'
  <2>1. now' \in Nat \ {0}
    BY <1>1, <1>3 DEF TrackerTypes
  <2> QED
    BY <1>1, <1>3, <2>1 DEF TrackerTypes
<1>5. \A k \in 1 .. Len(pending') : Timed(pending'[k], now')
  <2>1. CASE now' = now
    BY <1>2, <1>3, <2>1 DEF Aging, Kept
  <2>2. CASE now' = now + 1
    BY <1>2, <1>3, <2>2 DEF Aging
  <2> QED
    BY <1>3, <2>1, <2>2
<1>6. Kept(pending, command, Made)'
  BY <1>2, <1>3, <1>5 DEF Aging, Kept, Timed
<1> QED
  BY <1>3, <1>4, <1>6 DEF TrackerInv

\* A round or a level drops the records.
LEMMA BoundaryStep ==
  ASSUME TrackerInv, NEW works \in BOOLEAN, RoundStart(works) \/ LevelChange
  PROVE  TrackerInv'
<1>1. /\ pending' = <<>> /\ nextShot' = 1 /\ nextImpact' = 1 /\ wire' = <<>>
      /\ now' = now /\ command' = command /\ moved' = moved
  BY DEF RoundStart, LevelChange, Boundary, history
<1>2. TrackerTypes'
  BY <1>1 DEF TrackerInv, TrackerTypes
<1>3. Kept(pending, command, Made)'
  BY <1>1 DEF Kept
<1> QED
  BY <1>1, <1>2, <1>3 DEF TrackerInv

LEMMA TrackerInvInit == Init => TrackerInv
<1> SUFFICES ASSUME Init PROVE TrackerInv
  OBVIOUS
<1>1. TrackerTypes
  <2>1. /\ nextShot = 1 /\ nextImpact = 1 /\ now = 1 /\ command = 0 /\ moved = FALSE
        /\ wire = <<>>
    BY DEF Init
  <2>2. moved \in BOOLEAN
    BY <2>1, Zenon
  <2>3. wire \in Seq(Group)
    BY <2>1
  <2>4. nextShot \in Int /\ nextImpact \in Int /\ now \in Nat \ {0} /\ command \in Nat
    BY <2>1
  <2> QED
    BY <2>2, <2>3, <2>4 DEF TrackerTypes
<1>2. Kept(pending, command, Made)
  BY DEF Init, Kept
<1> QED
  BY <1>1, <1>2 DEF Init, TrackerInv

LEMMA TrackerInvStep == TrackerInv /\ [Next]_vars => TrackerInv'
<1> SUFFICES ASSUME TrackerInv, [Next]_vars PROVE TrackerInv'
  OBVIOUS
<1>1. ASSUME NEW rage \in BOOLEAN, NEW commits \in BOOLEAN, NEW claimed \in BOOLEAN,
             NEW c \in 1 .. MaxCommand, NEW v \in Victims, NEW w \in Weapons,
             NEW result \in Victims \cup {NoVictim, "rejected"},
             CreateMove(c, rage, commits, claimed, v, w, result)
      PROVE  TrackerInv'
  BY <1>1, CreateMoveStep
<1>2. CASE WeaponFire
  BY <1>2, WeaponFireStep
<1>3. CASE BulletImpact
  BY <1>3, BulletImpactStep
<1>4. CASE PlayerHurt
  BY <1>4, PlayerHurtStep
<1>5. ASSUME NEW works \in BOOLEAN, Frame(works) PROVE TrackerInv'
  BY <1>5, FrameStep
<1>6. ASSUME NEW works \in BOOLEAN, RoundStart(works) PROVE TrackerInv'
  BY <1>6, BoundaryStep
<1>7. CASE LevelChange
  BY <1>7, BoundaryStep
<1>8. CASE UNCHANGED vars
  BY <1>8 DEF vars, TrackerInv, TrackerTypes, Kept, Timed, Made
<1> QED
  BY <1>1, <1>2, <1>3, <1>4, <1>5, <1>6, <1>7, <1>8 DEF Next

LEMMA AlwaysTrackerInv == Spec => []TrackerInv
<1> QED
  BY TrackerInvInit, TrackerInvStep, PTL DEF Spec

-----------------------------------------------------------------------------
(***************************************************************************)
(* Whose evidence a record takes.  The events carry no command number, so  *)
(* the invariant follows each shot on the wire to the record that awaits   *)
(* it, as long as every attack up to it has a record.                      *)
(***************************************************************************)

HIDE TimeoutAssumption
HIDE BoundAssumption

\* No attack without a record is as old as c.
Clear(U, c) == \A d \in U : c < d

\* Records stand in the order in which they and their commands were made.
InOrder(p, n) ==
  \A i \in 1 .. Len(p) :
    /\ p[i].seq < n
    /\ \A j \in 1 .. Len(p) : j < i =>
         /\ p[j].seq < p[i].seq
         /\ p[j].cmd > 0 /\ p[i].cmd > 0 => p[j].cmd < p[i].cmd

\* The wire holds shots in the order of their commands; only the first can have
\* been fired, and none is overdue.
Traffic(w, c, fresh, t) ==
  \A k \in 1 .. Len(w) :
    /\ w[k].cmd <= c
    /\ Rtt < w[k].due /\ w[k].due <= t + Rtt
    /\ w[k].cmd \in fresh => w[k].due = t + Rtt
    /\ IF w[k].fired THEN k = 1 /\ w[k].due <= t /\ t <= w[k].due + Late ELSE t <= w[k].due
    /\ \A j \in 1 .. Len(w) : j < k => w[j].cmd < w[k].cmd

\* While the clock runs, no two commands have records of one unit; a record
\* without a command is a fire's token.
Spaced(p, t, fresh) ==
  \A i \in 1 .. Len(p) :
    /\ p[i].cmd = 0 => p[i].fired
    /\ p[i].cmd > 0 /\ p[i].time = t => p[i].cmd \in fresh \/ t >= MaxTime
    /\ \A j \in 1 .. Len(p) :
         p[i].cmd > 0 /\ p[j].cmd > 0 /\ p[j].time = p[i].time =>
           p[j].cmd = p[i].cmd \/ p[i].time >= MaxTime

\* Evidence is what marks a record, and comes from shots that were sent before
\* those that still have events to come.
Past(p, w, c, fresh) ==
  \A i \in 1 .. Len(p) :
    /\ p[i].of = {} => ~p[i].fired /\ ~p[i].struck /\ ~p[i].resolved
    /\ \A e \in p[i].of :
         /\ e <= c /\ e \notin fresh
         /\ \A k \in 1 .. Len(w) : e < w[k].cmd \/ (k = 1 /\ w[k].fired /\ e = w[k].cmd)

\* A record without evidence does not time out in the unit it was made in.
Patient(p, t) ==
  \A i \in 1 .. Len(p) : p[i].of = {} /\ p[i].missPending => p[i].time < t

\* RightShot of the list p.
Rightful(p, U) == \A i \in 1 .. Len(p) : \A e \in p[i].of : Clear(U, e) => p[i].cmd = e

\* s is the record that the events of group g belong to, and can still take them.
Awaits(s, g, a) ==
  /\ s.cmd = g.cmd /\ s.committed /\ s.time = g.due - Rtt
  /\ s.fired = g.fired
  /\ s.rage => g.hurts \in {NoVictim, s.victim}
  /\ s.weapon = "shotgun" \/ g.impacts = 0 \/ (g.impacts = 1 /\ ~s.struck)
  /\ ~g.fired => s.of = {} /\ ~s.missPending
  /\ g.fired => s.seq = a /\ s.firedAt = g.due
  /\ s.struck => s.struckAt >= g.due
  /\ s.resolved => s.resolvedAt >= g.due /\ g.hurts = NoVictim
  /\ s.rage /\ s.missPending /\ ~s.resolved =>
       s.resolvedAt > IF s.struck THEN g.due + Grace ELSE s.time + Absolute

Own(p, w, a, U) ==
  \A k \in 1 .. Len(w) : Clear(U, w[k].cmd) => \E i \in 1 .. Len(p) : Awaits(p[i], w[k], a)

\* The impacts of the shot that is being told of are the latest of all.
Latest(p, w, n, t, U) ==
  \A i \in 1 .. Len(p) : p[i].struck =>
    /\ p[i].order < n /\ p[i].struckAt <= t
    /\ \A k \in 1 .. Len(w) : w[k].fired /\ Clear(U, w[k].cmd) /\ p[i].cmd # w[k].cmd =>
         /\ p[i].struckAt <= w[k].due
         /\ \A j \in 1 .. Len(p) : p[j].cmd = w[k].cmd /\ p[j].struck => p[i].order < p[j].order

\* What holds of a list of records, a wire and the numbers beside them.
Evidence(p, w, a, n, m, c, fresh, t, U) ==
  /\ InOrder(p, n)
  /\ Traffic(w, c, fresh, t)
  /\ Spaced(p, t, fresh)
  /\ Past(p, w, c, fresh)
  /\ Patient(p, t)
  /\ Rightful(p, U)
  /\ Own(p, w, a, U)
  /\ Latest(p, w, m, t, U)

\* The inductive invariant of RightShot, beside TrackerInv.
EvidenceInv ==
  /\ now <= MaxTime \/ now = 1
  /\ Unrecorded \subseteq Nat
  /\ Evidence(pending, wire, active, nextShot, nextImpact, command, Made, now, Unrecorded)


\* The fields of a record that the numbers of the invariant are about.
Fields(s) ==
  /\ s.seq \in Int /\ s.cmd \in Nat /\ s.order \in Int /\ s.of \subseteq 1 .. MaxCommand
  /\ s.time \in Nat /\ s.committedAt \in Nat /\ s.firedAt \in Nat /\ s.struckAt \in Nat
  /\ s.resolvedAt \in Nat

\* What of a group is a number.
Parcel(g) ==
  g.cmd \in Nat /\ 0 < g.cmd /\ g.due \in Nat /\ g.impacts \in 0 .. 2

LEMMA KeptFields ==
  ASSUME NEW c, NEW fresh, NEW p, Kept(p, c, fresh)
  PROVE  /\ p \in Seq(ShotRecord) /\ Len(p) \in Nat /\ DOMAIN p = 1 .. Len(p)
         /\ \A i \in 1 .. Len(p) : p[i] \in ShotRecord /\ Fields(p[i])
<1>1. p \in Seq(ShotRecord) /\ Len(p) \in Nat /\ DOMAIN p = 1 .. Len(p)
  BY DEF Kept
<1>2. ASSUME NEW i \in 1 .. Len(p) PROVE p[i] \in ShotRecord /\ Fields(p[i])
  <2>1. p[i] \in ShotRecord
    BY <1>1
  <2> QED
    BY <2>1 DEF ShotRecord, Fields
<1> QED
  BY <1>1, <1>2

LEMMA WireParcels ==
  ASSUME NEW w \in Seq(Group)
  PROVE  /\ Len(w) \in Nat /\ DOMAIN w = 1 .. Len(w)
         /\ \A k \in 1 .. Len(w) : w[k] \in Group /\ Parcel(w[k])
<1>1. Len(w) \in Nat /\ DOMAIN w = 1 .. Len(w)
  OBVIOUS
<1>2. ASSUME NEW k \in 1 .. Len(w) PROVE w[k] \in Group /\ Parcel(w[k])
  <2>1. w[k] \in Group
    BY <1>1
  <2> QED
    BY <2>1 DEF Group, Parcel
<1> QED
  BY <1>1, <1>2

\* If some shot on the wire is clear, the first is, and no evidence is younger.
LEMMA HeadClear ==
  ASSUME NEW w \in Seq(Group), NEW c, NEW fresh, NEW t, Traffic(w, c, fresh, t),
         NEW U, U \subseteq Nat, NEW k \in 1 .. Len(w), Clear(U, w[k].cmd)
  PROVE  Clear(U, w[1].cmd)
<1>1. Len(w) \in Nat /\ 1 \in 1 .. Len(w) /\ w[1].cmd \in Nat /\ w[k].cmd \in Nat
  BY WireParcels DEF Parcel
<1>2. w[1].cmd <= w[k].cmd
  BY <1>1 DEF Traffic
<1> QED
  BY <1>1, <1>2 DEF Clear

\* Two records of one command are the same.
LEMMA OneRecord ==
  ASSUME NEW p, Len(p) \in Nat, NEW n, InOrder(p, n), \A k \in 1 .. Len(p) : Fields(p[k]),
         NEW i \in 1 .. Len(p), NEW j \in 1 .. Len(p)
  PROVE  /\ p[i].cmd = p[j].cmd /\ p[i].cmd > 0 => i = j
         /\ p[i].seq = p[j].seq => i = j
         /\ 0 < p[i].cmd /\ p[i].cmd < p[j].cmd => p[i].seq < p[j].seq
<1>1. i < j \/ j < i \/ i = j
  OBVIOUS
<1>2. p[i].cmd \in Nat /\ p[j].cmd \in Nat /\ p[i].seq \in Int /\ p[j].seq \in Int
  BY DEF Fields
<1> QED
  BY <1>1, <1>2 DEF InOrder

LEMMA Times ==
  /\ MaxTime \in Nat /\ MaxPending \in Nat /\ MaxPending > 0 /\ MaxCommand \in Nat
  /\ Rtt \in Nat /\ Late \in Nat /\ FireAge \in Nat /\ Window \in Nat /\ Grace \in Nat
  /\ Absolute \in Nat /\ Uncommitted \in Nat /\ Tombstone \in Nat /\ Finalization \in Nat
  /\ 0 < Rtt /\ Rtt <= FireAge /\ Rtt < Absolute /\ Uncommitted <= Absolute
  /\ Late <= Grace + Finalization /\ Rtt + Late <= Window /\ Late <= Absolute
  /\ Rtt + Late <= Absolute + Finalization /\ Late <= Tombstone
BY BoundAssumption, TimeoutAssumption, ServerAssumption

\* A shorter list of the same records, in their order, that may have timed out.
Same(r, s) ==
  /\ r.seq = s.seq /\ r.cmd = s.cmd /\ r.time = s.time
  /\ r.rage = s.rage /\ r.victim = s.victim /\ r.weapon = s.weapon
  /\ r.committed = s.committed /\ r.fired = s.fired /\ r.struck = s.struck
  /\ r.resolved = s.resolved /\ r.firedAt = s.firedAt /\ r.struckAt = s.struckAt
  /\ r.order = s.order /\ r.of = s.of

Thinned(q, p, m) ==
  /\ Len(q) \in Nat
  /\ \A k \in 1 .. Len(q) : m[k] \in 1 .. Len(p) /\ Same(q[k], p[m[k]])
  /\ \A k, l \in 1 .. Len(q) : k < l => m[k] < m[l]

LEMMA ThinnedKeeps ==
  ASSUME NEW p, NEW q, NEW m, Thinned(q, p, m), NEW U, NEW V, U \subseteq V,
         NEW w, NEW n, NEW o, NEW c, NEW fresh, NEW t
  PROVE  /\ InOrder(p, n) => InOrder(q, n)
         /\ Spaced(p, t, fresh) => Spaced(q, t, fresh)
         /\ Past(p, w, c, fresh) => Past(q, w, c, fresh)
         /\ Rightful(p, U) => Rightful(q, V)
         /\ Latest(p, w, o, t, U) => Latest(q, w, o, t, V)
<1>1. \A k \in 1 .. Len(q) :
        /\ m[k] \in 1 .. Len(p)
        /\ q[k].seq = p[m[k]].seq /\ q[k].cmd = p[m[k]].cmd /\ q[k].time = p[m[k]].time
        /\ q[k].of = p[m[k]].of /\ q[k].fired = p[m[k]].fired /\ q[k].struck = p[m[k]].struck
        /\ q[k].resolved = p[m[k]].resolved /\ q[k].struckAt = p[m[k]].struckAt
        /\ q[k].order = p[m[k]].order
  BY DEF Thinned, Same
<1>2. \A k, l \in 1 .. Len(q) : k < l => m[k] < m[l]
  BY DEF Thinned
<1>3. \A e : Clear(V, e) => Clear(U, e)
  BY DEF Clear
<1>4. ASSUME InOrder(p, n) PROVE InOrder(q, n)
  BY <1>1, <1>2, <1>4 DEF InOrder
<1>5. ASSUME Spaced(p, t, fresh) PROVE Spaced(q, t, fresh)
  <2> SUFFICES ASSUME NEW i \in 1 .. Len(q)
               PROVE  /\ q[i].cmd = 0 => q[i].fired
                      /\ q[i].cmd > 0 /\ q[i].time = t => q[i].cmd \in fresh \/ t >= MaxTime
                      /\ \A j \in 1 .. Len(q) :
                           q[i].cmd > 0 /\ q[j].cmd > 0 /\ q[j].time = q[i].time =>
                             q[j].cmd = q[i].cmd \/ q[i].time >= MaxTime
    BY DEF Spaced
  <2>1. m[i] \in 1 .. Len(p) /\ \A j \in 1 .. Len(q) : m[j] \in 1 .. Len(p)
    BY <1>1
  <2>2. \A j \in 1 .. Len(p) :
          p[m[i]].cmd > 0 /\ p[j].cmd > 0 /\ p[j].time = p[m[i]].time =>
            p[j].cmd = p[m[i]].cmd \/ p[m[i]].time >= MaxTime
    BY <1>5, <2>1 DEF Spaced
  <2>3. /\ p[m[i]].cmd = 0 => p[m[i]].fired
        /\ p[m[i]].cmd > 0 /\ p[m[i]].time = t => p[m[i]].cmd \in fresh \/ t >= MaxTime
    BY <1>5, <2>1 DEF Spaced
  <2> QED
    BY <1>1, <2>1, <2>2, <2>3
<1>6. ASSUME Past(p, w, c, fresh) PROVE Past(q, w, c, fresh)
  <2> SUFFICES ASSUME NEW i \in 1 .. Len(q)
               PROVE  /\ q[i].of = {} => ~q[i].fired /\ ~q[i].struck /\ ~q[i].resolved
                      /\ \A e \in q[i].of :
                           /\ e <= c /\ e \notin fresh
                           /\ \A k \in 1 .. Len(w) :
                                e < w[k].cmd \/ (k = 1 /\ w[k].fired /\ e = w[k].cmd)
    BY DEF Past
  <2> QED
    BY <1>1, <1>6 DEF Past
<1>7. ASSUME Rightful(p, U) PROVE Rightful(q, V)
  BY <1>1, <1>3, <1>7 DEF Rightful
<1>8. ASSUME Latest(p, w, o, t, U) PROVE Latest(q, w, o, t, V)
  <2> SUFFICES ASSUME NEW i \in 1 .. Len(q), q[i].struck
               PROVE  /\ q[i].order < o /\ q[i].struckAt <= t
                      /\ \A k \in 1 .. Len(w) :
                           w[k].fired /\ Clear(V, w[k].cmd) /\ q[i].cmd # w[k].cmd =>
                             /\ q[i].struckAt <= w[k].due
                             /\ \A j \in 1 .. Len(q) :
                                  q[j].cmd = w[k].cmd /\ q[j].struck => q[i].order < q[j].order
    BY DEF Latest
  <2>1. /\ m[i] \in 1 .. Len(p) /\ p[m[i]].struck
        /\ \A j \in 1 .. Len(q) : m[j] \in 1 .. Len(p)
    BY <1>1
  <2>2. p[m[i]].order < o /\ p[m[i]].struckAt <= t
    BY <1>8, <2>1 DEF Latest
  <2>3. ASSUME NEW k \in 1 .. Len(w), w[k].fired, Clear(V, w[k].cmd), p[m[i]].cmd # w[k].cmd
        PROVE  /\ p[m[i]].struckAt <= w[k].due
               /\ \A j \in 1 .. Len(p) :
                    p[j].cmd = w[k].cmd /\ p[j].struck => p[m[i]].order < p[j].order
    BY <1>3, <1>8, <2>1, <2>3 DEF Latest
  <2>4. ASSUME NEW k \in 1 .. Len(w), w[k].fired, Clear(V, w[k].cmd), q[i].cmd # w[k].cmd
        PROVE  /\ q[i].struckAt <= w[k].due
               /\ \A j \in 1 .. Len(q) : q[j].cmd = w[k].cmd /\ q[j].struck => q[i].order < q[j].order
    <3>1. q[i].struckAt = p[m[i]].struckAt /\ q[i].order = p[m[i]].order /\ p[m[i]].cmd # w[k].cmd
      BY <1>1, <2>4
    <3>2. /\ p[m[i]].struckAt <= w[k].due
          /\ \A j \in 1 .. Len(p) : p[j].cmd = w[k].cmd /\ p[j].struck => p[m[i]].order < p[j].order
      BY <2>3, <2>4, <3>1
    <3>3. \A j \in 1 .. Len(q) :
            m[j] \in 1 .. Len(p) /\ q[j].cmd = p[m[j]].cmd /\ q[j].struck = p[m[j]].struck
            /\ q[j].order = p[m[j]].order
      BY <1>1
    <3> QED
      BY <3>1, <3>2, <3>3
  <2>5. q[i].order < o /\ q[i].struckAt <= t
    BY <1>1, <2>2
  <2> QED
    BY <2>4, <2>5
<1> QED
  BY <1>4, <1>5, <1>6, <1>7, <1>8

-----------------------------------------------------------------------------
\* An event takes its part of the first shot on the wire, g is what remains of it,
\* or, if s is 1, nothing remains.
Moved(v, w, g, s) ==
  /\ s \in {0, 1} /\ Len(w) > 0 /\ Len(v) = Len(w) - s
  /\ \A k \in 1 .. Len(v) : v[k] = IF k + s = 1 THEN g ELSE w[k + s]
  /\ g.cmd = w[1].cmd /\ g.due = w[1].due /\ g.fired

LEMMA MovedFacts ==
  ASSUME NEW w \in Seq(Group), NEW v, NEW g, NEW s, Moved(v, w, g, s)
  PROVE  /\ Len(w) \in Nat /\ Len(v) \in Nat /\ 1 \in 1 .. Len(w)
         /\ \A k \in 1 .. Len(v) :
              /\ k + s \in 1 .. Len(w) /\ v[k].cmd = w[k + s].cmd /\ v[k].due = w[k + s].due
              /\ k + s = 1 => k = 1 /\ v[k] = g
              /\ k + s # 1 => v[k] = w[k + s]
<1>1. Len(w) \in Nat
  BY WireParcels
<1> QED
  BY <1>1 DEF Moved

LEMMA MovedTraffic ==
  ASSUME NEW w \in Seq(Group), NEW v, NEW g, NEW s, Moved(v, w, g, s),
         NEW c, NEW fresh, NEW t \in Nat, Traffic(w, c, fresh, t),
         w[1].due <= t, t <= w[1].due + Late
  PROVE  Traffic(v, c, fresh, t)
<1> SUFFICES ASSUME NEW k \in 1 .. Len(v)
             PROVE  /\ v[k].cmd <= c
                    /\ Rtt < v[k].due /\ v[k].due <= t + Rtt
                    /\ v[k].cmd \in fresh => v[k].due = t + Rtt
                    /\ IF v[k].fired THEN k = 1 /\ v[k].due <= t /\ t <= v[k].due + Late
                       ELSE t <= v[k].due
                    /\ \A j \in 1 .. Len(v) : j < k => v[j].cmd < v[k].cmd
  BY DEF Traffic
<1>1. s \in {0, 1}
  BY DEF Moved
<1>2. k + s \in 1 .. Len(w) /\ v[k].cmd = w[k + s].cmd /\ v[k].due = w[k + s].due
  BY MovedFacts
<1>3. /\ v[k].cmd <= c
      /\ Rtt < v[k].due /\ v[k].due <= t + Rtt
      /\ v[k].cmd \in fresh => v[k].due = t + Rtt
  BY <1>2 DEF Traffic
<1>4. IF v[k].fired THEN k = 1 /\ v[k].due <= t /\ t <= v[k].due + Late ELSE t <= v[k].due
  <2>1. CASE k + s = 1
    <3>1. k = 1 /\ v[k] = g /\ g.fired /\ g.due = w[1].due
      BY <2>1, MovedFacts DEF Moved
    <3> QED
      BY <3>1
  <2>2. CASE k + s # 1
    <3>1. v[k] = w[k + s]
      BY <2>2, MovedFacts
    <3>2. ~w[k + s].fired /\ t <= w[k + s].due
      BY <1>2, <2>2 DEF Traffic
    <3> QED
      BY <3>1, <3>2
  <2> QED
    BY <2>1, <2>2
<1>5. ASSUME NEW j \in 1 .. Len(v), j < k PROVE v[j].cmd < v[k].cmd
  <2>1. j + s \in 1 .. Len(w) /\ v[j].cmd = w[j + s].cmd /\ j + s < k + s
    BY <1>1, <1>5, MovedFacts
  <2> QED
    BY <1>2, <2>1 DEF Traffic
<1> QED
  BY <1>3, <1>4, <1>5

\* What is known of a shot's events stays true as the wire moves on.
LEMMA MovedPast ==
  ASSUME NEW w \in Seq(Group), NEW v, NEW g, NEW s, Moved(v, w, g, s),
         NEW p, NEW c, NEW fresh, NEW t, Past(p, w, c, fresh)
  PROVE  Past(p, v, c, fresh)
<1> SUFFICES ASSUME NEW i \in 1 .. Len(p), NEW e \in p[i].of, NEW k \in 1 .. Len(v)
             PROVE  e < v[k].cmd \/ (k = 1 /\ v[k].fired /\ e = v[k].cmd)
  BY DEF Past
<1>1. k + s \in 1 .. Len(w) /\ v[k].cmd = w[k + s].cmd /\ (k + s = 1 => k = 1 /\ v[k] = g)
  BY MovedFacts
<1>2. e < w[k + s].cmd \/ (k + s = 1 /\ e = w[k + s].cmd)
  BY <1>1 DEF Past
<1>3. g.fired
  BY DEF Moved
<1> QED
  BY <1>1, <1>2, <1>3

\* An event that belongs to an attack without a record, or is younger than one.
LEMMA MovedUnclear ==
  ASSUME NEW w \in Seq(Group), NEW v, NEW g, NEW s, Moved(v, w, g, s),
         NEW c, NEW fresh, NEW t, Traffic(w, c, fresh, t),
         NEW U, U \subseteq Nat, ~Clear(U, w[1].cmd)
  PROVE  \A k \in 1 .. Len(v) : ~Clear(U, v[k].cmd)
<1>1. \A k \in 1 .. Len(w) : ~Clear(U, w[k].cmd)
  BY HeadClear
<1> QED
  BY <1>1, MovedFacts

-----------------------------------------------------------------------------
\* The record that an event marks.
Renewed(q, p, i, r) ==
  /\ i \in 1 .. Len(p) /\ Len(q) = Len(p)
  /\ \A k \in 1 .. Len(p) : q[k] = IF k = i THEN r ELSE p[k]
  /\ r.seq = p[i].seq /\ r.cmd = p[i].cmd /\ r.time = p[i].time

LEMMA RenewedKeeps ==
  ASSUME NEW p, NEW q, NEW i, NEW r, Renewed(q, p, i, r), NEW n, NEW t, NEW fresh,
         InOrder(p, n), Spaced(p, t, fresh), Patient(p, t), r.fired, r.of # {}
  PROVE  InOrder(q, n) /\ Spaced(q, t, fresh) /\ Patient(q, t)
<1>1. /\ Len(q) = Len(p)
      /\ \A k \in 1 .. Len(p) :
           /\ q[k].seq = p[k].seq /\ q[k].cmd = p[k].cmd /\ q[k].time = p[k].time
           /\ q[k].fired \/ q[k].fired = p[k].fired
           /\ q[k].of # {} \/ q[k] = p[k]
  BY DEF Renewed
<1>2. InOrder(q, n)
  BY <1>1 DEF InOrder
<1>3. Spaced(q, t, fresh)
  BY <1>1 DEF Spaced
<1>4. Patient(q, t)
  BY <1>1 DEF Patient
<1> QED
  BY <1>2, <1>3, <1>4

LEMMA RenewedPast ==
  ASSUME NEW w \in Seq(Group), NEW v, NEW g, NEW s, Moved(v, w, g, s),
         NEW p, NEW q, NEW i, NEW r, Renewed(q, p, i, r),
         NEW c, NEW fresh, NEW t \in Nat, Traffic(w, c, fresh, t), Past(p, w, c, fresh),
         w[1].due <= t, r.of = p[i].of \cup {w[1].cmd}
  PROVE  Past(q, v, c, fresh)
<1>1. Past(p, v, c, fresh)
  BY MovedPast
<1>2. /\ 1 \in 1 .. Len(w) /\ Len(w) \in Nat /\ w[1].cmd \in Nat /\ w[1].due \in Nat
      /\ Rtt \in Nat /\ 0 < Rtt
  BY WireParcels, Times, MovedFacts DEF Parcel
<1>3. w[1].cmd <= c /\ w[1].cmd \notin fresh
  BY <1>2 DEF Traffic
<1>4. ASSUME NEW k \in 1 .. Len(v)
      PROVE  w[1].cmd < v[k].cmd \/ (k = 1 /\ v[k].fired /\ w[1].cmd = v[k].cmd)
  <2>1. /\ k + s \in 1 .. Len(w) /\ v[k].cmd = w[k + s].cmd
        /\ k + s = 1 => k = 1 /\ v[k] = g
    BY MovedFacts
  <2>2. g.fired
    BY DEF Moved
  <2>3. k + s # 1 => 1 < k + s
    BY <2>1
  <2> QED
    BY <1>2, <2>1, <2>2, <2>3 DEF Traffic
<1>5. ASSUME NEW j \in 1 .. Len(q)
      PROVE  /\ q[j].of = {} => ~q[j].fired /\ ~q[j].struck /\ ~q[j].resolved
             /\ \A e \in q[j].of :
                  /\ e <= c /\ e \notin fresh
                  /\ \A k \in 1 .. Len(v) : e < v[k].cmd \/ (k = 1 /\ v[k].fired /\ e = v[k].cmd)
  <2>1. j \in 1 .. Len(p) /\ i \in 1 .. Len(p) /\ q[j] = IF j = i THEN r ELSE p[j]
    BY DEF Renewed
  <2>2. CASE j = i
    BY <1>1, <1>3, <1>4, <2>1, <2>2 DEF Past
  <2>3. CASE j # i
    BY <1>1, <2>1, <2>3 DEF Past
  <2> QED
    BY <2>2, <2>3
<1> QED
  BY <1>5 DEF Past

LEMMA RenewedRightful ==
  ASSUME NEW p, NEW q, NEW i, NEW r, Renewed(q, p, i, r), NEW U, NEW e, Rightful(p, U),
         r.of = p[i].of \cup {e}, Clear(U, e) => p[i].cmd = e
  PROVE  Rightful(q, U)
BY DEF Renewed, Rightful

\* The other shots on the wire keep their records.
LEMMA RenewedOwn ==
  ASSUME NEW w \in Seq(Group), NEW v, NEW g, NEW s, Moved(v, w, g, s),
         NEW p, NEW q, NEW i, NEW r, Renewed(q, p, i, r),
         NEW c, NEW fresh, NEW t, Traffic(w, c, fresh, t), NEW a, NEW b,
         NEW U, U \subseteq Nat, Own(p, w, a, U),
         Clear(U, w[1].cmd) => p[i].cmd = w[1].cmd /\ (s = 0 => Awaits(r, g, b))
  PROVE  Own(q, v, b, U)
<1> SUFFICES ASSUME NEW k \in 1 .. Len(v), Clear(U, v[k].cmd)
             PROVE  \E j \in 1 .. Len(q) : Awaits(q[j], v[k], b)
  BY DEF Own
<1>1. /\ k + s \in 1 .. Len(w) /\ v[k].cmd = w[k + s].cmd
      /\ k + s = 1 => k = 1 /\ v[k] = g
      /\ k + s # 1 => v[k] = w[k + s]
  BY MovedFacts
<1>2. Clear(U, w[1].cmd) /\ p[i].cmd = w[1].cmd /\ (s = 0 => Awaits(r, g, b))
  <2>1. Clear(U, w[k + s].cmd)
    BY <1>1
  <2> QED
    BY <1>1, <2>1, HeadClear
<1>3. CASE k + s = 1
  <2>1. s = 0
    BY <1>1, <1>3 DEF Moved
  <2> QED
    BY <1>1, <1>2, <1>3, <2>1 DEF Renewed
<1>4. CASE k + s # 1
  <2>1. PICK j \in 1 .. Len(p) : Awaits(p[j], w[k + s], a)
    BY <1>1 DEF Own
  <2>2. ~w[k + s].fired /\ w[1].cmd < w[k + s].cmd
    BY <1>1, <1>4, MovedFacts DEF Traffic
  <2>3. j # i
    <3>1. p[j].cmd = w[k + s].cmd
      BY <2>1 DEF Awaits
    <3>2. w[1].cmd # w[k + s].cmd
      BY <1>1, <2>2, WireParcels, MovedFacts DEF Parcel
    <3> QED
      BY <1>2, <3>1, <3>2
  <2>4. q[j] = p[j] /\ j \in 1 .. Len(q)
    BY <2>3 DEF Renewed
  <2>5. Awaits(p[j], w[k + s], b)
    BY <2>1, <2>2 DEF Awaits
  <2> QED
    BY <1>1, <1>4, <2>4, <2>5
<1> QED
  BY <1>3, <1>4

-----------------------------------------------------------------------------
\* The searches find the record that awaits the event.
LEMMA LeastOne ==
  ASSUME NEW I, I \subseteq Nat, NEW j \in I, \A k \in I : j <= k
  PROVE  Min(I) = j
<1>1. Min(I) \in I /\ \A k \in I : Min(I) <= k
  BY DEF Min
<1>2. Min(I) \in Nat /\ j \in Nat /\ j <= Min(I) /\ Min(I) <= j
  BY <1>1
<1> QED
  BY <1>2

LEMMA FirstWins ==
  ASSUME NEW found, Len(found) \in Nat, NEW n \in 1 .. Len(found), found[n] > 0,
         \A j \in 1 .. Len(found) : j < n => ~(found[j] > 0)
  PROVE  FirstOf(found) = found[n]
<1> DEFINE K == {j \in 1 .. Len(found) : found[j] > 0}
           k == IF K # {} THEN Min(K) ELSE 0
<1>1. FirstOf(found) = IF k = 0 THEN 0 ELSE found[k]
  BY Zenon DEF FirstOf, SelectInSeq
<1>2. K \subseteq Nat /\ n \in K /\ \A j \in K : n <= j
  OBVIOUS
<1> HIDE DEF K
<1>3. k = n
  BY <1>2, LeastOne
<1> HIDE DEF k
<1> QED
  BY <1>1, <1>3

LEMMA Situation ==
  ASSUME TrackerInv, EvidenceInv
  PROVE  /\ pending \in Seq(ShotRecord) /\ Len(pending) \in Nat /\ DOMAIN pending = 1 .. Len(pending)
         /\ \A i \in 1 .. Len(pending) :
              pending[i] \in ShotRecord /\ Fields(pending[i]) /\ Timed(pending[i], now)
         /\ wire \in Seq(Group) /\ now \in Nat /\ nextImpact \in Int /\ nextShot \in Int
         /\ command \in Nat
         /\ Unrecorded \subseteq Nat
         /\ wire # <<>> => /\ Head(wire) = wire[1] /\ Len(wire) \in Nat /\ 1 \in 1 .. Len(wire)
                           /\ wire[1] \in Group /\ Parcel(wire[1])
<1>1. Kept(pending, command, Made) /\ TrackerTypes /\ Unrecorded \subseteq Nat
  BY DEF TrackerInv, EvidenceInv
<1>2. /\ wire \in Seq(Group) /\ now \in Nat /\ nextImpact \in Int /\ nextShot \in Int
      /\ command \in Nat
  BY <1>1 DEF TrackerTypes
<1>3. wire # <<>> => Head(wire) = wire[1] /\ 1 \in 1 .. Len(wire)
  BY <1>2
<1>4. \A i \in 1 .. Len(pending) : Timed(pending[i], now)
  BY <1>1 DEF Kept
<1> QED
  BY <1>1, <1>2, <1>3, <1>4, KeptFields, WireParcels

LEMMA HeadOwn ==
  ASSUME TrackerInv, EvidenceInv, wire # <<>>, Clear(Unrecorded, wire[1].cmd)
  PROVE  \E j \in 1 .. Len(pending) : Awaits(pending[j], wire[1], active)
BY Situation DEF EvidenceInv, Evidence, Own

\* Its record has exactly the age of a round trip, and no other has.
LEMMA FireOwn ==
  ASSUME TrackerInv, EvidenceInv, WeaponFire,
         NEW j \in 1 .. Len(pending), Awaits(pending[j], wire[1], active)
  PROVE  FireIndex = j
<1> DEFINE fits == {i \in DOMAIN pending : FireMatches(pending[i])}
           Better(i, k) ==
             \/ FireError(pending[i]) < FireError(pending[k])
             \/ FireError(pending[i]) = FireError(pending[k]) /\ i <= k
<1>1. FireIndex = IF fits = {} THEN 0 ELSE CHOOSE i \in fits : \A k \in fits : Better(i, k)
  BY DEF FireIndex
<1>2. wire # <<>> /\ ~wire[1].fired /\ wire[1].due = now
  BY Situation DEF WeaponFire
<1>3. /\ DOMAIN pending = 1 .. Len(pending) /\ Len(pending) \in Nat /\ now \in Nat
      /\ Fields(pending[j]) /\ Timed(pending[j], now)
  BY Situation
<1>4. /\ pending[j].committed /\ pending[j].time = now - Rtt /\ ~pending[j].fired
      /\ pending[j].of = {} /\ pending[j].cmd = wire[1].cmd /\ pending[j].cmd > 0
  BY <1>2, Situation DEF Awaits, Parcel
<1>5. ~pending[j].resolved
  BY <1>4 DEF EvidenceInv, Evidence, Past
<1>6. Rtt \in Nat /\ 0 < Rtt /\ Rtt <= FireAge /\ MaxTime \in Nat
  BY Times
<1>7. CommittedAt(pending[j]) = now - Rtt
  BY <1>3, <1>4 DEF CommittedAt, Fields, Timed
<1>8. FireMatches(pending[j]) /\ FireError(pending[j]) = 0
  BY <1>3, <1>4, <1>5, <1>6, <1>7, Times DEF FireMatches, FireError, Age
<1>9. ASSUME NEW i \in 1 .. Len(pending)
      PROVE  /\ FireError(pending[i]) \in Nat
             /\ FireMatches(pending[i]) /\ FireError(pending[i]) = 0 => i = j
  <2>1. Fields(pending[i]) /\ Timed(pending[i], now)
    BY Situation
  <2>2. CommittedAt(pending[i]) = pending[i].time /\ pending[i].time \in Nat /\ 0 < pending[i].time
    BY <2>1 DEF CommittedAt, Fields, Timed
  <2>3. FireError(pending[i]) \in Nat
    BY <1>3, <1>6, <2>2 DEF FireError, Age
  <2>4. ASSUME FireMatches(pending[i]), FireError(pending[i]) = 0
        PROVE  i = j
    <3>1. pending[i].time = now - Rtt
      BY <1>3, <1>6, <2>2, <2>4 DEF FireError, Age
    <3>2. ~(pending[i].time >= MaxTime)
      BY <1>3, <1>6, <2>2, <3>1 DEF EvidenceInv
    <3>3. pending[i].cmd > 0
      BY <2>1, <2>4 DEF EvidenceInv, Evidence, Spaced, FireMatches, Fields
    <3>4. pending[j].cmd = pending[i].cmd
      BY <1>4, <3>1, <3>2, <3>3 DEF EvidenceInv, Evidence, Spaced
    <3> QED
      BY <1>3, <3>3, <3>4, Situation, OneRecord DEF EvidenceInv, Evidence
  <2> QED
    BY <2>3, <2>4
<1>10. j \in fits /\ \A i \in fits : i \in 1 .. Len(pending) /\ FireMatches(pending[i])
  BY <1>3, <1>8
<1> HIDE DEF fits
<1>11. \A i \in fits : Better(j, i)
  BY <1>8, <1>9, <1>10
<1>12. FireIndex \in fits /\ \A k \in fits : Better(FireIndex, k)
  <2> HIDE DEF Better
  <2> QED
    BY <1>1, <1>10, <1>11
<1>13. FireError(pending[FireIndex]) = 0
  BY <1>8, <1>9, <1>10, <1>12
<1> QED
  BY <1>9, <1>10, <1>12, <1>13

\* The record of the last weapon_fire is still in the window of an impact.
LEMMA ImpactOwn ==
  ASSUME TrackerInv, EvidenceInv, BulletImpact,
         NEW j \in 1 .. Len(pending), Awaits(pending[j], wire[1], active)
  PROVE  ImpactIndex = j
<1> DEFINE A == {i \in 1 .. Len(pending) :
                   /\ pending[i].seq = active
                   /\ (~pending[i].struck \/ pending[i].weapon = "shotgun")
                   /\ InWindow(pending[i])}
           First(I) == IF I # {} THEN Min(I) ELSE 0
<1>1. wire # <<>> /\ wire[1].fired /\ wire[1].impacts > 0 /\ wire[1].impacts \in 0 .. 2
  BY Situation DEF BulletImpact, Parcel
<1>2. /\ Len(pending) \in Nat /\ now \in Nat /\ \A i \in 1 .. Len(pending) : Fields(pending[i])
      /\ wire[1].due \in Nat /\ 1 \in 1 .. Len(wire)
  BY <1>1, Situation DEF Parcel
<1>3. /\ pending[j].seq = active /\ pending[j].time = wire[1].due - Rtt
      /\ ~pending[j].struck \/ pending[j].weapon = "shotgun"
  BY <1>1 DEF Awaits
<1>4. InWindow(pending[j])
  <2>1. now <= wire[1].due + Late /\ wire[1].due \in Nat /\ now \in Nat
    BY <1>1, <1>2 DEF EvidenceInv, Evidence, Traffic
  <2>2. pending[j].time \in Nat /\ pending[j].time = wire[1].due - Rtt
    BY <1>2, <1>3 DEF Fields
  <2>3. now - pending[j].time <= Late + Rtt
    BY <2>1, <2>2, Times
  <2> QED
    BY <2>1, <2>2, <2>3, Times DEF InWindow, Age
<1>5. A \subseteq Nat /\ j \in A
  BY <1>3, <1>4
<1>6. \A i \in A : j <= i
  <2>1. \A i \in A : i = j
    BY <1>2, <1>3, OneRecord DEF EvidenceInv, Evidence
  <2> QED
    BY <1>5, <2>1
<1> HIDE DEF A
<1>7. First(A) = j
  BY <1>5, <1>6, LeastOne
<1>8. PICK k2, k3, k4 : ImpactIndex = FirstOf(<<First(A), k2, k3, k4>>)
  BY Zenon DEF ImpactIndex, SelectInSeq, A
<1> HIDE DEF First
<1> QED
  BY <1>7, <1>8, FirstWins

\* Of records that are struck, one has the latest impact.
LEMMA LatestStruck ==
  ASSUME TrackerInv, EvidenceInv, NEW I, I # {},
         \A k \in I : k \in 1 .. Len(pending) /\ pending[k].struck
  PROVE  \E i \in I : \A k \in I : pending[k].order <= pending[i].order
<1> DEFINE Missing == {nextImpact - pending[k].order : k \in I}
<1>1. nextImpact \in Int /\ \A k \in I : pending[k].order \in Int /\ pending[k].order < nextImpact
  BY Situation DEF EvidenceInv, Evidence, Latest, Fields
<1>2. Missing \subseteq Nat /\ Missing # {}
  BY <1>1
<1>3. PICK o \in Missing : \A n \in Missing : o <= n
  BY <1>2, LeastNumber
<1>4. PICK i \in I : o = nextImpact - pending[i].order
  BY <1>3
<1>5. \A k \in I : pending[k].order <= pending[i].order
  <2> TAKE k \in I
  <2>1. nextImpact - pending[i].order <= nextImpact - pending[k].order
    BY <1>3, <1>4
  <2> QED
    BY <1>1, <2>1
<1> HIDE DEF Missing
<1> QED
  BY <1>5

\* A hurt: the impacts of older shots came no later than the last weapon_fire, so
\* that its record is the latest one struck, or stands in front of it.
LEMMA HurtOwn ==
  ASSUME TrackerInv, EvidenceInv, PlayerHurt, Clear(Unrecorded, wire[1].cmd),
         NEW j \in 1 .. Len(pending), Awaits(pending[j], wire[1], active)
  PROVE  HurtIndex(wire[1].hurts) = j
<1> DEFINE Fits(s) == ~s.resolved /\ (s.rage => s.victim = wire[1].hurts)
           struck == {i \in DOMAIN pending : pending[i].struck /\ Fits(pending[i])}
           latest == IF struck = {} THEN 0
                     ELSE CHOOSE i \in struck : \A k \in struck : pending[k].order <= pending[i].order
           F == {i \in 1 .. Len(pending) : pending[i].seq = active /\ pending[i].fired /\ Fits(pending[i])}
           fired == IF F # {} THEN Min(F) ELSE 0
           crosses == /\ fired > 0 /\ latest > 0
                      /\ pending[fired].seq > pending[latest].seq
                      /\ pending[fired].firedAt >= pending[latest].struckAt
           k3 == SelectInSeq(pending, LAMBDA s : s.rage /\ s.fired /\ Fits(s))
           k4 == SelectInSeq(pending, LAMBDA s : s.rage /\ s.committed /\ Fits(s))
<1>1. HurtIndex(wire[1].hurts) = FirstOf(<<IF crosses THEN fired ELSE latest, fired, k3, k4>>)
  BY Zenon DEF HurtIndex, SelectInSeq
<1> HIDE DEF k3, k4
<1>2. /\ Len(pending) \in Nat /\ DOMAIN pending = 1 .. Len(pending) /\ nextImpact \in Int
      /\ \A i \in 1 .. Len(pending) : Fields(pending[i])
  BY Situation
<1>3. /\ wire # <<>> /\ wire[1].fired /\ wire[1].hurts # NoVictim /\ 1 \in 1 .. Len(wire)
      /\ wire[1].cmd \in Nat /\ wire[1].cmd > 0
  BY Situation DEF PlayerHurt, Parcel
<1>4. /\ pending[j].seq = active /\ pending[j].fired /\ pending[j].cmd = wire[1].cmd
      /\ pending[j].firedAt = wire[1].due /\ Fits(pending[j])
  BY <1>3 DEF Awaits
<1>5. fired = j
  <2>1. j \in F /\ F \subseteq Nat
    BY <1>4
  <2>2. \A i \in F : i = j
    BY <1>2, <1>4, OneRecord DEF EvidenceInv, Evidence
  <2> HIDE DEF F
  <2>3. \A i \in F : j <= i
    BY <2>1, <2>2
  <2> QED
    BY <2>1, <2>3, LeastOne
<1> HIDE DEF fired
<1>6. CASE struck = {}
  <2>1. latest = 0 /\ ~crosses
    BY <1>6
  <2> HIDE DEF latest, crosses
  <2> DEFINE found == <<IF crosses THEN fired ELSE latest, fired, k3, k4>>
  <2>2. Len(found) = 4 /\ found[1] = 0 /\ found[2] = j
    BY <1>5, <2>1
  <2> HIDE DEF found
  <2>3. FirstOf(found) = j
    BY <2>2, FirstWins
  <2> QED
    BY <1>1, <2>3 DEF found
<1>7. CASE struck # {}
  <2>1. /\ latest \in struck /\ \A k \in struck : pending[k].order <= pending[latest].order
    <3>1. \A k \in struck : k \in 1 .. Len(pending) /\ pending[k].struck
      BY <1>2
    <3> HIDE DEF struck
    <3>2. \E i \in struck : \A k \in struck : pending[k].order <= pending[i].order
      BY <1>7, <3>1, LatestStruck
    <3> QED
      BY <1>7, <3>2
  <2>2. latest \in 1 .. Len(pending) /\ pending[latest].struck /\ Fits(pending[latest])
    BY <1>2, <2>1
  <2>3. pending[j].struck => j \in struck
    BY <1>2, <1>4
  <2> HIDE DEF latest, struck
  <2>4. crosses \/ latest = j
    <3> SUFFICES ASSUME latest # j PROVE crosses
      OBVIOUS
    <3>1. pending[latest].cmd # wire[1].cmd
      BY <1>2, <1>3, <1>4, <2>2, OneRecord DEF EvidenceInv, Evidence
    <3>2. /\ pending[latest].struckAt <= wire[1].due
          /\ pending[j].struck => pending[latest].order < pending[j].order
      BY <1>3, <1>4, <2>2, <3>1 DEF EvidenceInv, Evidence, Latest
    <3>3. ~pending[j].struck
      BY <1>2, <2>1, <2>2, <2>3, <3>2 DEF Fields
    <3>4. pending[latest].of # {}
      BY <2>2 DEF EvidenceInv, Evidence, Past
    <3>5. PICK e \in pending[latest].of : TRUE
      BY <3>4
    <3>6. e \in 1 .. MaxCommand /\ e <= wire[1].cmd
      <4>1. pending[latest].of \subseteq 1 .. MaxCommand
        BY <1>2, <2>2 DEF Fields
      <4>2. e < wire[1].cmd \/ e = wire[1].cmd
        BY <1>3, <2>2 DEF EvidenceInv, Evidence, Past
      <4> QED
        BY <1>3, <4>1, <4>2, Times
    <3>7. Clear(Unrecorded, e)
      BY <1>3, <3>6, Situation, Times DEF Clear
    <3>8. pending[latest].cmd = e
      BY <2>2, <3>7 DEF EvidenceInv, Evidence, Rightful
    <3>9. 0 < pending[latest].cmd /\ pending[latest].cmd < pending[j].cmd
      BY <1>3, <1>4, <3>1, <3>6, <3>8, Times
    <3>10. pending[latest].seq < pending[j].seq
      BY <1>2, <2>2, <3>9, OneRecord DEF EvidenceInv, Evidence
    <3>11. pending[j].seq > pending[latest].seq /\ pending[j].firedAt >= pending[latest].struckAt
      BY <1>4, <3>2, <3>10
    <3> QED
      BY <1>5, <2>2, <3>11
  <2>5. (IF crosses THEN fired ELSE latest) = j
    BY <1>5, <2>4
  <2> HIDE DEF crosses
  <2> DEFINE found == <<IF crosses THEN fired ELSE latest, fired, k3, k4>>
  <2>6. Len(found) = 4 /\ found[1] = j
    BY <2>5
  <2> HIDE DEF found
  <2>7. FirstOf(found) = j
    BY <2>6, FirstWins
  <2> QED
    BY <1>1, <2>7 DEF found
<1> QED
  BY <1>6, <1>7

-----------------------------------------------------------------------------
\* A record joins the list: a fire's token, or that of the youngest command.
Added(q, p, r) ==
  /\ Len(q) = Len(p) + 1 /\ q[Len(p) + 1] = r
  /\ \A k \in 1 .. Len(p) : q[k] = p[k]

LEMMA AddedKeeps ==
  ASSUME NEW p, Len(p) \in Nat, \A k \in 1 .. Len(p) : Fields(p[k]), NEW q, NEW r, Fields(r),
         Added(q, p, r), NEW n \in Int, NEW t, NEW fresh, InOrder(p, n), r.seq = n,
         Spaced(p, t, fresh), Patient(p, t), r.of = {} => ~r.missPending,
         \/ r.cmd = 0 /\ r.fired
         \/ fresh = {r.cmd} /\ r.time = t /\ 0 < r.cmd /\ \A k \in 1 .. Len(p) : p[k].cmd < r.cmd
  PROVE  InOrder(q, n + 1) /\ Spaced(q, t, fresh) /\ Patient(q, t)
<1>1. \A k \in 1 .. Len(q) : k \in 1 .. Len(p) \/ k = Len(p) + 1
  BY DEF Added
<1>2. /\ q[Len(p) + 1] = r /\ \A k \in 1 .. Len(p) : q[k] = p[k]
      /\ \A k \in 1 .. Len(p) : k < Len(p) + 1
  BY DEF Added
<1>3. InOrder(q, n + 1)
  <2> SUFFICES ASSUME NEW i \in 1 .. Len(q)
               PROVE  /\ q[i].seq < n + 1
                      /\ \A j \in 1 .. Len(q) : j < i =>
                           /\ q[j].seq < q[i].seq
                           /\ q[j].cmd > 0 /\ q[i].cmd > 0 => q[j].cmd < q[i].cmd
    BY DEF InOrder
  <2>1. CASE i \in 1 .. Len(p)
    <3>1. p[i].seq \in Int /\ p[i].seq < n
      BY <2>1 DEF InOrder, Fields
    <3>2. ASSUME NEW j \in 1 .. Len(q), j < i
          PROVE  j \in 1 .. Len(p)
      BY <2>1, <3>2
    <3> QED
      BY <1>2, <2>1, <3>1, <3>2 DEF InOrder
  <2>2. CASE i = Len(p) + 1
    <3>1. ASSUME NEW j \in 1 .. Len(q), j < i
          PROVE  j \in 1 .. Len(p)
      BY <1>1, <2>2, <3>1
    <3>2. \A j \in 1 .. Len(p) : p[j].seq < n
      BY DEF InOrder
    <3>3. q[i] = r /\ r.cmd \in Nat
      BY <1>2, <2>2 DEF Fields
    <3>4. \A j \in 1 .. Len(p) : r.cmd > 0 => p[j].cmd < r.cmd
      BY <3>3
    <3> QED
      BY <1>2, <3>1, <3>2, <3>3, <3>4
  <2> QED
    BY <1>1, <2>1, <2>2
<1>4. Spaced(q, t, fresh)
  <2>1. \A i \in 1 .. Len(q) :
          /\ q[i].cmd = 0 => q[i].fired
          /\ q[i].cmd > 0 /\ q[i].time = t => q[i].cmd \in fresh \/ t >= MaxTime
    BY <1>1, <1>2 DEF Spaced, Fields
  <2>2. ASSUME NEW i \in 1 .. Len(p), r.cmd > 0, p[i].cmd > 0, p[i].time = r.time
        PROVE  p[i].cmd = r.cmd \/ r.time >= MaxTime
    BY <2>2 DEF Spaced, Fields
  <2>3. ASSUME NEW i \in 1 .. Len(q), NEW j \in 1 .. Len(q),
               q[i].cmd > 0, q[j].cmd > 0, q[j].time = q[i].time
        PROVE  q[j].cmd = q[i].cmd \/ q[i].time >= MaxTime
    <3>1. CASE i \in 1 .. Len(p) /\ j \in 1 .. Len(p)
      BY <1>2, <2>3, <3>1 DEF Spaced
    <3>2. CASE i \in 1 .. Len(p) /\ j = Len(p) + 1
      BY <1>2, <2>2, <2>3, <3>2
    <3>3. CASE j \in 1 .. Len(p) /\ i = Len(p) + 1
      BY <1>2, <2>2, <2>3, <3>3
    <3>4. CASE i = j
      BY <3>4
    <3> QED
      BY <1>1, <3>1, <3>2, <3>3, <3>4
  <2> QED
    BY <2>1, <2>3 DEF Spaced
<1>5. Patient(q, t)
  BY <1>1, <1>2 DEF Patient
<1> QED
  BY <1>3, <1>4, <1>5

-----------------------------------------------------------------------------
\* What the events write into a record.
LEMMA ConfirmedFields ==
  ASSUME NEW s \in ShotRecord, NEW c
  PROVE  LET r == Confirmed(s, c) IN
         /\ r.seq = s.seq /\ r.cmd = s.cmd /\ r.time = s.time /\ r.rage = s.rage
         /\ r.victim = s.victim /\ r.weapon = s.weapon /\ r.committed = s.committed
         /\ r.struck = s.struck /\ r.struckAt = s.struckAt /\ r.order = s.order
         /\ r.resolved = s.resolved /\ r.resolvedAt = s.resolvedAt
         /\ r.fired /\ r.firedAt = now /\ ~r.missPending /\ r.of = s.of \cup {c}
BY DEF Confirmed, ShotRecord

LEMMA StruckFields ==
  ASSUME NEW s \in ShotRecord, NEW c
  PROVE  LET r == Struck(s, c) IN
         /\ r.seq = s.seq /\ r.cmd = s.cmd /\ r.time = s.time /\ r.rage = s.rage
         /\ r.victim = s.victim /\ r.weapon = s.weapon /\ r.committed
         /\ r.struck /\ r.struckAt = now /\ r.order = nextImpact
         /\ r.resolved = s.resolved /\ r.resolvedAt = s.resolvedAt
         /\ r.fired /\ (s.fired => r.firedAt = s.firedAt)
         /\ ~r.missPending /\ r.of = s.of \cup {c}
BY DEF Struck, ShotRecord

LEMMA HurtFields ==
  ASSUME NEW s \in ShotRecord, NEW c
  PROVE  LET r == Hurt(s, c) IN
         /\ r.seq = s.seq /\ r.cmd = s.cmd /\ r.time = s.time /\ r.rage = s.rage
         /\ r.victim = s.victim /\ r.weapon = s.weapon /\ r.committed
         /\ r.struck = s.struck /\ r.struckAt = s.struckAt /\ r.order = s.order
         /\ r.resolved /\ r.resolvedAt = now
         /\ r.fired /\ (s.fired => r.firedAt = s.firedAt)
         /\ r.missPending = s.missPending /\ r.of = s.of \cup {c}
BY DEF Hurt, ShotRecord

LEMMA Marked ==
  ASSUME NEW S, NEW p \in Seq(S), NEW i \in 1 .. Len(p), NEW r,
         r.seq = p[i].seq, r.cmd = p[i].cmd, r.time = p[i].time
  PROVE  Renewed([p EXCEPT ![i] = r], p, i, r)
BY DEF Renewed

LEMMA GroupFields ==
  ASSUME NEW g \in Group
  PROVE  /\ LET h == [g EXCEPT !.fired = TRUE]
            IN  h.cmd = g.cmd /\ h.due = g.due /\ h.fired = TRUE /\ h.impacts = g.impacts /\ h.hurts = g.hurts
         /\ LET h == [g EXCEPT !.impacts = @ - 1]
            IN  h.cmd = g.cmd /\ h.due = g.due /\ h.fired = g.fired /\ h.impacts = g.impacts - 1 /\ h.hurts = g.hurts
         /\ LET h == [g EXCEPT !.hurts = NoVictim]
            IN  h.cmd = g.cmd /\ h.due = g.due /\ h.fired = g.fired /\ h.impacts = g.impacts /\ h.hurts = NoVictim
BY DEF Group

\* The end of an event: the first shot on the wire is left with what remains of it.
LEMMA RestMoves ==
  ASSUME TrackerTypes, wire # <<>>, NEW g, g.cmd = wire[1].cmd, g.due = wire[1].due, g.fired
  PROVE  \E s \in {0, 1} : Moved(Rest(g), wire, g, s)
<1>1. wire \in Seq(Group) /\ Len(wire) \in Nat /\ Len(wire) > 0
  BY DEF TrackerTypes
<1>2. CASE g.impacts = 0 /\ g.hurts = NoVictim
  <2>1. Rest(g) = Tail(wire)
    BY <1>2 DEF Rest
  <2>2. Len(Tail(wire)) = Len(wire) - 1 /\ \A k \in 1 .. Len(wire) - 1 : Tail(wire)[k] = wire[k + 1]
    BY <1>1
  <2>3. Moved(Rest(g), wire, g, 1)
    BY <1>1, <2>1, <2>2 DEF Moved
  <2> QED
    BY <2>3
<1>3. CASE ~(g.impacts = 0 /\ g.hurts = NoVictim)
  <2>1. Rest(g) = [wire EXCEPT ![1] = g]
    BY <1>3 DEF Rest
  <2>2. Moved(Rest(g), wire, g, 0)
    BY <1>1, <2>1 DEF Moved
  <2> QED
    BY <2>2
<1> QED
  BY <1>2, <1>3

-----------------------------------------------------------------------------
\* The events of a clear shot go to its own record.
LEMMA FireEvidence ==
  ASSUME TrackerInv, EvidenceInv, WeaponFire
  PROVE  EvidenceInv'
<1> DEFINE U == Unrecorded
           g == [wire[1] EXCEPT !.fired = TRUE]
           c == wire[1].cmd
<1>1. /\ pending \in Seq(ShotRecord) /\ Len(pending) \in Nat
      /\ \A i \in 1 .. Len(pending) : pending[i] \in ShotRecord /\ Fields(pending[i])
      /\ wire \in Seq(Group) /\ Len(wire) \in Nat /\ 1 \in 1 .. Len(wire) /\ Head(wire) = wire[1]
      /\ wire[1] \in Group /\ Parcel(wire[1]) /\ now \in Nat /\ nextShot \in Int /\ U \subseteq Nat
      /\ TrackerTypes
  BY Situation DEF WeaponFire, TrackerInv
<1>2. /\ Evidence(pending, wire, active, nextShot, nextImpact, command, Made, now, U)
      /\ now <= MaxTime \/ now = 1
  BY DEF EvidenceInv
<1>3. wire[1].due = now /\ ~wire[1].fired /\ wire' = [wire EXCEPT ![1].fired = TRUE]
  BY <1>1 DEF WeaponFire
<1>4. /\ now' = now /\ nextImpact' = nextImpact /\ command' = command /\ Made' = Made
      /\ Unrecorded' = U
  BY DEF WeaponFire, history, Made, Unrecorded
<1>5. Moved(wire', wire, g, 0)
  <2>1. g.cmd = wire[1].cmd /\ g.due = wire[1].due /\ g.fired
    BY <1>1, GroupFields
  <2>2. wire' = [wire EXCEPT ![1] = g]
    BY <1>3
  <2> HIDE DEF g
  <2> QED
    BY <1>1, <2>1, <2>2 DEF Moved
<1>6. Traffic(wire', command, Made, now)
  <2>1. now <= now + Late /\ now <= now
    BY <1>1, Times
  <2> QED
    BY <1>1, <1>2, <1>3, <1>5, <2>1, MovedTraffic DEF Evidence
<1>7. ASSUME Clear(U, c)
      PROVE  /\ FireIndex \in 1 .. Len(pending) /\ Awaits(pending[FireIndex], wire[1], active)
             /\ \A j \in 1 .. Len(pending) : pending[j].cmd = c => ~pending[j].struck
  <2>1. PICK j \in 1 .. Len(pending) : Awaits(pending[j], wire[1], active)
    BY <1>7, HeadOwn DEF WeaponFire
  <2>2. FireIndex = j
    BY <2>1, FireOwn
  <2>3. pending[j].cmd = c /\ c > 0 /\ ~pending[j].struck
    BY <1>1, <1>2, <1>3, <2>1 DEF Awaits, Evidence, Past, Parcel
  <2> HIDE DEF c
  <2>4. \A k \in 1 .. Len(pending) : pending[k].cmd = c => k = j
    BY <1>1, <1>2, <2>3, OneRecord DEF Evidence
  <2> QED
    BY <2>1, <2>2, <2>3, <2>4
<1>8. /\ Traffic(wire, command, Made, now) /\ Own(pending, wire, active, U)
      /\ InOrder(pending, nextShot) /\ Spaced(pending, now, Made)
      /\ Past(pending, wire, command, Made) /\ Patient(pending, now) /\ Rightful(pending, U)
      /\ Latest(pending, wire, nextImpact, now, U)
  BY <1>2 DEF Evidence
<1>9. \A k \in 1 .. Len(wire') : wire'[k].fired => k = 1 /\ wire'[k].cmd = c /\ wire'[k].due = now
  <2>1. \A k \in 1 .. Len(wire') : wire'[k].fired => k = 1
    BY <1>6 DEF Traffic
  <2> QED
    BY <1>3, <1>5, <2>1 DEF Moved
<1> HIDE DEF U, g
<1>10. CASE FireIndex > 0
  <2> DEFINE i == FireIndex
             r == Confirmed(pending[i], c)
  <2>1. i \in 1 .. Len(pending) /\ FireMatches(pending[i])
    BY <1>10, FireFound
  <2>2. /\ pending' = [pending EXCEPT ![i] = r]
        /\ active' = pending[i].seq /\ nextShot' = nextShot
    BY <1>1, <1>10 DEF WeaponFire
  <2>3. /\ r.seq = pending[i].seq /\ r.cmd = pending[i].cmd /\ r.time = pending[i].time
        /\ r.rage = pending[i].rage /\ r.victim = pending[i].victim /\ r.weapon = pending[i].weapon
        /\ r.committed = pending[i].committed
        /\ r.struck = pending[i].struck /\ r.struckAt = pending[i].struckAt
        /\ r.order = pending[i].order
        /\ r.resolved = pending[i].resolved /\ r.resolvedAt = pending[i].resolvedAt
        /\ r.fired /\ r.firedAt = now /\ ~r.missPending
        /\ r.of = pending[i].of \cup {c}
    <3> HIDE DEF i, c
    <3>1. pending[i] \in ShotRecord
      BY <1>1, <2>1
    <3> QED
      BY <3>1, ConfirmedFields
  <2> HIDE DEF i, r
  <2>4. Renewed(pending', pending, i, r)
    BY <1>1, <2>1, <2>2, <2>3, Marked
  <2>5. InOrder(pending', nextShot) /\ Spaced(pending', now, Made) /\ Patient(pending', now)
    BY <1>8, <2>3, <2>4, RenewedKeeps
  <2>6. Past(pending', wire', command, Made)
    <3>1. wire[1].due <= now
      BY <1>1, <1>3
    <3> QED
      BY <1>1, <1>5, <1>8, <2>3, <2>4, <3>1, RenewedPast
  <2>7. ASSUME Clear(U, c)
        PROVE  /\ pending[i].cmd = c /\ Awaits(pending[i], wire[1], active) /\ ~r.struck /\ ~r.resolved
    <3>1. Awaits(pending[i], wire[1], active) /\ pending[i].cmd = c /\ pending[i].of = {}
      BY <1>3, <1>7, <2>7 DEF Awaits, i
    <3>2. ~pending[i].struck /\ ~pending[i].resolved
      BY <1>8, <2>1, <3>1 DEF Past
    <3> QED
      BY <2>3, <3>1, <3>2
  <2>8. Rightful(pending', U)
    BY <1>8, <2>3, <2>4, <2>7, RenewedRightful
  <2>9. Own(pending', wire', active', U)
    <3>1. ASSUME Clear(U, c) PROVE Awaits(r, g, active')
      <4>1. g.cmd = c /\ g.due = now /\ g.fired = TRUE /\ g.impacts = wire[1].impacts
            /\ g.hurts = wire[1].hurts
        BY <1>1, <1>3, GroupFields DEF g
      <4>2. Awaits(pending[i], wire[1], active) /\ ~r.struck /\ ~r.resolved
        BY <2>7, <3>1
      <4> QED
        BY <1>3, <2>2, <2>3, <4>1, <4>2 DEF Awaits
    <3> QED
      BY <1>1, <1>5, <1>8, <2>4, <2>7, <3>1, RenewedOwn
  <2>10. Latest(pending', wire', nextImpact, now, U)
    <3> SUFFICES ASSUME NEW k \in 1 .. Len(pending'), pending'[k].struck
                 PROVE  /\ pending'[k].order < nextImpact /\ pending'[k].struckAt <= now
                        /\ \A l \in 1 .. Len(wire') :
                             wire'[l].fired /\ Clear(U, wire'[l].cmd) /\ pending'[k].cmd # wire'[l].cmd =>
                               /\ pending'[k].struckAt <= wire'[l].due
                               /\ \A j \in 1 .. Len(pending') :
                                    pending'[j].cmd = wire'[l].cmd /\ pending'[j].struck =>
                                      pending'[k].order < pending'[j].order
      BY DEF Latest
    <3>1. \A j \in 1 .. Len(pending') :
            /\ j \in 1 .. Len(pending)
            /\ pending'[j].struck = pending[j].struck /\ pending'[j].struckAt = pending[j].struckAt
            /\ pending'[j].order = pending[j].order /\ pending'[j].cmd = pending[j].cmd
      BY <2>3, <2>4 DEF Renewed
    <3>2. pending'[k].order < nextImpact /\ pending'[k].struckAt <= now
      BY <1>8, <3>1 DEF Latest
    <3>3. ASSUME NEW l \in 1 .. Len(wire'), wire'[l].fired, Clear(U, wire'[l].cmd)
          PROVE  /\ wire'[l].due = now
                 /\ \A j \in 1 .. Len(pending') : ~(pending'[j].cmd = wire'[l].cmd /\ pending'[j].struck)
      BY <1>7, <1>9, <3>1, <3>3
    <3> QED
      BY <3>2, <3>3
  <2> QED
    BY <1>2, <1>4, <1>6, <2>2, <2>5, <2>6, <2>8, <2>9, <2>10, <1>1 DEF EvidenceInv, Evidence, U
<1>11. CASE ~(FireIndex > 0)
  <2> DEFINE w == IF Head(wire).impacts = 2 THEN "shotgun" ELSE "rifle"
             token == Shot(Anonymous, FALSE, NoVictim, w, TRUE)
             r == Confirmed(token, c)
  <2>1. token \in ShotRecord /\ token.cmd = 0 /\ token.seq = nextShot /\ token.of = {} /\ ~token.struck
    <3>1. token \in ShotRecord /\ token.cmd = 0
      BY <1>1, ShotFits DEF Anonymous, Weapons
    <3> QED
      BY <3>1 DEF Shot
  <2>2. pending' = Append(pending, r) /\ nextShot' = nextShot + 1
    BY <1>1, <1>11 DEF WeaponFire
  <2> HIDE DEF token
  <2>3. r.cmd = 0 /\ r.seq = nextShot /\ r.fired /\ r.of = {c} /\ r.struck = token.struck
        /\ ~r.missPending /\ r \in ShotRecord
    <3>1. /\ r.cmd = 0 /\ r.seq = nextShot /\ r.fired /\ r.of = {c} /\ r.struck = token.struck
          /\ ~r.missPending
      <4> HIDE DEF c
      <4>2. /\ r.cmd = token.cmd /\ r.seq = token.seq /\ r.fired /\ r.of = token.of \cup {c}
            /\ r.struck = token.struck /\ ~r.missPending
        BY <2>1, ConfirmedFields
      <4> QED
        BY <2>1, <4>2
    <3>2. c \in 1 .. MaxCommand
      BY <1>1 DEF Group
    <3>3. r \in ShotRecord
      BY <1>1, <2>1, <3>2 DEF Confirmed, ShotRecord
    <3> QED
      BY <3>1, <3>3
  <2>4. Fields(r) /\ ~r.struck
    BY <2>1, <2>3 DEF Fields, ShotRecord
  <2> HIDE DEF r
  <2>5. Added(pending', pending, r)
    BY <1>1, <2>2, <2>3, Appended DEF Added
  <2>6. InOrder(pending', nextShot + 1) /\ Spaced(pending', now, Made) /\ Patient(pending', now)
    BY <1>1, <1>8, <2>3, <2>4, <2>5, AddedKeeps
  <2>7. ~Clear(U, c)
    BY <1>1, <1>7, <1>11
  <2>8. \A k \in 1 .. Len(wire') : ~Clear(U, wire'[k].cmd)
    BY <1>1, <1>5, <1>8, <2>7, MovedUnclear
  <2>9. /\ \A j \in 1 .. Len(pending') : j \in 1 .. Len(pending) \/ j = Len(pending) + 1
        /\ pending'[Len(pending) + 1] = r /\ \A j \in 1 .. Len(pending) : pending'[j] = pending[j]
    BY <1>1, <2>5 DEF Added
  <2>10. Past(pending', wire', command, Made)
    <3>1. Past(pending, wire', command, Made)
      BY <1>1, <1>5, <1>8, MovedPast
    <3>2. c <= command /\ c \notin Made
      <4>1. wire[1].cmd <= command /\ (wire[1].cmd \in Made => wire[1].due = now + Rtt)
        BY <1>1, <1>8 DEF Traffic
      <4>2. now # now + Rtt
        BY <1>1, Times
      <4> QED
        BY <1>3, <4>1, <4>2
    <3>3. ASSUME NEW k \in 1 .. Len(wire')
          PROVE  c < wire'[k].cmd \/ (k = 1 /\ wire'[k].fired /\ c = wire'[k].cmd)
      <4>1. CASE k = 1
        BY <1>5, <4>1 DEF Moved
      <4>2. CASE k # 1
        <5>1. k \in 1 .. Len(wire) /\ 1 < k /\ wire'[k] = wire[k]
          BY <1>1, <1>5, <4>2 DEF Moved
        <5> QED
          BY <1>1, <1>8, <5>1 DEF Traffic
      <4> QED
        BY <4>1, <4>2
    <3>4. \A e \in r.of : e = c
      BY <2>3
    <3>5. r.of # {}
      BY <2>3
    <3> QED
      BY <2>9, <3>1, <3>2, <3>3, <3>4, <3>5 DEF Past
  <2>11. Rightful(pending', U)
    BY <1>8, <2>3, <2>7, <2>9 DEF Rightful
  <2>12. Own(pending', wire', active', U) /\ Latest(pending', wire', nextImpact, now, U)
    BY <1>8, <2>4, <2>8, <2>9 DEF Own, Latest
  <2> QED
    BY <1>1, <1>2, <1>4, <1>6, <2>2, <2>6, <2>10, <2>11, <2>12 DEF EvidenceInv, Evidence, U
<1> QED
  BY <1>10, <1>11, <1>1

LEMMA MovedLatest ==
  ASSUME NEW w \in Seq(Group), NEW v, NEW g, NEW s, Moved(v, w, g, s), w[1].fired,
         NEW p, NEW o, NEW t, NEW U, Latest(p, w, o, t, U)
  PROVE  Latest(p, v, o, t, U)
<1>1. \A k \in 1 .. Len(v) : /\ k + s \in 1 .. Len(w) /\ v[k].cmd = w[k + s].cmd
                             /\ v[k].due = w[k + s].due /\ (v[k].fired => w[k + s].fired)
  BY MovedFacts
<1> QED
  BY <1>1 DEF Latest

\* An event that finds no record, which then is not a clear shot's.
LEMMA UnmarkedEvidence ==
  ASSUME NEW w \in Seq(Group), NEW v, NEW g, NEW s, Moved(v, w, g, s), w[1].fired,
         NEW p, NEW a, NEW n, NEW o, NEW c, NEW fresh, NEW t \in Nat, NEW U, U \subseteq Nat,
         Evidence(p, w, a, n, o, c, fresh, t, U), ~Clear(U, w[1].cmd)
  PROVE  Evidence(p, v, a, n, o, c, fresh, t, U)
<1>1. 1 \in 1 .. Len(w)
  BY MovedFacts
<1>2. w[1].due <= t /\ t <= w[1].due + Late
  BY <1>1 DEF Evidence, Traffic
<1>3. Traffic(v, c, fresh, t) /\ Past(p, v, c, fresh) /\ Latest(p, v, o, t, U)
  BY <1>2, MovedTraffic, MovedPast, MovedLatest DEF Evidence
<1>4. \A k \in 1 .. Len(v) : ~Clear(U, v[k].cmd)
  BY MovedUnclear DEF Evidence
<1>5. Own(p, v, a, U)
  BY <1>4 DEF Own
<1> QED
  BY <1>3, <1>5 DEF Evidence

\* An event after the weapon_fire that finds a record.
LEMMA MarkedEvidence ==
  ASSUME NEW w \in Seq(Group), NEW v, NEW g, NEW s, Moved(v, w, g, s), w[1].fired,
         NEW p, NEW a, NEW n, NEW m, NEW o, NEW c, NEW fresh, NEW t \in Nat, NEW U, U \subseteq Nat,
         Evidence(p, w, a, n, m, c, fresh, t, U),
         NEW q, NEW i, NEW r, Renewed(q, p, i, r),
         r.fired, r.of = p[i].of \cup {w[1].cmd},
         Clear(U, w[1].cmd) => p[i].cmd = w[1].cmd /\ Awaits(r, g, a),
         Latest(q, v, o, t, U)
  PROVE  Evidence(q, v, a, n, o, c, fresh, t, U)
<1>1. 1 \in 1 .. Len(w)
  BY MovedFacts
<1>2. w[1].due <= t /\ t <= w[1].due + Late
  BY <1>1 DEF Evidence, Traffic
<1>3. Traffic(v, c, fresh, t)
  BY <1>2, MovedTraffic DEF Evidence
<1>4. InOrder(q, n) /\ Spaced(q, t, fresh) /\ Patient(q, t)
  <2>1. InOrder(p, n) /\ Spaced(p, t, fresh) /\ Patient(p, t) /\ r.of # {}
    BY DEF Evidence
  <2> QED
    BY <2>1, RenewedKeeps
<1>5. Past(q, v, c, fresh)
  BY <1>2, RenewedPast DEF Evidence
<1>6. Rightful(q, U)
  BY RenewedRightful DEF Evidence
<1>7. Own(q, v, a, U)
  BY RenewedOwn DEF Evidence
<1> QED
  BY <1>3, <1>4, <1>5, <1>6, <1>7 DEF Evidence

LEMMA HurtEvidence ==
  ASSUME TrackerInv, EvidenceInv, PlayerHurt
  PROVE  EvidenceInv'
<1> DEFINE U == Unrecorded
           g == [wire[1] EXCEPT !.hurts = NoVictim]
           c == wire[1].cmd
           i == HurtIndex(wire[1].hurts)
           r == Hurt(pending[i], c)
<1>1. /\ pending \in Seq(ShotRecord) /\ Len(pending) \in Nat
      /\ \A k \in 1 .. Len(pending) : pending[k] \in ShotRecord /\ Fields(pending[k])
      /\ wire \in Seq(Group) /\ Len(wire) \in Nat /\ 1 \in 1 .. Len(wire) /\ Head(wire) = wire[1]
      /\ wire[1] \in Group /\ Parcel(wire[1]) /\ now \in Nat /\ U \subseteq Nat
      /\ TrackerTypes
  BY Situation DEF PlayerHurt, TrackerInv
<1>2. /\ Evidence(pending, wire, active, nextShot, nextImpact, command, Made, now, U)
      /\ now <= MaxTime \/ now = 1
  BY DEF EvidenceInv
<1>3. /\ wire # <<>> /\ wire[1].fired /\ wire' = Rest(g)
      /\ pending' = IF i > 0 THEN [pending EXCEPT ![i] = r] ELSE pending
  BY <1>1 DEF PlayerHurt
<1>4. /\ active' = active /\ nextShot' = nextShot
      /\ now' = now /\ nextImpact' = nextImpact /\ command' = command /\ Made' = Made
      /\ Unrecorded' = U
  BY DEF PlayerHurt, history, Made, Unrecorded
<1>5. g.cmd = wire[1].cmd /\ g.due = wire[1].due /\ g.fired /\ g.hurts = NoVictim
      /\ g.impacts = wire[1].impacts
  BY <1>1, <1>3, GroupFields
<1> HIDE DEF g
<1>6. PICK s \in {0, 1} : Moved(wire', wire, g, s)
  BY <1>1, <1>3, <1>5, RestMoves
<1>7. ASSUME Clear(U, c)
      PROVE  i \in 1 .. Len(pending) /\ i > 0 /\ Awaits(pending[i], wire[1], active)
  <2>1. PICK j \in 1 .. Len(pending) : Awaits(pending[j], wire[1], active)
    BY <1>3, <1>7, HeadOwn
  <2>2. i = j
    BY <1>7, <2>1, HurtOwn
  <2> HIDE DEF i
  <2> QED
    BY <1>1, <2>1, <2>2
<1> HIDE DEF U, i
<1>8. Evidence(pending', wire', active, nextShot, nextImpact, command, Made, now, U)
  <2>1. CASE i > 0 /\ i \in 1 .. Len(pending)
    <3>1. /\ r.seq = pending[i].seq /\ r.cmd = pending[i].cmd /\ r.time = pending[i].time
          /\ r.rage = pending[i].rage /\ r.victim = pending[i].victim /\ r.weapon = pending[i].weapon
          /\ r.committed
          /\ r.struck = pending[i].struck /\ r.struckAt = pending[i].struckAt
          /\ r.order = pending[i].order
          /\ r.resolved /\ r.resolvedAt = now
          /\ r.fired /\ (pending[i].fired => r.firedAt = pending[i].firedAt)
          /\ r.of = pending[i].of \cup {c}
      <4> HIDE DEF c
      <4>1. pending[i] \in ShotRecord
        BY <1>1, <2>1
      <4> QED
        BY <4>1, HurtFields
    <3> HIDE DEF r
    <3>2. Renewed(pending', pending, i, r)
      BY <1>1, <1>3, <2>1, <3>1, Marked
    <3>3. ASSUME Clear(U, c) PROVE pending[i].cmd = c /\ Awaits(r, g, active)
      <4>1. Awaits(pending[i], wire[1], active) /\ wire[1].fired /\ wire[1].due <= now
        BY <1>1, <1>2, <1>3, <1>7, <3>3 DEF Evidence, Traffic
      <4>2. r.resolvedAt >= g.due
        BY <1>1, <1>5, <3>1, <4>1 DEF Parcel
      <4> QED
        BY <1>3, <1>5, <3>1, <4>1, <4>2 DEF Awaits
    <3>4. Latest(pending', wire', nextImpact, now, U)
      <4>1. Latest(pending, wire', nextImpact, now, U)
        BY <1>1, <1>2, <1>3, <1>6, MovedLatest DEF Evidence
      <4>2. /\ Len(pending') = Len(pending)
            /\ \A j \in 1 .. Len(pending) :
                 /\ pending'[j].struck = pending[j].struck /\ pending'[j].struckAt = pending[j].struckAt
                 /\ pending'[j].order = pending[j].order /\ pending'[j].cmd = pending[j].cmd
        BY <3>1, <3>2 DEF Renewed
      <4> QED
        BY <4>1, <4>2 DEF Latest
    <3> QED
      BY <1>1, <1>2, <1>3, <1>6, <3>1, <3>2, <3>3, <3>4, MarkedEvidence
  <2>2. CASE ~(i > 0 /\ i \in 1 .. Len(pending))
    <3>1. pending' = pending
      BY <1>1, <1>3, <2>2
    <3>2. ~Clear(U, c)
      BY <1>7, <2>2
    <3> QED
      BY <1>1, <1>2, <1>3, <1>6, <3>1, <3>2, UnmarkedEvidence
  <2> QED
    BY <2>1, <2>2
<1> QED
  BY <1>1, <1>2, <1>4, <1>8 DEF EvidenceInv, U

-----------------------------------------------------------------------------
\* The sweep leaves a record as long as events may come that it awaits.
LEMMA AgedFields ==
  ASSUME NEW s \in ShotRecord
  PROVE  LET r == Aged(s) IN
         /\ Same(r, s)
         /\ TimesOut(s) => r.missPending /\ r.resolvedAt = now
         /\ ~TimesOut(s) => r = s
<1>1. CASE TimesOut(s)
  BY <1>1 DEF Aged, Same, ShotRecord
<1>2. CASE ~TimesOut(s)
  BY <1>2 DEF Aged, Same
<1> QED
  BY <1>1, <1>2

LEMMA AwaitsSwept ==
  ASSUME NEW s \in ShotRecord, Timed(s, now), now \in Nat, NEW g, Parcel(g), NEW a,
         Awaits(s, g, a), s.of = {} => ~s.fired /\ ~s.struck /\ ~s.resolved,
         IF g.fired THEN g.due <= now /\ now <= g.due + Late ELSE now <= g.due
  PROVE  Leaves(s) /\ Awaits(Aged(s), g, a)
<1>1. Fields(s)
  BY DEF ShotRecord, Fields
<1>2. CommittedAt(s) = s.time /\ s.time \in Nat
  BY <1>1 DEF CommittedAt, Timed, Fields
<1>3. s.time = g.due - Rtt /\ g.due \in Nat /\ s.committed /\ s.fired = g.fired
  BY DEF Awaits, Parcel
<1>4. CASE g.fired
  <2>1. s.fired /\ s.firedAt = g.due /\ now <= g.due + Late
    BY <1>3, <1>4 DEF Awaits
  <2>2. ~Miss(s)
    <3> SUFFICES ASSUME Miss(s) PROVE FALSE
      OBVIOUS
    <3>1. s.resolvedAt > (IF s.struck THEN g.due + Grace ELSE s.time + Absolute)
      BY DEF Miss, Awaits
    <3>2. now - s.resolvedAt > Finalization
      BY DEF Miss, Age
    <3> QED
      BY <1>1, <1>3, <2>1, <3>1, <3>2, Times DEF Fields
  <2>3. ~Forgotten(s)
    <3>1. ~(s.resolved /\ Age(s.resolvedAt) > Tombstone)
      <4> SUFFICES ASSUME s.resolved PROVE ~(Age(s.resolvedAt) > Tombstone)
        OBVIOUS
      <4>1. s.resolvedAt >= g.due
        BY DEF Awaits
      <4> QED
        BY <1>1, <1>3, <2>1, <4>1, Times DEF Fields, Age
    <3>2. s.struck => ~(Age(s.struckAt) > Grace + Finalization)
      <4> SUFFICES ASSUME s.struck PROVE ~(Age(s.struckAt) > Grace + Finalization)
        OBVIOUS
      <4>1. s.struckAt >= g.due
        BY DEF Awaits
      <4> QED
        BY <1>1, <1>3, <2>1, <4>1, Times DEF Fields, Age
    <3>3. ~(Age(s.firedAt) > Absolute)
      BY <1>3, <2>1, Times DEF Age
    <3> QED
      BY <1>3, <2>1, <3>1, <3>2, <3>3 DEF Forgotten
  <2>4. CASE TimesOut(s)
    <3> DEFINE r == Aged(s)
    <3>1. Same(r, s) /\ r.missPending /\ r.resolvedAt = now
      BY <2>4, AgedFields
    <3>2. ~s.resolved /\ (IF s.struck THEN now - s.struckAt > Grace ELSE now - s.time > Absolute)
      BY <1>2, <2>4 DEF TimesOut, Age
    <3> HIDE DEF r
    <3>3. now > IF r.struck THEN g.due + Grace ELSE r.time + Absolute
      <4>1. CASE s.struck
        <5>1. s.struckAt >= g.due
          BY <4>1 DEF Awaits
        <5> QED
          BY <1>1, <1>3, <3>1, <3>2, <4>1, <5>1, Times DEF Fields, Same
      <4>2. CASE ~s.struck
        BY <1>1, <1>3, <3>1, <3>2, <4>2, Times DEF Fields, Same
      <4> QED
        BY <4>1, <4>2
    <3>4. Awaits(r, g, a)
      BY <1>4, <3>1, <3>2, <3>3 DEF Awaits, Same
    <3> QED
      BY <2>2, <2>3, <3>4 DEF Leaves, r
  <2>5. CASE ~TimesOut(s)
    <3>1. Aged(s) = s
      BY <2>5, AgedFields
    <3> QED
      BY <2>2, <2>3, <3>1 DEF Leaves
  <2> QED
    BY <2>4, <2>5
<1>5. CASE ~g.fired
  <2>1. s.of = {} /\ ~s.missPending /\ ~s.fired /\ ~s.struck /\ ~s.resolved /\ now <= g.due
    BY <1>5 DEF Awaits
  <2>2. ~(now - s.time > Absolute)
    BY <1>3, <2>1, Times
  <2>3. ~Miss(s) /\ ~TimesOut(s)
    BY <1>2, <2>1, <2>2 DEF Miss, TimesOut, Age
  <2>4. ~s.rage => s.committedAt = s.time
    BY DEF Timed
  <2>5. ~Forgotten(s)
    BY <1>3, <2>1, <2>2, <2>4 DEF Forgotten, Age
  <2>6. Aged(s) = s
    BY <2>3, AgedFields
  <2> QED
    BY <2>3, <2>5, <2>6 DEF Leaves
<1> QED
  BY <1>4, <1>5

\* active after a sweep.
Holding(p, a) ==
  IF \E s \in ToSet(p) : s.seq = a /\ (Miss(s) \/ Forgotten(s)) THEN 0 ELSE a

LEMMA SweepEvidence ==
  ASSUME TrackerTypes, NEW p, Kept(p, command, Made), NEW w \in Seq(Group), NEW a, NEW n, NEW o,
         NEW U, U \subseteq Nat, Evidence(p, w, a, n, o, command, Made, now, U)
  PROVE  Evidence(Survivors(p), w, Holding(p, a), n, o, command, Made, now, U)
<1> DEFINE q == Survivors(p)
<1>1. /\ p \in Seq(ShotRecord) /\ Len(p) \in Nat /\ DOMAIN p = 1 .. Len(p) /\ now \in Nat
      /\ \A i \in 1 .. Len(p) : p[i] \in ShotRecord /\ Fields(p[i]) /\ Timed(p[i], now)
  BY KeptFields DEF Kept, TrackerTypes
<1>2. /\ Traffic(w, command, Made, now) /\ Own(p, w, a, U)
      /\ InOrder(p, n) /\ Spaced(p, now, Made)
      /\ Past(p, w, command, Made) /\ Patient(p, now) /\ Rightful(p, U)
      /\ Latest(p, w, o, now, U)
  BY DEF Evidence
<1> HIDE DEF q
<1>3. PICK m : Swept(q, p, m)
  BY <1>1, Surviving DEF q
<1>4. /\ Len(q) \in Nat
      /\ \A k \in 1 .. Len(q) : m[k] \in 1 .. Len(p) /\ q[k] = Aged(p[m[k]])
      /\ \A k, l \in 1 .. Len(q) : k < l => m[k] < m[l]
      /\ \A i \in 1 .. Len(p) : Leaves(p[i]) => \E k \in 1 .. Len(q) : m[k] = i
  BY <1>3 DEF Swept
<1>5. Thinned(q, p, m)
  <2>1. \A k \in 1 .. Len(q) : Same(q[k], p[m[k]])
    BY <1>1, <1>4, AgedFields
  <2> QED
    BY <1>4, <2>1 DEF Thinned
<1>6. /\ InOrder(q, n) /\ Spaced(q, now, Made) /\ Past(q, w, command, Made) /\ Rightful(q, U)
      /\ Latest(q, w, o, now, U)
  BY <1>2, <1>5, ThinnedKeeps
<1>7. Patient(q, now)
  <2> SUFFICES ASSUME NEW k \in 1 .. Len(q), q[k].of = {}, q[k].missPending PROVE q[k].time < now
    BY DEF Patient
  <2> DEFINE s == p[m[k]]
  <2>1. /\ s \in ShotRecord /\ Fields(s) /\ Timed(s, now) /\ q[k] = Aged(s) /\ m[k] \in 1 .. Len(p)
    BY <1>1, <1>4
  <2>2. q[k].time = s.time /\ s.of = {}
    BY <2>1, AgedFields DEF Same
  <2>3. CASE TimesOut(s)
    <3>1. ~s.struck
      BY <1>2, <2>1, <2>2 DEF Past
    <3>2. CommittedAt(s) = s.time
      BY <2>1 DEF CommittedAt, Timed, Fields
    <3>3. now - s.time > Absolute /\ s.time \in Nat
      BY <2>1, <2>3, <3>1, <3>2 DEF TimesOut, Age, Fields
    <3> HIDE DEF s
    <3>4. s.time < now
      BY <1>1, <3>3, Times
    <3> QED
      BY <2>2, <3>4
  <2>4. CASE ~TimesOut(s)
    <3>1. s.missPending
      BY <2>1, <2>4, AgedFields
    <3> QED
      BY <1>2, <2>1, <2>2, <3>1 DEF Patient
  <2> QED
    BY <2>3, <2>4
<1>8. Own(q, w, Holding(p, a), U)
  <2> SUFFICES ASSUME NEW k \in 1 .. Len(w), Clear(U, w[k].cmd)
               PROVE  \E l \in 1 .. Len(q) : Awaits(q[l], w[k], Holding(p, a))
    BY DEF Own
  <2>1. PICK j \in 1 .. Len(p) : Awaits(p[j], w[k], a)
    BY <1>2 DEF Own
  <2>2. Parcel(w[k])
    BY WireParcels
  <2>3. IF w[k].fired THEN w[k].due <= now /\ now <= w[k].due + Late ELSE now <= w[k].due
    BY <1>2 DEF Traffic
  <2>4. p[j].of = {} => ~p[j].fired /\ ~p[j].struck /\ ~p[j].resolved
    BY <1>2 DEF Past
  <2>5. Leaves(p[j]) /\ Awaits(Aged(p[j]), w[k], a)
    BY <1>1, <2>1, <2>2, <2>3, <2>4, AwaitsSwept
  <2>6. PICK l \in 1 .. Len(q) : m[l] = j
    BY <1>4, <2>5
  <2>7. w[k].fired => Holding(p, a) = a
    <3> SUFFICES ASSUME w[k].fired, NEW s \in ToSet(p), s.seq = a PROVE ~(Miss(s) \/ Forgotten(s))
      BY DEF Holding
    <3>1. PICK i \in 1 .. Len(p) : s = p[i]
      BY <1>1 DEF ToSet
    <3>2. p[j].seq = a
      BY <2>1 DEF Awaits
    <3>3. i = j
      BY <1>1, <1>2, <3>1, <3>2, OneRecord
    <3> QED
      BY <2>5, <3>1, <3>3 DEF Leaves
  <2>8. Awaits(q[l], w[k], a)
    BY <1>4, <2>5, <2>6
  <2>9. Awaits(q[l], w[k], Holding(p, a))
    BY <2>7, <2>8 DEF Awaits
  <2> QED
    BY <2>9
<1> QED
  BY <1>2, <1>6, <1>7, <1>8 DEF Evidence, q

\* A unit of time goes by.
LEMMA TickEvidence ==
  ASSUME NEW p, \A k \in 1 .. Len(p) : Fields(p[k]) /\ p[k].time <= now, NEW w \in Seq(Group),
         NEW a, NEW n, NEW o, NEW c, NEW fresh, NEW U, now \in Nat,
         Evidence(p, w, a, n, o, c, fresh, now, U), NEW t,
         \/ t = now /\ now >= MaxTime
         \/ /\ t = now + 1
            /\ \A k \in 1 .. Len(w) : now < IF w[k].fired THEN w[k].due + Late ELSE w[k].due
  PROVE  Evidence(p, w, a, n, o, c, {}, t, U)
<1>1. /\ Traffic(w, c, fresh, now) /\ Own(p, w, a, U)
      /\ InOrder(p, n) /\ Spaced(p, now, fresh)
      /\ Past(p, w, c, fresh) /\ Patient(p, now) /\ Rightful(p, U)
      /\ Latest(p, w, o, now, U)
  BY DEF Evidence
<1>2. t \in Nat /\ now <= t /\ \A x \in Nat : x <= now => x <= t
  OBVIOUS
<1>3. Traffic(w, c, {}, t)
  <2> SUFFICES ASSUME NEW k \in 1 .. Len(w)
               PROVE  /\ w[k].due <= t + Rtt
                      /\ IF w[k].fired THEN w[k].due <= t /\ t <= w[k].due + Late ELSE t <= w[k].due
    BY <1>1 DEF Traffic
  <2>1. w[k].due \in Nat
    BY WireParcels DEF Parcel
  <2>2. /\ w[k].due <= now + Rtt
        /\ IF w[k].fired THEN w[k].due <= now /\ now <= w[k].due + Late ELSE now <= w[k].due
    BY <1>1 DEF Traffic
  <2>3. CASE t = now
    BY <2>2, <2>3
  <2>4. CASE t = now + 1
    <3>1. now < IF w[k].fired THEN w[k].due + Late ELSE w[k].due
      BY <2>4
    <3> QED
      BY <2>1, <2>2, <2>4, <3>1, Times
  <2> QED
    BY <2>3, <2>4
<1>4. Spaced(p, t, {})
  <2>1. \A k \in 1 .. Len(p) : p[k].time = t => t >= MaxTime
    BY DEF Fields
  <2> QED
    BY <1>1, <2>1 DEF Spaced
<1>5. Past(p, w, c, {})
  BY <1>1 DEF Past
<1>6. Patient(p, t)
  BY <1>1, <1>2 DEF Patient, Fields
<1>7. Latest(p, w, o, t, U)
  BY <1>1, <1>2 DEF Latest, Fields
<1> QED
  BY <1>1, <1>3, <1>4, <1>5, <1>6, <1>7 DEF Evidence

LEMMA FrameEvidence ==
  ASSUME TrackerInv, EvidenceInv, NEW works \in BOOLEAN, Frame(works)
  PROVE  EvidenceInv'
<1>1. /\ Unrecorded \subseteq Nat /\ wire \in Seq(Group) /\ now \in Nat /\ TrackerTypes
      /\ Kept(pending, command, Made) /\ DOMAIN wire = 1 .. Len(wire)
  BY Situation DEF TrackerInv
<1>2. Evidence(pending, wire, active, nextShot, nextImpact, command, Made, now, Unrecorded)
      /\ (now <= MaxTime \/ now = 1)
  BY DEF EvidenceInv
<1>3. /\ pending' = Survivors(pending) /\ active' = Holding(pending, active)
      /\ now' = IF now < MaxTime THEN now + 1 ELSE now
      /\ Made' = {} /\ Unrecorded' = Unrecorded
      /\ nextShot' = nextShot /\ nextImpact' = nextImpact /\ command' = command /\ wire' = wire
      /\ \A k \in DOMAIN wire :
           now < MaxTime => now < IF wire[k].fired THEN wire[k].due + Late ELSE wire[k].due
  BY DEF Frame, CheckMisses, Holding, Made, Unrecorded
<1>4. Evidence(pending', wire, active', nextShot, nextImpact, command, Made, now, Unrecorded)
  BY <1>1, <1>2, <1>3, SweepEvidence
<1>5. \A k \in 1 .. Len(pending') : Fields(pending'[k]) /\ pending'[k].time <= now
  <2>1. Kept(pending', command, Made)
    BY <1>1, <1>3, SweepKeeps DEF Aging
  <2> QED
    BY <2>1, KeptFields DEF Kept, Timed
<1>6. \/ now' = now /\ now >= MaxTime
      \/ /\ now' = now + 1
         /\ \A k \in 1 .. Len(wire) : now < IF wire[k].fired THEN wire[k].due + Late ELSE wire[k].due
  BY <1>1, <1>3, Times
<1>7. Evidence(pending', wire, active', nextShot, nextImpact, command, {}, now', Unrecorded)
  BY <1>1, <1>4, <1>5, <1>6, TickEvidence
<1>8. now' <= MaxTime \/ now' = 1
  BY <1>1, <1>2, <1>3, Times
<1> QED
  BY <1>1, <1>3, <1>7, <1>8 DEF EvidenceInv

LEMMA ImpactEvidence ==
  ASSUME TrackerInv, EvidenceInv, BulletImpact
  PROVE  EvidenceInv'
<1> DEFINE U == Unrecorded
           g == [wire[1] EXCEPT !.impacts = @ - 1]
           c == wire[1].cmd
           i == ImpactIndex
           r == Struck(pending[i], c)
<1>1. /\ pending \in Seq(ShotRecord) /\ Len(pending) \in Nat
      /\ \A k \in 1 .. Len(pending) : pending[k] \in ShotRecord /\ Fields(pending[k])
      /\ wire \in Seq(Group) /\ Len(wire) \in Nat /\ 1 \in 1 .. Len(wire) /\ Head(wire) = wire[1]
      /\ wire[1] \in Group /\ Parcel(wire[1]) /\ now \in Nat /\ nextImpact \in Int
      /\ U \subseteq Nat /\ TrackerTypes
  BY Situation DEF BulletImpact, TrackerInv
<1>2. /\ Evidence(pending, wire, active, nextShot, nextImpact, command, Made, now, U)
      /\ now <= MaxTime \/ now = 1
  BY DEF EvidenceInv
<1>3. /\ wire # <<>> /\ wire[1].fired /\ wire[1].impacts > 0 /\ wire' = Rest(g)
      /\ pending' = Survivors(Impacted) /\ active' = Holding(Impacted, active)
      /\ nextImpact' = IF i > 0 THEN nextImpact + 1 ELSE nextImpact
  BY <1>1 DEF BulletImpact, CheckMisses, Holding
<1>4. /\ nextShot' = nextShot
      /\ now' = now /\ command' = command /\ Made' = Made /\ Unrecorded' = U
  BY DEF BulletImpact, Made, Unrecorded
<1>5. g.cmd = wire[1].cmd /\ g.due = wire[1].due /\ g.fired /\ g.hurts = wire[1].hurts
      /\ g.impacts = wire[1].impacts - 1
  BY <1>1, <1>3, GroupFields
<1> HIDE DEF g
<1>6. PICK s \in {0, 1} : Moved(wire', wire, g, s)
  BY <1>1, <1>3, <1>5, RestMoves
<1>7. ASSUME Clear(U, c)
      PROVE  i > 0 /\ Awaits(pending[i], wire[1], active)
  <2>1. PICK j \in 1 .. Len(pending) : Awaits(pending[j], wire[1], active)
    BY <1>3, <1>7, HeadOwn
  <2>2. i = j
    BY <2>1, ImpactOwn
  <2> HIDE DEF i
  <2> QED
    BY <1>1, <2>1, <2>2
<1>8. i > 0 => i \in 1 .. Len(pending)
  BY ImpactFound
<1>9. /\ i > 0 => Impacted = [pending EXCEPT ![i] = r]
      /\ ~(i > 0) => Impacted = pending
  BY <1>1 DEF Impacted
<1> HIDE DEF U, i
<1>10. Evidence(Impacted, wire', active, nextShot, nextImpact', command, Made, now, U)
       /\ Kept(Impacted, command, Made)
  <2>1. CASE i > 0
    <3>1. /\ r.seq = pending[i].seq /\ r.cmd = pending[i].cmd /\ r.time = pending[i].time
          /\ r.rage = pending[i].rage /\ r.victim = pending[i].victim /\ r.weapon = pending[i].weapon
          /\ r.committed /\ ~r.missPending
          /\ r.struck /\ r.struckAt = now /\ r.order = nextImpact
          /\ r.resolved = pending[i].resolved /\ r.resolvedAt = pending[i].resolvedAt
          /\ r.fired /\ (pending[i].fired => r.firedAt = pending[i].firedAt)
          /\ r.of = pending[i].of \cup {c}
      <4> HIDE DEF c
      <4>1. pending[i] \in ShotRecord
        BY <1>1, <1>8, <2>1
      <4> QED
        BY <4>1, StruckFields
    <3>2. Kept(Impacted, command, Made)
      <4>1. Kept(pending, command, Made) /\ TrackerTypes
        BY DEF TrackerInv
      <4>2. InWindow(pending[i]) /\ c \in 1 .. MaxCommand
        BY <1>1, <2>1, ImpactFound DEF i, Group
      <4>3. pending[i] \in ShotRecord /\ Timed(pending[i], now) /\ pending[i].cmd <= command
            /\ (pending[i].cmd \in Made => pending[i].time = now)
        BY <1>1, <1>8, <2>1, <4>1 DEF Kept
      <4>4. r \in ShotRecord /\ Timed(r, now) /\ r.cmd = pending[i].cmd /\ r.time = pending[i].time
        BY <1>1, <4>2, <4>3, ImpactFits
      <4> HIDE DEF r
      <4> QED
        BY <1>8, <1>9, <2>1, <4>1, <4>3, <4>4, ReplaceKeeps
    <3> HIDE DEF r
    <3>3. Renewed(Impacted, pending, i, r)
      BY <1>1, <1>8, <1>9, <2>1, <3>1, Marked
    <3>4. ASSUME Clear(U, c) PROVE pending[i].cmd = c /\ Awaits(r, g, active)
      <4>1. Awaits(pending[i], wire[1], active) /\ wire[1].fired /\ wire[1].due <= now
        BY <1>1, <1>2, <1>3, <1>7, <3>4 DEF Evidence, Traffic
      <4>2. r.struckAt >= g.due
        BY <1>1, <1>5, <3>1, <4>1 DEF Parcel
      <4>3. r.weapon = "shotgun" \/ g.impacts = 0
        BY <1>1, <1>3, <1>5, <3>1, <4>1 DEF Awaits, Parcel
      <4> QED
        BY <1>3, <1>5, <3>1, <4>1, <4>2, <4>3 DEF Awaits
    <3>5. Latest(Impacted, wire', nextImpact + 1, now, U)
      <4>1. Latest(pending, wire', nextImpact, now, U)
        BY <1>1, <1>2, <1>3, <1>6, MovedLatest DEF Evidence
      <4>2. /\ Len(Impacted) = Len(pending) /\ i \in 1 .. Len(pending) /\ Impacted[i] = r
            /\ \A j \in 1 .. Len(pending) : j # i => Impacted[j] = pending[j]
        BY <3>3 DEF Renewed
      <4>3. \A k \in 1 .. Len(wire') : wire'[k].fired => wire'[k].cmd = c
        <5>1. Traffic(wire', command, Made, now)
          <6>1. wire[1].due <= now /\ now <= wire[1].due + Late
            BY <1>1, <1>2, <1>3 DEF Evidence, Traffic
          <6> QED
            BY <1>1, <1>2, <1>6, <6>1, MovedTraffic DEF Evidence
        <5>2. \A k \in 1 .. Len(wire') : wire'[k].fired => k = 1
          BY <5>1 DEF Traffic
        <5>3. \A k \in 1 .. Len(wire') : k + s \in 1 .. Len(wire) /\ wire'[k].cmd = wire[k + s].cmd
                                         /\ (k + s # 1 => wire'[k] = wire[k + s])
          BY <1>1, <1>6, MovedFacts
        <5>4. \A k \in 1 .. Len(wire) : wire[k].fired => k = 1
          BY <1>2 DEF Evidence, Traffic
        <5> QED
          BY <5>3, <5>4
      <4>4. ASSUME NEW k \in 1 .. Len(pending), Impacted[k].struck
            PROVE  /\ Impacted[k].order < nextImpact + 1 /\ Impacted[k].struckAt <= now
                   /\ \A l \in 1 .. Len(wire') :
                        wire'[l].fired /\ Clear(U, wire'[l].cmd) /\ Impacted[k].cmd # wire'[l].cmd =>
                          /\ Impacted[k].struckAt <= wire'[l].due
                          /\ \A j \in 1 .. Len(pending) :
                               Impacted[j].cmd = wire'[l].cmd /\ Impacted[j].struck =>
                                 Impacted[k].order < Impacted[j].order
        <5>1. CASE k = i
          <6>1. Impacted[k].order < nextImpact + 1 /\ Impacted[k].struckAt <= now
            BY <1>1, <3>1, <4>2, <5>1
          <6>2. Clear(U, c) => Impacted[k].cmd = c
            BY <3>1, <3>4, <4>2, <5>1
          <6> QED
            BY <4>3, <6>1, <6>2
        <5>2. CASE k # i
          <6>1. Impacted[k] = pending[k] /\ pending[k].struck
            BY <4>2, <4>4, <5>2
          <6>2. pending[k].order < nextImpact /\ pending[k].struckAt <= now /\ pending[k].order \in Int
            BY <1>1, <4>1, <6>1 DEF Latest, Fields
          <6>3. ASSUME NEW l \in 1 .. Len(wire'), wire'[l].fired, Clear(U, wire'[l].cmd),
                       pending[k].cmd # wire'[l].cmd
                PROVE  /\ pending[k].struckAt <= wire'[l].due
                       /\ \A j \in 1 .. Len(pending) :
                            Impacted[j].cmd = wire'[l].cmd /\ Impacted[j].struck =>
                              pending[k].order < Impacted[j].order
            <7>1. /\ pending[k].struckAt <= wire'[l].due
                  /\ \A j \in 1 .. Len(pending) :
                       pending[j].cmd = wire'[l].cmd /\ pending[j].struck => pending[k].order < pending[j].order
              BY <4>1, <6>1, <6>3 DEF Latest
            <7>2. \A j \in 1 .. Len(pending) :
                    Impacted[j].order = nextImpact \/ Impacted[j] = pending[j]
              BY <3>1, <4>2
            <7> QED
              BY <6>2, <7>1, <7>2
          <6>4. pending[k].order < nextImpact + 1
            BY <1>1, <6>2
          <6> QED
            BY <6>1, <6>2, <6>3, <6>4
        <5> QED
          BY <5>1, <5>2
      <4> QED
        BY <4>2, <4>4 DEF Latest
    <3>6. nextImpact' = nextImpact + 1
      BY <1>3, <2>1
    <3> QED
      BY <1>1, <1>2, <1>3, <1>6, <3>1, <3>2, <3>3, <3>4, <3>5, <3>6, MarkedEvidence
  <2>2. CASE ~(i > 0)
    <3>1. Impacted = pending /\ nextImpact' = nextImpact
      BY <1>3, <1>9, <2>2
    <3>2. ~Clear(U, c)
      BY <1>7, <2>2
    <3>3. Kept(pending, command, Made)
      BY DEF TrackerInv
    <3> QED
      BY <1>1, <1>2, <1>3, <1>6, <3>1, <3>2, <3>3, UnmarkedEvidence
  <2> QED
    BY <2>1, <2>2
<1>11. wire' \in Seq(Group)
  BY BulletImpactStep DEF TrackerInv, TrackerTypes
<1>12. Evidence(pending', wire', active', nextShot, nextImpact', command, Made, now, U)
  BY <1>1, <1>3, <1>10, <1>11, SweepEvidence
<1> QED
  BY <1>1, <1>2, <1>4, <1>12 DEF EvidenceInv, U

-----------------------------------------------------------------------------
\* A command with an attack in it, and what the server makes of it.
LEMMA FirstIn ==
  ASSUME NEW p, NEW c
  PROVE  LET i == SelectInSeq(p, LAMBDA s : s.cmd = c)
         IN  \/ i = 0 /\ \A k \in 1 .. Len(p) : p[k].cmd # c
             \/ i # 0 /\ i \in 1 .. Len(p) /\ p[i].cmd = c
<1> DEFINE I == {j \in 1 .. Len(p) : p[j].cmd = c}
           i == SelectInSeq(p, LAMBDA s : s.cmd = c)
<1>1. i = IF I # {} THEN Min(I) ELSE 0
  BY DEF SelectInSeq
<1>2. I \subseteq 1 .. Len(p) /\ I \subseteq Nat /\ 0 \notin I /\ \A k \in I : p[k].cmd = c
  OBVIOUS
<1>3. I = {} => \A k \in 1 .. Len(p) : p[k].cmd # c
  OBVIOUS
<1> HIDE DEF I, i
<1>4. I # {} => Min(I) \in I
  BY <1>2, LeastIn
<1> QED
  BY <1>1, <1>2, <1>3, <1>4 DEF i

\* An attack that the server fires.
Attack(c, w, result) ==
  [cmd |-> c, due |-> now + Rtt, fired |-> FALSE,
   impacts |-> IF w = "shotgun" THEN 2 ELSE 1, hurts |-> result]

LEMMA SentWire ==
  ASSUME TrackerTypes, NEW c \in 1 .. MaxCommand, c = command \/ c = command + 1,
         NEW w, NEW result, Sent(c, w, result), Traffic(wire, command, Made, now)
  PROVE  \E others \in Seq(Group) :
           /\ \A k \in 1 .. Len(others) :
                k \in 1 .. Len(wire) /\ others[k] = wire[k] /\ others[k].cmd < c
           /\ IF result = "rejected" THEN wire' = others
              ELSE wire' = Append(others, Attack(c, w, result))
<1> DEFINE k == SelectInSeq(wire, LAMBDA g : g.cmd = c)
           others == IF k = 0 THEN wire ELSE RemoveAt(wire, k)
<1>1. /\ wire \in Seq(Group) /\ Len(wire) \in Nat /\ command \in Nat
      /\ \A j \in 1 .. Len(wire) : wire[j].cmd \in Nat /\ wire[j].cmd <= command
      /\ c \in Nat
  BY WireParcels, Times DEF TrackerTypes, Parcel, Traffic
<1>2. IF result = "rejected" THEN wire' = others ELSE wire' = Append(others, Attack(c, w, result))
  BY DEF Sent, Attack
<1>3. \/ k = 0 /\ \A j \in 1 .. Len(wire) : wire[j].cmd # c
      \/ k # 0 /\ k \in 1 .. Len(wire) /\ wire[k].cmd = c
  BY FirstIn
<1> HIDE DEF k
<1>4. CASE k = 0
  <2>1. \A j \in 1 .. Len(wire) : wire[j].cmd < c
    BY <1>1, <1>3, <1>4
  <2> QED
    BY <1>1, <1>2, <1>4, <2>1
<1>5. CASE k # 0
  <2>1. k = Len(wire)
    <3>1. ~(k < Len(wire))
      <4> SUFFICES ASSUME k < Len(wire) PROVE FALSE
        OBVIOUS
      <4>1. Len(wire) \in 1 .. Len(wire) /\ wire[k].cmd < wire[Len(wire)].cmd
        BY <1>1, <1>3, <1>5 DEF Traffic
      <4> QED
        BY <1>1, <1>3, <1>5, <4>1
    <3> QED
      BY <1>1, <1>3, <1>5, <3>1
  <2>2. others = SubSeq(wire, 1, k - 1) \o SubSeq(wire, k + 1, Len(wire))
    BY <1>5 DEF RemoveAt
  <2>3. /\ SubSeq(wire, 1, k - 1) \in Seq(Group) /\ Len(SubSeq(wire, 1, k - 1)) = k - 1
        /\ \A j \in 1 .. k - 1 : SubSeq(wire, 1, k - 1)[j] = wire[j]
    BY <1>1, <1>3, <1>5
  <2>4. SubSeq(wire, k + 1, Len(wire)) = <<>>
    BY <1>1, <2>1
  <2> DEFINE front == SubSeq(wire, 1, k - 1)
  <2>5. others = front
    <3>1. front \in Seq(Group)
      BY <2>3
    <3> HIDE DEF front
    <3>2. front \o <<>> = front
      BY <3>1
    <3> QED
      BY <2>2, <2>4, <3>2 DEF front
  <2>6. \A j \in 1 .. k - 1 : j \in 1 .. Len(wire) /\ wire[j].cmd < c
    BY <1>1, <1>3, <1>5 DEF Traffic
  <2> HIDE DEF others
  <2>7. others \in Seq(Group) /\ Len(others) = k - 1 /\ \A j \in 1 .. k - 1 : others[j] = wire[j]
    BY <2>3, <2>5
  <2>8. \A j \in 1 .. Len(others) :
          j \in 1 .. Len(wire) /\ others[j] = wire[j] /\ others[j].cmd < c
    BY <2>6, <2>7
  <2> QED
    BY <1>2, <2>7, <2>8
<1> QED
  BY <1>4, <1>5

\* The list while a command is made, with the wire without the command's last run.
Draft(q, w, V, c) ==
  /\ Kept(q, c, {c})
  /\ Len(q) \in {Len(pending), Len(pending) + 1}
  /\ Len(q) # Len(pending) => \E i \in 1 .. Len(q) : q[i].cmd = c
  /\ Evidence(q, w, active, nextShot + Len(q) - Len(pending), nextImpact, c, {c}, now, V)

\* The record of the command may change as long as its evidence does not, or is
\* given up.
LEMMA RewrittenDraft ==
  ASSUME now \in Nat, NEW c, NEW w, NEW V, NEW p, Draft(p, w, V, c), NEW q, Kept(q, c, {c}),
         NEW i, NEW r, Renewed(q, p, i, r), r.cmd = c, c > 0,
         \A k \in 1 .. Len(w) : w[k].cmd < c /\ w[k].cmd \in Int,
         c \in Int,
         \/ /\ r.of = {} /\ ~r.fired /\ ~r.struck /\ ~r.resolved /\ ~r.missPending
         \/ /\ r.of = p[i].of /\ r.fired = p[i].fired /\ r.struck = p[i].struck
            /\ r.resolved = p[i].resolved /\ r.missPending = p[i].missPending
            /\ r.order = p[i].order /\ r.struckAt = p[i].struckAt
  PROVE  Draft(q, w, V, c)
<1> DEFINE n == nextShot + Len(p) - Len(pending)
<1>1. /\ Traffic(w, c, {c}, now) /\ Own(p, w, active, V)
      /\ InOrder(p, n) /\ Spaced(p, now, {c})
      /\ Past(p, w, c, {c}) /\ Patient(p, now) /\ Rightful(p, V)
      /\ Latest(p, w, nextImpact, now, V)
  BY DEF Draft, Evidence
<1>2. /\ i \in 1 .. Len(p) /\ Len(q) = Len(p) /\ p[i].cmd = c /\ q[i] = r
      /\ \A k \in 1 .. Len(p) : k # i => q[k] = p[k]
      /\ \A k \in 1 .. Len(p) :
           q[k].seq = p[k].seq /\ q[k].cmd = p[k].cmd /\ q[k].time = p[k].time
  BY DEF Renewed
<1> HIDE DEF n
<1>3. InOrder(q, n)
  BY <1>1, <1>2 DEF InOrder
<1>4. Spaced(q, now, {c})
  <2>1. \A k \in 1 .. Len(q) : q[k].cmd = 0 => q[k].fired
    BY <1>1, <1>2 DEF Spaced
  <2> QED
    BY <1>1, <1>2, <2>1 DEF Spaced
<1>5. Past(q, w, c, {c})
  <2> SUFFICES ASSUME NEW k \in 1 .. Len(q)
               PROVE  /\ q[k].of = {} => ~q[k].fired /\ ~q[k].struck /\ ~q[k].resolved
                      /\ \A e \in q[k].of :
                           /\ e <= c /\ e \notin {c}
                           /\ \A l \in 1 .. Len(w) :
                                e < w[l].cmd \/ (l = 1 /\ w[l].fired /\ e = w[l].cmd)
    BY DEF Past
  <2>1. CASE k = i
    BY <1>1, <1>2, <2>1 DEF Past
  <2>2. CASE k # i
    BY <1>1, <1>2, <2>2 DEF Past
  <2> QED
    BY <2>1, <2>2
<1>6. Patient(q, now)
  BY <1>1, <1>2 DEF Patient
<1>7. Rightful(q, V)
  BY <1>1, <1>2 DEF Rightful
<1>8. Own(q, w, active, V)
  <2> SUFFICES ASSUME NEW k \in 1 .. Len(w), Clear(V, w[k].cmd)
               PROVE  \E j \in 1 .. Len(q) : Awaits(q[j], w[k], active)
    BY DEF Own
  <2>1. PICK j \in 1 .. Len(p) : Awaits(p[j], w[k], active)
    BY <1>1 DEF Own
  <2>2. p[j].cmd = w[k].cmd /\ w[k].cmd # c
    BY <2>1 DEF Awaits
  <2> QED
    BY <1>2, <2>1, <2>2
<1>9. Latest(q, w, nextImpact, now, V)
  <2>1. \A k \in 1 .. Len(q) :
          q[k].struck => p[k].struck /\ q[k].order = p[k].order /\ q[k].struckAt = p[k].struckAt
    BY <1>2
  <2> SUFFICES ASSUME NEW k \in 1 .. Len(q), q[k].struck
               PROVE  /\ q[k].order < nextImpact /\ q[k].struckAt <= now
                      /\ \A l \in 1 .. Len(w) :
                           w[l].fired /\ Clear(V, w[l].cmd) /\ q[k].cmd # w[l].cmd =>
                             /\ q[k].struckAt <= w[l].due
                             /\ \A j \in 1 .. Len(q) :
                                  q[j].cmd = w[l].cmd /\ q[j].struck => q[k].order < q[j].order
    BY DEF Latest
  <2>2. /\ p[k].order < nextImpact /\ p[k].struckAt <= now
        /\ \A l \in 1 .. Len(w) :
             w[l].fired /\ Clear(V, w[l].cmd) /\ p[k].cmd # w[l].cmd =>
               /\ p[k].struckAt <= w[l].due
               /\ \A j \in 1 .. Len(p) :
                    p[j].cmd = w[l].cmd /\ p[j].struck => p[k].order < p[j].order
    BY <1>1, <1>2, <2>1 DEF Latest
  <2> QED
    BY <1>2, <2>1, <2>2
<1>10. Evidence(q, w, active, n, nextImpact, c, {c}, now, V)
  BY <1>1, <1>3, <1>4, <1>5, <1>6, <1>7, <1>8, <1>9 DEF Evidence
<1>11. \E k \in 1 .. Len(q) : q[k].cmd = c
  BY <1>2
<1> QED
  BY <1>2, <1>10, <1>11 DEF Draft, n

\* A command without a record may get one.
LEMMA AddedDraft ==
  ASSUME now \in Nat, nextShot \in Int, Len(pending) \in Nat, NEW c \in Int, c > 0, NEW w, NEW V,
         NEW p, Draft(p, w, V, c), \A k \in 1 .. Len(p) : p[k].cmd # c,
         NEW q, Kept(q, c, {c}), NEW r \in ShotRecord, Added(q, p, r),
         r.cmd = c, r.seq = nextShot, r.time = now, r.of = {},
         ~r.fired, ~r.struck, ~r.resolved, ~r.missPending
  PROVE  Draft(q, w, V, c)
<1>1. /\ Len(p) \in Nat /\ \A k \in 1 .. Len(p) : Fields(p[k]) /\ p[k].cmd <= c
      /\ Fields(r)
  BY KeptFields DEF Draft, Kept, ShotRecord, Fields
<1>2. Len(p) = Len(pending)
  BY DEF Draft
<1>3. /\ Traffic(w, c, {c}, now) /\ Own(p, w, active, V)
      /\ InOrder(p, nextShot) /\ Spaced(p, now, {c})
      /\ Past(p, w, c, {c}) /\ Patient(p, now) /\ Rightful(p, V)
      /\ Latest(p, w, nextImpact, now, V)
  <2>1. nextShot + Len(p) - Len(pending) = nextShot
    BY <1>1, <1>2
  <2> QED
    BY <2>1 DEF Draft, Evidence
<1>4. /\ \A k \in 1 .. Len(q) : k \in 1 .. Len(p) \/ k = Len(p) + 1
      /\ q[Len(p) + 1] = r /\ \A k \in 1 .. Len(p) : q[k] = p[k]
      /\ Len(q) = Len(p) + 1 /\ Len(p) + 1 \in 1 .. Len(q)
      /\ \A k \in 1 .. Len(p) : k \in 1 .. Len(q)
  BY <1>1 DEF Added
<1>5. \A k \in 1 .. Len(p) : p[k].cmd < c
  BY <1>1 DEF Fields
<1>6. InOrder(q, nextShot + 1) /\ Spaced(q, now, {c}) /\ Patient(q, now)
  BY <1>1, <1>3, <1>5, AddedKeeps
<1>7. Past(q, w, c, {c})
  BY <1>3, <1>4 DEF Past
<1>8. Rightful(q, V)
  BY <1>3, <1>4 DEF Rightful
<1>9. Own(q, w, active, V)
  <2> SUFFICES ASSUME NEW k \in 1 .. Len(w), Clear(V, w[k].cmd)
               PROVE  \E j \in 1 .. Len(q) : Awaits(q[j], w[k], active)
    BY DEF Own
  <2>1. PICK j \in 1 .. Len(p) : Awaits(p[j], w[k], active)
    BY <1>3 DEF Own
  <2> QED
    BY <1>4, <2>1
<1>10. Latest(q, w, nextImpact, now, V)
  <2>1. \A k \in 1 .. Len(q) : q[k].struck => k \in 1 .. Len(p)
    BY <1>4
  <2>2. \A k \in 1 .. Len(p) : q[k].struck => q[k].order < nextImpact /\ q[k].struckAt <= now
    BY <1>3, <1>4 DEF Latest
  <2>3. ASSUME NEW k \in 1 .. Len(p), q[k].struck,
               NEW l \in 1 .. Len(w), w[l].fired, Clear(V, w[l].cmd), q[k].cmd # w[l].cmd
        PROVE  /\ q[k].struckAt <= w[l].due
               /\ \A j \in 1 .. Len(q) : q[j].cmd = w[l].cmd /\ q[j].struck => q[k].order < q[j].order
    <3>1. /\ p[k].struckAt <= w[l].due
          /\ \A j \in 1 .. Len(p) : p[j].cmd = w[l].cmd /\ p[j].struck => p[k].order < p[j].order
      BY <1>3, <1>4, <2>3 DEF Latest
    <3> QED
      BY <1>4, <2>1, <3>1
  <2> QED
    BY <2>1, <2>2, <2>3 DEF Latest
<1>11. nextShot + Len(q) - Len(pending) = nextShot + 1
  BY <1>1, <1>2, <1>4
<1>12. Evidence(q, w, active, nextShot + 1, nextImpact, c, {c}, now, V)
  BY <1>3, <1>6, <1>7, <1>8, <1>9, <1>10 DEF Evidence
<1>13. \E k \in 1 .. Len(q) : q[k].cmd = c
  BY <1>4
<1> QED
  BY <1>2, <1>4, <1>11, <1>12, <1>13 DEF Draft

\* What the command's record is while it has no evidence: of its weapon and, once
\* Ragebot has committed it, with this run's commitment and target.
Terms(q, c, v, w, bound) ==
  \A i \in 1 .. Len(q) : q[i].cmd = c /\ q[i].of = {} =>
    /\ q[i].weapon = w
    /\ q[i].rage /\ q[i].committed => bound /\ q[i].victim = v

Aimed(q, c, v) ==
  \A i \in 1 .. Len(q) : q[i].cmd = c /\ q[i].of = {} /\ q[i].rage => q[i].victim = v

LEMMA ShotFields ==
  ASSUME NEW c, NEW rage, NEW v, NEW w, NEW committed
  PROVE  LET r == Shot(c, rage, v, w, committed)
         IN  /\ r.seq = nextShot /\ r.cmd = c /\ r.rage = rage /\ r.victim = v /\ r.weapon = w
             /\ r.committed = committed /\ r.time = now /\ r.of = {}
             /\ ~r.fired /\ ~r.struck /\ ~r.resolved /\ ~r.missPending
BY DEF Shot

LEMMA BoomedDraft ==
  ASSUME TrackerTypes, Len(pending) \in Nat, NEW c \in Nat, c > 0, NEW v \in Victims, NEW w \in Weapons,
         NEW x, \A k \in 1 .. Len(x) : x[k].cmd < c /\ x[k].cmd \in Int,
         NEW V, NEW p, Draft(p, x, V, c), NEW bound, Terms(p, c, v, w, bound)
  PROVE  /\ Draft(Boomed(p, c, v, w), x, V, c) /\ Terms(Boomed(p, c, v, w), c, v, w, bound)
         /\ Aimed(Boomed(p, c, v, w), c, v)
<1> DEFINE i == SelectInSeq(p, LAMBDA s : s.cmd = c)
           new == Shot(c, TRUE, v, w, FALSE)
           taken == [new EXCEPT !.seq = p[i].seq]
           q == Boomed(p, c, v, w)
<1>1. /\ Kept(p, c, {c}) /\ p \in Seq(ShotRecord) /\ Len(p) \in Nat /\ now \in Nat /\ nextShot \in Int
      /\ \A k \in 1 .. Len(p) : p[k] \in ShotRecord /\ Fields(p[k])
  BY KeptFields DEF Draft, TrackerTypes
<1>2. Kept(q, c, {c})
  BY <1>1, BoomedKeeps
<1>3. new \in ShotRecord
  BY ShotFits
<1>4. /\ new.seq = nextShot /\ new.cmd = c /\ new.rage /\ new.victim = v /\ new.weapon = w
      /\ ~new.committed /\ new.time = now /\ new.of = {}
      /\ ~new.fired /\ ~new.struck /\ ~new.resolved /\ ~new.missPending
  BY DEF Shot
<1>5. \/ i = 0 /\ \A k \in 1 .. Len(p) : p[k].cmd # c
      \/ i # 0 /\ i \in 1 .. Len(p) /\ p[i].cmd = c
  BY FirstIn
<1>6. q = IF i = 0 THEN Append(p, new)
          ELSE IF ~p[i].rage \/ ~(p[i].committed \/ p[i].fired \/ p[i].struck)
          THEN [p EXCEPT ![i] = taken] ELSE p
  BY DEF Boomed
<1> HIDE DEF i, q, new
<1>7. CASE i = 0
  <2>1. Added(q, p, new)
    BY <1>1, <1>3, <1>6, <1>7, Appended DEF Added
  <2>2. Draft(q, x, V, c)
    BY <1>1, <1>2, <1>3, <1>4, <1>5, <1>7, <2>1, AddedDraft
  <2>3. \A k \in 1 .. Len(q) : q[k].cmd = c => q[k] = new
    BY <1>1, <1>5, <1>7, <2>1 DEF Added
  <2> QED
    BY <1>4, <2>2, <2>3 DEF Terms, Aimed, q
<1>8. CASE i # 0 /\ q = [p EXCEPT ![i] = taken]
  <2>1. /\ taken.seq = p[i].seq /\ taken.cmd = c /\ taken.rage /\ taken.victim = v /\ taken.weapon = w
        /\ ~taken.committed /\ taken.time = now /\ taken.of = {}
        /\ ~taken.fired /\ ~taken.struck /\ ~taken.resolved /\ ~taken.missPending
    BY <1>3, <1>4 DEF ShotRecord
  <2> HIDE DEF taken
  <2>2. Renewed(q, p, i, taken)
    <3>1. p[i].time = now
      BY <1>1, <1>5, <1>8 DEF Kept
    <3> QED
      BY <1>1, <1>5, <1>8, <2>1, <3>1, Marked
  <2>3. Draft(q, x, V, c)
    BY <1>1, <1>2, <2>1, <2>2, RewrittenDraft
  <2>4. \A k \in 1 .. Len(q) : q[k].cmd = c => q[k] = taken
    <3>1. InOrder(p, nextShot + Len(p) - Len(pending))
      BY DEF Draft, Evidence
    <3>2. i \in 1 .. Len(p) /\ p[i].cmd = c
      BY <1>5, <1>8
    <3>3. \A k \in 1 .. Len(p) : p[k].cmd = c => k = i
      BY <1>1, <3>1, <3>2, OneRecord
    <3> QED
      BY <2>2, <3>3 DEF Renewed
  <2> QED
    BY <2>1, <2>3, <2>4 DEF Terms, Aimed, q
<1>9. CASE i # 0 /\ q = p /\ p[i].rage /\ (p[i].committed \/ p[i].fired \/ p[i].struck)
  <2>1. InOrder(p, nextShot + Len(p) - Len(pending)) /\ Past(p, x, c, {c})
    BY DEF Draft, Evidence
  <2>2. \A k \in 1 .. Len(p) : p[k].cmd = c => k = i
    BY <1>1, <1>5, <1>9, <2>1, OneRecord
  <2>3. p[i].of = {} => p[i].committed
    BY <1>5, <1>9, <2>1 DEF Past
  <2>4. Aimed(p, c, v)
    BY <1>9, <2>2, <2>3 DEF Terms, Aimed
  <2> QED
    BY <1>9, <2>4 DEF q
<1> QED
  BY <1>5, <1>6, <1>7, <1>8, <1>9

LEMMA CommittedDraft ==
  ASSUME TrackerTypes, NEW c \in Nat, c > 0, NEW v, NEW w,
         NEW x, \A k \in 1 .. Len(x) : x[k].cmd < c /\ x[k].cmd \in Int,
         NEW V, NEW p, Draft(p, x, V, c), Terms(p, c, v, w, TRUE), Aimed(p, c, v)
  PROVE  Draft(Committed(p, c), x, V, c) /\ Terms(Committed(p, c), c, v, w, TRUE)
<1> DEFINE I == {k \in 1 .. Len(p) : p[k].cmd = c /\ ~p[k].resolved}
           i == IF I # {} THEN Max(I) ELSE 0
           r == [p[i] EXCEPT !.committed = TRUE, !.committedAt = now]
           q == Committed(p, c)
<1>1. /\ Kept(p, c, {c}) /\ p \in Seq(ShotRecord) /\ Len(p) \in Nat /\ now \in Nat
      /\ \A k \in 1 .. Len(p) : p[k] \in ShotRecord
  BY KeptFields DEF Draft, TrackerTypes
<1>2. q = IF i = 0 \/ p[i].committed THEN p ELSE [p EXCEPT ![i] = r]
  BY DEF Committed, SelectLastInSeq
<1>3. Kept(q, c, {c})
  BY <1>1, CommittedKeeps
<1>4. CASE I = {}
  BY <1>2, <1>4
<1>5. CASE I # {}
  <2>1. i \in I
    BY <1>1, <1>5, GreatestIn
  <2>2. i \in 1 .. Len(p) /\ p[i].cmd = c
    BY <2>1
  <2> HIDE DEF i, I, q
  <2>3. /\ r.seq = p[i].seq /\ r.cmd = p[i].cmd /\ r.time = p[i].time /\ r.of = p[i].of
        /\ r.rage = p[i].rage /\ r.victim = p[i].victim /\ r.weapon = p[i].weapon
        /\ r.fired = p[i].fired /\ r.struck = p[i].struck /\ r.resolved = p[i].resolved
        /\ r.missPending = p[i].missPending /\ r.order = p[i].order /\ r.struckAt = p[i].struckAt
    <3>1. p[i] \in ShotRecord
      BY <1>1, <2>2
    <3> QED
      BY <3>1 DEF ShotRecord
  <2> HIDE DEF r
  <2>4. CASE q = p
    BY <2>4 DEF q
  <2>5. CASE q = [p EXCEPT ![i] = r]
    <3>1. Renewed(q, p, i, r)
      BY <1>1, <2>2, <2>3, <2>5, Marked
    <3>2. Draft(q, x, V, c)
      BY <1>1, <1>3, <2>2, <2>3, <3>1, RewrittenDraft
    <3>3. Terms(q, c, v, w, TRUE)
      <4>1. /\ Len(q) = Len(p)
            /\ \A k \in 1 .. Len(p) :
                 /\ q[k].cmd = p[k].cmd /\ q[k].of = p[k].of /\ q[k].weapon = p[k].weapon
                 /\ q[k].rage = p[k].rage /\ q[k].victim = p[k].victim
        BY <2>3, <3>1 DEF Renewed
      <4> QED
        BY <4>1 DEF Terms, Aimed
    <3> QED
      BY <3>2, <3>3 DEF q
  <2> QED
    BY <1>2, <2>4, <2>5
<1> QED
  BY <1>4, <1>5

LEMMA FinalizedDraft ==
  ASSUME TrackerTypes, Len(pending) \in Nat, NEW c \in Nat, c > 0, NEW v, NEW w \in Weapons,
         NEW x, NEW V, NEW p, Draft(p, x, V, c), NEW bound, Terms(p, c, v, w, bound)
  PROVE  Draft(Finalized(p, c, w), x, V, c) /\ Terms(Finalized(p, c, w), c, v, w, bound)
<1> DEFINE new == Shot(c, FALSE, NoVictim, w, TRUE)
           q == Finalized(p, c, w)
<1>1. /\ Kept(p, c, {c}) /\ p \in Seq(ShotRecord) /\ Len(p) \in Nat /\ DOMAIN p = 1 .. Len(p)
      /\ now \in Nat /\ nextShot \in Int
  BY KeptFields DEF Draft, TrackerTypes
<1>2. Kept(q, c, {c})
  BY <1>1, FinalizedKeeps
<1>3. new \in ShotRecord
  BY ShotFits
<1>4. /\ new.seq = nextShot /\ new.cmd = c /\ ~new.rage /\ new.weapon = w /\ new.time = now /\ new.of = {}
      /\ ~new.fired /\ ~new.struck /\ ~new.resolved /\ ~new.missPending
  BY DEF Shot
<1>5. q = IF \E i \in 1 .. Len(p) : p[i].cmd = c THEN p ELSE Append(p, new)
  BY <1>1 DEF Finalized
<1> HIDE DEF q, new
<1>6. CASE \E i \in 1 .. Len(p) : p[i].cmd = c
  BY <1>5, <1>6 DEF q
<1>7. CASE \A i \in 1 .. Len(p) : p[i].cmd # c
  <2>1. Added(q, p, new)
    BY <1>1, <1>3, <1>5, <1>7, Appended DEF Added
  <2>2. Draft(q, x, V, c)
    BY <1>1, <1>2, <1>3, <1>4, <1>7, <2>1, AddedDraft
  <2>3. \A k \in 1 .. Len(q) : q[k].cmd = c => q[k] = new
    BY <1>1, <1>7, <2>1 DEF Added
  <2> QED
    BY <1>4, <2>2, <2>3 DEF Terms, q
<1> QED
  BY <1>6, <1>7

\* Before it is made, the command may have a record from its last run.
LEMMA BaseDraft ==
  ASSUME TrackerInv, EvidenceInv, NEW c \in 1 .. MaxCommand,
         (c = command + 1 /\ ~moved) \/ (c = command /\ moved),
         NEW x \in Seq(Group),
         \A k \in 1 .. Len(x) : k \in 1 .. Len(wire) /\ x[k] = wire[k] /\ x[k].cmd < c,
         NEW V, V \subseteq Nat, \A d \in Unrecorded : d = c \/ d \in V
  PROVE  Draft(pending, x, V, c)
<1>1. /\ Len(pending) \in Nat /\ \A k \in 1 .. Len(pending) : Fields(pending[k])
      /\ command \in Nat /\ c \in Nat /\ nextShot \in Int /\ Unrecorded \subseteq Nat
      /\ Kept(pending, command, Made) /\ MaxCommand \in Nat
  BY Situation, Times DEF TrackerInv
<1>2. Evidence(pending, wire, active, nextShot, nextImpact, command, Made, now, Unrecorded)
  BY DEF EvidenceInv
<1>3. /\ Traffic(wire, command, Made, now) /\ Own(pending, wire, active, Unrecorded)
      /\ InOrder(pending, nextShot) /\ Spaced(pending, now, Made)
      /\ Past(pending, wire, command, Made) /\ Patient(pending, now)
      /\ Rightful(pending, Unrecorded)
      /\ Latest(pending, wire, nextImpact, now, Unrecorded)
  BY <1>2 DEF Evidence
<1>4. command <= c /\ Made \subseteq {c} /\ (\A e \in Nat : e <= command /\ e \notin Made => e < c)
  BY <1>1 DEF Made
<1>5. Kept(pending, c, {c})
  <2>1. CASE c = command + 1
    BY <1>1, <2>1 DEF Kept, Fields
  <2>2. CASE c = command /\ moved
    BY <1>1, <2>2 DEF Kept, Made
  <2> QED
    BY <2>1, <2>2
<1>6. \A e \in Nat : e < c /\ Clear(V, e) => Clear(Unrecorded, e)
  BY <1>1 DEF Clear
<1>7. \A k \in 1 .. Len(x) : x[k].cmd \in Nat
  BY WireParcels DEF Parcel
<1>8. Traffic(x, c, {c}, now)
  <2> SUFFICES ASSUME NEW k \in 1 .. Len(x)
               PROVE  /\ x[k].cmd <= c
                      /\ Rtt < x[k].due /\ x[k].due <= now + Rtt
                      /\ x[k].cmd \in {c} => x[k].due = now + Rtt
                      /\ IF x[k].fired THEN k = 1 /\ x[k].due <= now /\ now <= x[k].due + Late
                         ELSE now <= x[k].due
                      /\ \A j \in 1 .. Len(x) : j < k => x[j].cmd < x[k].cmd
    BY DEF Traffic
  <2>1. x[k].cmd <= c /\ x[k].cmd # c
    BY <1>1, <1>7
  <2> QED
    BY <1>3, <2>1 DEF Traffic
<1>9. Spaced(pending, now, {c})
  BY <1>3, <1>4 DEF Spaced
<1>10. Past(pending, x, c, {c})
  <2> SUFFICES ASSUME NEW i \in 1 .. Len(pending)
               PROVE  /\ pending[i].of = {} => ~pending[i].fired /\ ~pending[i].struck /\ ~pending[i].resolved
                      /\ \A e \in pending[i].of :
                           /\ e <= c /\ e \notin {c}
                           /\ \A k \in 1 .. Len(x) :
                                e < x[k].cmd \/ (k = 1 /\ x[k].fired /\ e = x[k].cmd)
    BY DEF Past
  <2>1. \A e \in pending[i].of : e \in Nat /\ e <= command /\ e \notin Made
    BY <1>1, <1>3 DEF Past, Fields
  <2>2. \A e \in pending[i].of : e < c
    BY <1>4, <2>1
  <2> QED
    BY <1>1, <1>3, <2>1, <2>2 DEF Past
<1>11. Rightful(pending, V)
  <2>1. \A i \in 1 .. Len(pending) : \A e \in pending[i].of : e \in Nat /\ e < c
    BY <1>1, <1>3, <1>4 DEF Past, Fields
  <2> QED
    BY <1>3, <1>6, <2>1 DEF Rightful
<1>12. Own(pending, x, active, V)
  BY <1>3, <1>6, <1>7 DEF Own
<1>13. Latest(pending, x, nextImpact, now, V)
  <2> SUFFICES ASSUME NEW k \in 1 .. Len(pending), pending[k].struck
               PROVE  /\ pending[k].order < nextImpact /\ pending[k].struckAt <= now
                      /\ \A l \in 1 .. Len(x) :
                           x[l].fired /\ Clear(V, x[l].cmd) /\ pending[k].cmd # x[l].cmd =>
                             /\ pending[k].struckAt <= x[l].due
                             /\ \A j \in 1 .. Len(pending) :
                                  pending[j].cmd = x[l].cmd /\ pending[j].struck =>
                                    pending[k].order < pending[j].order
    BY DEF Latest
  <2>1. \A l \in 1 .. Len(x) : Clear(V, x[l].cmd) =>
          l \in 1 .. Len(wire) /\ x[l] = wire[l] /\ Clear(Unrecorded, wire[l].cmd)
    BY <1>6, <1>7
  <2> QED
    BY <1>3, <2>1 DEF Latest
<1>14. nextShot + Len(pending) - Len(pending) = nextShot
  BY <1>1
<1>15. Evidence(pending, x, active, nextShot, nextImpact, c, {c}, now, V)
  BY <1>3, <1>8, <1>9, <1>10, <1>11, <1>12, <1>13 DEF Evidence
<1> QED
  BY <1>5, <1>14, <1>15 DEF Draft

LEMMA BaseTerms ==
  ASSUME TrackerInv, EvidenceInv, NEW c \in 1 .. MaxCommand, NEW v, NEW w, NEW bound,
         \A s \in ToSet(pending) : s.cmd = c => s.weapon = w,
         LET old == SelectInSeq(pending, LAMBDA s : s.cmd = c /\ s.rage /\ s.committed)
         IN  old > 0 => bound /\ v = pending[old].victim
  PROVE  Terms(pending, c, v, w, bound)
<1> DEFINE I == {j \in 1 .. Len(pending) : pending[j].cmd = c /\ pending[j].rage /\ pending[j].committed}
           old == SelectInSeq(pending, LAMBDA s : s.cmd = c /\ s.rage /\ s.committed)
<1>1. /\ Len(pending) \in Nat /\ DOMAIN pending = 1 .. Len(pending)
      /\ \A k \in 1 .. Len(pending) : Fields(pending[k])
      /\ InOrder(pending, nextShot) /\ c > 0
  <2>1. InOrder(pending, nextShot)
    BY DEF EvidenceInv, Evidence
  <2>2. c > 0
    BY Times
  <2> QED
    BY <2>1, <2>2, Situation
<1>2. old = IF I # {} THEN Min(I) ELSE 0
  BY DEF SelectInSeq
<1>3. old > 0 => bound /\ v = pending[old].victim
  OBVIOUS
<1>4. I \subseteq 1 .. Len(pending) /\ I \subseteq Nat
  OBVIOUS
<1>5. \A j \in I : pending[j].cmd = c
  OBVIOUS
<1>6. \A j \in 1 .. Len(pending) : pending[j].cmd = c => pending[j].weapon = w
  BY <1>1 DEF ToSet
<1>7. ASSUME NEW j \in 1 .. Len(pending), pending[j].cmd = c, pending[j].rage, pending[j].committed
      PROVE  bound /\ pending[j].victim = v
  <2>1. I # {}
    BY <1>7
  <2> HIDE DEF I, old
  <2>2. old \in I /\ old > 0
    BY <1>2, <1>4, <2>1, LeastIn
  <2>3. old = j
    BY <1>1, <1>4, <1>5, <1>7, <2>2, OneRecord
  <2> QED
    BY <1>3, <2>2, <2>3
<1> QED
  BY <1>6, <1>7 DEF Terms

\* The three writers in turn.
LEMMA MadeDraft ==
  ASSUME TrackerInv, EvidenceInv, NEW rage \in BOOLEAN, NEW commits \in BOOLEAN, NEW claimed \in BOOLEAN,
         NEW c \in 1 .. MaxCommand, NEW v \in Victims, NEW w \in Weapons,
         NEW x \in Seq(Group), \A k \in 1 .. Len(x) : x[k].cmd < c,
         NEW V, Draft(pending, x, V, c), Terms(pending, c, v, w, rage /\ commits)
  PROVE  LET boomed == IF rage THEN Boomed(pending, c, v, w) ELSE pending
             shot == IF rage /\ commits THEN Committed(boomed, c) ELSE boomed
             made == IF claimed THEN Finalized(shot, c, w) ELSE shot
         IN  /\ Draft(boomed, x, V, c) /\ Draft(shot, x, V, c)
             /\ Draft(made, x, V, c) /\ Terms(made, c, v, w, rage /\ commits)
<1> DEFINE boomed == IF rage THEN Boomed(pending, c, v, w) ELSE pending
           shot == IF rage /\ commits THEN Committed(boomed, c) ELSE boomed
           made == IF claimed THEN Finalized(shot, c, w) ELSE shot
           bound == rage /\ commits
<1>1. /\ TrackerTypes /\ Len(pending) \in Nat /\ c \in Nat /\ c > 0
      /\ \A k \in 1 .. Len(x) : x[k].cmd < c /\ x[k].cmd \in Int
  <2>1. \A k \in 1 .. Len(x) : x[k].cmd \in Int
    BY WireParcels DEF Parcel
  <2>2. TrackerTypes /\ Len(pending) \in Nat
    BY Situation DEF TrackerInv
  <2>3. c \in Nat /\ c > 0
    BY Times
  <2> QED
    BY <2>1, <2>2, <2>3
<1>2. /\ Draft(boomed, x, V, c) /\ Terms(boomed, c, v, w, bound)
      /\ rage => Aimed(boomed, c, v)
  BY <1>1, BoomedDraft
<1> HIDE DEF boomed
<1>3. Draft(shot, x, V, c) /\ Terms(shot, c, v, w, bound)
  <2>1. CASE rage /\ commits
    <3>1. Terms(boomed, c, v, w, TRUE)
      BY <1>2 DEF Terms
    <3>2. Draft(Committed(boomed, c), x, V, c) /\ Terms(Committed(boomed, c), c, v, w, TRUE)
      BY <1>1, <1>2, <2>1, <3>1, CommittedDraft
    <3>3. Terms(Committed(boomed, c), c, v, w, bound)
      BY <2>1, <3>2 DEF Terms
    <3> QED
      BY <2>1, <3>2, <3>3
  <2>2. CASE ~(rage /\ commits)
    BY <1>2, <2>2
  <2> QED
    BY <2>1, <2>2
<1> HIDE DEF shot, bound
<1>4. Draft(made, x, V, c) /\ Terms(made, c, v, w, bound)
  BY <1>1, <1>3, FinalizedDraft
<1> QED
  BY <1>2, <1>3, <1>4 DEF made, shot, boomed, bound

\* The server gets the attack, if it fires it, with its record.
LEMMA SentEvidence ==
  ASSUME now \in Nat, now > 0, NEW c \in 1 .. MaxCommand, NEW v \in Victims, NEW w \in Weapons, NEW bound,
         NEW result \in Victims \cup {NoVictim, "rejected"},
         bound => result \in {"rejected", NoVictim, v},
         NEW x \in Seq(Group), \A k \in 1 .. Len(x) : x[k].cmd < c,
         NEW V, V \subseteq Nat, NEW p, Draft(p, x, V, c), Terms(p, c, v, w, bound),
         c \in V \/ \E i \in 1 .. Len(p) : p[i].cmd = c /\ p[i].committed,
         NEW y, IF result = "rejected" THEN y = x ELSE y = Append(x, Attack(c, w, result)),
         y \in Seq(Group)
  PROVE  Evidence(p, y, active, nextShot + Len(p) - Len(pending), nextImpact, c, {c}, now, V)
<1> DEFINE n == nextShot + Len(p) - Len(pending)
           g == Attack(c, w, result)
<1>1. /\ Kept(p, c, {c}) /\ Len(p) \in Nat
      /\ \A k \in 1 .. Len(p) : p[k] \in ShotRecord /\ Fields(p[k])
      /\ c \in Nat /\ c > 0 /\ Len(x) \in Nat /\ \A k \in 1 .. Len(x) : x[k].cmd \in Nat
  <2>1. Kept(p, c, {c})
    BY DEF Draft
  <2>2. Len(x) \in Nat /\ \A k \in 1 .. Len(x) : x[k].cmd \in Nat
    BY WireParcels DEF Parcel
  <2>3. c \in Nat /\ c > 0
    BY Times
  <2> QED
    BY <2>1, <2>2, <2>3, KeptFields
<1>2. Evidence(p, x, active, n, nextImpact, c, {c}, now, V)
  BY DEF Draft
<1> HIDE DEF n
<1>3. /\ Traffic(x, c, {c}, now) /\ Own(p, x, active, V)
      /\ InOrder(p, n) /\ Spaced(p, now, {c})
      /\ Past(p, x, c, {c}) /\ Patient(p, now) /\ Rightful(p, V)
      /\ Latest(p, x, nextImpact, now, V)
  BY <1>2 DEF Evidence
<1>4. CASE result = "rejected"
  BY <1>2, <1>4 DEF n
<1>5. CASE result # "rejected"
  <2>1. /\ g.cmd = c /\ g.due = now + Rtt /\ ~g.fired /\ g.fired = FALSE /\ g.hurts = result
        /\ w = "shotgun" \/ g.impacts = 1
    BY DEF Attack
  <2>2. g \in Group
    BY <1>5, Times DEF Attack, Group
  <2> HIDE DEF g
  <2>3. /\ Len(y) = Len(x) + 1 /\ y[Len(x) + 1] = g /\ \A k \in 1 .. Len(x) : y[k] = x[k]
        /\ \A k \in 1 .. Len(y) : k \in 1 .. Len(x) \/ k = Len(x) + 1
        /\ Len(x) + 1 \in 1 .. Len(y)
    <3>1. y = Append(x, g)
      BY <1>5 DEF g
    <3>2. /\ Len(y) = Len(x) + 1 /\ y[Len(x) + 1] = g /\ \A k \in 1 .. Len(x) : y[k] = x[k]
      BY <2>2, <3>1, Appended
    <3> QED
      BY <1>1, <3>2
  <2>4. Traffic(y, c, {c}, now)
    <3> SUFFICES ASSUME NEW k \in 1 .. Len(y)
                 PROVE  /\ y[k].cmd <= c
                        /\ Rtt < y[k].due /\ y[k].due <= now + Rtt
                        /\ y[k].cmd \in {c} => y[k].due = now + Rtt
                        /\ IF y[k].fired THEN k = 1 /\ y[k].due <= now /\ now <= y[k].due + Late
                           ELSE now <= y[k].due
                        /\ \A j \in 1 .. Len(y) : j < k => y[j].cmd < y[k].cmd
      BY DEF Traffic
    <3>1. CASE k \in 1 .. Len(x)
      <4>1. y[k] = x[k]
        BY <2>3, <3>1
      <4>2. \A j \in 1 .. Len(y) : j < k => j \in 1 .. Len(x) /\ y[j] = x[j]
        BY <1>1, <2>3, <3>1
      <4> QED
        BY <1>3, <3>1, <4>1, <4>2 DEF Traffic
    <3>2. CASE k = Len(x) + 1
      <4>1. y[k] = g
        BY <2>3, <3>2
      <4>2. Rtt < now + Rtt /\ now <= now + Rtt /\ now + Rtt <= now + Rtt
        BY Times
      <4>3. \A j \in 1 .. Len(y) : j < k => y[j].cmd < c
        BY <1>1, <2>3, <3>2
      <4>4. /\ y[k].cmd = c /\ c <= c /\ y[k].due = now + Rtt /\ ~y[k].fired
            /\ \A j \in 1 .. Len(y) : j < k => y[j].cmd < y[k].cmd
        BY <1>1, <2>1, <4>1, <4>3
      <4> QED
        BY <4>2, <4>4
    <3> QED
      BY <2>3, <3>1, <3>2
  <2>5. ASSUME NEW i \in 1 .. Len(p), NEW e \in p[i].of PROVE e \in Nat /\ e < c
    BY <1>1, <1>3, <2>5 DEF Past, Fields
  <2>6. Past(p, y, c, {c})
    <3> SUFFICES ASSUME NEW i \in 1 .. Len(p)
                 PROVE  /\ p[i].of = {} => ~p[i].fired /\ ~p[i].struck /\ ~p[i].resolved
                        /\ \A e \in p[i].of :
                             /\ e <= c /\ e \notin {c}
                             /\ \A k \in 1 .. Len(y) :
                                  e < y[k].cmd \/ (k = 1 /\ y[k].fired /\ e = y[k].cmd)
      BY DEF Past
    <3>1. p[i].of = {} => ~p[i].fired /\ ~p[i].struck /\ ~p[i].resolved
      BY <1>3 DEF Past
    <3>2. \A e \in p[i].of : \A k \in 1 .. Len(x) :
            e < x[k].cmd \/ (k = 1 /\ x[k].fired /\ e = x[k].cmd)
      BY <1>3 DEF Past
    <3>3. ASSUME NEW e \in p[i].of
          PROVE  /\ e <= c /\ e \notin {c}
                 /\ \A k \in 1 .. Len(y) :
                      e < y[k].cmd \/ (k = 1 /\ y[k].fired /\ e = y[k].cmd)
      <4>1. e \in Nat /\ e < c
        BY <2>5, <3>3
      <4>2. e <= c /\ e \notin {c}
        BY <1>1, <4>1
      <4>3. ASSUME NEW k \in 1 .. Len(y)
            PROVE  e < y[k].cmd \/ (k = 1 /\ y[k].fired /\ e = y[k].cmd)
        <5>1. CASE k \in 1 .. Len(x)
          BY <2>3, <3>2, <3>3, <5>1
        <5>2. CASE y[k] = g
          BY <2>1, <4>1, <5>2
        <5> QED
          BY <2>3, <5>1, <5>2
      <4> QED
        BY <4>2, <4>3
    <3> QED
      BY <3>1, <3>3
  <2>7. Own(p, y, active, V)
    <3> SUFFICES ASSUME NEW k \in 1 .. Len(y), Clear(V, y[k].cmd)
                 PROVE  \E i \in 1 .. Len(p) : Awaits(p[i], y[k], active)
      BY DEF Own
    <3>1. CASE k \in 1 .. Len(x)
      BY <1>3, <2>3, <3>1 DEF Own
    <3>2. CASE k = Len(x) + 1
      <4>1. y[k] = g /\ Clear(V, c)
        BY <2>1, <2>3, <3>2
      <4>2. c \notin V
        BY <1>1, <4>1 DEF Clear
      <4>3. PICK i \in 1 .. Len(p) : p[i].cmd = c /\ p[i].committed
        BY <4>2
      <4>4. p[i].of = {}
        <5> SUFFICES ASSUME NEW e \in p[i].of PROVE FALSE
          OBVIOUS
        <5>1. e \in Nat /\ e < c
          BY <2>5
        <5>2. Clear(V, e)
          BY <1>1, <4>1, <5>1 DEF Clear
        <5> QED
          BY <1>3, <4>3, <5>1, <5>2 DEF Rightful
      <4>5. /\ ~p[i].fired /\ ~p[i].struck /\ ~p[i].resolved
        BY <1>3, <4>4 DEF Past
      <4>6. p[i].time = now /\ ~p[i].missPending
        <5>1. p[i].time = now
          BY <1>1, <4>3 DEF Kept
        <5> QED
          BY <1>3, <4>4, <5>1 DEF Patient
      <4>7. /\ p[i].weapon = w /\ (p[i].rage => bound /\ p[i].victim = v)
        BY <4>3, <4>4 DEF Terms
      <4>8. p[i].rage => g.hurts \in {NoVictim, p[i].victim}
        BY <1>5, <2>1, <4>7
      <4>9. p[i].time = g.due - Rtt
        BY <2>1, <4>6, Times
      <4>10. p[i].fired = g.fired
        BY <1>1, <2>1, <4>5 DEF ShotRecord
      <4>11. p[i].weapon = "shotgun" \/ g.impacts = 0 \/ (g.impacts = 1 /\ ~p[i].struck)
        BY <2>1, <4>5, <4>7
      <4>12. Awaits(p[i], g, active)
        BY <2>1, <4>3, <4>4, <4>5, <4>6, <4>8, <4>9, <4>10, <4>11 DEF Awaits
      <4> QED
        BY <4>1, <4>12
    <3> QED
      BY <2>3, <3>1, <3>2
  <2>8. Latest(p, y, nextImpact, now, V)
    <3>1. \A k \in 1 .. Len(y) : y[k].fired => k \in 1 .. Len(x) /\ y[k] = x[k]
      BY <2>1, <2>3
    <3> QED
      BY <1>3, <3>1 DEF Latest
  <2> QED
    BY <1>3, <2>4, <2>6, <2>7, <2>8 DEF Evidence, n
<1> QED
  BY <1>4, <1>5

LEMMA WithoutFirst ==
  ASSUME NEW S, NEW p \in Seq(S), NEW k \in Nat, k <= Len(p)
  PROVE  /\ Len(SubSeq(p, k + 1, Len(p))) = Len(p) - k
         /\ \A j \in 1 .. Len(p) - k : SubSeq(p, k + 1, Len(p))[j] = p[k + j]
<1>1. /\ k + 1 \in 1 .. Len(p) + 1 /\ Len(p) \in 0 .. Len(p) /\ k + 1 <= Len(p) + 1
      /\ Len(p) + 1 - (k + 1) = Len(p) - k /\ \A j \in 1 .. Len(p) - k : k + 1 - 1 + j = k + j
  OBVIOUS
<1> QED
  BY <1>1, Part

\* A full tracker pushes its oldest records out, with their commands.
LEMMA TrimEvidence ==
  ASSUME NEW p, NEW y \in Seq(Group), NEW a, NEW n, NEW o, NEW c, NEW fresh, NEW t, NEW V, V \subseteq Nat,
         Kept(p, c, fresh), Evidence(p, y, a, n, o, c, fresh, t, V),
         {s.cmd : s \in ToSet(Overflowing(p))} \subseteq V
  PROVE  Evidence(SubSeq(p, Len(Overflowing(p)) + 1, Len(p)), y, a, n, o, c, fresh, t, V)
<1>1. p \in Seq(ShotRecord) /\ Len(p) \in Nat /\ DOMAIN p = 1 .. Len(p)
  BY KeptFields
<1>2. PICK k \in Nat : /\ k <= Len(p) /\ k = Len(Overflowing(p))
                       /\ \A j \in 1 .. k : p[j].cmd \in V
  <2>1. CASE Len(p) > MaxPending
    <3> DEFINE m == Len(p) - MaxPending
               out == SubSeq(p, 1, m)
    <3>1. m \in 0 .. Len(p) /\ m \in Nat /\ m <= Len(p) /\ m + 1 - 1 = m /\ 1 \in 1 .. Len(p) + 1 /\ 1 <= m + 1
          /\ \A j \in 1 .. m : 1 - 1 + j = j
      BY <1>1, <2>1, Times
    <3>2. Overflowing(p) = out
      BY <2>1 DEF Overflowing
    <3> HIDE DEF m
    <3>3. out \in Seq(ShotRecord) /\ Len(out) = m /\ \A j \in 1 .. m : out[j] = p[j]
      BY <1>1, <3>1, Part
    <3> HIDE DEF out
    <3>4. \A j \in 1 .. m : p[j] \in ToSet(out)
      BY <3>3 DEF ToSet
    <3> QED
      BY <3>1, <3>2, <3>3, <3>4
  <2>2. CASE ~(Len(p) > MaxPending)
    BY <1>1, <2>2 DEF Overflowing
  <2> QED
    BY <2>1, <2>2
<1> DEFINE q == SubSeq(p, k + 1, Len(p))
           m == [j \in 1 .. Len(q) |-> k + j]
<1>3. Len(q) = Len(p) - k /\ \A j \in 1 .. Len(p) - k : q[j] = p[k + j]
  <2>1. k \in Nat /\ k <= Len(p)
    BY <1>2
  <2> QED
    BY <1>1, <2>1, WithoutFirst
<1> HIDE DEF q
<1>4. \A j \in 1 .. Len(q) : k + j \in 1 .. Len(p) /\ q[j] = p[k + j] /\ m[j] = k + j
  BY <1>1, <1>2, <1>3
<1>5. Len(q) \in Nat
  BY <1>1, <1>2, <1>3
<1>6. \A j, l \in 1 .. Len(q) : j < l => m[j] < m[l]
  BY <1>2, <1>4, <1>5
<1> HIDE DEF m
<1>7. Thinned(q, p, m)
  BY <1>4, <1>5, <1>6 DEF Thinned, Same
<1>8. /\ Traffic(y, c, fresh, t) /\ Own(p, y, a, V)
      /\ InOrder(p, n) /\ Spaced(p, t, fresh)
      /\ Past(p, y, c, fresh) /\ Patient(p, t) /\ Rightful(p, V)
      /\ Latest(p, y, o, t, V)
  BY DEF Evidence
<1>9. /\ InOrder(q, n) /\ Spaced(q, t, fresh) /\ Past(q, y, c, fresh)
      /\ Rightful(q, V) /\ Latest(q, y, o, t, V)
  BY <1>7, <1>8, ThinnedKeeps
<1>10. Patient(q, t)
  BY <1>4, <1>8 DEF Patient
<1>11. Own(q, y, a, V)
  <2> SUFFICES ASSUME NEW l \in 1 .. Len(y), Clear(V, y[l].cmd)
               PROVE  \E j \in 1 .. Len(q) : Awaits(q[j], y[l], a)
    BY DEF Own
  <2>1. PICK i \in 1 .. Len(p) : Awaits(p[i], y[l], a)
    BY <1>8 DEF Own
  <2>2. p[i].cmd = y[l].cmd /\ y[l].cmd \in Nat
    BY <2>1, WireParcels DEF Awaits, Parcel
  <2>3. p[i].cmd \notin V
    BY <2>2 DEF Clear
  <2>4. ~(i <= k)
    BY <1>2, <2>3
  <2>5. i - k \in 1 .. Len(q) /\ k + (i - k) = i
    BY <1>1, <1>2, <1>3, <2>4
  <2>6. q[i - k] = p[i]
    BY <1>4, <2>5
  <2> QED
    BY <2>1, <2>5, <2>6
<1>12. Evidence(q, y, a, n, o, c, fresh, t, V)
  BY <1>8, <1>9, <1>10, <1>11 DEF Evidence
<1> QED
  BY <1>2, <1>12 DEF q

\* What the writers make of the list, and what is on the wire then.
LEMMA MoveDraft ==
  ASSUME TrackerInv, EvidenceInv, NEW rage \in BOOLEAN, NEW commits \in BOOLEAN, NEW claimed \in BOOLEAN,
         NEW c \in 1 .. MaxCommand, NEW v \in Victims, NEW w \in Weapons,
         NEW result \in Victims \cup {NoVictim, "rejected"},
         CreateMove(c, rage, commits, claimed, v, w, result)
  PROVE  LET boomed == IF rage THEN Boomed(pending, c, v, w) ELSE pending
             shot == IF rage /\ commits THEN Committed(boomed, c) ELSE boomed
             made == IF claimed THEN Finalized(shot, c, w) ELSE shot
         IN  /\ Unrecorded' \subseteq Nat /\ \A d \in Unrecorded : d = c \/ d \in Unrecorded'
             /\ \E x \in Seq(Group) :
                  /\ \A k \in 1 .. Len(x) : k \in 1 .. Len(wire) /\ x[k] = wire[k] /\ x[k].cmd < c
                  /\ IF result = "rejected" THEN wire' = x
                     ELSE wire' = Append(x, Attack(c, w, result))
                  /\ Draft(pending, x, Unrecorded', c)
                  /\ Draft(boomed, x, Unrecorded', c) /\ Draft(shot, x, Unrecorded', c)
                  /\ Draft(made, x, Unrecorded', c) /\ Terms(made, c, v, w, rage /\ commits)
<1> DEFINE boomed == IF rage THEN Boomed(pending, c, v, w) ELSE pending
           shot == IF rage /\ commits THEN Committed(boomed, c) ELSE boomed
           made == IF claimed THEN Finalized(shot, c, w) ELSE shot
           found == {s \in ToSet(made) : s.cmd = c /\ s.committed}
           V == Unrecorded'
           bound == rage /\ commits
<1>1. /\ TrackerTypes /\ TrackerTypes' /\ Len(pending) \in Nat /\ now \in Nat /\ now > 0
      /\ Unrecorded \subseteq Nat /\ c \in Nat
  <2>1. TrackerInv'
    BY CreateMoveStep
  <2> QED
    BY <2>1, Situation DEF TrackerInv, TrackerTypes
<1>2. (c = command + 1 /\ ~moved) \/ (c = command /\ moved)
  BY DEF CreateMove
<1>3. /\ Trim(made) /\ nextShot' = nextShot + Len(made) - Len(pending)
      /\ strays' = IF found = {} THEN strays \cup {c} ELSE strays \ {c}
      /\ Sent(c, w, result) /\ command' = c /\ Made' = {c}
      /\ active' = active /\ nextImpact' = nextImpact /\ now' = now
  BY DEF CreateMove, Made
<1>4. /\ \A s \in ToSet(pending) : s.cmd = c => s.weapon = w
      /\ LET old == SelectInSeq(pending, LAMBDA s : s.cmd = c /\ s.rage /\ s.committed)
         IN  old > 0 => bound /\ v = pending[old].victim
      /\ bound => result \in {"rejected", NoVictim, v}
  BY DEF CreateMove
<1> HIDE DEF bound
<1>5. Terms(pending, c, v, w, bound)
  BY <1>4, BaseTerms
<1>6. PICK x \in Seq(Group) :
        /\ \A k \in 1 .. Len(x) : k \in 1 .. Len(wire) /\ x[k] = wire[k] /\ x[k].cmd < c
        /\ IF result = "rejected" THEN wire' = x ELSE wire' = Append(x, Attack(c, w, result))
  <2>1. Traffic(wire, command, Made, now)
    BY DEF EvidenceInv, Evidence
  <2> QED
    BY <1>1, <1>2, <1>3, <2>1, SentWire
<1>7. /\ pending' = SubSeq(made, Len(Overflowing(made)) + 1, Len(made))
      /\ V = strays' \cup evicted \cup {s.cmd : s \in ToSet(Overflowing(made))}
  BY <1>3 DEF Trim, Unrecorded
<1>8. \A d \in Unrecorded : d = c \/ d \in V
  BY <1>3, <1>7 DEF Unrecorded
<1>9. Kept(made, c, {c})
  <2>1. Draft(pending, x, Nat, c)
    BY <1>1, <1>2, <1>6, BaseDraft
  <2>2. Draft(made, x, Nat, c)
    BY <1>5, <1>6, <2>1, MadeDraft DEF bound
  <2> QED
    BY <2>2 DEF Draft
<1>10. V \subseteq Nat
  <2>1. \A i \in 1 .. Len(made) : made[i].cmd \in Nat
    BY <1>9, KeptFields DEF Fields
  <2>2. ToSet(Overflowing(made)) \subseteq ToSet(made)
    <3>1. made \in Seq(ShotRecord) /\ Len(made) \in Nat
      BY <1>9 DEF Kept
    <3> HIDE DEF made
    <3> QED
      BY <3>1, Times DEF Overflowing, ToSet
  <2>3. \A s \in ToSet(made) : s.cmd \in Nat
    <3>1. made \in Seq(ShotRecord) /\ DOMAIN made = 1 .. Len(made)
      BY <1>9 DEF Kept
    <3> HIDE DEF made
    <3> QED
      BY <2>1, <3>1 DEF ToSet
  <2>4. strays \subseteq Nat /\ evicted \subseteq Nat
    BY <1>1 DEF Unrecorded
  <2> HIDE DEF made, found, V
  <2> QED
    BY <1>1, <1>3, <1>7, <2>2, <2>3, <2>4
<1> HIDE DEF V
<1>11. Draft(pending, x, V, c)
  BY <1>1, <1>2, <1>6, <1>8, <1>10, BaseDraft
<1>12. /\ Draft(boomed, x, V, c) /\ Draft(shot, x, V, c)
       /\ Draft(made, x, V, c) /\ Terms(made, c, v, w, bound)
  BY <1>5, <1>6, <1>11, MadeDraft DEF bound
<1> QED
  BY <1>6, <1>8, <1>10, <1>11, <1>12 DEF bound, V

LEMMA CreateMoveEvidence ==
  ASSUME TrackerInv, EvidenceInv, NEW rage \in BOOLEAN, NEW commits \in BOOLEAN, NEW claimed \in BOOLEAN,
         NEW c \in 1 .. MaxCommand, NEW v \in Victims, NEW w \in Weapons,
         NEW result \in Victims \cup {NoVictim, "rejected"},
         CreateMove(c, rage, commits, claimed, v, w, result)
  PROVE  EvidenceInv'
<1> DEFINE boomed == IF rage THEN Boomed(pending, c, v, w) ELSE pending
           shot == IF rage /\ commits THEN Committed(boomed, c) ELSE boomed
           made == IF claimed THEN Finalized(shot, c, w) ELSE shot
           found == {s \in ToSet(made) : s.cmd = c /\ s.committed}
           V == Unrecorded'
           bound == rage /\ commits
<1>1. TrackerTypes' /\ now \in Nat /\ now > 0
  <2>1. TrackerInv'
    BY CreateMoveStep
  <2> QED
    BY <2>1, Situation DEF TrackerInv, TrackerTypes
<1>2. /\ Trim(made) /\ nextShot' = nextShot + Len(made) - Len(pending)
      /\ strays' = IF found = {} THEN strays \cup {c} ELSE strays \ {c}
      /\ command' = c /\ Made' = {c}
      /\ active' = active /\ nextImpact' = nextImpact /\ now' = now
      /\ bound => result \in {"rejected", NoVictim, v}
  BY DEF CreateMove, Made
<1>3. /\ V \subseteq Nat
      /\ \E x \in Seq(Group) :
           /\ \A k \in 1 .. Len(x) : k \in 1 .. Len(wire) /\ x[k] = wire[k] /\ x[k].cmd < c
           /\ IF result = "rejected" THEN wire' = x ELSE wire' = Append(x, Attack(c, w, result))
           /\ Draft(made, x, V, c) /\ Terms(made, c, v, w, bound)
  BY MoveDraft
<1> HIDE DEF bound
<1>4. /\ pending' = SubSeq(made, Len(Overflowing(made)) + 1, Len(made))
      /\ V = strays' \cup evicted \cup {s.cmd : s \in ToSet(Overflowing(made))}
  BY <1>2 DEF Trim, Unrecorded
<1> HIDE DEF V, made
<1>5. PICK x \in Seq(Group) :
        /\ \A k \in 1 .. Len(x) : x[k].cmd < c
        /\ IF result = "rejected" THEN wire' = x ELSE wire' = Append(x, Attack(c, w, result))
        /\ Draft(made, x, V, c) /\ Terms(made, c, v, w, bound)
  BY <1>3
<1>6. Kept(made, c, {c})
  BY <1>5 DEF Draft
<1>7. c \in V \/ \E i \in 1 .. Len(made) : made[i].cmd = c /\ made[i].committed
  <2>1. made \in Seq(ShotRecord) /\ DOMAIN made = 1 .. Len(made)
    BY <1>6 DEF Kept
  <2>2. CASE found = {}
    BY <1>2, <1>4, <2>2
  <2>3. CASE found # {}
    <3>1. PICK s \in ToSet(made) : s.cmd = c /\ s.committed
      BY <2>3
    <3> QED
      BY <2>1, <3>1 DEF ToSet
  <2> QED
    BY <2>2, <2>3
<1> HIDE DEF found
<1>8. wire' \in Seq(Group)
  BY <1>1 DEF TrackerTypes
<1>9. Evidence(made, wire', active, nextShot + Len(made) - Len(pending), nextImpact, c, {c}, now, V)
  BY <1>1, <1>2, <1>3, <1>5, <1>7, <1>8, SentEvidence
<1>10. {s.cmd : s \in ToSet(Overflowing(made))} \subseteq V
  BY <1>4
<1>11. Evidence(pending', wire', active', nextShot', nextImpact', command', Made', now', V)
  BY <1>2, <1>3, <1>4, <1>6, <1>8, <1>9, <1>10, TrimEvidence
<1>12. now' <= MaxTime \/ now' = 1
  BY <1>2 DEF EvidenceInv
<1> QED
  BY <1>3, <1>11, <1>12 DEF EvidenceInv, V

\* A round or a level drops the records and the wire.
LEMMA BoundaryEvidence ==
  ASSUME TrackerInv, EvidenceInv, NEW works \in BOOLEAN, RoundStart(works) \/ LevelChange
  PROVE  EvidenceInv'
<1>1. /\ pending' = <<>> /\ active' = 0 /\ nextShot' = 1 /\ nextImpact' = 1 /\ wire' = <<>>
      /\ now' = now /\ command' = command /\ Made' = Made /\ Unrecorded' = Unrecorded
  BY DEF RoundStart, LevelChange, Boundary, history, Made, Unrecorded
<1>2. Len(<<>>) = 0 /\ 1 .. 0 = {}
  OBVIOUS
<1>3. Evidence(<<>>, <<>>, 0, 1, 1, command, Made, now, Unrecorded)
  BY <1>2 DEF Evidence, InOrder, Traffic, Spaced, Past, Patient, Rightful, Own, Latest
<1> QED
  BY <1>1, <1>3 DEF EvidenceInv

LEMMA EvidenceInvInit == Init => EvidenceInv
<1> SUFFICES ASSUME Init PROVE EvidenceInv
  OBVIOUS
<1>1. /\ pending = <<>> /\ active = 0 /\ nextShot = 1 /\ nextImpact = 1 /\ wire = <<>>
      /\ now = 1 /\ command = 0 /\ Unrecorded = {}
  BY DEF Init, Unrecorded
<1>2. Len(<<>>) = 0 /\ 1 .. 0 = {}
  OBVIOUS
<1>3. Evidence(<<>>, <<>>, 0, 1, 1, 0, Made, 1, {})
  BY <1>2 DEF Evidence, InOrder, Traffic, Spaced, Past, Patient, Rightful, Own, Latest
<1> QED
  BY <1>1, <1>3 DEF EvidenceInv

LEMMA EvidenceInvStep == TrackerInv /\ EvidenceInv /\ [Next]_vars => EvidenceInv'
<1> SUFFICES ASSUME TrackerInv, EvidenceInv, [Next]_vars PROVE EvidenceInv'
  OBVIOUS
<1>1. ASSUME NEW rage \in BOOLEAN, NEW commits \in BOOLEAN, NEW claimed \in BOOLEAN,
             NEW c \in 1 .. MaxCommand, NEW v \in Victims, NEW w \in Weapons,
             NEW result \in Victims \cup {NoVictim, "rejected"},
             CreateMove(c, rage, commits, claimed, v, w, result)
      PROVE  EvidenceInv'
  BY <1>1, CreateMoveEvidence
<1>2. CASE WeaponFire
  BY <1>2, FireEvidence
<1>3. CASE BulletImpact
  BY <1>3, ImpactEvidence
<1>4. CASE PlayerHurt
  BY <1>4, HurtEvidence
<1>5. ASSUME NEW works \in BOOLEAN, Frame(works) PROVE EvidenceInv'
  BY <1>5, FrameEvidence
<1>6. ASSUME NEW works \in BOOLEAN, RoundStart(works) PROVE EvidenceInv'
  BY <1>6, BoundaryEvidence
<1>7. CASE LevelChange
  BY <1>7, BoundaryEvidence
<1>8. CASE UNCHANGED vars
  <2>1. /\ pending' = pending /\ wire' = wire /\ active' = active /\ nextShot' = nextShot
        /\ nextImpact' = nextImpact /\ command' = command /\ now' = now
        /\ Made' = Made /\ Unrecorded' = Unrecorded
    BY <1>8 DEF vars, Made, Unrecorded
  <2> QED
    BY <2>1 DEF EvidenceInv
<1> QED
  BY <1>1, <1>2, <1>3, <1>4, <1>5, <1>6, <1>7, <1>8 DEF Next

LEMMA AlwaysEvidenceInv == Spec => []EvidenceInv
<1> QED
  BY AlwaysTrackerInv, EvidenceInvInit, EvidenceInvStep, PTL DEF Spec

-----------------------------------------------------------------------------
(***************************************************************************)
(* One verdict.  A shot that is told of has no record left and gets none   *)
(* any more, since records are made for the youngest command only; a hurt  *)
(* resolves the record of its own shot, and a resolved one is no miss.     *)
(***************************************************************************)

\* No attack without a record is older than c.
Below(U, c) == \A d \in U : c <= d

\* The shots that have not been fired are due later.
Spent(w, t) == \A k \in 1 .. Len(w) : ~w[k].fired => t < w[k].due

\* A record of this unit's command is the last one, or the last but one if a fire's
\* token was made since.  A clear record has evidence only if it is committed.
Sound(s, a, n, fresh, w, t, U) ==
  /\ 0 < s.seq
  /\ s.rage => s.cmd > 0
  /\ s.missPending => s.time <= s.resolvedAt
  /\ s.cmd \in fresh => s.seq + 1 = n \/ (s.seq + 2 = n /\ Spent(w, t))
  /\ s.cmd > 0 /\ Below(U, s.cmd) =>
       /\ s.seq = a => s.fired
       /\ s.fired \/ s.struck \/ s.resolved \/ s.missPending => s.committed

AllSound(p, a, n, fresh, w, t, U) ==
  \A i \in 1 .. Len(p) : Sound(p[i], a, n, fresh, w, t, U)

\* While the clock runs, no two shots are due at once.
Orderly(w, fresh, t) ==
  \A k \in 1 .. Len(w) :
    /\ w[k].due = t + Rtt => w[k].cmd \in fresh \/ t >= MaxTime
    /\ \A j \in 1 .. Len(w) : j < k => w[j].due < w[k].due \/ w[k].due >= MaxTime + Rtt

\* Command d has no record and gets none any more.
Finished(p, c, fresh, d) ==
  d <= c /\ d \notin fresh /\ \A i \in 1 .. Len(p) : p[i].cmd # d

\* What the histories say of the records in p.
Judged(p, c, fresh, lost, hits, S, E) ==
  /\ \A d \in lost : 0 < d /\ Finished(p, c, fresh, d)
  /\ \A d \in hits :
       /\ 0 < d /\ d <= c /\ d \notin fresh
       /\ Clear(S \cup E, d) => /\ d \notin lost
                                /\ \A i \in 1 .. Len(p) : p[i].cmd = d => p[i].resolved
  /\ \A d \in S :
       /\ 0 < d /\ d <= c
       /\ Below(S \cup E, d) => /\ d \notin lost
                                /\ \A i \in 1 .. Len(p) : p[i].cmd = d => ~p[i].committed
  /\ \A d \in E : d <= c /\ (d > 0 => d \notin lost /\ Finished(p, c, fresh, d))

\* The lines in o, and what the channels in tl have told: of each command once.
Line == [cmd : Nat, console : BOOLEAN, chat : BOOLEAN, next : Int, expires : Int]

\* How often channel h has told of command d.
Heard(tl, d, h) == tl[<<d, h>>]

Lined(o, tl, p, c, fresh, t) ==
  /\ o \in Seq(Line)
  /\ \A k \in 1 .. Len(o) :
       /\ o[k].cmd \in 1 .. MaxCommand /\ Finished(p, c, fresh, o[k].cmd) /\ o[k].chat
       /\ t < o[k].next => ~o[k].console
       /\ Heard(tl, o[k].cmd, "chat") = 0
       /\ o[k].console => Heard(tl, o[k].cmd, "console") = 0
       /\ \A j \in 1 .. Len(o) : o[j].cmd = o[k].cmd => j = k
  /\ \A d \in 1 .. MaxCommand, h \in Channels :
       Heard(tl, d, h) \in {0, 1} /\ (Heard(tl, d, h) = 1 => Finished(p, c, fresh, d))

\* The inductive invariant of OneVerdict, beside TrackerInv and EvidenceInv.
VerdictInv ==
  /\ command <= MaxCommand
  /\ missed \subseteq Nat /\ hurt \subseteq Nat
  /\ active \in Int /\ 0 <= active /\ active < nextShot
  /\ AllSound(pending, active, nextShot, Made, wire, now, Unrecorded)
  /\ Orderly(wire, Made, now)
  /\ Judged(pending, command, Made, missed, hurt, strays, evicted)
  /\ Lined(outputs, told, pending, command, Made, now)

\* Nothing is left of p's records in q but what p had; a commitment only comes to a
\* record that is younger than an attack without one.
Follows(q, p, U) ==
  \A i \in 1 .. Len(q) :
    \/ q[i].cmd = 0
    \/ \E j \in 1 .. Len(p) :
         /\ q[i].cmd = p[j].cmd
         /\ p[j].resolved => q[i].resolved
         /\ q[i].committed => p[j].committed \/ ~Below(U, p[j].cmd)

LEMMA FollowsKeeps ==
  ASSUME NEW p, NEW q, NEW S, NEW E, Follows(q, p, S \cup E), NEW c, NEW fresh,
         NEW lost, NEW hits, Judged(p, c, fresh, lost, hits, S, E)
  PROVE  Judged(q, c, fresh, lost, hits, S, E)
<1> DEFINE U == S \cup E
<1>1. \A d : d # 0 /\ Finished(p, c, fresh, d) => Finished(q, c, fresh, d)
  BY DEF Follows, Finished
<1>2. ASSUME NEW d, d # 0, \A i \in 1 .. Len(p) : p[i].cmd = d => p[i].resolved
      PROVE  \A i \in 1 .. Len(q) : q[i].cmd = d => q[i].resolved
  BY <1>2 DEF Follows
<1>3. ASSUME NEW d, d # 0, Below(U, d), \A i \in 1 .. Len(p) : p[i].cmd = d => ~p[i].committed
      PROVE  \A i \in 1 .. Len(q) : q[i].cmd = d => ~q[i].committed
  BY <1>3 DEF Follows
<1> HIDE DEF U
<1>4. \A d : 0 < d => d # 0
  OBVIOUS
<1>5. \A d \in lost : 0 < d /\ Finished(q, c, fresh, d)
  BY <1>1, <1>4 DEF Judged
<1>6. \A d \in hits :
        /\ 0 < d /\ d <= c /\ d \notin fresh
        /\ Clear(U, d) => d \notin lost /\ \A i \in 1 .. Len(q) : q[i].cmd = d => q[i].resolved
  BY <1>2, <1>4 DEF Judged, U
<1>7. \A d \in S :
        /\ 0 < d /\ d <= c
        /\ Below(U, d) => d \notin lost /\ \A i \in 1 .. Len(q) : q[i].cmd = d => ~q[i].committed
  BY <1>3, <1>4 DEF Judged, U
<1>8. \A d \in E : d <= c /\ (d > 0 => d \notin lost /\ Finished(q, c, fresh, d))
  BY <1>1 DEF Judged
<1> QED
  BY <1>5, <1>6, <1>7, <1>8 DEF Judged, U

LEMMA FinishedFollows ==
  ASSUME NEW p, NEW q, NEW U, Follows(q, p, U), NEW c, NEW fresh, NEW d \in 1 .. MaxCommand,
         Finished(p, c, fresh, d)
  PROVE  Finished(q, c, fresh, d)
BY DEF Follows, Finished

\* Lines outlast the records, and are not told of while the clock runs.
LEMMA LinedKeeps ==
  ASSUME NEW o, NEW tl, NEW p, NEW c, NEW fresh, NEW t, Lined(o, tl, p, c, fresh, t),
         NEW q, NEW e, NEW young,
         \A d \in 1 .. MaxCommand : Finished(p, c, fresh, d) => Finished(q, e, young, d)
  PROVE  Lined(o, tl, q, e, young, t)
BY DEF Lined

\* More verdicts.
LEMMA LostKeeps ==
  ASSUME NEW q, NEW c, NEW fresh, NEW lost, NEW hits, NEW S, NEW E,
         Judged(q, c, fresh, lost, hits, S, E), NEW N,
         \A d \in N :
           /\ 0 < d /\ Finished(q, c, fresh, d)
           /\ d \in hits => ~Clear(S \cup E, d)
           /\ d \in S => ~Below(S \cup E, d)
           /\ d \notin E
  PROVE  Judged(q, c, fresh, lost \cup N, hits, S, E)
BY DEF Judged

\* The sweep.
LEMMA SweepSound ==
  ASSUME TrackerTypes, NEW p, Kept(p, command, Made), NEW a \in Int, NEW n \in Int, 0 <= a, a < n,
         NEW w, NEW U, AllSound(p, a, n, Made, w, now, U)
  PROVE  /\ Holding(p, a) \in Int /\ 0 <= Holding(p, a) /\ Holding(p, a) < n
         /\ AllSound(Survivors(p), Holding(p, a), n, Made, w, now, U)
<1> DEFINE q == Survivors(p)
           b == Holding(p, a)
<1>1. /\ p \in Seq(ShotRecord) /\ now \in Nat
      /\ \A i \in 1 .. Len(p) : p[i] \in ShotRecord /\ Fields(p[i]) /\ Timed(p[i], now)
  BY KeptFields DEF Kept, TrackerTypes
<1> HIDE DEF q
<1>2. PICK m : Swept(q, p, m)
  BY <1>1, Surviving DEF q
<1>3. b = 0 \/ b = a
  BY DEF Holding
<1> HIDE DEF b
<1>4. ASSUME NEW k \in 1 .. Len(q)
      PROVE  Sound(q[k], b, n, Made, w, now, U)
  <2> DEFINE s == p[m[k]]
             r == q[k]
  <2>1. /\ s \in ShotRecord /\ Fields(s) /\ Timed(s, now) /\ r = Aged(s)
        /\ Sound(s, a, n, Made, w, now, U)
    BY <1>1, <1>2 DEF Swept, AllSound
  <2> HIDE DEF s, r
  <2>2. /\ r.seq = s.seq /\ r.cmd = s.cmd /\ r.time = s.time /\ r.rage = s.rage
        /\ r.committed = s.committed /\ r.fired = s.fired /\ r.struck = s.struck
        /\ r.resolved = s.resolved
        /\ TimesOut(s) => r.missPending /\ r.resolvedAt = now
        /\ ~TimesOut(s) => r.missPending = s.missPending /\ r.resolvedAt = s.resolvedAt
    BY <2>1, AgedFields DEF Same
  <2>3. 0 < s.seq /\ s.seq \in Int /\ s.time <= now /\ (TimesOut(s) => s.committed \/ s.fired \/ s.struck)
    BY <2>1 DEF Sound, Fields, Timed, TimesOut
  <2>4. s.seq = b => s.seq = a
    BY <1>3, <2>3
  <2>5. r.missPending => r.time <= r.resolvedAt
    BY <2>1, <2>2, <2>3 DEF Sound
  <2>6. r.cmd > 0 /\ Below(U, r.cmd) =>
          /\ r.seq = b => r.fired
          /\ r.fired \/ r.struck \/ r.resolved \/ r.missPending => r.committed
    BY <2>1, <2>2, <2>3, <2>4 DEF Sound
  <2>7. Sound(r, b, n, Made, w, now, U)
    BY <2>1, <2>2, <2>5, <2>6 DEF Sound
  <2> QED
    BY <2>7 DEF r
<1>5. b \in Int /\ 0 <= b /\ b < n
  BY <1>3
<1> QED
  BY <1>4, <1>5 DEF AllSound, b, q

\* Where the records of a sweep stood, and what is known of a miss.
LEMMA SweepFollows ==
  ASSUME NEW p \in Seq(ShotRecord), NEW U
  PROVE  Follows(Survivors(p), p, U)
<1> DEFINE q == Survivors(p)
<1> HIDE DEF q
<1>1. PICK m : Swept(q, p, m)
  BY Surviving DEF q
<1>2. ASSUME NEW i \in 1 .. Len(q)
      PROVE  /\ m[i] \in 1 .. Len(p) /\ q[i].cmd = p[m[i]].cmd
             /\ q[i].resolved = p[m[i]].resolved /\ q[i].committed = p[m[i]].committed
  <2>1. m[i] \in 1 .. Len(p) /\ q[i] = Aged(p[m[i]]) /\ p[m[i]] \in ShotRecord
    BY <1>1 DEF Swept
  <2> QED
    BY <2>1, AgedFields DEF Same
<1>3. Follows(q, p, U)
  BY <1>2 DEF Follows
<1> QED
  BY <1>3 DEF q

LEMMA MissFacts ==
  ASSUME now \in Nat, NEW p, Kept(p, command, Made), NEW n, InOrder(p, n), NEW a, NEW w, NEW U,
         NEW i \in 1 .. Len(p), Sound(p[i], a, n, Made, w, now, U), Miss(p[i])
  PROVE  /\ 0 < p[i].cmd /\ p[i].cmd \in Nat /\ ~p[i].resolved
         /\ Below(U, p[i].cmd) => p[i].committed
         /\ Finished(Survivors(p), command, Made, p[i].cmd)
<1> DEFINE q == Survivors(p)
           s == p[i]
<1>1. /\ p \in Seq(ShotRecord) /\ Len(p) \in Nat
      /\ \A k \in 1 .. Len(p) : Fields(p[k]) /\ p[k].cmd <= command
      /\ s.cmd \in Made => s.time = now
  BY KeptFields DEF Kept
<1>2. Fields(s) /\ ~s.resolved /\ s.rage /\ s.missPending /\ now - s.resolvedAt > Finalization
  BY <1>1 DEF Miss, Age
<1>3. s.cmd > 0 /\ s.cmd \in Nat /\ s.time <= s.resolvedAt /\ (Below(U, s.cmd) => s.committed)
  BY <1>2 DEF Sound, Fields
<1>4. s.cmd \notin Made
  <2>1. s.time \in Nat /\ s.resolvedAt \in Nat
    BY <1>2 DEF Fields
  <2>2. s.time # now
    BY <1>2, <1>3, <2>1, Times
  <2> QED
    BY <1>1, <2>2
<1> HIDE DEF q
<1>5. PICK m : Swept(q, p, m)
  BY <1>1, Surviving DEF q
<1>6. ASSUME NEW k \in 1 .. Len(q), q[k].cmd = s.cmd PROVE FALSE
  <2>1. m[k] \in 1 .. Len(p) /\ q[k] = Aged(p[m[k]]) /\ Leaves(p[m[k]]) /\ p[m[k]] \in ShotRecord
    BY <1>1, <1>5 DEF Swept
  <2>2. p[m[k]].cmd = s.cmd
    BY <1>6, <2>1, AgedFields DEF Same
  <2>3. m[k] = i
    BY <1>1, <1>3, <2>1, <2>2, OneRecord
  <2> QED
    BY <2>1, <2>3 DEF Leaves
<1>7. Finished(q, command, Made, s.cmd)
  BY <1>1, <1>4, <1>6 DEF Finished
<1> QED
  BY <1>2, <1>3, <1>7 DEF q

LEMMA SweepJudged ==
  ASSUME now \in Nat, NEW p, Kept(p, command, Made), NEW n, InOrder(p, n), NEW a, NEW w,
         NEW lost, NEW hits, NEW S, NEW E, Judged(p, command, Made, lost, hits, S, E),
         AllSound(p, a, n, Made, w, now, S \cup E)
  PROVE  /\ Judged(Survivors(p), command, Made,
                   lost \cup {s.cmd : s \in {t \in ToSet(p) : Miss(t)}}, hits, S, E)
         /\ {s.cmd : s \in {t \in ToSet(p) : Miss(t)}} \subseteq Nat
<1> DEFINE q == Survivors(p)
           N == {s.cmd : s \in {t \in ToSet(p) : Miss(t)}}
<1>1. p \in Seq(ShotRecord) /\ DOMAIN p = 1 .. Len(p)
  BY DEF Kept
<1>2. Judged(q, command, Made, lost, hits, S, E)
  BY <1>1, SweepFollows, FollowsKeeps
<1>3. \A d \in N : \E i \in 1 .. Len(p) : d = p[i].cmd /\ Miss(p[i])
  BY <1>1 DEF ToSet
<1> HIDE DEF N, q
<1>4. ASSUME NEW d \in N
      PROVE  /\ 0 < d /\ d \in Nat /\ Finished(q, command, Made, d)
             /\ d \in hits => ~Clear(S \cup E, d)
             /\ d \in S => ~Below(S \cup E, d)
             /\ d \notin E
  <2>1. PICK i \in 1 .. Len(p) : d = p[i].cmd /\ Miss(p[i])
    BY <1>3
  <2>2. /\ 0 < d /\ d \in Nat /\ ~p[i].resolved /\ (Below(S \cup E, d) => p[i].committed)
        /\ Finished(q, command, Made, d)
    BY <2>1, MissFacts DEF AllSound, q
  <2>3. ~Finished(p, command, Made, d)
    BY <2>1 DEF Finished
  <2> QED
    BY <2>1, <2>2, <2>3 DEF Judged
<1>5. Judged(q, command, Made, lost \cup N, hits, S, E)
  BY <1>2, <1>4, LostKeeps
<1> QED
  BY <1>4, <1>5 DEF N, q

-----------------------------------------------------------------------------
\* A verdict becomes a line.
LEMMA Joined ==
  ASSUME NEW S, NEW o \in Seq(S), NEW x \in Seq(S)
  PROVE  /\ o \o x \in Seq(S) /\ Len(o \o x) = Len(o) + Len(x)
         /\ \A k \in 1 .. Len(o) : (o \o x)[k] = o[k]
         /\ \A k \in 1 .. Len(x) : (o \o x)[Len(o) + k] = x[k]
         /\ \A k \in 1 .. Len(o \o x) :
              k \in 1 .. Len(o) \/ \E j \in 1 .. Len(x) : k = Len(o) + j
<1>1. /\ o \o x \in Seq(S) /\ Len(o \o x) = Len(o) + Len(x) /\ Len(o) \in Nat /\ Len(x) \in Nat
      /\ \A k \in 1 .. Len(o) : (o \o x)[k] = o[k]
      /\ \A k \in 1 .. Len(x) : (o \o x)[Len(o) + k] = x[k]
  OBVIOUS
<1>2. ASSUME NEW k \in 1 .. Len(o \o x), k \notin 1 .. Len(o)
      PROVE  \E j \in 1 .. Len(x) : k = Len(o) + j
  <2>1. k - Len(o) \in 1 .. Len(x) /\ k = Len(o) + (k - Len(o))
    BY <1>1, <1>2
  <2> QED
    BY <2>1
<1> QED
  BY <1>1, <1>2

LEMMA LinesOf ==
  ASSUME now \in Nat, NEW x \in Seq(ShotRecord)
  PROVE  /\ Lines(x) \in Seq(Line) /\ Len(Lines(x)) = Len(x)
         /\ \A k \in 1 .. Len(x) :
              /\ Lines(x)[k].cmd = x[k].cmd /\ Lines(x)[k].chat /\ Lines(x)[k].console
              /\ Lines(x)[k].next = now
<1>1. DOMAIN x = 1 .. Len(x) /\ Len(x) \in Nat /\ \A k \in 1 .. Len(x) : x[k].cmd \in Nat
  <2>1. DOMAIN x = 1 .. Len(x) /\ Len(x) \in Nat
    OBVIOUS
  <2>2. ASSUME NEW k \in 1 .. Len(x) PROVE x[k].cmd \in Nat
    <3>1. x[k] \in ShotRecord
      BY <2>1
    <3> QED
      BY <3>1 DEF ShotRecord
  <2> QED
    BY <2>1, <2>2
<1>2. ChatLife \in Nat
  BY TimeoutAssumption
<1>3. Lines(x) = [k \in 1 .. Len(x) |-> Output(x[k])]
  BY <1>1 DEF Lines
<1>4. \A k \in 1 .. Len(x) :
        /\ Output(x[k]) \in Line
        /\ Output(x[k]).cmd = x[k].cmd /\ Output(x[k]).chat /\ Output(x[k]).console
        /\ Output(x[k]).next = now
  BY <1>1, <1>2 DEF Output, Line
<1> HIDE DEF Line
<1> QED
  BY <1>1, <1>3, <1>4

LEMMA LinesAdded ==
  ASSUME now \in Nat, NEW y \in Seq(ShotRecord), NEW T, NEW n, InOrder(y, n),
         NEW o, NEW tl, NEW q, NEW c, NEW fresh, Lined(o, tl, q, c, fresh, now),
         \A i \in 1 .. Len(y) : y[i] \in T =>
           /\ y[i].cmd \in 1 .. MaxCommand /\ Finished(q, c, fresh, y[i].cmd)
           /\ \A l \in 1 .. Len(o) : o[l].cmd # y[i].cmd
           /\ \A h \in Channels : Heard(tl, y[i].cmd, h) = 0
  PROVE  Lined(o \o Lines(Sift(y, T)), tl, q, c, fresh, now)
<1> DEFINE x == Sift(y, T)
           L == Lines(x)
           z == o \o L
<1>1. x \in Seq(ShotRecord) /\ \E m : Through(x, y, T, Len(y), m)
  BY SiftFacts
<1>2. PICK m : Through(x, y, T, Len(y), m)
  BY <1>1
<1> HIDE DEF x
<1>3. /\ L \in Seq(Line) /\ Len(L) = Len(x) /\ Len(x) \in Nat
      /\ \A k \in 1 .. Len(x) : L[k].cmd = x[k].cmd /\ L[k].chat /\ L[k].console /\ L[k].next = now
  BY <1>1, LinesOf
<1>4. o \in Seq(Line) /\ Len(o) \in Nat
  BY DEF Lined
<1> HIDE DEF L
<1>5. /\ z \in Seq(Line)
      /\ \A k \in 1 .. Len(o) : z[k] = o[k]
      /\ \A k \in 1 .. Len(L) : z[Len(o) + k] = L[k]
      /\ \A k \in 1 .. Len(z) : k \in 1 .. Len(o) \/ \E j \in 1 .. Len(L) : k = Len(o) + j
  BY <1>3, <1>4, Joined
<1> HIDE DEF z
<1>6. ASSUME NEW j \in 1 .. Len(L)
      PROVE  /\ m[j] \in 1 .. Len(y) /\ L[j].cmd = y[m[j]].cmd /\ y[m[j]] \in T
             /\ L[j].cmd \in 1 .. MaxCommand /\ Finished(q, c, fresh, L[j].cmd) /\ L[j].chat
             /\ ~(now < L[j].next)
             /\ \A h \in Channels : Heard(tl, L[j].cmd, h) = 0
             /\ \A l \in 1 .. Len(o) : o[l].cmd # L[j].cmd
  <2>1. m[j] \in 1 .. Len(y) /\ L[j].cmd = y[m[j]].cmd /\ y[m[j]] \in T
    BY <1>2, <1>3 DEF Through
  <2>2. L[j].chat /\ ~(now < L[j].next)
    BY <1>3
  <2> QED
    BY <2>1, <2>2
<1>7. ASSUME NEW j \in 1 .. Len(L), NEW l \in 1 .. Len(L), L[j].cmd = L[l].cmd PROVE j = l
  <2>1. Len(y) \in Nat /\ \A k \in 1 .. Len(y) : Fields(y[k])
    <3>1. Len(y) \in Nat /\ \A k \in 1 .. Len(y) : y[k] \in ShotRecord
      OBVIOUS
    <3>2. \A s \in ShotRecord : Fields(s)
      BY DEF ShotRecord, Fields
    <3> QED
      BY <3>1, <3>2
  <2>2. /\ m[j] \in 1 .. Len(y) /\ m[l] \in 1 .. Len(y) /\ y[m[j]].cmd = y[m[l]].cmd
        /\ y[m[j]].cmd > 0
    BY <1>6, <1>7, Times
  <2>3. m[j] = m[l]
    BY <2>1, <2>2, OneRecord
  <2>4. \A k, k2 \in 1 .. Len(x) : k < k2 => m[k] < m[k2]
    BY <1>2 DEF Through
  <2>5. ~(m[j] < m[l]) /\ ~(m[l] < m[j])
    BY <2>2, <2>3
  <2>6. ~(j < l) /\ ~(l < j)
    BY <1>3, <2>4, <2>5
  <2> QED
    BY <1>3, <2>6
<1>8. \A h \in {"chat", "console"} : h \in Channels
  BY DEF Channels
<1>9. ASSUME NEW k \in 1 .. Len(z)
      PROVE  /\ z[k].cmd \in 1 .. MaxCommand /\ Finished(q, c, fresh, z[k].cmd) /\ z[k].chat
             /\ now < z[k].next => ~z[k].console
             /\ Heard(tl, z[k].cmd, "chat") = 0
             /\ z[k].console => Heard(tl, z[k].cmd, "console") = 0
             /\ \A j \in 1 .. Len(z) : z[j].cmd = z[k].cmd => j = k
  <2>1. CASE k \in 1 .. Len(o)
    <3>1. /\ z[k].cmd \in 1 .. MaxCommand /\ Finished(q, c, fresh, z[k].cmd) /\ z[k].chat
          /\ now < z[k].next => ~z[k].console
          /\ Heard(tl, z[k].cmd, "chat") = 0
          /\ z[k].console => Heard(tl, z[k].cmd, "console") = 0
      BY <1>5, <2>1 DEF Lined
    <3>2. ASSUME NEW j \in 1 .. Len(z), z[j].cmd = z[k].cmd PROVE j = k
      <4>1. CASE j \in 1 .. Len(o)
        BY <1>5, <2>1, <3>2, <4>1 DEF Lined
      <4>2. ASSUME NEW l \in 1 .. Len(L), j = Len(o) + l PROVE FALSE
        <5>1. z[j] = L[l] /\ z[k] = o[k]
          BY <1>5, <2>1, <4>2
        <5>2. L[l].cmd = o[k].cmd
          BY <3>2, <5>1
        <5> QED
          BY <1>5, <1>6, <2>1, <5>2
      <4> QED
        BY <1>5, <4>1, <4>2
    <3> QED
      BY <3>1, <3>2
  <2>2. ASSUME NEW l \in 1 .. Len(L), k = Len(o) + l
        PROVE  /\ z[k].cmd \in 1 .. MaxCommand /\ Finished(q, c, fresh, z[k].cmd) /\ z[k].chat
               /\ now < z[k].next => ~z[k].console
               /\ Heard(tl, z[k].cmd, "chat") = 0
               /\ z[k].console => Heard(tl, z[k].cmd, "console") = 0
               /\ \A j \in 1 .. Len(z) : z[j].cmd = z[k].cmd => j = k
    <3>1. z[k] = L[l]
      BY <1>5, <2>2
    <3>2. ASSUME NEW j \in 1 .. Len(z), z[j].cmd = z[k].cmd PROVE j = k
      <4>1. CASE j \in 1 .. Len(o)
        BY <1>5, <1>6, <3>1, <3>2, <4>1
      <4>2. ASSUME NEW i \in 1 .. Len(L), j = Len(o) + i PROVE j = k
        <5>1. z[j] = L[i]
          BY <1>5, <4>2
        <5>2. i = l
          BY <1>7, <3>1, <3>2, <5>1
        <5> QED
          BY <2>2, <4>2, <5>2
      <4> QED
        BY <1>5, <4>1, <4>2
    <3> QED
      BY <1>6, <1>8, <3>1, <3>2
  <2> QED
    BY <1>5, <2>1, <2>2
<1>10. Lined(z, tl, q, c, fresh, now)
  <2>1. \A d \in 1 .. MaxCommand, h \in Channels :
          Heard(tl, d, h) \in {0, 1} /\ (Heard(tl, d, h) = 1 => Finished(q, c, fresh, d))
    BY DEF Lined
  <2> QED
    BY <1>5, <1>9, <2>1 DEF Lined
<1> QED
  BY <1>10 DEF z, L, x

LEMMA SweepLined ==
  ASSUME now \in Nat, command \in Nat, command <= MaxCommand, NEW p, Kept(p, command, Made), NEW n, InOrder(p, n),
         NEW a, NEW w, NEW U, AllSound(p, a, n, Made, w, now, U),
         NEW o, NEW tl, Lined(o, tl, p, command, Made, now)
  PROVE  Lined(o \o Verdicts(p), tl, Survivors(p), command, Made, now)
<1> DEFINE q == Survivors(p)
           T == {s \in ToSet(p) : Told(s)}
<1>1. /\ p \in Seq(ShotRecord) /\ DOMAIN p = 1 .. Len(p)
      /\ \A i \in 1 .. Len(p) : p[i].cmd <= command
  BY DEF Kept
<1>2. Follows(q, p, {})
  BY <1>1, SweepFollows
<1>3. \A i \in 1 .. Len(p) : p[i] \in T => Miss(p[i])
  BY <1>1 DEF Told
<1>4. Verdicts(p) = Lines(Sift(p, T))
  BY DEF Verdicts
<1> HIDE DEF T, q
<1>5. Lined(o, tl, q, command, Made, now)
  BY <1>2, FinishedFollows, LinedKeeps
<1>6. ASSUME NEW i \in 1 .. Len(p), p[i] \in T
      PROVE  /\ p[i].cmd \in 1 .. MaxCommand /\ Finished(q, command, Made, p[i].cmd)
             /\ \A l \in 1 .. Len(o) : o[l].cmd # p[i].cmd
             /\ \A h \in Channels : Heard(tl, p[i].cmd, h) = 0
  <2>1. 0 < p[i].cmd /\ p[i].cmd \in Nat /\ Finished(q, command, Made, p[i].cmd)
    BY <1>3, <1>6, MissFacts DEF AllSound, q
  <2>2. p[i].cmd \in 1 .. MaxCommand
    <3>1. p[i].cmd <= command
      BY <1>1
    <3> QED
      BY <2>1, <3>1, Times
  <2>3. ~Finished(p, command, Made, p[i].cmd)
    BY DEF Finished
  <2> QED
    BY <2>1, <2>2, <2>3 DEF Lined
<1>7. Lined(o \o Lines(Sift(p, T)), tl, q, command, Made, now)
  BY <1>1, <1>5, <1>6, LinesAdded
<1> QED
  BY <1>4, <1>7 DEF q

\* A line that is flushed is told at most once on each channel, and one that stays
\* has not been told in the chat.
LEMMA FlushLined ==
  ASSUME NEW o, NEW p, NEW c, NEW fresh, Lined(o, told, p, c, fresh, now),
         NEW y, NEW works \in BOOLEAN, Flush(o, y, works), NEW t, now \in Nat
  PROVE  Lined(outputs', told', p, c, fresh, t)
<1> DEFINE quota == Cardinality({i \in DOMAIN y : Open(y[i])})
           Prints(k) == o[k].console /\ Cardinality({j \in 1 .. k - 1 : o[j].console}) < quota
           Says(k) == o[k].chat /\ now >= o[k].next /\ works
           Waits(k) == o[k].chat /\ now < o[k].next
           Fails(k) == o[k].chat /\ now >= o[k].next /\ ~works /\ now < o[k].expires
           flushed == [k \in DOMAIN o |->
                         IF Waits(k) THEN [o[k] EXCEPT !.console = Prints(k)]
                         ELSE [o[k] EXCEPT !.console = FALSE, !.chat = Fails(k), !.next = now + 1]]
           K(d, h) == {k \in DOMAIN o : o[k].cmd = d /\ IF h = "chat" THEN Says(k) ELSE Prints(k)}
           T == {l \in ToSet(flushed) : l.chat}
<1>1. /\ outputs' = Sift(flushed, T)
      /\ told' = [line \in (1 .. MaxCommand) \X Channels |->
                   told[line] + Cardinality(K(line[1], line[2]))]
  <2>1. outputs' = Sift(flushed, T)
    BY DEF Flush
  <2>2. told' = [line \in (1 .. MaxCommand) \X Channels |->
                  told[line] + Cardinality(K(line[1], line[2]))]
    BY Zenon DEF Flush
  <2> QED
    BY <2>1, <2>2
<1>2. \A d \in 1 .. MaxCommand, h \in Channels :
        Heard(told', d, h) = Heard(told, d, h) + Cardinality(K(d, h))
  <2> HIDE DEF K
  <2> QED
    BY <1>1 DEF Heard
<1>3. /\ o \in Seq(Line) /\ Len(o) \in Nat /\ DOMAIN o = 1 .. Len(o)
      /\ \A k \in 1 .. Len(o) :
           /\ o[k] \in Line
           /\ o[k].cmd \in 1 .. MaxCommand /\ Finished(p, c, fresh, o[k].cmd) /\ o[k].chat
           /\ now < o[k].next => ~o[k].console
           /\ Heard(told, o[k].cmd, "chat") = 0
           /\ o[k].console => Heard(told, o[k].cmd, "console") = 0
           /\ \A j \in 1 .. Len(o) : o[j].cmd = o[k].cmd => j = k
      /\ \A d \in 1 .. MaxCommand, h \in Channels :
           Heard(told, d, h) \in {0, 1} /\ (Heard(told, d, h) = 1 => Finished(p, c, fresh, d))
  <2>1. o \in Seq(Line)
    BY DEF Lined
  <2>2. Len(o) \in Nat /\ DOMAIN o = 1 .. Len(o) /\ \A k \in 1 .. Len(o) : o[k] \in Line
    BY <2>1
  <2> HIDE DEF Line
  <2> QED
    BY <2>1, <2>2 DEF Lined
<1>4. ASSUME NEW k \in 1 .. Len(o)
      PROVE  /\ flushed[k] \in Line /\ flushed[k].cmd = o[k].cmd /\ ~flushed[k].console
             /\ flushed[k].chat => ~Says(k)
             /\ Prints(k) => o[k].console
  <2>1. /\ o[k] \in Line /\ o[k].chat /\ (now < o[k].next => ~o[k].console)
    BY <1>3
  <2>2. flushed[k] = IF Waits(k) THEN [o[k] EXCEPT !.console = Prints(k)]
                     ELSE [o[k] EXCEPT !.console = FALSE, !.chat = Fails(k), !.next = now + 1]
    BY <1>3
  <2>3. Prints(k) => o[k].console
    OBVIOUS
  <2>4. Fails(k) \in BOOLEAN /\ (Fails(k) => ~Says(k))
    OBVIOUS
  <2> HIDE DEF Prints, Fails, flushed
  <2>5. CASE Waits(k)
    <3>1. ~Prints(k) /\ ~Says(k)
      BY <2>1, <2>3, <2>5 DEF Line
    <3>2. flushed[k] = [o[k] EXCEPT !.console = FALSE]
      <4>1. Prints(k) = FALSE
        BY <3>1 DEF Prints
      <4> QED
        BY <2>2, <2>5, <4>1
    <3> HIDE DEF Says, Waits
    <3> QED
      BY <2>1, <2>3, <3>1, <3>2 DEF Line
  <2>6. CASE ~Waits(k)
    <3>1. flushed[k] = [o[k] EXCEPT !.console = FALSE, !.chat = Fails(k), !.next = now + 1]
      BY <2>2, <2>6
    <3> HIDE DEF Says, Waits
    <3>2. PICK f \in BOOLEAN : f = Fails(k)
      BY <2>4
    <3>3. flushed[k] = [o[k] EXCEPT !.console = FALSE, !.chat = f, !.next = now + 1]
      BY <3>1, <3>2
    <3>4. /\ flushed[k] \in Line /\ flushed[k].cmd = o[k].cmd /\ ~flushed[k].console
          /\ flushed[k].chat = f
      <4>1. o[k].cmd \in Nat /\ o[k].expires \in Int /\ now + 1 \in Int
        BY <2>1 DEF Line
      <4>2. flushed[k] = [cmd |-> o[k].cmd, console |-> FALSE, chat |-> f, next |-> now + 1,
                          expires |-> o[k].expires]
        BY <2>1, <3>3 DEF Line
      <4>3. flushed[k] \in Line
        BY <4>1, <4>2 DEF Line
      <4> QED
        BY <4>2, <4>3
    <3> QED
      BY <2>3, <2>4, <3>2, <3>4
  <2> QED
    BY <2>5, <2>6
<1>5. flushed \in Seq(Line) /\ Len(flushed) = Len(o)
  <2>1. flushed = [k \in 1 .. Len(o) |-> flushed[k]]
    BY <1>3
  <2> HIDE DEF flushed, Line, Says, Prints
  <2>2. [k \in 1 .. Len(o) |-> flushed[k]] \in Seq(Line)
        /\ Len([k \in 1 .. Len(o) |-> flushed[k]]) = Len(o)
    BY <1>3, <1>4
  <2> QED
    BY <2>1, <2>2
<1>6. \A k \in 1 .. Len(o) : flushed[k] \in T <=> flushed[k].chat
  BY <1>3 DEF ToSet
<1>7. \A d, h : K(d, h) = {k \in 1 .. Len(o) :
                              o[k].cmd = d /\ IF h = "chat" THEN Says(k) ELSE Prints(k)}
  BY <1>3
<1> HIDE DEF flushed, Says, Prints, T, K
<1>8. ASSUME NEW d \in 1 .. MaxCommand, NEW h \in Channels
      PROVE  /\ Heard(told', d, h) \in {0, 1}
             /\ Heard(told', d, h) = 1 => Finished(p, c, fresh, d)
  <2>1. CASE K(d, h) = {}
    <3>1. Heard(told', d, h) = Heard(told, d, h)
      <4>1. Cardinality(K(d, h)) = 0
        BY <2>1, FS_EmptySet
      <4>2. Heard(told, d, h) \in Int
        BY <1>3
      <4> QED
        BY <1>2, <4>1, <4>2
    <3> QED
      BY <1>3, <3>1
  <2>2. ASSUME NEW k \in K(d, h)
        PROVE  Heard(told', d, h) \in {0, 1} /\ Finished(p, c, fresh, d)
    <3>1. k \in 1 .. Len(o) /\ o[k].cmd = d /\ (h = "chat" \/ Prints(k))
      BY <1>7, <2>2
    <3>2. Heard(told, d, h) = 0 /\ Finished(p, c, fresh, d)
      BY <1>3, <1>4, <3>1 DEF Channels
    <3>3. \A j \in K(d, h) : j = k
      BY <1>3, <1>7, <3>1
    <3>4. K(d, h) = {k}
      BY <3>3
    <3>5. Cardinality(K(d, h)) = 1
      BY <3>4, FS_Singleton
    <3> QED
      BY <1>2, <3>2, <3>5
  <2> QED
    BY <2>1, <2>2
<1>9. ASSUME NEW k \in 1 .. Len(o), flushed[k].chat
      PROVE  Heard(told', o[k].cmd, "chat") = 0
  <2>1. "chat" \in Channels /\ o[k].cmd \in 1 .. MaxCommand /\ ~Says(k)
    BY <1>3, <1>4, <1>9 DEF Channels
  <2>2. K(o[k].cmd, "chat") = {}
    BY <1>3, <1>7, <2>1
  <2> QED
    <3>1. Cardinality(K(o[k].cmd, "chat")) = 0
      BY <2>2, FS_EmptySet
    <3>2. Heard(told, o[k].cmd, "chat") = 0
      BY <1>3
    <3> QED
      BY <1>2, <2>1, <3>1, <3>2
<1> DEFINE z == Sift(flushed, T)
<1>10. z \in Seq(Line) /\ \E m : Through(z, flushed, T, Len(flushed), m)
  BY <1>5, SiftFacts
<1>11. PICK m : Through(z, flushed, T, Len(flushed), m)
  BY <1>10
<1> HIDE DEF z
<1>12. ASSUME NEW i \in 1 .. Len(z)
       PROVE  /\ m[i] \in 1 .. Len(o) /\ z[i] = flushed[m[i]] /\ flushed[m[i]].chat
  BY <1>5, <1>6, <1>11 DEF Through
<1>13. ASSUME NEW i \in 1 .. Len(z), NEW j \in 1 .. Len(z), m[i] = m[j] PROVE i = j
  <2>1. i < j \/ j < i \/ i = j
    BY <1>10
  <2>2. \A k, l \in 1 .. Len(z) : k < l => m[k] < m[l]
    BY <1>11 DEF Through
  <2>3. ~(m[i] < m[j]) /\ ~(m[j] < m[i])
    BY <1>12, <1>13
  <2> QED
    BY <2>1, <2>2, <2>3
<1>14. ASSUME NEW i \in 1 .. Len(z)
       PROVE  /\ z[i].cmd \in 1 .. MaxCommand /\ Finished(p, c, fresh, z[i].cmd) /\ z[i].chat
              /\ t < z[i].next => ~z[i].console
              /\ Heard(told', z[i].cmd, "chat") = 0
              /\ z[i].console => Heard(told', z[i].cmd, "console") = 0
              /\ \A j \in 1 .. Len(z) : z[j].cmd = z[i].cmd => j = i
  <2>1. \A j \in 1 .. Len(z) : m[j] \in 1 .. Len(o) /\ z[j].cmd = o[m[j]].cmd
    BY <1>4, <1>12
  <2>2. z[i].chat /\ ~z[i].console
    BY <1>4, <1>12
  <2>3. Heard(told', z[i].cmd, "chat") = 0
    BY <1>9, <1>12, <2>1
  <2>4. ASSUME NEW j \in 1 .. Len(z), z[j].cmd = z[i].cmd PROVE j = i
    <3>1. m[j] = m[i]
      BY <1>3, <2>1, <2>4
    <3> QED
      BY <1>13, <3>1
  <2>5. z[i].cmd \in 1 .. MaxCommand /\ Finished(p, c, fresh, z[i].cmd)
    BY <1>3, <2>1
  <2> QED
    BY <2>2, <2>3, <2>4, <2>5
<1>15. Lined(z, told', p, c, fresh, t)
  BY <1>8, <1>10, <1>14 DEF Lined
<1> QED
  BY <1>1, <1>15 DEF z

-----------------------------------------------------------------------------
\* The server's events.  A record that one marks has been committed, if it is clear.
LEMMA MovedSpent ==
  ASSUME NEW w \in Seq(Group), NEW v, NEW g, NEW s, Moved(v, w, g, s), NEW t, Spent(w, t)
  PROVE  Spent(v, t)
BY MovedFacts DEF Moved, Spent

LEMMA MovedOrderly ==
  ASSUME NEW w \in Seq(Group), NEW v, NEW g, NEW s, Moved(v, w, g, s), NEW fresh, NEW t,
         Orderly(w, fresh, t)
  PROVE  Orderly(v, fresh, t)
<1>1. /\ s \in {0, 1} /\ Len(v) \in Nat
      /\ \A k \in 1 .. Len(v) :
           k + s \in 1 .. Len(w) /\ v[k].cmd = w[k + s].cmd /\ v[k].due = w[k + s].due
  BY MovedFacts DEF Moved
<1>2. \A j, k \in 1 .. Len(v) : j < k => j + s < k + s
  BY <1>1
<1> QED
  BY <1>1, <1>2 DEF Orderly

LEMMA EvidentCommitted ==
  ASSUME NEW s, NEW n, NEW fresh, NEW w, NEW t, NEW U, Sound(s, active, n, fresh, w, t, U),
         Evident(s), s.cmd > 0, Below(U, s.cmd)
  PROVE  s.committed
BY DEF Sound, Evident

LEMMA RenewedSound ==
  ASSUME NEW p, NEW q, NEW i, NEW r, Renewed(q, p, i, r), r.rage = p[i].rage,
         r.fired, p[i].cmd > 0 => r.committed, r.missPending => r.time <= r.resolvedAt,
         NEW a, NEW b, \A k \in 1 .. Len(p) : k # i /\ p[k].seq = b => a = b,
         NEW n, NEW fresh, NEW w, NEW v, NEW t, Spent(w, t) => Spent(v, t), NEW U,
         AllSound(p, a, n, fresh, w, t, U)
  PROVE  AllSound(q, b, n, fresh, v, t, U)
<1> SUFFICES ASSUME NEW k \in 1 .. Len(q) PROVE Sound(q[k], b, n, fresh, v, t, U)
  BY DEF AllSound
<1>1. k \in 1 .. Len(p) /\ q[k] = (IF k = i THEN r ELSE p[k]) /\ i \in 1 .. Len(p)
      /\ r.seq = p[i].seq /\ r.cmd = p[i].cmd /\ r.time = p[i].time
  BY DEF Renewed
<1>2. CASE k = i
  <2>1. Sound(p[i], a, n, fresh, w, t, U)
    BY <1>1 DEF AllSound
  <2>2. Sound(r, b, n, fresh, v, t, U)
    BY <1>1, <2>1 DEF Sound
  <2> QED
    BY <1>1, <1>2, <2>2
<1>3. CASE k # i
  <2>1. Sound(p[k], a, n, fresh, w, t, U)
    BY <1>1 DEF AllSound
  <2>2. Sound(p[k], b, n, fresh, v, t, U)
    BY <1>1, <1>3, <2>1 DEF Sound
  <2> QED
    BY <1>1, <1>3, <2>2
<1> QED
  BY <1>2, <1>3

LEMMA RenewedFollows ==
  ASSUME NEW p, NEW q, NEW i, NEW r, Renewed(q, p, i, r), NEW U,
         p[i].resolved => r.resolved,
         p[i].cmd # 0 => p[i].committed \/ ~Below(U, p[i].cmd)
  PROVE  Follows(q, p, U)
BY DEF Renewed, Follows

LEMMA FireVerdict ==
  ASSUME TrackerInv, EvidenceInv, VerdictInv, WeaponFire
  PROVE  VerdictInv'
<1> DEFINE U == Unrecorded
           g == [wire[1] EXCEPT !.fired = TRUE]
           c == wire[1].cmd
<1>1. /\ pending \in Seq(ShotRecord) /\ Len(pending) \in Nat
      /\ \A i \in 1 .. Len(pending) : pending[i] \in ShotRecord /\ Fields(pending[i])
      /\ wire \in Seq(Group) /\ Len(wire) \in Nat /\ 1 \in 1 .. Len(wire) /\ Head(wire) = wire[1]
      /\ wire[1] \in Group /\ Parcel(wire[1]) /\ now \in Nat /\ nextShot \in Int
  BY Situation DEF WeaponFire
<1>2. /\ InOrder(pending, nextShot) /\ Traffic(wire, command, Made, now)
      /\ now <= MaxTime \/ now = 1
  BY DEF EvidenceInv, Evidence
<1>3. wire[1].due = now /\ ~wire[1].fired /\ wire' = [wire EXCEPT ![1].fired = TRUE]
  BY <1>1 DEF WeaponFire
<1>4. /\ now' = now /\ command' = command /\ Made' = Made /\ Unrecorded' = U
      /\ strays' = strays /\ evicted' = evicted /\ missed' = missed /\ hurt' = hurt
      /\ outputs' = outputs /\ told' = told
  BY DEF WeaponFire, history, Made, Unrecorded
<1>5. Moved(wire', wire, g, 0)
  <2>1. g.cmd = wire[1].cmd /\ g.due = wire[1].due /\ g.fired
    BY <1>1, GroupFields
  <2>2. wire' = [wire EXCEPT ![1] = g]
    BY <1>3
  <2> HIDE DEF g
  <2> QED
    BY <1>1, <2>1, <2>2 DEF Moved
<1>6. /\ command <= MaxCommand /\ active \in Int /\ 0 <= active /\ active < nextShot
      /\ missed \subseteq Nat /\ hurt \subseteq Nat
      /\ AllSound(pending, active, nextShot, Made, wire, now, U)
      /\ Orderly(wire, Made, now)
      /\ Judged(pending, command, Made, missed, hurt, strays, evicted)
      /\ Lined(outputs, told, pending, command, Made, now)
  BY DEF VerdictInv
<1>7. ~Spent(wire, now)
  BY <1>1, <1>3 DEF Spent
<1>8. Spent(wire', now)
  <2> SUFFICES ASSUME NEW k \in 1 .. Len(wire'), ~wire'[k].fired PROVE now < wire'[k].due
    BY DEF Spent
  <2> HIDE DEF g
  <2>2. g.fired
    BY <1>5 DEF Moved
  <2>3. k \in 1 .. Len(wire) /\ 1 < k /\ wire'[k] = wire[k]
    <3>1. wire'[1] = g
      BY <1>1, <1>5 DEF Moved
    <3>2. k # 1
      BY <2>2, <3>1
    <3> QED
      BY <1>1, <1>5, <3>2 DEF Moved
  <2>4. wire[1].due < wire[k].due \/ wire[k].due >= MaxTime + Rtt
    BY <1>1, <1>6, <2>3 DEF Orderly
  <2>5. Rtt < now /\ wire[k].due \in Nat
    BY <1>1, <1>2, <1>3, <2>3, WireParcels DEF Traffic, Parcel
  <2>6. now < MaxTime + Rtt
    BY <1>1, <1>2, <2>5, Times
  <2>7. wire[1].due = now /\ now \in Nat /\ wire'[k] = wire[k]
    BY <1>1, <1>3, <2>3
  <2>8. now < wire[k].due
    BY <2>4, <2>5, <2>6, <2>7, Times
  <2> QED
    BY <2>7, <2>8
<1> HIDE DEF U, g
<1>9. /\ active' \in Int /\ 0 <= active' /\ active' < nextShot'
      /\ AllSound(pending', active', nextShot', Made, wire', now, U)
      /\ Follows(pending', pending, U)
  <2>1. CASE FireIndex > 0
    <3> DEFINE i == FireIndex
               r == Confirmed(pending[i], c)
    <3>1. i \in 1 .. Len(pending) /\ FireMatches(pending[i])
      BY <2>1, FireFound
    <3>2. /\ pending' = [pending EXCEPT ![i] = r]
          /\ active' = pending[i].seq /\ nextShot' = nextShot
      BY <1>1, <2>1 DEF WeaponFire
    <3>3. /\ r.seq = pending[i].seq /\ r.cmd = pending[i].cmd /\ r.time = pending[i].time
          /\ r.rage = pending[i].rage /\ r.committed /\ r.fired /\ ~r.missPending
          /\ r.resolved = pending[i].resolved /\ pending[i].committed
      <4> HIDE DEF i, c
      <4>1. pending[i] \in ShotRecord /\ pending[i].committed
        BY <1>1, <3>1 DEF FireMatches
      <4> QED
        BY <4>1, ConfirmedFields
    <3> HIDE DEF i, r
    <3>4. Renewed(pending', pending, i, r)
      BY <1>1, <3>1, <3>2, <3>3, Marked
    <3>5. \A k \in 1 .. Len(pending) : k # i => pending[k].seq # active'
      BY <1>1, <1>2, <3>1, <3>2, OneRecord
    <3>6. AllSound(pending', active', nextShot, Made, wire', now, U)
      <4>1. /\ r.rage = pending[i].rage /\ r.fired /\ (pending[i].cmd > 0 => r.committed)
            /\ r.missPending => r.time <= r.resolvedAt
            /\ \A k \in 1 .. Len(pending) : k # i /\ pending[k].seq = active' => active = active'
            /\ Spent(wire, now) => Spent(wire', now)
        BY <1>7, <3>3, <3>5
      <4>2. AllSound(pending, active, nextShot, Made, wire, now, U)
        BY <1>6
      <4> QED
        BY <3>4, <4>1, <4>2, RenewedSound
    <3>7. Follows(pending', pending, U)
      BY <3>3, <3>4, RenewedFollows
    <3>8. active' \in Int /\ 0 <= active' /\ active' < nextShot
      <4>1. Fields(pending[i]) /\ 0 < pending[i].seq /\ pending[i].seq < nextShot
        BY <1>1, <1>2, <1>6, <3>1 DEF InOrder, AllSound, Sound
      <4> QED
        BY <3>2, <4>1 DEF Fields
    <3> QED
      BY <3>2, <3>6, <3>7, <3>8
  <2>2. CASE ~(FireIndex > 0)
    <3> DEFINE w == IF Head(wire).impacts = 2 THEN "shotgun" ELSE "rifle"
               token == Shot(Anonymous, FALSE, NoVictim, w, TRUE)
               r == Confirmed(token, c)
    <3>1. token \in ShotRecord /\ token.cmd = 0 /\ token.seq = nextShot /\ token.rage = FALSE
      <4>1. token \in ShotRecord /\ token.cmd = 0
        BY <1>1, ShotFits, Situation DEF Anonymous, Weapons, TrackerInv
      <4> QED
        BY <4>1 DEF Shot
    <3>2. pending' = Append(pending, r) /\ nextShot' = nextShot + 1 /\ active' = nextShot
      BY <1>1, <2>2 DEF WeaponFire
    <3> HIDE DEF token
    <3>3. r.cmd = 0 /\ r.seq = nextShot /\ r.rage = FALSE /\ ~r.missPending
      <4> HIDE DEF c
      <4>1. r.cmd = token.cmd /\ r.seq = token.seq /\ r.rage = token.rage /\ ~r.missPending
        BY <3>1, ConfirmedFields
      <4> QED
        BY <3>1, <4>1
    <3> HIDE DEF r
    <3>4. /\ Len(pending') = Len(pending) + 1 /\ pending'[Len(pending) + 1] = r
          /\ \A k \in 1 .. Len(pending) : pending'[k] = pending[k]
      BY <1>1, <3>2
    <3>5. 0 \notin Made
      BY DEF Made, TrackerInv
    <3>6. Sound(r, nextShot, nextShot + 1, Made, wire', now, U)
      BY <1>1, <1>6, <3>3, <3>5 DEF Sound
    <3>7. ASSUME NEW k \in 1 .. Len(pending)
          PROVE  Sound(pending[k], nextShot, nextShot + 1, Made, wire', now, U)
      <4> DEFINE s == pending[k]
      <4>1. Sound(s, active, nextShot, Made, wire, now, U) /\ s.seq \in Int /\ s.seq < nextShot
        BY <1>1, <1>2, <1>6 DEF AllSound, InOrder, Fields
      <4> HIDE DEF s
      <4>2. s.cmd \in Made => s.seq + 2 = nextShot + 1 /\ Spent(wire', now)
        BY <1>1, <1>7, <1>8, <4>1 DEF Sound
      <4>3. s.seq # nextShot
        BY <1>1, <4>1
      <4>4. Sound(s, nextShot, nextShot + 1, Made, wire', now, U)
        BY <4>1, <4>2, <4>3 DEF Sound
      <4> QED
        BY <4>4 DEF s
    <3>8. \A k \in 1 .. Len(pending') : k \in 1 .. Len(pending) \/ k = Len(pending) + 1
      BY <1>1, <3>4
    <3>9. AllSound(pending', nextShot, nextShot + 1, Made, wire', now, U)
      BY <3>4, <3>6, <3>7, <3>8 DEF AllSound
    <3>10. Follows(pending', pending, U)
      BY <3>3, <3>4, <3>8 DEF Follows
    <3> QED
      BY <1>1, <1>6, <3>2, <3>9, <3>10
  <2> QED
    BY <2>1, <2>2
<1>10. Orderly(wire', Made, now)
  BY <1>1, <1>5, <1>6, MovedOrderly
<1>11. Judged(pending', command, Made, missed, hurt, strays, evicted)
  BY <1>6, <1>9, FollowsKeeps DEF U, Unrecorded
<1>12. Lined(outputs, told, pending', command, Made, now)
  BY <1>6, <1>9, FinishedFollows, LinedKeeps
<1> QED
  BY <1>4, <1>6, <1>9, <1>10, <1>11, <1>12 DEF VerdictInv

LEMMA SpentSound ==
  ASSUME NEW p, NEW a, NEW n, NEW fresh, NEW w, NEW v, NEW t, NEW U,
         AllSound(p, a, n, fresh, w, t, U), Spent(w, t) => Spent(v, t)
  PROVE  AllSound(p, a, n, fresh, v, t, U)
BY DEF AllSound, Sound

\* The record of an impact or of a hurt.
Marks(q, p, i, r) ==
  /\ Renewed(q, p, i, r) /\ Evident(p[i]) /\ r.rage = p[i].rage /\ r.fired /\ r.committed
  /\ r.missPending => r.time <= r.resolvedAt
  /\ p[i].resolved => r.resolved

LEMMA MarkedSound ==
  ASSUME NEW p, \A k \in 1 .. Len(p) : p[k].cmd \in Nat,
         NEW q, q = p \/ \E i, r : Marks(q, p, i, r),
         NEW n, NEW fresh, NEW w, NEW v, NEW t, Spent(w, t) => Spent(v, t), NEW U,
         AllSound(p, active, n, fresh, w, t, U)
  PROVE  AllSound(q, active, n, fresh, v, t, U) /\ Follows(q, p, U)
<1>1. CASE q = p
  <2>1. Follows(q, p, U)
    BY <1>1 DEF Follows
  <2> QED
    BY <1>1, <2>1, SpentSound
<1>2. ASSUME NEW i, NEW r, Marks(q, p, i, r)
      PROVE  AllSound(q, active, n, fresh, v, t, U) /\ Follows(q, p, U)
  <2>1. /\ Renewed(q, p, i, r) /\ Evident(p[i]) /\ r.rage = p[i].rage /\ r.fired
        /\ p[i].cmd > 0 => r.committed
        /\ r.missPending => r.time <= r.resolvedAt
        /\ p[i].resolved => r.resolved
        /\ \A k \in 1 .. Len(p) : k # i /\ p[k].seq = active => active = active
    BY <1>2 DEF Marks
  <2>2. AllSound(q, active, n, fresh, v, t, U)
    BY <2>1, RenewedSound
  <2>3. Follows(q, p, U)
    <3> SUFFICES ASSUME NEW k \in 1 .. Len(q), q[k].cmd # 0
                 PROVE  \E j \in 1 .. Len(p) :
                          /\ q[k].cmd = p[j].cmd
                          /\ p[j].resolved => q[k].resolved
                          /\ q[k].committed => p[j].committed \/ ~Below(U, p[j].cmd)
      BY DEF Follows
    <3>1. /\ k \in 1 .. Len(p) /\ q[k] = (IF k = i THEN r ELSE p[k])
          /\ r.cmd = p[i].cmd
      BY <2>1 DEF Renewed
    <3>2. Sound(p[k], active, n, fresh, w, t, U)
      BY <3>1 DEF AllSound
    <3> QED
      <4>1. k = i /\ p[k].cmd > 0 /\ Below(U, p[k].cmd) => p[k].committed
        BY <2>1, <3>2, EvidentCommitted
      <4>2. k = i /\ Below(U, p[k].cmd) => p[k].committed
        BY <2>1, <3>1, <4>1
      <4> QED
        BY <2>1, <3>1, <4>2
  <2> QED
    BY <2>2, <2>3
<1> QED
  BY <1>1, <1>2

LEMMA ImpactMarks ==
  ASSUME TrackerInv, EvidenceInv, BulletImpact
  PROVE  /\ Kept(Impacted, command, Made) /\ InOrder(Impacted, nextShot)
         /\ Impacted = pending \/ \E i, r : Marks(Impacted, pending, i, r)
<1> DEFINE i == ImpactIndex
           c == wire[1].cmd
           r == Struck(pending[i], c)
<1>1. /\ pending \in Seq(ShotRecord) /\ wire # <<>> /\ Head(wire) = wire[1] /\ wire[1] \in Group
      /\ Kept(pending, command, Made) /\ TrackerTypes /\ now \in Nat /\ nextImpact \in Int
  BY Situation DEF BulletImpact, TrackerInv
<1>2. InOrder(pending, nextShot)
  BY DEF EvidenceInv, Evidence
<1>3. CASE ~(i > 0)
  <2>1. Impacted = pending
    BY <1>3 DEF Impacted
  <2> QED
    BY <1>1, <1>2, <2>1
<1>4. CASE i > 0
  <2>1. i \in 1 .. Len(pending) /\ InWindow(pending[i]) /\ Evident(pending[i])
    BY <1>4, ImpactFound
  <2>2. Impacted = [pending EXCEPT ![i] = r]
    BY <1>1, <1>4 DEF Impacted
  <2>3. c \in 1 .. MaxCommand
    BY <1>1 DEF Group
  <2> HIDE DEF i, c
  <2>4. pending[i] \in ShotRecord /\ Timed(pending[i], now) /\ pending[i].cmd <= command
        /\ (pending[i].cmd \in Made => pending[i].time = now)
    BY <1>1, <2>1 DEF Kept
  <2>5. r \in ShotRecord /\ Timed(r, now) /\ r.cmd = pending[i].cmd /\ r.time = pending[i].time
    BY <1>1, <2>1, <2>3, <2>4, ImpactFits
  <2>6. /\ r.seq = pending[i].seq /\ r.rage = pending[i].rage /\ r.committed /\ ~r.missPending
        /\ r.resolved = pending[i].resolved /\ r.fired
    BY <2>4, StruckFields
  <2> HIDE DEF r
  <2>7. Kept(Impacted, command, Made)
    BY <1>1, <2>1, <2>2, <2>4, <2>5, ReplaceKeeps
  <2>8. Renewed(Impacted, pending, i, r)
    BY <1>1, <2>1, <2>2, <2>5, <2>6, Marked
  <2>9. InOrder(Impacted, nextShot)
    <3>1. /\ Len(Impacted) = Len(pending)
          /\ \A k \in 1 .. Len(pending) :
               Impacted[k].seq = pending[k].seq /\ Impacted[k].cmd = pending[k].cmd
      BY <2>8 DEF Renewed
    <3> QED
      BY <1>2, <3>1 DEF InOrder
  <2>10. Marks(Impacted, pending, i, r)
    BY <2>1, <2>6, <2>8 DEF Marks
  <2> QED
    BY <2>7, <2>9, <2>10
<1> QED
  BY <1>3, <1>4

LEMMA ImpactVerdict ==
  ASSUME TrackerInv, EvidenceInv, VerdictInv, BulletImpact
  PROVE  VerdictInv'
<1> DEFINE U == Unrecorded
           g == [wire[1] EXCEPT !.impacts = @ - 1]
<1>1. /\ wire \in Seq(Group) /\ Len(wire) \in Nat /\ 1 \in 1 .. Len(wire) /\ Head(wire) = wire[1]
      /\ wire[1] \in Group /\ now \in Nat /\ nextShot \in Int /\ command \in Nat /\ TrackerTypes
      /\ \A k \in 1 .. Len(pending) : pending[k].cmd \in Nat
  BY Situation DEF BulletImpact, TrackerInv, Fields
<1>2. /\ wire # <<>> /\ wire[1].fired /\ wire' = Rest(g)
      /\ pending' = Survivors(Impacted) /\ active' = Holding(Impacted, active)
      /\ outputs' = outputs \o Verdicts(Impacted)
      /\ missed' = missed \cup {s.cmd : s \in {t \in ToSet(Impacted) : Miss(t)}}
  BY <1>1 DEF BulletImpact, CheckMisses, Holding
<1>3. /\ nextShot' = nextShot /\ strays' = strays /\ evicted' = evicted /\ hurt' = hurt
      /\ told' = told
      /\ now' = now /\ command' = command /\ Made' = Made /\ Unrecorded' = U
  BY DEF BulletImpact, Made, Unrecorded
<1>4. g.cmd = wire[1].cmd /\ g.due = wire[1].due /\ g.fired
  BY <1>1, <1>2, GroupFields
<1> HIDE DEF g
<1>5. PICK s \in {0, 1} : Moved(wire', wire, g, s)
  BY <1>1, <1>2, <1>4, RestMoves
<1>6. /\ command <= MaxCommand /\ active \in Int /\ 0 <= active /\ active < nextShot
      /\ missed \subseteq Nat /\ hurt \subseteq Nat
      /\ AllSound(pending, active, nextShot, Made, wire, now, U)
      /\ Orderly(wire, Made, now)
      /\ Judged(pending, command, Made, missed, hurt, strays, evicted)
      /\ Lined(outputs, told, pending, command, Made, now)
  BY DEF VerdictInv
<1> HIDE DEF U
<1>7. Orderly(wire', Made, now) /\ (Spent(wire, now) => Spent(wire', now))
  BY <1>1, <1>5, <1>6, MovedOrderly, MovedSpent
<1>8. /\ Kept(Impacted, command, Made) /\ InOrder(Impacted, nextShot)
      /\ Impacted = pending \/ \E i, r : Marks(Impacted, pending, i, r)
  BY ImpactMarks
<1>9. AllSound(Impacted, active, nextShot, Made, wire', now, U) /\ Follows(Impacted, pending, U)
  BY <1>1, <1>6, <1>7, <1>8, MarkedSound
<1>10. Judged(Impacted, command, Made, missed, hurt, strays, evicted)
  BY <1>6, <1>9, FollowsKeeps DEF U, Unrecorded
<1>11. Lined(outputs, told, Impacted, command, Made, now)
  BY <1>6, <1>9, FinishedFollows, LinedKeeps
<1>12. /\ active' \in Int /\ 0 <= active' /\ active' < nextShot
       /\ AllSound(pending', active', nextShot, Made, wire', now, U)
  BY <1>1, <1>2, <1>6, <1>8, <1>9, SweepSound
<1>13. Judged(pending', command, Made, missed', hurt, strays, evicted) /\ missed' \subseteq Nat
  <2>1. AllSound(Impacted, active, nextShot, Made, wire', now, strays \cup evicted)
    BY <1>9 DEF U, Unrecorded
  <2> QED
    BY <1>1, <1>2, <1>6, <1>8, <1>10, <2>1, SweepJudged
<1>14. Lined(outputs', told, pending', command, Made, now)
  BY <1>1, <1>2, <1>6, <1>8, <1>9, <1>11, SweepLined
<1> QED
  BY <1>3, <1>6, <1>7, <1>12, <1>13, <1>14 DEF VerdictInv

\* The search for a hurt's record ends at one with evidence, or a committed one.
LEMMA HurtFound ==
  ASSUME TrackerInv, EvidenceInv, NEW v, HurtIndex(v) > 0
  PROVE  HurtIndex(v) \in 1 .. Len(pending) /\ Evident(pending[HurtIndex(v)])
<1> DEFINE Fits(s) == ~s.resolved /\ (s.rage => s.victim = v)
           struck == {i \in DOMAIN pending : pending[i].struck /\ Fits(pending[i])}
           latest == IF struck = {} THEN 0
                     ELSE CHOOSE i \in struck : \A k \in struck : pending[k].order <= pending[i].order
           A == {i \in 1 .. Len(pending) : pending[i].seq = active /\ pending[i].fired /\ Fits(pending[i])}
           B == {i \in 1 .. Len(pending) : pending[i].rage /\ pending[i].fired /\ Fits(pending[i])}
           C == {i \in 1 .. Len(pending) : pending[i].rage /\ pending[i].committed /\ Fits(pending[i])}
           First(I) == IF I # {} THEN Min(I) ELSE 0
           crosses == /\ First(A) > 0 /\ latest > 0
                      /\ pending[First(A)].seq > pending[latest].seq
                      /\ pending[First(A)].firedAt >= pending[latest].struckAt
           Good(i) == i \in Nat /\ (i > 0 => i \in 1 .. Len(pending) /\ Evident(pending[i]))
<1>1. HurtIndex(v) = FirstOf(<<IF crosses THEN First(A) ELSE latest, First(A), First(B), First(C)>>)
  BY Zenon DEF HurtIndex, SelectInSeq
<1>2. DOMAIN pending = 1 .. Len(pending) /\ Len(pending) \in Nat
  BY Situation
<1>3. Good(latest)
  <2>1. \A k \in struck : k \in 1 .. Len(pending) /\ pending[k].struck /\ Evident(pending[k])
    BY <1>2 DEF Evident
  <2> HIDE DEF struck
  <2>2. latest = 0 \/ latest \in struck
    BY <2>1, LatestStruck
  <2> HIDE DEF latest
  <2> QED
    BY <1>2, <2>1, <2>2
<1>4. ASSUME NEW I \in {A, B, C}
      PROVE  Good(First(I))
  <2>1. I \subseteq 1 .. Len(pending) /\ I \subseteq Nat /\ \A i \in I : Evident(pending[i])
    BY DEF Evident
  <2> HIDE DEF A, B, C
  <2>2. First(I) = 0 \/ First(I) \in I
    BY <2>1, LeastIn
  <2> HIDE DEF First
  <2> QED
    <3>1. CASE First(I) = 0
      BY <3>1
    <3>2. CASE First(I) \in I
      BY <2>1, <3>2
    <3> QED
      BY <2>2, <3>1, <3>2
<1> HIDE DEF A, B, C, First, latest
<1> DEFINE ks == <<IF crosses THEN First(A) ELSE latest, First(A), First(B), First(C)>>
<1>5. /\ ks \in Seq(Nat) /\ Len(ks) = 4
      /\ Good(ks[1]) /\ Good(ks[2]) /\ Good(ks[3]) /\ Good(ks[4])
  <2>1. Good(First(A)) /\ Good(First(B)) /\ Good(First(C))
    BY <1>4
  <2>2. PICK k : k = (IF crosses THEN First(A) ELSE latest)
    OBVIOUS
  <2>3. Good(k)
    BY <1>3, <2>1, <2>2
  <2>4. ks = <<k, First(A), First(B), First(C)>>
    BY <2>2
  <2> HIDE DEF ks, crosses
  <2> QED
    BY <2>1, <2>3, <2>4
<1> HIDE DEF ks
<1>6. PICK j \in 1 .. 4 : HurtIndex(v) = ks[j]
  BY <1>1, <1>5, FirstOfOne DEF ks
<1>7. Good(HurtIndex(v))
  <2> HIDE DEF Good
  <2> QED
    BY <1>5, <1>6
<1> QED
  BY <1>7

LEMMA HurtVerdict ==
  ASSUME TrackerInv, EvidenceInv, VerdictInv, PlayerHurt
  PROVE  VerdictInv'
<1> DEFINE U == Unrecorded
           g == [wire[1] EXCEPT !.hurts = NoVictim]
           c == wire[1].cmd
           i == HurtIndex(wire[1].hurts)
           r == Hurt(pending[i], c)
<1>1. /\ pending \in Seq(ShotRecord) /\ Len(pending) \in Nat
      /\ \A k \in 1 .. Len(pending) : pending[k] \in ShotRecord /\ Fields(pending[k])
      /\ wire \in Seq(Group) /\ Len(wire) \in Nat /\ 1 \in 1 .. Len(wire) /\ Head(wire) = wire[1]
      /\ wire[1] \in Group /\ Parcel(wire[1]) /\ now \in Nat /\ TrackerTypes
  BY Situation DEF PlayerHurt, TrackerInv
<1>2. InOrder(pending, nextShot) /\ Traffic(wire, command, Made, now)
  BY DEF EvidenceInv, Evidence
<1>3. /\ wire # <<>> /\ wire[1].fired /\ wire' = Rest(g)
      /\ pending' = IF i > 0 THEN [pending EXCEPT ![i] = r] ELSE pending
      /\ hurt' = hurt \cup {c}
  BY <1>1 DEF PlayerHurt
<1>4. /\ active' = active /\ nextShot' = nextShot /\ strays' = strays /\ evicted' = evicted
      /\ missed' = missed /\ outputs' = outputs /\ told' = told
      /\ now' = now /\ command' = command /\ Made' = Made /\ Unrecorded' = U
  BY DEF PlayerHurt, history, Made, Unrecorded
<1>5. g.cmd = wire[1].cmd /\ g.due = wire[1].due /\ g.fired
  BY <1>1, <1>3, GroupFields
<1> HIDE DEF g
<1>6. PICK s \in {0, 1} : Moved(wire', wire, g, s)
  BY <1>1, <1>3, <1>5, RestMoves
<1>7. /\ command <= MaxCommand /\ active \in Int /\ 0 <= active /\ active < nextShot
      /\ missed \subseteq Nat /\ hurt \subseteq Nat
      /\ AllSound(pending, active, nextShot, Made, wire, now, U)
      /\ Orderly(wire, Made, now)
      /\ Judged(pending, command, Made, missed, hurt, strays, evicted)
      /\ Lined(outputs, told, pending, command, Made, now)
  BY DEF VerdictInv
<1>8. Orderly(wire', Made, now) /\ (Spent(wire, now) => Spent(wire', now))
  BY <1>1, <1>6, <1>7, MovedOrderly, MovedSpent
<1>9. i > 0 => i \in 1 .. Len(pending) /\ Evident(pending[i])
  BY HurtFound
<1>10. ASSUME Clear(U, c)
       PROVE  i \in 1 .. Len(pending) /\ i > 0 /\ pending[i].cmd = c
  <2>1. PICK j \in 1 .. Len(pending) : Awaits(pending[j], wire[1], active)
    BY <1>3, <1>10, HeadOwn
  <2>2. i = j
    BY <1>10, <2>1, HurtOwn
  <2> HIDE DEF i
  <2> QED
    BY <1>1, <2>1, <2>2 DEF Awaits
<1> HIDE DEF U, i
<1>11. /\ pending' = pending \/ \E k, x : Marks(pending', pending, k, x)
       /\ i > 0 => /\ Len(pending') = Len(pending) /\ pending'[i].resolved
                   /\ \A k \in 1 .. Len(pending) : pending'[k].cmd = pending[k].cmd
  <2>1. CASE i > 0
    <3>1. pending[i] \in ShotRecord /\ Timed(pending[i], now) /\ i \in 1 .. Len(pending)
      BY <1>1, <1>9, <2>1, Situation
    <3> HIDE DEF c
    <3>2. /\ r.seq = pending[i].seq /\ r.cmd = pending[i].cmd /\ r.time = pending[i].time
          /\ r.rage = pending[i].rage /\ r.fired /\ r.committed /\ r.resolved /\ r.resolvedAt = now
      BY <3>1, HurtFields
    <3>3. r.time <= r.resolvedAt
      BY <3>1, <3>2 DEF Timed
    <3> HIDE DEF r
    <3>4. Renewed(pending', pending, i, r)
      BY <1>1, <1>3, <2>1, <3>1, <3>2, Marked
    <3>5. Marks(pending', pending, i, r)
      BY <1>9, <2>1, <3>2, <3>3, <3>4 DEF Marks
    <3> QED
      BY <3>2, <3>4, <3>5 DEF Renewed
  <2>2. CASE ~(i > 0)
    BY <1>3, <2>2
  <2> QED
    BY <2>1, <2>2
<1>12. AllSound(pending', active, nextShot, Made, wire', now, U) /\ Follows(pending', pending, U)
  <2>1. \A k \in 1 .. Len(pending) : pending[k].cmd \in Nat
    BY <1>1 DEF Fields
  <2> QED
    BY <1>7, <1>8, <1>11, <2>1, MarkedSound
<1>13. Judged(pending', command, Made, missed, hurt, strays, evicted)
  BY <1>7, <1>12, FollowsKeeps DEF U, Unrecorded
<1>14. /\ 0 < c /\ c \in Nat /\ c <= command /\ c \notin Made
       /\ Clear(U, c) => /\ c \notin missed
                         /\ \A k \in 1 .. Len(pending') : pending'[k].cmd = c => pending'[k].resolved
  <2>1. 0 < c /\ c \in Nat /\ c <= command /\ c \notin Made
    <3>1. /\ 0 < c /\ c \in Nat /\ wire[1].due \in Nat /\ wire[1].due <= now /\ c <= command
          /\ c \in Made => wire[1].due = now + Rtt
      BY <1>1, <1>2, <1>3 DEF Parcel, Traffic
    <3> HIDE DEF c
    <3> QED
      BY <1>1, <3>1, Times
  <2>2. ASSUME Clear(U, c)
        PROVE  /\ c \notin missed
               /\ \A k \in 1 .. Len(pending') : pending'[k].cmd = c => pending'[k].resolved
    <3>1. i \in 1 .. Len(pending) /\ i > 0 /\ pending[i].cmd = c
      BY <1>10, <2>2
    <3>2. c \notin missed
      BY <1>7, <3>1 DEF Judged, Finished
    <3>3. ASSUME NEW k \in 1 .. Len(pending'), pending'[k].cmd = c
          PROVE  k = i
      <4>1. k \in 1 .. Len(pending) /\ pending[k].cmd = pending[i].cmd /\ pending[i].cmd > 0
        BY <1>11, <2>1, <3>1, <3>3
      <4> QED
        BY <1>1, <1>2, <3>1, <4>1, OneRecord
    <3> QED
      BY <1>11, <3>1, <3>2, <3>3
  <2> QED
    BY <2>1, <2>2
<1>15. Judged(pending', command, Made, missed, hurt', strays, evicted) /\ hurt' \subseteq Nat
  <2> HIDE DEF c
  <2>1. \A d \in hurt' :
          /\ 0 < d /\ d <= command /\ d \notin Made
          /\ Clear(strays \cup evicted, d) =>
               /\ d \notin missed
               /\ \A k \in 1 .. Len(pending') : pending'[k].cmd = d => pending'[k].resolved
    <3>1. \A d \in hurt' : d \in hurt \/ d = c
      BY <1>3
    <3> QED
      BY <1>13, <1>14, <3>1 DEF Judged, U, Unrecorded
  <2>2. hurt' \subseteq Nat
    BY <1>3, <1>7, <1>14
  <2> QED
    BY <1>13, <2>1, <2>2 DEF Judged
<1>16. Lined(outputs, told, pending', command, Made, now)
  BY <1>7, <1>12, FinishedFollows, LinedKeeps
<1> QED
  BY <1>4, <1>7, <1>8, <1>12, <1>15, <1>16 DEF VerdictInv

\* A frame: no record is as young as its command any more, and no shot as late.
LEMMA FrameVerdict ==
  ASSUME TrackerInv, EvidenceInv, VerdictInv, NEW works \in BOOLEAN, Frame(works)
  PROVE  VerdictInv'
<1> DEFINE U == Unrecorded
           o == outputs \o Verdicts(pending)
<1>1. /\ wire \in Seq(Group) /\ now \in Nat /\ nextShot \in Int /\ command \in Nat /\ TrackerTypes
      /\ Kept(pending, command, Made)
  BY Situation DEF TrackerInv
<1>2. InOrder(pending, nextShot) /\ Traffic(wire, command, Made, now)
  BY DEF EvidenceInv, Evidence
<1>3. /\ pending' = Survivors(pending) /\ active' = Holding(pending, active)
      /\ now' = IF now < MaxTime THEN now + 1 ELSE now
      /\ missed' = missed \cup {s.cmd : s \in {t \in ToSet(pending) : Miss(t)}}
      /\ Flush(o, pending', works)
      /\ nextShot' = nextShot /\ command' = command /\ wire' = wire
      /\ strays' = strays /\ evicted' = evicted /\ hurt' = hurt
      /\ Made' = {} /\ Unrecorded' = U
  BY DEF Frame, CheckMisses, Holding, Made, Unrecorded
<1>4. /\ command <= MaxCommand /\ active \in Int /\ 0 <= active /\ active < nextShot
      /\ missed \subseteq Nat /\ hurt \subseteq Nat
      /\ AllSound(pending, active, nextShot, Made, wire, now, U)
      /\ Orderly(wire, Made, now)
      /\ Judged(pending, command, Made, missed, hurt, strays, evicted)
      /\ Lined(outputs, told, pending, command, Made, now)
  BY DEF VerdictInv
<1> HIDE DEF U
<1>5. /\ active' \in Int /\ 0 <= active' /\ active' < nextShot
      /\ AllSound(pending', active', nextShot, {}, wire, now', U)
  <2>1. /\ active' \in Int /\ 0 <= active' /\ active' < nextShot
        /\ AllSound(pending', active', nextShot, Made, wire, now, U)
    BY <1>1, <1>3, <1>4, SweepSound
  <2> QED
    BY <2>1 DEF AllSound, Sound
<1>6. Orderly(wire, {}, now')
  <2>1. CASE now >= MaxTime
    <3>1. now' = now
      BY <1>1, <1>3, <2>1, Times
    <3> QED
      BY <1>4, <2>1, <3>1 DEF Orderly
  <2>2. CASE ~(now >= MaxTime)
    <3>1. now' = now + 1
      BY <1>1, <1>3, <2>2, Times
    <3>2. \A k \in 1 .. Len(wire) : wire[k].due \in Nat /\ wire[k].due <= now + Rtt
      BY <1>1, <1>2, WireParcels DEF Traffic, Parcel
    <3>3. \A k \in 1 .. Len(wire) : wire[k].due # now' + Rtt
      BY <1>1, <3>1, <3>2, Times
    <3> QED
      BY <1>4, <3>3 DEF Orderly
  <2> QED
    BY <2>1, <2>2
<1>7. Judged(pending', command, {}, missed', hurt, strays, evicted) /\ missed' \subseteq Nat
  <2>1. AllSound(pending, active, nextShot, Made, wire, now, strays \cup evicted)
    BY <1>4 DEF U, Unrecorded
  <2>2. Judged(pending', command, Made, missed', hurt, strays, evicted) /\ missed' \subseteq Nat
    BY <1>1, <1>2, <1>3, <1>4, <2>1, SweepJudged
  <2>3. \A d : Finished(pending', command, Made, d) => Finished(pending', command, {}, d)
    BY DEF Finished
  <2> QED
    BY <2>2, <2>3 DEF Judged
<1>8. Lined(o, told, pending', command, {}, now)
  <2>1. Lined(o, told, pending', command, Made, now)
    BY <1>1, <1>2, <1>3, <1>4, SweepLined
  <2>2. \A d \in 1 .. MaxCommand :
          Finished(pending', command, Made, d) => Finished(pending', command, {}, d)
    BY DEF Finished
  <2> HIDE DEF o
  <2> QED
    BY <2>1, <2>2, LinedKeeps
<1>9. Lined(outputs', told', pending', command, {}, now')
  <2> HIDE DEF o
  <2> QED
    BY <1>1, <1>3, <1>8, FlushLined
<1> QED
  BY <1>3, <1>4, <1>5, <1>6, <1>7, <1>9 DEF VerdictInv

\* A new round or level: nothing is left but what the channels were told.
LEMMA BoundaryVerdict ==
  ASSUME TrackerInv, EvidenceInv, VerdictInv, NEW works \in BOOLEAN, RoundStart(works) \/ LevelChange
  PROVE  VerdictInv'
<1>1. /\ pending' = <<>> /\ active' = 0 /\ nextShot' = 1 /\ wire' = <<>>
      /\ now' = now /\ command' = command /\ Made' = Made /\ strays' = strays /\ hurt' = hurt
      /\ missed' = missed /\ evicted' = evicted /\ now \in Nat
  <2>1. Boundary /\ now \in Nat
    BY Situation DEF RoundStart, LevelChange
  <2>2. /\ now' = now /\ command' = command /\ moved' = moved /\ strays' = strays /\ hurt' = hurt
        /\ missed' = missed /\ evicted' = evicted
    BY DEF RoundStart, LevelChange, history
  <2> QED
    BY <2>1, <2>2 DEF Boundary, Made
<1>2. /\ command <= MaxCommand /\ missed \subseteq Nat /\ hurt \subseteq Nat
      /\ Judged(pending, command, Made, missed, hurt, strays, evicted)
      /\ Lined(outputs, told, pending, command, Made, now)
  BY DEF VerdictInv
<1>3. Len(pending') = 0 /\ Len(wire') = 0
  BY <1>1
<1>4. AllSound(pending', active', nextShot', Made, wire', now, Unrecorded) /\ Orderly(wire', Made, now)
  BY <1>3 DEF AllSound, Orderly
<1>5. Follows(pending', pending, Unrecorded)
  BY <1>3 DEF Follows
<1>6. Judged(pending', command, Made, missed, hurt, strays, evicted)
  BY <1>2, <1>5, FollowsKeeps DEF Unrecorded
<1>7. Lined(outputs, told, pending', command, Made, now)
  BY <1>2, <1>5, FinishedFollows, LinedKeeps
<1>8. Lined(outputs', told', pending', command, Made, now)
  <2>1. CASE RoundStart(works)
    <3>1. Flush(outputs, pending, works)
      BY <2>1 DEF RoundStart
    <3> QED
      BY <1>1, <1>7, <3>1, FlushLined
  <2>2. CASE LevelChange
    <3>1. outputs' = <<>> /\ told' = told
      BY <2>2 DEF LevelChange, history
    <3>2. outputs' \in Seq(Line) /\ Len(outputs') = 0
      BY <3>1
    <3> QED
      BY <1>7, <3>1, <3>2 DEF Lined
  <2> QED
    BY <2>1, <2>2
<1>9. Unrecorded' = Unrecorded
  BY <1>1 DEF Unrecorded
<1> QED
  BY <1>1, <1>2, <1>4, <1>6, <1>8, <1>9 DEF VerdictInv

\* The list while a command is made: what it adds is the record of the command.
Fit(q, w, V, c) ==
  /\ AllSound(q, active, nextShot + Len(q) - Len(pending), {c}, w, now, V)
  /\ \A i \in 1 .. Len(q) : q[i].cmd = c \/ \E j \in 1 .. Len(pending) : q[i] = pending[j]

LEMMA AddedFit ==
  ASSUME nextShot \in Int, Len(pending) \in Nat, NEW c \in Nat, c > 0, NEW x, NEW V,
         NEW p, Draft(p, x, V, c), Fit(p, x, V, c), \A k \in 1 .. Len(p) : p[k].cmd # c,
         0 <= active, active < nextShot, active \in Int,
         NEW q, NEW r, Added(q, p, r), r.cmd = c, r.seq = nextShot,
         ~r.fired, ~r.struck, ~r.resolved, ~r.missPending
  PROVE  Fit(q, x, V, c)
<1>1. Len(p) = Len(pending) /\ Len(p) \in Nat
  BY DEF Draft
<1>2. nextShot + Len(p) - Len(pending) = nextShot
  BY <1>1
<1>3. /\ Len(q) = Len(p) + 1 /\ q[Len(p) + 1] = r /\ \A k \in 1 .. Len(p) : q[k] = p[k]
      /\ \A k \in 1 .. Len(q) : k \in 1 .. Len(p) \/ k = Len(p) + 1
  BY <1>1 DEF Added
<1>4. nextShot + Len(q) - Len(pending) = nextShot + 1
  BY <1>1, <1>3
<1>5. \A k \in 1 .. Len(p) : Sound(q[k], active, nextShot + 1, {c}, x, now, V)
  BY <1>2, <1>3 DEF Fit, AllSound, Sound
<1>6. Sound(r, active, nextShot + 1, {c}, x, now, V)
  BY DEF Sound
<1>7. AllSound(q, active, nextShot + 1, {c}, x, now, V)
  BY <1>3, <1>5, <1>6 DEF AllSound
<1> QED
  BY <1>3, <1>4, <1>7 DEF Fit

\* A clear record of the command has no evidence yet.
LEMMA RewrittenFit ==
  ASSUME NEW c \in Nat, c > 0, NEW x, NEW V, V \subseteq Nat,
         NEW p, Draft(p, x, V, c), Fit(p, x, V, c),
         NEW q, NEW i, NEW r, Renewed(q, p, i, r), r.cmd = c,
         \/ ~r.fired /\ ~r.struck /\ ~r.resolved /\ ~r.missPending
         \/ /\ r.rage = p[i].rage /\ r.fired = p[i].fired /\ r.committed
            /\ r.missPending = p[i].missPending /\ r.resolvedAt = p[i].resolvedAt
  PROVE  Fit(q, x, V, c)
<1> DEFINE n == nextShot + Len(p) - Len(pending)
<1>1. /\ i \in 1 .. Len(p) /\ Len(q) = Len(p) /\ q[i] = r /\ p[i].cmd = c
      /\ \A k \in 1 .. Len(p) : k # i => q[k] = p[k]
      /\ r.seq = p[i].seq /\ r.time = p[i].time
  BY DEF Renewed
<1>2. AllSound(p, active, n, {c}, x, now, V)
  BY DEF Fit
<1>3. Rightful(p, V) /\ Past(p, x, c, {c}) /\ Fields(p[i])
  BY <1>1, KeptFields DEF Draft, Evidence
<1> HIDE DEF n
<1>4. Sound(p[i], active, n, {c}, x, now, V)
  BY <1>1, <1>2 DEF AllSound
<1>5. ASSUME Below(V, c) PROVE ~p[i].fired
  <2>1. p[i].of = {}
    <3> SUFFICES ASSUME NEW e \in p[i].of PROVE FALSE
      OBVIOUS
    <3>1. e \in Nat /\ e <= c /\ e # c
      BY <1>1, <1>3 DEF Past, Fields
    <3>2. Clear(V, e)
      BY <1>5, <3>1 DEF Below, Clear
    <3> QED
      BY <1>1, <1>3, <3>1, <3>2 DEF Rightful
  <2> QED
    BY <1>1, <1>3, <2>1 DEF Past
<1>6. Sound(r, active, n, {c}, x, now, V)
  BY <1>1, <1>4, <1>5 DEF Sound
<1>7. AllSound(q, active, n, {c}, x, now, V)
  BY <1>1, <1>2, <1>6 DEF AllSound
<1> QED
  BY <1>1, <1>7 DEF Fit, n

LEMMA BoomedFit ==
  ASSUME TrackerTypes, Len(pending) \in Nat, NEW c \in Nat, c > 0, NEW v \in Victims, NEW w \in Weapons,
         NEW x, NEW V, V \subseteq Nat, NEW p, Draft(p, x, V, c), Fit(p, x, V, c),
         active \in Int, 0 <= active, active < nextShot
  PROVE  Fit(Boomed(p, c, v, w), x, V, c)
<1> DEFINE i == SelectInSeq(p, LAMBDA s : s.cmd = c)
           new == Shot(c, TRUE, v, w, FALSE)
           taken == [new EXCEPT !.seq = p[i].seq]
           q == Boomed(p, c, v, w)
<1>1. /\ Kept(p, c, {c}) /\ p \in Seq(ShotRecord) /\ Len(p) \in Nat /\ now \in Nat /\ nextShot \in Int
  BY KeptFields DEF Draft, TrackerTypes
<1>2. new \in ShotRecord
  BY ShotFits
<1>3. /\ new.seq = nextShot /\ new.cmd = c /\ new.time = now
      /\ ~new.fired /\ ~new.struck /\ ~new.resolved /\ ~new.missPending
  BY DEF Shot
<1>4. \/ i = 0 /\ \A k \in 1 .. Len(p) : p[k].cmd # c
      \/ i # 0 /\ i \in 1 .. Len(p) /\ p[i].cmd = c
  BY FirstIn
<1>5. q = IF i = 0 THEN Append(p, new)
          ELSE IF ~p[i].rage \/ ~(p[i].committed \/ p[i].fired \/ p[i].struck)
          THEN [p EXCEPT ![i] = taken] ELSE p
  BY DEF Boomed
<1> HIDE DEF i, q, new
<1>6. CASE i = 0
  <2>1. Added(q, p, new)
    BY <1>1, <1>2, <1>5, <1>6, Appended DEF Added
  <2>2. Fit(q, x, V, c)
    BY <1>1, <1>3, <1>4, <1>6, <2>1, AddedFit
  <2> QED
    BY <2>2 DEF q
<1>7. CASE i # 0 /\ q = [p EXCEPT ![i] = taken]
  <2>1. /\ taken.seq = p[i].seq /\ taken.cmd = c /\ taken.time = now
        /\ ~taken.fired /\ ~taken.struck /\ ~taken.resolved /\ ~taken.missPending
    BY <1>2, <1>3 DEF ShotRecord
  <2> HIDE DEF taken
  <2>2. Renewed(q, p, i, taken)
    <3>1. p[i].time = now
      BY <1>1, <1>4, <1>7 DEF Kept
    <3> QED
      BY <1>1, <1>4, <1>7, <2>1, <3>1, Marked
  <2>3. Fit(q, x, V, c)
    BY <2>1, <2>2, RewrittenFit
  <2> QED
    BY <2>3 DEF q
<1>8. CASE q = p
  BY <1>8 DEF q
<1> QED
  BY <1>5, <1>6, <1>7, <1>8

LEMMA CommittedFit ==
  ASSUME TrackerTypes, NEW c \in Nat, c > 0, NEW x, NEW V, V \subseteq Nat,
         NEW p, Draft(p, x, V, c), Fit(p, x, V, c)
  PROVE  Fit(Committed(p, c), x, V, c)
<1> DEFINE I == {k \in 1 .. Len(p) : p[k].cmd = c /\ ~p[k].resolved}
           i == IF I # {} THEN Max(I) ELSE 0
           r == [p[i] EXCEPT !.committed = TRUE, !.committedAt = now]
           q == Committed(p, c)
<1>1. p \in Seq(ShotRecord) /\ Len(p) \in Nat /\ \A k \in 1 .. Len(p) : p[k] \in ShotRecord
  BY KeptFields DEF Draft
<1>2. q = IF i = 0 \/ p[i].committed THEN p ELSE [p EXCEPT ![i] = r]
  BY DEF Committed, SelectLastInSeq
<1>3. CASE I = {}
  BY <1>2, <1>3
<1>4. CASE I # {}
  <2>1. i \in I
    BY <1>1, <1>4, GreatestIn
  <2>2. i \in 1 .. Len(p) /\ p[i].cmd = c
    BY <2>1
  <2> HIDE DEF i, I, q
  <2>3. /\ r.seq = p[i].seq /\ r.cmd = p[i].cmd /\ r.time = p[i].time /\ r.rage = p[i].rage
        /\ r.fired = p[i].fired /\ r.committed
        /\ r.missPending = p[i].missPending /\ r.resolvedAt = p[i].resolvedAt
    <3>1. p[i] \in ShotRecord
      BY <1>1, <2>2
    <3> QED
      BY <3>1 DEF ShotRecord
  <2> HIDE DEF r
  <2>4. CASE q = p
    BY <2>4 DEF q
  <2>5. CASE q = [p EXCEPT ![i] = r]
    <3>1. Renewed(q, p, i, r)
      BY <1>1, <2>2, <2>3, <2>5, Marked
    <3>2. Fit(q, x, V, c)
      BY <2>2, <2>3, <3>1, RewrittenFit
    <3> QED
      BY <3>2 DEF q
  <2> QED
    BY <1>2, <2>4, <2>5
<1> QED
  BY <1>3, <1>4

LEMMA FinalizedFit ==
  ASSUME TrackerTypes, Len(pending) \in Nat, NEW c \in Nat, c > 0, NEW w \in Weapons,
         NEW x, NEW V, NEW p, Draft(p, x, V, c), Fit(p, x, V, c),
         active \in Int, 0 <= active, active < nextShot
  PROVE  Fit(Finalized(p, c, w), x, V, c)
<1> DEFINE new == Shot(c, FALSE, NoVictim, w, TRUE)
           q == Finalized(p, c, w)
<1>1. /\ p \in Seq(ShotRecord) /\ Len(p) \in Nat /\ DOMAIN p = 1 .. Len(p)
      /\ nextShot \in Int
  BY KeptFields DEF Draft, TrackerTypes
<1>2. new \in ShotRecord
  BY ShotFits
<1>3. /\ new.seq = nextShot /\ new.cmd = c
      /\ ~new.fired /\ ~new.struck /\ ~new.resolved /\ ~new.missPending
  BY DEF Shot
<1>4. q = IF \E i \in 1 .. Len(p) : p[i].cmd = c THEN p ELSE Append(p, new)
  BY <1>1 DEF Finalized
<1> HIDE DEF q, new
<1>5. CASE \E i \in 1 .. Len(p) : p[i].cmd = c
  BY <1>4, <1>5 DEF q
<1>6. CASE \A i \in 1 .. Len(p) : p[i].cmd # c
  <2>1. Added(q, p, new)
    BY <1>1, <1>2, <1>4, <1>6, Appended DEF Added
  <2>2. Fit(q, x, V, c)
    BY <1>1, <1>3, <1>6, <2>1, AddedFit
  <2> QED
    BY <2>2 DEF q
<1> QED
  BY <1>5, <1>6

\* The list before it is made, and after the three writers.
LEMMA BaseFit ==
  ASSUME TrackerInv, EvidenceInv, VerdictInv, NEW c \in 1 .. MaxCommand,
         (c = command + 1 /\ ~moved) \/ (c = command /\ moved),
         NEW x, \A k \in 1 .. Len(x) : k \in 1 .. Len(wire) /\ x[k] = wire[k],
         NEW V, \A d \in Unrecorded : d = c \/ d \in V
  PROVE  Fit(pending, x, V, c)
<1>1. /\ Len(pending) \in Nat /\ nextShot \in Int /\ command \in Nat /\ c \in Nat
      /\ \A k \in 1 .. Len(pending) :
           pending[k].cmd \in Nat /\ pending[k].cmd <= command
      /\ AllSound(pending, active, nextShot, Made, wire, now, Unrecorded)
  BY Situation, Times DEF TrackerInv, Kept, VerdictInv, Fields
<1>2. nextShot + Len(pending) - Len(pending) = nextShot
  BY <1>1
<1>3. Spent(wire, now) => Spent(x, now)
  BY DEF Spent
<1>4. ASSUME NEW k \in 1 .. Len(pending)
      PROVE  Sound(pending[k], active, nextShot, {c}, x, now, V)
  <2> DEFINE s == pending[k]
  <2>1. Sound(s, active, nextShot, Made, wire, now, Unrecorded) /\ s.cmd \in Nat /\ s.cmd <= command
    BY <1>1 DEF AllSound
  <2> HIDE DEF s
  <2>2. s.cmd \in {c} => s.cmd \in Made
    BY <1>1, <2>1 DEF Made
  <2>3. Below(V, s.cmd) => Below(Unrecorded, s.cmd)
    BY <1>1, <2>1 DEF Below
  <2>4. Sound(s, active, nextShot, {c}, x, now, V)
    BY <1>3, <2>1, <2>2, <2>3 DEF Sound
  <2> QED
    BY <2>4 DEF s
<1> QED
  BY <1>2, <1>4 DEF Fit, AllSound

LEMMA MadeFit ==
  ASSUME TrackerInv, EvidenceInv, VerdictInv,
         NEW rage \in BOOLEAN, NEW commits \in BOOLEAN, NEW claimed \in BOOLEAN,
         NEW c \in 1 .. MaxCommand, NEW v \in Victims, NEW w \in Weapons,
         NEW x, NEW V, V \subseteq Nat, Fit(pending, x, V, c), Draft(pending, x, V, c)
  PROVE  LET boomed == IF rage THEN Boomed(pending, c, v, w) ELSE pending
             shot == IF rage /\ commits THEN Committed(boomed, c) ELSE boomed
             made == IF claimed THEN Finalized(shot, c, w) ELSE shot
         IN  Draft(boomed, x, V, c) /\ Draft(shot, x, V, c) => Fit(made, x, V, c)
<1> DEFINE boomed == IF rage THEN Boomed(pending, c, v, w) ELSE pending
           shot == IF rage /\ commits THEN Committed(boomed, c) ELSE boomed
           made == IF claimed THEN Finalized(shot, c, w) ELSE shot
<1> SUFFICES ASSUME Draft(boomed, x, V, c), Draft(shot, x, V, c) PROVE Fit(made, x, V, c)
  OBVIOUS
<1>1. /\ TrackerTypes /\ Len(pending) \in Nat /\ c \in Nat /\ c > 0
      /\ active \in Int /\ 0 <= active /\ active < nextShot
  BY Situation, Times DEF TrackerInv, VerdictInv
<1>2. Fit(boomed, x, V, c)
  BY <1>1, BoomedFit
<1> HIDE DEF boomed
<1>3. Fit(shot, x, V, c)
  BY <1>1, <1>2, CommittedFit
<1> HIDE DEF shot
<1> QED
  BY <1>1, <1>3, FinalizedFit

\* A full tracker pushes its oldest records out, and never the command's.
LEMMA PushedOut ==
  ASSUME NEW c, NEW p, Kept(p, c, {c}), NEW n \in Int, InOrder(p, n),
         NEW a, NEW w, NEW t, NEW V, AllSound(p, a, n, {c}, w, t, V)
  PROVE  LET out == Overflowing(p)
             q == SubSeq(p, Len(out) + 1, Len(p))
         IN  /\ out \in Seq(ShotRecord) /\ InOrder(out, n)
             /\ \A j \in 1 .. Len(out) : j \in 1 .. Len(p) /\ out[j] = p[j] /\ p[j].cmd # c
             /\ Len(q) \in Nat
             /\ \A j \in 1 .. Len(q) : Len(out) + j \in 1 .. Len(p) /\ q[j] = p[Len(out) + j]
             /\ \A j \in 1 .. Len(out), l \in 1 .. Len(q) : Len(out) + l # j
<1> DEFINE out == Overflowing(p)
           q == SubSeq(p, Len(out) + 1, Len(p))
<1>1. /\ p \in Seq(ShotRecord) /\ Len(p) \in Nat /\ DOMAIN p = 1 .. Len(p)
      /\ \A i \in 1 .. Len(p) : Fields(p[i])
  BY KeptFields
<1>2. /\ out \in Seq(ShotRecord) /\ Len(out) \in Nat /\ Len(out) <= Len(p)
      /\ \A j \in 1 .. Len(out) : j \in 1 .. Len(p) /\ out[j] = p[j] /\ j + MaxPending <= Len(p)
  <2>1. CASE Len(p) > MaxPending
    <3> DEFINE m == Len(p) - MaxPending
    <3>1. /\ m \in 0 .. Len(p) /\ m \in Nat /\ m <= Len(p) /\ m + 1 - 1 = m /\ 1 \in 1 .. Len(p) + 1 /\ 1 <= m + 1
          /\ \A j \in 1 .. m : 1 - 1 + j = j /\ j \in 1 .. Len(p) /\ j + MaxPending <= Len(p)
      BY <1>1, <2>1, Times
    <3>2. out = SubSeq(p, 1, m)
      BY <2>1 DEF Overflowing
    <3> HIDE DEF m, out
    <3> QED
      BY <1>1, <3>1, <3>2, Part
  <2>2. CASE ~(Len(p) > MaxPending)
    <3>1. out = <<>>
      BY <2>2 DEF Overflowing
    <3> HIDE DEF out
    <3>2. out \in Seq(ShotRecord) /\ Len(out) = 0
      BY <3>1
    <3> QED
      BY <1>1, <3>2
  <2> QED
    BY <2>1, <2>2
<1> HIDE DEF out
<1>3. ASSUME NEW j \in 1 .. Len(out) PROVE p[j].cmd # c
  <2> SUFFICES ASSUME p[j].cmd = c PROVE FALSE
    OBVIOUS
  <2>1. j \in 1 .. Len(p) /\ j + 1 \in 1 .. Len(p) /\ j + 2 \in 1 .. Len(p) /\ j < j + 1 /\ j + 1 < j + 2
    BY <1>1, <1>2, Times, RoomAssumption
  <2>2. p[j].seq + 1 = n \/ p[j].seq + 2 = n
    BY <2>1 DEF AllSound, Sound
  <2>3. p[j].seq < p[j + 1].seq /\ p[j + 1].seq < p[j + 2].seq /\ p[j + 2].seq < n
    BY <2>1 DEF InOrder
  <2>4. p[j].seq \in Int /\ p[j + 1].seq \in Int /\ p[j + 2].seq \in Int
    BY <1>1, <2>1 DEF Fields
  <2> QED
    BY <2>2, <2>3, <2>4
<1>4. InOrder(out, n)
  BY <1>2 DEF InOrder
<1>5. Len(q) = Len(p) - Len(out) /\ \A j \in 1 .. Len(p) - Len(out) : q[j] = p[Len(out) + j]
  BY <1>1, <1>2, WithoutFirst
<1> HIDE DEF q
<1>6. /\ Len(q) \in Nat
      /\ \A j \in 1 .. Len(q) : Len(out) + j \in 1 .. Len(p)
      /\ \A j \in 1 .. Len(out), l \in 1 .. Len(q) : Len(out) + l # j
  BY <1>1, <1>2, <1>5
<1> QED
  BY <1>2, <1>3, <1>4, <1>5, <1>6 DEF out, q

\* The wire with the attack of the command.
LEMMA SentOrderly ==
  ASSUME TrackerInv, EvidenceInv, NEW c \in 1 .. MaxCommand, command <= c, Made \subseteq {c},
         Orderly(wire, Made, now), NEW w \in Weapons, NEW result \in Victims \cup {NoVictim, "rejected"},
         NEW x \in Seq(Group),
         \A k \in 1 .. Len(x) : k \in 1 .. Len(wire) /\ x[k] = wire[k] /\ x[k].cmd < c,
         NEW y, IF result = "rejected" THEN y = x ELSE y = Append(x, Attack(c, w, result))
  PROVE  Orderly(y, {c}, now) /\ (Spent(x, now) => Spent(y, now))
<1> DEFINE g == Attack(c, w, result)
<1>1. /\ wire \in Seq(Group) /\ now \in Nat /\ c \in Nat /\ Len(x) \in Nat
      /\ Traffic(wire, command, Made, now)
      /\ \A k \in 1 .. Len(x) : x[k].cmd \in Nat /\ x[k].due \in Nat
  <2>1. Traffic(wire, command, Made, now)
    BY DEF EvidenceInv, Evidence
  <2>2. Len(x) \in Nat /\ \A k \in 1 .. Len(x) : Parcel(x[k])
    BY WireParcels
  <2> QED
    BY <2>1, <2>2, Situation, Times DEF Parcel
<1>2. \A k \in 1 .. Len(x) : x[k].due = now + Rtt => now >= MaxTime
  <2> SUFFICES ASSUME NEW k \in 1 .. Len(x), x[k].due = now + Rtt PROVE now >= MaxTime
    OBVIOUS
  <2>1. wire[k].due = now + Rtt /\ wire[k].cmd < c /\ wire[k].cmd \in Nat /\ k \in 1 .. Len(wire)
    BY <1>1
  <2>2. wire[k].cmd \notin Made
    BY <1>1, <2>1
  <2> QED
    BY <2>1, <2>2 DEF Orderly
<1>3. \A k \in 1 .. Len(x) : \A j \in 1 .. Len(x) : j < k =>
        x[j].due < x[k].due \/ x[k].due >= MaxTime + Rtt
  BY DEF Orderly
<1>4. Orderly(x, {c}, now)
  BY <1>2, <1>3 DEF Orderly
<1>5. CASE result = "rejected"
  BY <1>4, <1>5
<1>6. CASE result # "rejected"
  <2>1. g.cmd = c /\ g.due = now + Rtt
    BY DEF Attack
  <2>2. g \in Group
    BY <1>1, <1>6, Times DEF Attack, Group
  <2> HIDE DEF g
  <2>3. y = Append(x, g)
    BY <1>6 DEF g
  <2>4. /\ Len(y) = Len(x) + 1 /\ y[Len(x) + 1] = g /\ \A k \in 1 .. Len(x) : y[k] = x[k]
    BY <2>2, <2>3, Appended
  <2>5. /\ \A k \in 1 .. Len(y) : k \in 1 .. Len(x) \/ k = Len(x) + 1
        /\ \A k \in 1 .. Len(x), j \in 1 .. Len(y) : j < k => j \in 1 .. Len(x)
        /\ \A j \in 1 .. Len(y) : j < Len(x) + 1 => j \in 1 .. Len(x)
    BY <1>1, <2>4
  <2>6. ASSUME NEW j \in 1 .. Len(x) PROVE x[j].due < now + Rtt \/ now + Rtt >= MaxTime + Rtt
    <3>1. x[j].due <= now + Rtt /\ x[j].due \in Nat
      BY <1>1 DEF Traffic
    <3>2. CASE x[j].due = now + Rtt
      <4>1. now >= MaxTime
        BY <1>2, <3>2
      <4> QED
        BY <1>1, <4>1, Times
    <3>3. CASE x[j].due # now + Rtt
      BY <1>1, <3>1, <3>3, Times
    <3> QED
      BY <3>2, <3>3
  <2>7. Orderly(y, {c}, now)
    <3> SUFFICES ASSUME NEW k \in 1 .. Len(y)
                 PROVE  /\ y[k].due = now + Rtt => y[k].cmd \in {c} \/ now >= MaxTime
                        /\ \A j \in 1 .. Len(y) : j < k =>
                             y[j].due < y[k].due \/ y[k].due >= MaxTime + Rtt
      BY DEF Orderly
    <3>1. CASE k \in 1 .. Len(x)
      BY <1>2, <1>3, <2>4, <2>5, <3>1
    <3>2. CASE k = Len(x) + 1
      BY <2>1, <2>4, <2>5, <2>6, <3>2
    <3> QED
      BY <2>5, <3>1, <3>2
  <2>8. Spent(x, now) => Spent(y, now)
    <3>1. now < g.due
      BY <1>1, <2>1, Times
    <3> QED
      BY <2>4, <2>5, <3>1 DEF Spent
  <2> QED
    BY <2>7, <2>8
<1> QED
  BY <1>5, <1>6

\* The histories stand for older commands than the one that is made.
LEMMA MoveJudged ==
  ASSUME command \in Nat, NEW c \in Nat, c > 0,
         \A d \in Nat : d <= command => d <= c,
         \A d \in Nat : d <= command /\ d \notin Made => d # c,
         NEW lost, lost \subseteq Nat, NEW hits, hits \subseteq Nat,
         NEW S, NEW E, S \cup E \subseteq Nat,
         Judged(pending, command, Made, lost, hits, S, E),
         NEW q, \A i \in 1 .. Len(q) : q[i].cmd = c \/ \E j \in 1 .. Len(pending) : q[i] = pending[j],
         NEW T, \A d \in T : d = c \/ d \in S,
         c \in T => \A i \in 1 .. Len(q) : q[i].cmd = c => ~q[i].committed,
         NEW F, \A d \in S \cup E : d = c \/ d \in T \cup F, E \subseteq F,
         \A d \in F : d \in E \/
           (/\ d \in Nat /\ d <= c
            /\ d > 0 => /\ d # c /\ \E j \in 1 .. Len(pending) : pending[j].cmd = d
                        /\ \A i \in 1 .. Len(q) : q[i].cmd # d)
  PROVE  Judged(q, c, {c}, lost, hits, T, F)
<1>1. ASSUME NEW d \in Nat, Finished(pending, command, Made, d)
      PROVE  Finished(q, c, {c}, d)
  BY <1>1 DEF Finished
<1>2. ASSUME NEW d \in Nat, d <= command
      PROVE  Below(T \cup F, d) => Below(S \cup E, d)
  BY <1>2 DEF Below
<1>3. ASSUME NEW d \in Nat, d <= command, d # c
      PROVE  Clear(T \cup F, d) => Clear(S \cup E, d)
  <2>1. d < c
    BY <1>3
  <2> QED
    BY <1>3, <2>1 DEF Clear
<1>4. c \notin lost
  BY DEF Judged, Finished
<1>5. \A d \in lost : 0 < d /\ Finished(q, c, {c}, d)
  BY <1>1 DEF Judged
<1>6. ASSUME NEW d \in hits
      PROVE  /\ 0 < d /\ d <= c /\ d \notin {c}
             /\ Clear(T \cup F, d) => /\ d \notin lost
                                      /\ \A i \in 1 .. Len(q) : q[i].cmd = d => q[i].resolved
  <2>1. /\ d \in Nat /\ 0 < d /\ d <= command /\ d \notin Made
        /\ Clear(S \cup E, d) => /\ d \notin lost
                                 /\ \A i \in 1 .. Len(pending) : pending[i].cmd = d => pending[i].resolved
    BY DEF Judged
  <2>2. d <= c /\ d # c
    BY <2>1
  <2> QED
    BY <1>3, <2>1, <2>2
<1>7. ASSUME NEW d \in T
      PROVE  /\ 0 < d /\ d <= c
             /\ Below(T \cup F, d) => /\ d \notin lost
                                      /\ \A i \in 1 .. Len(q) : q[i].cmd = d => ~q[i].committed
  <2>1. CASE d = c
    BY <1>4, <2>1
  <2>2. CASE d # c
    <3>1. /\ d \in Nat /\ 0 < d /\ d <= command
          /\ Below(S \cup E, d) => /\ d \notin lost
                                   /\ \A i \in 1 .. Len(pending) : pending[i].cmd = d => ~pending[i].committed
      BY <2>2 DEF Judged
    <3> QED
      BY <1>2, <2>2, <3>1
  <2> QED
    BY <2>1, <2>2
<1>8. ASSUME NEW d \in F
      PROVE  d <= c /\ (d > 0 => d \notin lost /\ Finished(q, c, {c}, d))
  <2>1. CASE d \in E
    BY <1>1, <2>1 DEF Judged
  <2>2. CASE d \notin E
    <3>1. d \in Nat /\ d <= c
      BY <2>2
    <3>2. ASSUME d > 0 PROVE d \notin lost /\ Finished(q, c, {c}, d)
      BY <2>2, <3>2 DEF Judged, Finished
    <3> QED
      BY <3>1, <3>2
  <2> QED
    BY <2>1, <2>2
<1> QED
  BY <1>5, <1>6, <1>7, <1>8 DEF Judged

LEMMA CreateMoveVerdict ==
  ASSUME TrackerInv, EvidenceInv, VerdictInv,
         NEW rage \in BOOLEAN, NEW commits \in BOOLEAN, NEW claimed \in BOOLEAN,
         NEW c \in 1 .. MaxCommand, NEW v \in Victims, NEW w \in Weapons,
         NEW result \in Victims \cup {NoVictim, "rejected"},
         CreateMove(c, rage, commits, claimed, v, w, result)
  PROVE  VerdictInv'
<1> DEFINE boomed == IF rage THEN Boomed(pending, c, v, w) ELSE pending
           shot == IF rage /\ commits THEN Committed(boomed, c) ELSE boomed
           made == IF claimed THEN Finalized(shot, c, w) ELSE shot
           found == {s \in ToSet(made) : s.cmd = c /\ s.committed}
           out == Overflowing(made)
           V == Unrecorded'
           n == nextShot + Len(made) - Len(pending)
<1>1. /\ Len(pending) \in Nat /\ nextShot \in Int /\ command \in Nat /\ c \in Nat /\ c > 0
      /\ c <= MaxCommand /\ now \in Nat /\ Unrecorded \subseteq Nat
      /\ \A k \in 1 .. Len(pending) : pending[k].cmd \in Nat /\ pending[k].cmd <= command
  BY Situation, Times DEF TrackerInv, Kept, Fields
<1>2. /\ command <= MaxCommand /\ active \in Int /\ 0 <= active /\ active < nextShot
      /\ missed \subseteq Nat /\ hurt \subseteq Nat
      /\ Orderly(wire, Made, now)
      /\ Judged(pending, command, Made, missed, hurt, strays, evicted)
      /\ Lined(outputs, told, pending, command, Made, now)
  BY DEF VerdictInv
<1>3. (c = command + 1 /\ ~moved) \/ (c = command /\ moved)
  BY DEF CreateMove
<1>4. /\ command <= c /\ Made \subseteq {c}
      /\ \A d \in Nat : d <= command => d <= c
      /\ \A d \in Nat : d <= command /\ d \notin Made => d # c
  BY <1>1, <1>3 DEF Made
<1>5. /\ Trim(made) /\ nextShot' = n
      /\ strays' = IF found = {} THEN strays \cup {c} ELSE strays \ {c}
      /\ command' = c /\ Made' = {c} /\ active' = active /\ now' = now
      /\ hurt' = hurt /\ missed' = missed /\ told' = told
  BY DEF CreateMove, Made
<1>6. /\ V \subseteq Nat /\ \A d \in Unrecorded : d = c \/ d \in V
      /\ \E x \in Seq(Group) :
           /\ \A k \in 1 .. Len(x) : k \in 1 .. Len(wire) /\ x[k] = wire[k] /\ x[k].cmd < c
           /\ IF result = "rejected" THEN wire' = x ELSE wire' = Append(x, Attack(c, w, result))
           /\ Draft(pending, x, V, c)
           /\ Draft(boomed, x, V, c) /\ Draft(shot, x, V, c)
           /\ Draft(made, x, V, c) /\ Terms(made, c, v, w, rage /\ commits)
  BY MoveDraft
<1>7. /\ pending' = SubSeq(made, Len(out) + 1, Len(made))
      /\ outputs' = outputs \o Lines(Sift(out, {s \in ToSet(made) : Open(s)}))
      /\ evicted' = evicted \cup {s.cmd : s \in ToSet(out)}
      /\ V = strays' \cup evicted'
  BY <1>5 DEF Trim, Unrecorded
<1> HIDE DEF V
<1>8. PICK x \in Seq(Group) :
        /\ \A k \in 1 .. Len(x) : k \in 1 .. Len(wire) /\ x[k] = wire[k] /\ x[k].cmd < c
        /\ IF result = "rejected" THEN wire' = x ELSE wire' = Append(x, Attack(c, w, result))
        /\ Draft(pending, x, V, c) /\ Draft(boomed, x, V, c) /\ Draft(shot, x, V, c)
        /\ Draft(made, x, V, c)
  BY <1>6
<1>9. Fit(made, x, V, c)
  <2>1. Fit(pending, x, V, c)
    BY <1>3, <1>6, <1>8, BaseFit
  <2>2. /\ V \subseteq Nat
        /\ Draft(pending, x, V, c) /\ Draft(boomed, x, V, c) /\ Draft(shot, x, V, c)
    BY <1>6, <1>8
  <2> QED
    BY <2>1, <2>2, MadeFit
<1> HIDE DEF made
<1>10. /\ Kept(made, c, {c}) /\ made \in Seq(ShotRecord) /\ Len(made) \in Nat
       /\ DOMAIN made = 1 .. Len(made)
       /\ \A k \in 1 .. Len(made) : made[k] \in ShotRecord /\ Fields(made[k]) /\ made[k].cmd <= c
  BY <1>8, KeptFields DEF Draft, Kept
<1>11. InOrder(made, n) /\ n \in Int
  <2>1. InOrder(made, n)
    BY <1>8 DEF Draft, Evidence
  <2> QED
    BY <1>1, <1>10, <2>1
<1>12. /\ AllSound(made, active, n, {c}, x, now, V)
       /\ \A k \in 1 .. Len(made) : made[k].cmd = c \/ \E j \in 1 .. Len(pending) : made[k] = pending[j]
  BY <1>9 DEF Fit
<1> HIDE DEF n
<1>13. /\ out \in Seq(ShotRecord) /\ InOrder(out, n)
       /\ \A j \in 1 .. Len(out) : j \in 1 .. Len(made) /\ out[j] = made[j] /\ made[j].cmd # c
       /\ Len(pending') \in Nat
       /\ \A j \in 1 .. Len(pending') :
            Len(out) + j \in 1 .. Len(made) /\ pending'[j] = made[Len(out) + j]
       /\ \A j \in 1 .. Len(out), l \in 1 .. Len(pending') : Len(out) + l # j
  <2> DEFINE q == SubSeq(made, Len(out) + 1, Len(made))
  <2>1. /\ out \in Seq(ShotRecord) /\ InOrder(out, n)
        /\ \A j \in 1 .. Len(out) : j \in 1 .. Len(made) /\ out[j] = made[j] /\ made[j].cmd # c
        /\ Len(q) \in Nat
        /\ \A j \in 1 .. Len(q) : Len(out) + j \in 1 .. Len(made) /\ q[j] = made[Len(out) + j]
        /\ \A j \in 1 .. Len(out), l \in 1 .. Len(q) : Len(out) + l # j
    BY <1>10, <1>11, <1>12, PushedOut
  <2>2. pending' = q
    BY <1>7
  <2> HIDE DEF q, out
  <2> QED
    BY <2>1, <2>2
<1> HIDE DEF out
<1>14. /\ AllSound(pending', active, n, {c}, wire', now, V) /\ Orderly(wire', {c}, now)
       /\ active < n
  <2>1. Orderly(wire', {c}, now) /\ (Spent(x, now) => Spent(wire', now))
    BY <1>2, <1>4, <1>8, SentOrderly
  <2>2. AllSound(pending', active, n, {c}, x, now, V)
    BY <1>12, <1>13 DEF AllSound
  <2>3. active < n
    <3>1. Len(made) \in {Len(pending), Len(pending) + 1}
      BY <1>8 DEF Draft
    <3> QED
      BY <1>1, <1>2, <3>1 DEF n
  <2> QED
    BY <2>1, <2>2, <2>3, SpentSound
<1>15. \A k \in 1 .. Len(pending') :
         pending'[k].cmd = c \/ \E j \in 1 .. Len(pending) : pending'[k] = pending[j]
  BY <1>12, <1>13
<1>16. ASSUME NEW j \in 1 .. Len(out)
       PROVE  /\ out[j].cmd \in Nat /\ out[j].cmd <= c /\ out[j].cmd # c
              /\ \E k \in 1 .. Len(pending) : out[j] = pending[k]
              /\ out[j].cmd > 0 => \A i \in 1 .. Len(pending') : pending'[i].cmd # out[j].cmd
  <2>1. j \in 1 .. Len(made) /\ out[j] = made[j] /\ made[j].cmd # c
    BY <1>13
  <2>2. made[j].cmd \in Nat /\ made[j].cmd <= c
    BY <1>10, <2>1 DEF Fields
  <2>3. ASSUME made[j].cmd > 0, NEW i \in 1 .. Len(pending'), pending'[i].cmd = made[j].cmd
        PROVE  FALSE
    <3>1. Len(out) + i \in 1 .. Len(made) /\ pending'[i] = made[Len(out) + i] /\ Len(out) + i # j
      BY <1>13
    <3> QED
      BY <1>10, <1>11, <2>1, <2>3, <3>1, OneRecord
  <2> QED
    BY <1>12, <2>1, <2>2, <2>3
<1>17. \A d \in evicted' : d \in evicted \/ \E j \in 1 .. Len(out) : d = out[j].cmd
  <2>1. \A s \in ToSet(out) : \E j \in 1 .. Len(out) : s = out[j]
    BY <1>13 DEF ToSet
  <2> QED
    BY <1>7, <2>1
<1>18. Judged(pending', c, {c}, missed, hurt, strays', evicted')
  <2>1. strays \cup evicted \subseteq Nat
    BY <1>1 DEF Unrecorded
  <2>2. \A d \in strays' : d = c \/ d \in strays
    BY <1>5
  <2>3. ASSUME c \in strays', NEW i \in 1 .. Len(pending'), pending'[i].cmd = c
        PROVE  ~pending'[i].committed
    <3>1. found = {}
      BY <1>5, <2>3
    <3>2. pending'[i] \in ToSet(made)
      <4>1. Len(out) + i \in DOMAIN made /\ pending'[i] = made[Len(out) + i]
        BY <1>10, <1>13
      <4> QED
        BY <4>1 DEF ToSet
    <3> QED
      BY <2>3, <3>1, <3>2
  <2>4. \A d \in strays \cup evicted : d = c \/ d \in strays' \cup evicted'
    BY <1>6, <1>7 DEF Unrecorded
  <2>5. evicted \subseteq evicted'
    BY <1>7
  <2>6. \A d \in evicted' : d \in evicted \/
          (/\ d \in Nat /\ d <= c
           /\ d > 0 => /\ d # c /\ \E j \in 1 .. Len(pending) : pending[j].cmd = d
                       /\ \A i \in 1 .. Len(pending') : pending'[i].cmd # d)
    <3> SUFFICES ASSUME NEW d \in evicted', d \notin evicted
                 PROVE  /\ d \in Nat /\ d <= c
                        /\ d > 0 => /\ d # c /\ \E j \in 1 .. Len(pending) : pending[j].cmd = d
                                    /\ \A i \in 1 .. Len(pending') : pending'[i].cmd # d
      OBVIOUS
    <3>1. PICK j \in 1 .. Len(out) : d = out[j].cmd
      BY <1>17
    <3>2. PICK k \in 1 .. Len(pending) : out[j] = pending[k]
      BY <1>16
    <3> QED
      BY <1>16, <3>1, <3>2
  <2> HIDE DEF found
  <2> QED
    BY <1>1, <1>2, <1>4, <1>15, <2>1, <2>2, <2>3, <2>4, <2>5, <2>6, MoveJudged
<1>19. Lined(outputs', told, pending', c, {c}, now)
  <2> DEFINE T == {s \in ToSet(made) : Open(s)}
  <2>1. \A d \in 1 .. MaxCommand :
          Finished(pending, command, Made, d) => Finished(pending', c, {c}, d)
    <3> SUFFICES ASSUME NEW d \in 1 .. MaxCommand, Finished(pending, command, Made, d)
                 PROVE  Finished(pending', c, {c}, d)
      OBVIOUS
    <3>1. d \in Nat /\ d <= command /\ d \notin Made
      BY Times DEF Finished
    <3> QED
      BY <1>4, <1>15, <3>1 DEF Finished
  <2>2. Lined(outputs, told, pending', c, {c}, now)
    BY <1>2, <2>1, LinedKeeps
  <2>3. ASSUME NEW j \in 1 .. Len(out), out[j] \in T
        PROVE  /\ out[j].cmd \in 1 .. MaxCommand /\ Finished(pending', c, {c}, out[j].cmd)
               /\ \A l \in 1 .. Len(outputs) : outputs[l].cmd # out[j].cmd
               /\ \A h \in Channels : Heard(told, out[j].cmd, h) = 0
    <3>1. out[j].rage
      BY <2>3 DEF Open
    <3>2. out[j].cmd > 0
      BY <1>12, <1>13, <3>1 DEF AllSound, Sound
    <3>3. out[j].cmd \in 1 .. MaxCommand
      BY <1>1, <1>16, <3>2, Times
    <3>4. Finished(pending', c, {c}, out[j].cmd)
      BY <1>16, <3>2 DEF Finished
    <3>5. ~Finished(pending, command, Made, out[j].cmd)
      BY <1>16 DEF Finished
    <3> QED
      BY <1>2, <3>3, <3>4, <3>5 DEF Lined
  <2> HIDE DEF T
  <2>4. Lined(outputs \o Lines(Sift(out, T)), told, pending', c, {c}, now)
    BY <1>1, <1>13, <2>2, <2>3, LinesAdded
  <2> QED
    BY <1>7, <2>4 DEF T
<1> QED
  BY <1>1, <1>2, <1>5, <1>14, <1>18, <1>19 DEF VerdictInv, V

LEMMA VerdictInvInit == Init => VerdictInv
<1> SUFFICES ASSUME Init PROVE VerdictInv
  OBVIOUS
<1>1. /\ pending = <<>> /\ active = 0 /\ nextShot = 1 /\ outputs = <<>> /\ command = 0 /\ wire = <<>>
      /\ strays = {} /\ hurt = {} /\ missed = {} /\ evicted = {}
  BY DEF Init
<1>2. Len(pending) = 0 /\ Len(wire) = 0 /\ Len(outputs) = 0 /\ outputs \in Seq(Line)
  BY <1>1
<1>3. \A d \in 1 .. MaxCommand, h \in Channels : Heard(told, d, h) = 0
  BY DEF Init, Heard
<1>4. Lined(outputs, told, pending, command, Made, now)
  BY <1>2, <1>3 DEF Lined
<1>5. Judged(pending, command, Made, missed, hurt, strays, evicted)
  BY <1>1 DEF Judged
<1>6. AllSound(pending, active, nextShot, Made, wire, now, Unrecorded) /\ Orderly(wire, Made, now)
  BY <1>2 DEF AllSound, Orderly
<1> QED
  BY <1>1, <1>4, <1>5, <1>6, Times DEF VerdictInv

LEMMA VerdictInvStep == TrackerInv /\ EvidenceInv /\ VerdictInv /\ [Next]_vars => VerdictInv'
<1> SUFFICES ASSUME TrackerInv, EvidenceInv, VerdictInv, [Next]_vars PROVE VerdictInv'
  OBVIOUS
<1>1. ASSUME NEW rage \in BOOLEAN, NEW commits \in BOOLEAN, NEW claimed \in BOOLEAN,
             NEW c \in 1 .. MaxCommand, NEW v \in Victims, NEW w \in Weapons,
             NEW result \in Victims \cup {NoVictim, "rejected"},
             CreateMove(c, rage, commits, claimed, v, w, result)
      PROVE  VerdictInv'
  BY <1>1, CreateMoveVerdict
<1>2. CASE WeaponFire
  BY <1>2, FireVerdict
<1>3. CASE BulletImpact
  BY <1>3, ImpactVerdict
<1>4. CASE PlayerHurt
  BY <1>4, HurtVerdict
<1>5. ASSUME NEW works \in BOOLEAN, Frame(works) PROVE VerdictInv'
  BY <1>5, FrameVerdict
<1>6. ASSUME NEW works \in BOOLEAN, RoundStart(works) PROVE VerdictInv'
  BY <1>6, BoundaryVerdict
<1>7. CASE LevelChange
  BY <1>7, BoundaryVerdict
<1>8. CASE UNCHANGED vars
  <2>1. /\ pending' = pending /\ wire' = wire /\ active' = active /\ nextShot' = nextShot
        /\ command' = command /\ now' = now /\ outputs' = outputs /\ told' = told
        /\ missed' = missed /\ hurt' = hurt /\ strays' = strays /\ evicted' = evicted
        /\ Made' = Made /\ Unrecorded' = Unrecorded
    BY <1>8 DEF vars, history, Made, Unrecorded
  <2> QED
    BY <2>1 DEF VerdictInv
<1> QED
  BY <1>1, <1>2, <1>3, <1>4, <1>5, <1>6, <1>7, <1>8 DEF Next

LEMMA AlwaysVerdictInv == Spec => []VerdictInv
<1> QED
  BY AlwaysTrackerInv, AlwaysEvidenceInv, VerdictInvInit, VerdictInvStep, PTL DEF Spec

-----------------------------------------------------------------------------
\* impacts.hpp, impacts.cpp: the records, the numbers they are made from and the
\* server's events on their way keep their types.
THEOREM TrackerTypeOK == Spec => [](TrackerTypes /\ pending \in Seq(ShotRecord))
<1>1. TrackerInv => TrackerTypes /\ pending \in Seq(ShotRecord)
  BY DEF TrackerInv, Kept
<1> QED
  BY <1>1, AlwaysTrackerInv, PTL

\* impacts.cpp:1836-1934: every record leaves the tracker, whichever evidence came
\* and however late: none is a hit for longer than its tombstone time, or open for
\* longer than the longest way through the time-outs.
THEOREM TrackerNoStaleShot == Spec => []NoStaleShot
<1>1. TrackerInv => NoStaleShot
  <2> SUFFICES ASSUME TrackerInv, NEW s \in Records
               PROVE  IF s.resolved THEN Age(s.resolvedAt) <= Tombstone + 1
                      ELSE \E longest \in Lifetimes : Age(s.time) <= longest
    BY DEF NoStaleShot
  <2>1. s \in ShotRecord /\ Timed(s, now) /\ now \in Nat
    <3>1. pending \in Seq(ShotRecord) /\ DOMAIN pending = 1 .. Len(pending) /\ now \in Nat
          /\ \A i \in 1 .. Len(pending) : Timed(pending[i], now)
      BY DEF TrackerInv, Kept, TrackerTypes
    <3>2. PICK i \in 1 .. Len(pending) : s = pending[i]
      BY <3>1 DEF Records, ToSet
    <3> QED
      BY <3>1, <3>2
  <2>2. /\ s.time \in Nat /\ s.resolvedAt \in Nat /\ s.struckAt \in Nat /\ s.firedAt \in Nat
        /\ s.resolved \in BOOLEAN
    BY <2>1 DEF ShotRecord
  <2>3. CASE s.resolved
    BY <2>1, <2>3 DEF Timed, Age
  <2>4. CASE ~s.resolved
    <3>1. \/ now - s.time <= Window + Grace + Finalization + 2
          \/ now - s.time <= Absolute + Finalization + 2
          \/ now - s.time <= FireAge + Absolute + 1
      BY <2>1, <2>2, <2>4, TimeoutAssumption DEF Timed
    <3> QED
      BY <2>4, <3>1 DEF Lifetimes, Age
  <2> QED
    BY <2>3, <2>4
<1> QED
  BY <1>1, AlwaysTrackerInv, PTL

\* impacts.cpp:477-482, 1192-1196: the events of a shot never confirm the record
\* of another, in whatever order they come and whichever shots the server rejects,
\* unless an attack no younger has no record.
THEOREM TrackerRightShot == Spec => []RightShot
<1>1. TrackerInv /\ EvidenceInv => RightShot
  <2> SUFFICES ASSUME TrackerInv, EvidenceInv, NEW s \in Records, NEW e \in s.of, s.cmd # e
               PROVE  \E d \in Unrecorded : d <= e
    BY DEF RightShot
  <2>1. PICK i \in 1 .. Len(pending) : s = pending[i]
    BY Situation DEF Records, ToSet
  <2>2. e \in Nat
    BY <2>1, Situation, Times DEF Fields
  <2>3. ~Clear(Unrecorded, e)
    BY <2>1 DEF EvidenceInv, Evidence, Rightful
  <2>4. \E d \in Unrecorded : ~(e < d)
    BY <2>3 DEF Clear
  <2> QED
    BY <2>2, <2>4, Situation
<1> QED
  BY <1>1, AlwaysTrackerInv, AlwaysEvidenceInv, PTL

\* impacts.cpp:1883-1885: no shot is told as a miss whose hurt came, before or
\* after, unless an earlier attack had no record; and none is told of twice on a
\* channel, however often the chat fails.
THEOREM TrackerOneVerdict == Spec => []OneVerdict
<1>1. TrackerInv /\ EvidenceInv /\ VerdictInv => OneVerdict
  <2> SUFFICES ASSUME TrackerInv, EvidenceInv, VerdictInv PROVE OneVerdict
    OBVIOUS
  <2>1. /\ Unrecorded \subseteq Nat /\ missed \subseteq Nat
        /\ Judged(pending, command, Made, missed, hurt, strays, evicted)
        /\ Lined(outputs, told, pending, command, Made, now)
    BY Situation DEF VerdictInv
  <2>2. ASSUME NEW c \in missed \cap hurt PROVE \E d \in Unrecorded : d < c
    <3> SUFFICES ASSUME \A d \in Unrecorded : ~(d < c) PROVE FALSE
      OBVIOUS
    <3>1. c \in Nat /\ 0 < c /\ c \in missed /\ c \in hurt
      BY <2>1 DEF Judged
    <3>2. Below(Unrecorded, c)
      BY <2>1, <3>1 DEF Below
    <3>3. c \notin strays /\ c \notin evicted
      BY <2>1, <3>1, <3>2 DEF Judged, Unrecorded
    <3>4. Clear(Unrecorded, c)
      <4>1. \A d \in Unrecorded : c <= d /\ d # c /\ d \in Nat
        BY <2>1, <3>2, <3>3 DEF Below, Unrecorded
      <4> QED
        BY <3>1, <4>1 DEF Clear
    <3> QED
      BY <2>1, <3>1, <3>4 DEF Judged, Unrecorded
  <2>3. ASSUME NEW c \in 1 .. MaxCommand, NEW h \in Channels PROVE told[c, h] <= 1
    <3>1. Heard(told, c, h) \in {0, 1}
      BY <2>1 DEF Lined
    <3>2. told[c, h] = Heard(told, c, h)
      BY Zenon DEF Heard
    <3>3. Heard(told, c, h) <= 1
      BY <3>1
    <3> QED
      BY <3>2, <3>3, Zenon
  <2> QED
    BY <2>2, <2>3 DEF OneVerdict
<1> QED
  BY <1>1, AlwaysTrackerInv, AlwaysEvidenceInv, AlwaysVerdictInv, PTL
=============================================================================
