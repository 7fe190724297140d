----------------------------- MODULE ShotTracker -----------------------------
(***************************************************************************)
(* The impact and miss tracker: every attack of the local player gets a    *)
(* record, the server's weapon_fire, bullet_impact and player_hurt events  *)
(* are matched to records by their order and age alone, since they carry no*)
(* command number, and a record that runs out of time without a hurt is    *)
(* logged as a miss.                                                       *)
(*                                                                         *)
(* The clock counts units of half a second; every frame lasts one unit, and*)
(* at most one command is sent in a unit.  All three logs are switched on. *)
(***************************************************************************)
EXTENDS Integers, FiniteSets, SequencesExt

CONSTANTS
  Victims, NoVictim,  \* pawns that can be shot at
  MaxCommand,         \* bound: command numbers
  MaxTime,            \* bound: the clock
  MaxPending,         \* max_pending_shots, 128 in the code
  Rtt,                \* expected_fire_age: the measured round trip
  Late,               \* how long impact and hurt may follow their weapon_fire
  FireAge,            \* max_fire_age
  Window,             \* how old a shot an impact may belong to, 2.5 s
  Grace,              \* hurt_grace_period
  Absolute,           \* absolute_timeout
  Uncommitted,        \* uncommitted_timeout
  Tombstone,          \* hit_tombstone_time
  Finalization,       \* miss_finalization_delay
  ChatLife            \* how long a chat line is retried, 2 s

ASSUME BoundAssumption == MaxCommand \in Nat /\ MaxTime \in Nat /\ MaxPending \in Nat \ {0}
\* Room for the youngest command's record and a token behind it.
ASSUME RoomAssumption == MaxPending > 1
ASSUME VictimAssumption == NoVictim \notin Victims
\* How the time-outs of the code relate, whatever the latency is.
ASSUME TimeoutAssumption ==
  /\ {Rtt, Late, FireAge, Window, Grace, Absolute, Uncommitted, Tombstone,
      Finalization, ChatLife} \subseteq Nat
  /\ Rtt <= FireAge /\ FireAge < Window
  /\ Rtt < Absolute /\ Uncommitted <= Absolute
  /\ Late <= Grace + Finalization
\* How late the server may be: a shot takes time, and its last event comes while
\* the code still looks for its record.
ASSUME ServerAssumption ==
  /\ 0 < Rtt /\ Rtt + Late <= Window
  /\ Late <= Absolute /\ Rtt + Late <= Absolute + Finalization
  /\ Late <= Tombstone

VARIABLES
  pending,    \* m_pending_shots
  active,     \* m_active_fire_sequence
  nextShot,   \* m_next_shot_sequence
  nextImpact, \* m_next_impact_event_sequence
  outputs,    \* m_pending_miss_outputs
  now,        \* current_time
  command,    \* the last command number
  moved,      \* has this unit's command been made
  wire,       \* shots the server has fired, with the events not yet delivered
  strays,     \* history: commands whose attack was sent without a record
  hurt,       \* history: commands whose player_hurt was delivered
  missed,     \* history: commands finalized as a miss
  evicted,    \* history: commands pushed out of a full tracker
  told        \* history: how often each channel told of each command's miss

vars == <<pending, active, nextShot, nextImpact, outputs, now, command, moved,
          wire, strays, hurt, missed, evicted, told>>

tracker == <<pending, active, nextShot, nextImpact>>
history == <<missed, evicted, told>>

Weapons == {"rifle", "shotgun"}
Channels == {"console", "chat"}
Anonymous == 0

\* A shot_record.  "struck" is impact_confirmed, "resolved" also hurt_confirmed,
\* since both are set at once; "of" is history: the commands whose events it has.
Shot(cmd, rage, victim, weapon, committed) ==
  [seq |-> nextShot, cmd |-> cmd, rage |-> rage, victim |-> victim,
   weapon |-> weapon, committed |-> committed, fired |-> FALSE,
   struck |-> FALSE, resolved |-> FALSE, missPending |-> FALSE,
   time |-> now, committedAt |-> IF committed THEN now ELSE 0,
   firedAt |-> 0, struckAt |-> 0, resolvedAt |-> 0, order |-> 0, of |-> {}]

Age(t) == now - t
CommittedAt(s) == IF s.committedAt > 0 THEN s.committedAt ELSE s.time
InWindow(s) == Age(s.time) <= Window

\* The members of p that are in T, in their order: a loop over p.
Sift(p, T) ==
  LET sifted[n \in 0 .. Len(p)] ==
        IF n = 0 THEN <<>>
        ELSE IF p[n] \in T THEN Append(sifted[n - 1], p[n]) ELSE sifted[n - 1]
  IN  sifted[Len(p)]

FirstOf(found) ==
  LET k == SelectInSeq(found, LAMBDA i : i > 0) IN IF k = 0 THEN 0 ELSE found[k]

Init ==
  /\ pending = <<>> /\ active = 0 /\ nextShot = 1 /\ nextImpact = 1
  /\ outputs = <<>>
  /\ now = 1 /\ command = 0 /\ moved = FALSE
  /\ wire = <<>>
  /\ strays = {} /\ hurt = {} /\ missed = {} /\ evicted = {}
  /\ told = [line \in (1 .. MaxCommand) \X Channels |-> 0]

-----------------------------------------------------------------------------
\* on_boom: Ragebot's intent takes over a sentinel of its command, refreshes an
\* intent that is not committed yet, and never makes a second shot of one.
Boomed(p, c, v, w) ==
  LET i == SelectInSeq(p, LAMBDA s : s.cmd = c)
      fresh == Shot(c, TRUE, v, w, FALSE)
  IN  IF i = 0 THEN Append(p, fresh)
      ELSE IF ~p[i].rage \/ ~(p[i].committed \/ p[i].fired \/ p[i].struck)
      THEN [p EXCEPT ![i] = [fresh EXCEPT !.seq = p[i].seq]]
      ELSE p

\* on_shot_committed
Committed(p, c) ==
  LET i == SelectLastInSeq(p, LAMBDA s : s.cmd = c /\ ~s.resolved)
  IN  IF i = 0 \/ p[i].committed THEN p
      ELSE [p EXCEPT ![i].committed = TRUE, ![i].committedAt = now]

\* on_command_finalized: an attack that no record claims gets a sentinel.
Finalized(p, c, w) ==
  IF \E i \in DOMAIN p : p[i].cmd = c THEN p
  ELSE Append(p, Shot(c, FALSE, NoVictim, w, TRUE))

\* Both writers keep the tracker at its limit; an evicted shot that is still
\* open is told as a miss.  active is not looked at.
Overflowing(p) == IF Len(p) > MaxPending THEN SubSeq(p, 1, Len(p) - MaxPending) ELSE <<>>
Open(s) == s.rage /\ s.committed /\ ~s.resolved
Output(s) ==
  [cmd |-> s.cmd, console |-> TRUE, chat |-> TRUE, next |-> now, expires |-> now + ChatLife]
Lines(shots) == [i \in DOMAIN shots |-> Output(shots[i])]

Trim(p) ==
  /\ pending' = SubSeq(p, Len(Overflowing(p)) + 1, Len(p))
  /\ outputs' = outputs \o Lines(Sift(Overflowing(p), {s \in ToSet(p) : Open(s)}))
  /\ evicted' = evicted \cup {s.cmd : s \in ToSet(Overflowing(p))}

\* What the server makes of an attack: nothing, or a shot that comes back after
\* a round trip, with the impacts of its pellets and a hurt if it hits.
Sent(c, w, result) ==
  LET k == SelectInSeq(wire, LAMBDA g : g.cmd = c)
      others == IF k = 0 THEN wire ELSE RemoveAt(wire, k)
  IN  wire' = IF result = "rejected" THEN others
              ELSE Append(others,
                     [cmd |-> c, due |-> now + Rtt, fired |-> FALSE,
                      impacts |-> IF w = "shotgun" THEN 2 ELSE 1, hurts |-> result])

\* One create_move with an attack in it: by Ragebot, which may commit to it, or
\* else by the player, whose held weapon need not leave an edge.  The engine
\* may run a command again before it is sent; the last run is what is sent.
CreateMove(c, rage, commits, claimed, v, w, result) ==
  /\ \/ c = command + 1 /\ ~moved
     \/ c = command /\ moved
  /\ c \in 1 .. MaxCommand
  \* A command keeps its weapon, and its target and commitment once Ragebot has
  \* committed it; a bullet of Ragebot's hurts its target or nobody.
  /\ \A s \in ToSet(pending) : s.cmd = c => s.weapon = w
  /\ LET old == SelectInSeq(pending, LAMBDA s : s.cmd = c /\ s.rage /\ s.committed)
     IN  old > 0 => rage /\ commits /\ v = pending[old].victim /\ w = pending[old].weapon
  /\ rage /\ commits => result \in {"rejected", NoVictim, v}
  /\ LET boomed == IF rage THEN Boomed(pending, c, v, w) ELSE pending
         shot == IF rage /\ commits THEN Committed(boomed, c) ELSE boomed
         made == IF claimed THEN Finalized(shot, c, w) ELSE shot
     IN  /\ Trim(made)
         /\ nextShot' = nextShot + Len(made) - Len(pending)
         /\ LET found == {s \in ToSet(made) : s.cmd = c /\ s.committed}
            IN  strays' = IF found = {} THEN strays \cup {c} ELSE strays \ {c}
  /\ Sent(c, w, result)
  /\ command' = c
  /\ moved' = TRUE
  /\ UNCHANGED <<active, nextImpact, now, hurt, missed, told>>

-----------------------------------------------------------------------------
\* weapon_fire confirms the committed shot whose age is closest to the round
\* trip; a fire without one gets a token of its own.
FireMatches(s) == ~s.resolved /\ ~s.fired /\ s.committed /\ Age(CommittedAt(s)) <= FireAge
FireError(s) == LET d == Age(CommittedAt(s)) - Rtt IN IF d < 0 THEN -d ELSE d

FireIndex ==
  LET fits == {i \in DOMAIN pending : FireMatches(pending[i])}
  IN  IF fits = {} THEN 0
      ELSE CHOOSE i \in fits : \A j \in fits :
             \/ FireError(pending[i]) < FireError(pending[j])
             \/ FireError(pending[i]) = FireError(pending[j]) /\ i <= j

Confirmed(s, c) ==
  [s EXCEPT !.fired = TRUE, !.firedAt = now, !.missPending = FALSE, !.of = @ \cup {c}]

\* The server's events come shot by shot, weapon_fire first.
WeaponFire ==
  /\ wire # <<>> /\ ~Head(wire).fired /\ Head(wire).due = now
  /\ LET c == Head(wire).cmd
         w == IF Head(wire).impacts = 2 THEN "shotgun" ELSE "rifle"
     IN  IF FireIndex > 0
         THEN /\ pending' = [pending EXCEPT ![FireIndex] = Confirmed(@, c)]
              /\ active' = pending[FireIndex].seq
              /\ UNCHANGED nextShot
         ELSE /\ pending' = Append(pending, Confirmed(Shot(Anonymous, FALSE, NoVictim, w, TRUE), c))
              /\ active' = nextShot
              /\ nextShot' = nextShot + 1
  /\ wire' = [wire EXCEPT ![1].fired = TRUE]
  /\ UNCHANGED <<nextImpact, outputs, now, command, moved, strays, hurt, history>>
\* The first search that finds a record wins: the shot of the last weapon_fire
\* (a shotgun's for every pellet), a hit that still lacks its impact, a fired
\* shot, a committed one; the oldest of each.
ImpactIndex ==
  FirstOf(<<
    SelectInSeq(pending, LAMBDA s :
      s.seq = active /\ (~s.struck \/ s.weapon = "shotgun") /\ InWindow(s)),
    SelectInSeq(pending, LAMBDA s : s.resolved /\ ~s.struck /\ InWindow(s)),
    SelectInSeq(pending, LAMBDA s : ~s.resolved /\ s.fired /\ ~s.struck /\ InWindow(s)),
    SelectInSeq(pending, LAMBDA s : ~s.resolved /\ s.committed /\ ~s.struck /\ InWindow(s))>>)

Struck(s, c) ==
  [s EXCEPT !.committed = TRUE, !.fired = TRUE, !.missPending = FALSE,
            !.firedAt = IF s.fired THEN @ ELSE now,
            !.struck = TRUE, !.struckAt = now, !.order = nextImpact, !.of = @ \cup {c}]

\* check_misses, which a frame and every impact call.  A shot that timed out
\* stays matchable for one more window before it is told as a miss.
Miss(s) == ~s.resolved /\ s.rage /\ s.missPending /\ Age(s.resolvedAt) > Finalization

\* Mutated forms used to test the properties stand before what they mutate.
ForgottenExceptHits(s) ==
  /\ ~s.resolved
  /\ \/ /\ ~s.rage
        /\ IF s.struck THEN Age(s.struckAt) > Grace + Finalization
           ELSE Age(IF s.fired THEN s.firedAt ELSE s.committedAt) > Absolute
     \/ s.rage /\ ~s.missPending /\ ~s.committed /\ Age(s.time) > Uncommitted

Forgotten(s) ==
  \/ s.resolved /\ Age(s.resolvedAt) > Tombstone
  \/ /\ ~s.resolved /\ ~s.rage
     /\ IF s.struck THEN Age(s.struckAt) > Grace + Finalization
        ELSE Age(IF s.fired THEN s.firedAt ELSE s.committedAt) > Absolute
  \/ /\ ~s.resolved /\ s.rage /\ ~s.missPending
     /\ ~(s.committed \/ s.fired \/ s.struck)
     /\ Age(s.time) > Uncommitted

TimesOut(s) ==
  /\ ~s.resolved /\ s.rage /\ ~s.missPending
  /\ s.committed \/ s.fired \/ s.struck
  /\ IF s.struck THEN Age(s.struckAt) > Grace ELSE Age(CommittedAt(s)) > Absolute

\* A shot that the server never confirmed is dropped without a log.
Told(s) == Miss(s) /\ (s.fired \/ s.struck)
Verdicts(p) == Lines(Sift(p, {s \in ToSet(p) : Told(s)}))

Aged(s) == IF TimesOut(s) THEN [s EXCEPT !.missPending = TRUE, !.resolvedAt = now] ELSE s
Survivors(p) ==
  LET kept == Sift(p, {s \in ToSet(p) : ~(Miss(s) \/ Forgotten(s))})
  IN  [i \in DOMAIN kept |-> Aged(kept[i])]

\* active is given up with its record.
CheckMisses(p) ==
  /\ pending' = Survivors(p)
  /\ active' = IF \E s \in ToSet(p) : s.seq = active /\ (Miss(s) \/ Forgotten(s)) THEN 0 ELSE active
  /\ missed' = missed \cup {s.cmd : s \in {t \in ToSet(p) : Miss(t)}}

\* A group leaves the wire with its last event.
Rest(group) ==
  IF group.impacts = 0 /\ group.hurts = NoVictim THEN Tail(wire)
  ELSE [wire EXCEPT ![1] = group]

\* The records after an impact, before the sweep.
Impacted ==
  IF ImpactIndex > 0 THEN [pending EXCEPT ![ImpactIndex] = Struck(@, Head(wire).cmd)]
  ELSE pending

BulletImpact ==
  /\ wire # <<>> /\ Head(wire).fired /\ Head(wire).impacts > 0
  /\ CheckMisses(Impacted)
  /\ outputs' = outputs \o Verdicts(Impacted)
  /\ nextImpact' = IF ImpactIndex > 0 THEN nextImpact + 1 ELSE nextImpact
  /\ wire' = Rest([Head(wire) EXCEPT !.impacts = @ - 1])
  /\ UNCHANGED <<nextShot, now, command, moved, strays, hurt, evicted, told>>

\* Without the weapon_fire events.
HurtIndexNeedsImpact(v) ==
  LET struck == {i \in DOMAIN pending : pending[i].struck /\ ~pending[i].resolved
                                        /\ (pending[i].rage => pending[i].victim = v)}
  IN  IF struck = {} THEN 0
      ELSE CHOOSE i \in struck : \A j \in struck : pending[j].order <= pending[i].order

\* player_hurt belongs to the open shot with the latest impact, unless a newer
\* weapon_fire stands between them; without an impact to the oldest fired, then
\* to the oldest committed shot at this victim.
HurtIndex(v) ==
  LET Fits(s) == ~s.resolved /\ (s.rage => s.victim = v)
      struck == {i \in DOMAIN pending : pending[i].struck /\ Fits(pending[i])}
      latest == IF struck = {} THEN 0
                ELSE CHOOSE i \in struck : \A j \in struck : pending[j].order <= pending[i].order
      fired == SelectInSeq(pending, LAMBDA s : s.seq = active /\ s.fired /\ Fits(s))
      crosses == /\ fired > 0 /\ latest > 0
                 /\ pending[fired].seq > pending[latest].seq
                 /\ pending[fired].firedAt >= pending[latest].struckAt
  IN  FirstOf(<<
        IF crosses THEN fired ELSE latest,
        fired,
        SelectInSeq(pending, LAMBDA s : s.rage /\ s.fired /\ Fits(s)),
        SelectInSeq(pending, LAMBDA s : s.rage /\ s.committed /\ Fits(s))>>)

Hurt(s, c) ==
  [s EXCEPT !.committed = TRUE, !.fired = TRUE, !.firedAt = IF s.fired THEN @ ELSE now,
            !.resolved = TRUE, !.resolvedAt = now, !.of = @ \cup {c}]

PlayerHurt ==
  /\ wire # <<>> /\ Head(wire).fired /\ Head(wire).hurts # NoVictim
  /\ LET i == HurtIndex(Head(wire).hurts)
     IN  pending' = IF i > 0 THEN [pending EXCEPT ![i] = Hurt(@, Head(wire).cmd)] ELSE pending
  /\ hurt' = hurt \cup {Head(wire).cmd}
  /\ wire' = Rest([Head(wire) EXCEPT !.hurts = NoVictim])
  /\ UNCHANGED <<active, nextShot, nextImpact, outputs, now, command, moved, strays, history>>

-----------------------------------------------------------------------------
\* flush_miss_outputs of the lines in o: the console takes as many as there are
\* open shots in p; a chat line that cannot be printed is tried again until it
\* expires.
Flush(o, p, works) ==
  LET quota == Cardinality({i \in DOMAIN p : Open(p[i])})
      Prints(k) == o[k].console /\ Cardinality({j \in 1 .. k - 1 : o[j].console}) < quota
      Says(k) == o[k].chat /\ now >= o[k].next /\ works
      Waits(k) == o[k].chat /\ now < o[k].next
      Fails(k) == o[k].chat /\ now >= o[k].next /\ ~works /\ now < o[k].expires
      flushed == [k \in DOMAIN o |->
                    IF Waits(k) THEN [o[k] EXCEPT !.console = Prints(k)]
                    ELSE [o[k] EXCEPT !.console = FALSE, !.chat = Fails(k), !.next = now + 1]]
      Count(c, h) == Cardinality({k \in DOMAIN o : o[k].cmd = c /\ IF h = "chat" THEN Says(k) ELSE Prints(k)})
  IN  /\ outputs' = Sift(flushed, {l \in ToSet(flushed) : l.chat})
      /\ told' = [line \in (1 .. MaxCommand) \X Channels |-> told[line] + Count(line[1], line[2])]
\* on_frame_stage_notify, then time goes on.  The server's events are delivered
\* when they are due: weapon_fire at once, the others with the delay Late.
Frame(works) ==
  /\ \A k \in DOMAIN wire :
       now < MaxTime => now < IF wire[k].fired THEN wire[k].due + Late ELSE wire[k].due
  /\ CheckMisses(pending)
  /\ Flush(outputs \o Verdicts(pending), pending', works)
  /\ now' = IF now < MaxTime THEN now + 1 ELSE now
  /\ moved' = FALSE
  /\ UNCHANGED <<nextShot, nextImpact, command, wire, strays, hurt, evicted>>

\* on_round_start: finished results go out, open shots are dropped, and so is
\* what the server had not fired yet.
Boundary ==
  /\ \A k \in DOMAIN wire : ~wire[k].fired
  /\ pending' = <<>> /\ active' = 0 /\ nextShot' = 1 /\ nextImpact' = 1
  /\ wire' = <<>>

RoundStart(works) ==
  /\ Boundary
  /\ Flush(outputs, pending, works)
  /\ UNCHANGED <<now, command, moved, strays, hurt, missed, evicted>>

\* on_level_change drops the lines too.
LevelChange ==
  /\ Boundary
  /\ outputs' = <<>>
  /\ UNCHANGED <<now, command, moved, strays, hurt, history>>

Next ==
  \/ \E rage, commits, claimed \in BOOLEAN, c \in 1 .. MaxCommand,
       v \in Victims, w \in Weapons, result \in Victims \cup {NoVictim, "rejected"} :
       CreateMove(c, rage, commits, claimed, v, w, result)
  \/ WeaponFire \/ BulletImpact \/ PlayerHurt
  \/ \E works \in BOOLEAN : Frame(works) \/ RoundStart(works)
  \/ LevelChange

Spec == Init /\ [][Next]_vars

-----------------------------------------------------------------------------
Records == ToSet(pending)

\* Attacks that no record stands for: sent without one, or pushed out.
Unrecorded == strays \cup evicted

\* impacts.cpp:477-482, 1192-1196: the events of a shot never confirm the record
\* of another, in whatever order impact and hurt come and whichever shots the
\* server rejects, unless an attack no younger has no record.
RightShot ==
  \A s \in Records : \A c \in s.of :
    s.cmd # c => \E d \in Unrecorded : d <= c

\* impacts.cpp:1883-1885: no shot is told as a miss whose hurt came, before or
\* after, unless an earlier attack had no record; and none is told of twice on a
\* channel, however often the chat fails.
OneVerdict ==
  /\ \A c \in missed \cap hurt : \E d \in Unrecorded : d < c
  /\ \A c \in 1 .. MaxCommand, h \in Channels : told[c, h] <= 1

\* impacts.cpp:1836-1934: every record leaves the tracker, whichever evidence came
\* and however late: a hit after its tombstone time, and any other after the
\* longest way through the time-outs.  An impact that comes as late as it may sets
\* off the grace period anew, a fire that of a sentinel.
Lifetimes ==
  {Window + Grace + Finalization + 2, Absolute + Finalization + 2, FireAge + Absolute + 1}
NoStaleShot ==
  \A s \in Records :
    IF s.resolved THEN Age(s.resolvedAt) <= Tombstone + 1
    ELSE \E longest \in Lifetimes : Age(s.time) <= longest

\* impacts.cpp:477-482: a weapon_fire that is missing leaves a gap, and the events
\* of a shot with a record are not shifted onto an older one.
LeavesGap ==
  \A s \in Records : \A c \in s.of :
    s.cmd = Anonymous \/ s.cmd >= c \/ c \in Unrecorded

\* impacts.cpp:1762-1764: one log is kept per real miss.  When the lines of all
\* misses are dealt with, the console has shown one.
KeepsOneLogPerMiss ==
  \A c \in missed \ evicted :
    outputs = <<>> /\ told[c, "chat"] = 1 => \E d \in 1 .. MaxCommand : told[d, "console"] = 1
=============================================================================
