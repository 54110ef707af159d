---------------------------- MODULE RefinementProofs ----------------------------
(***************************************************************************)
(* The controller implements the abstract rule: every step of              *)
(* RuntimeController is a step of RuleSpec or one it does not see, under   *)
(* the mapping of RuleRefinement.                                          *)
(*                                                                         *)
(* What the mapping needs of the controller is RefInv: what TimerProofs    *)
(* and CycleProofs found of the store, the timer and the claims, and two   *)
(* things more. TimesOK: the moments a section works with, those of the    *)
(* queued reports, of the fired deadline and of the end of an execution,   *)
(* are not in the future, and only an ended execution has one. TriedOK: a  *)
(* retry time lies its interval after a moment the clock has shown, in     *)
(* memory and on disk, so that the time of the attempt can be read from it.*)
(*                                                                         *)
(* A section that saves is a look of the rule at the entities (Look,       *)
(* Settle, Recover or Start); the end of its save makes the claim durable  *)
(* and gives the plan its turn (Save); the plan goes on by NextTurn,       *)
(* NextTarget and Interrupt. Jobs, timers and locks are not seen.          *)
(***************************************************************************)
EXTENDS RuleRefinement, TimerProofs

-----------------------------------------------------------------------------
(* Cycles that read as clocks *)

\* A retry time follows an attempt by the interval, and the attempt was made at
\* a time the clock has shown: what the mapping subtracts is there.
TriedIn(cs, ri) ==
  \A e \in Entities : cs[e].retryAt # NoTime /\ ~cs[e].handled => cs[e].retryAt - ri >= 0

Readable(cs, ri) == cs \in Cycles /\ Clocked(cs) /\ TriedIn(cs, ri)

LEMMA ClockIs ==
  ASSUME NEW ri \in Int, NEW cs, Readable(cs, ri), NEW e \in Entities
  PROVE  /\ Clocks(cs, ri)[e] = Clock(cs[e], ri)
         /\ Clocks(cs, ri)[e].claimed = cs[e].handled
         /\ Clocks(cs, ri)[e].since = cs[e].started
         /\ Clocks(cs, ri)[e] = Rule!Idle <=> cs[e] = NoCycle
         /\ Clocks(cs, ri)[e].tried = IF cs[e].retryAt # NoTime /\ ~cs[e].handled
                                      THEN cs[e].retryAt - ri ELSE NoTime
         /\ Clocks(cs, ri)[e].tried # NoTime <=> cs[e].retryAt # NoTime /\ ~cs[e].handled
<1>1. cs[e] \in Cycle /\ (cs[e].started = NoTime => cs[e] = NoCycle)
  BY DEF Readable, Cycles, Clocked
<1>2. Clocks(cs, ri)[e] = Clock(cs[e], ri)
  BY DEF Clocks
<1>3. cs[e].retryAt # NoTime /\ ~cs[e].handled => cs[e].retryAt - ri # NoTime
  BY <1>1 DEF Readable, TriedIn, NoTime, Cycle
<1>4. NoCycle.started = NoTime /\ NoCycle.retryAt = NoTime /\ NoCycle.handled = FALSE
  BY DEF NoCycle
<1>5. Clock(cs[e], ri) = Rule!Idle <=> cs[e] = NoCycle
  BY <1>1, <1>4 DEF Clock, Rule!Idle, Rule!NoTime, NoTime
<1> QED
  BY <1>2, <1>3, <1>5 DEF Clock

LEMMA CountingIs ==
  ASSUME NEW cs, Readable(cs, retry), retry \in Nat
  PROVE  /\ Rule!Counting(Clocks(cs, retry)) = Pending(cs)
         /\ Rule!Tried(Clocks(cs, retry)) = Retrying(cs)
         /\ \A e \in Pending(cs) : Rule!DueAt(Clocks(cs, retry)[e]) = Deadline(cs[e])
<1>1. Rule!Counting(Clocks(cs, retry)) = Pending(cs)
  BY ClockIs DEF Rule!Counting, Pending, Active, Handled
<1>2. Rule!Tried(Clocks(cs, retry)) = Retrying(cs)
  BY <1>1, ClockIs DEF Rule!Tried, Rule!NoTime, NoTime, Retrying, Pending, Active, Handled
<1>3. ASSUME NEW e \in Pending(cs)
      PROVE  Rule!DueAt(Clocks(cs, retry)[e]) = Deadline(cs[e])
  <2>1. e \in Entities /\ ~cs[e].handled /\ cs[e] \in Cycle
    BY DEF Pending, Active, Handled, Readable, Cycles
  <2>2. /\ Clocks(cs, retry)[e].tried = IF cs[e].retryAt # NoTime
                                        THEN cs[e].retryAt - retry ELSE NoTime
        /\ Clocks(cs, retry)[e].tried # NoTime <=> cs[e].retryAt # NoTime
        /\ Clocks(cs, retry)[e].since = cs[e].started
    BY <2>1, ClockIs
  <2> QED
    BY <2>1, <2>2 DEF Rule!DueAt, Rule!NoTime, NoTime, Deadline, Cycle
<1> QED
  BY <1>1, <1>2, <1>3

\* What the controller finds due, at a time that has passed, is due.
LEMMA DueIsDue ==
  ASSUME NEW cs, Readable(cs, retry), retry \in Nat, now \in Int, NEW t \in Int, t <= now,
         WasDue(cs, t)
  PROVE  Rule!IsDue(Clocks(cs, retry))
<1>1. /\ Pending(cs) # {} /\ cs \in Cycles /\ TriggerDeadline(cs) <= t
      /\ Trigger(cs) \in Pending(cs) /\ TriggerDeadline(cs) \in Int
  BY TriggerIsPending, TriggerType DEF WasDue, Due, Readable
<1>2. \A e \in Pending(cs) : Deadline(cs[e]) \in Int
  BY RuleAssumption DEF Readable, Cycles, Cycle, Deadline, Pending, Active, NoTime
<1>3. Retrying(cs) \subseteq Pending(cs) /\ TriggerDeadline(cs) = Deadline(cs[Trigger(cs)])
  BY DEF Retrying, TriggerDeadline
<1>4. /\ Rule!Counting(Clocks(cs, retry)) = Pending(cs)
      /\ Rule!Tried(Clocks(cs, retry)) = Retrying(cs)
      /\ \A e \in Pending(cs) : Rule!DueAt(Clocks(cs, retry)[e]) = Deadline(cs[e])
  BY CountingIs
<1>5. CASE Retrying(cs) # {}
  <2>1. Trigger(cs) \in Retrying(cs)
    BY <1>1, <1>5, TriggerIsPending
  <2>2. Trigger(cs) \in Rule!Passed(Clocks(cs, retry), Retrying(cs))
    BY <1>1, <1>3, <1>4, <2>1 DEF Rule!Passed
  <2> QED
    BY <1>4, <1>5, <2>2 DEF Rule!IsDue
<1>6. CASE Retrying(cs) = {} /\ Policy = "last"
  <2>1. \A f \in Pending(cs) : Deadline(cs[f]) <= TriggerDeadline(cs)
    BY <1>1, <1>6, TriggerIsPending
  <2>2. Rule!Passed(Clocks(cs, retry), Pending(cs)) = Pending(cs)
    BY <1>1, <1>2, <1>4, <2>1 DEF Rule!Passed
  <2> QED
    BY <1>1, <1>4, <1>6, <2>2 DEF Rule!IsDue
<1>7. CASE Retrying(cs) = {} /\ Policy # "last"
  <2>1. Trigger(cs) \in Rule!Passed(Clocks(cs, retry), Pending(cs))
    BY <1>1, <1>3, <1>4 DEF Rule!Passed
  <2> QED
    BY <1>4, <1>7, <2>1 DEF Rule!IsDue
<1> QED
  BY <1>5, <1>6, <1>7

\* Nothing changed is nothing seen.
LEMMA SameAfter ==
  ASSUME NEW cs, NEW e
  PROVE  Clocks(cs, retry)[e] \in Rule!After(Clocks(cs, retry)[e], NoTime)
BY DEF Rule!After, Rule!NoTime, NoTime

\* What matching the cycles to the reports may make of a clock.
LEMMA SyncedAfter ==
  ASSUME NEW base, Readable(base, retry), retry \in Nat, now \in Int,
         NEW seen, NEW since, NEW ok,
         \A e \in Entities : since[e] \in Int /\ (seen[e] = "on" => since[e] \in 0..now),
         NEW synced, synced = Synced(base, seen, since, ok)
  PROVE  /\ Readable(synced, retry)
         /\ \A e \in Entities :
              /\ Clocks(synced, retry)[e] \in Rule!After(Clocks(base, retry)[e], NoTime)
              /\ \/ synced[e] = base[e] \/ synced[e] = NoCycle
                 \/ base[e] = NoCycle /\ ~synced[e].handled
<1>1. synced \in Cycles /\ Clocked(synced)
  BY ChangedCycles, SyncedClocks DEF Readable
<1>2. NoCycle.started = NoTime /\ NoCycle.retryAt = NoTime /\ NoCycle.handled = FALSE
  BY DEF NoCycle
<1>3. ASSUME NEW e \in Entities
      PROVE  \/ synced[e] = base[e]
             \/ synced[e] = NoCycle
             \/ /\ base[e] = NoCycle /\ since[e] \in 0..now
                /\ synced[e].started = since[e] /\ synced[e].handled = FALSE
                /\ synced[e].retryAt = NoTime
  BY DEF Synced, NoCycle
<1>4. Readable(synced, retry)
  <2>1. \A e \in Entities : synced[e].retryAt # NoTime => synced[e] = base[e]
    BY <1>2, <1>3
  <2> QED
    BY <1>1, <2>1 DEF Readable, TriedIn
<1>5. ASSUME NEW e \in Entities
      PROVE  Clocks(synced, retry)[e] \in Rule!After(Clocks(base, retry)[e], NoTime)
  <2>1. CASE synced[e] = base[e]
    <3>1. Clocks(synced, retry)[e] = Clocks(base, retry)[e]
      BY <2>1 DEF Clocks
    <3> QED
      BY <3>1, SameAfter
  <2>2. CASE synced[e] = NoCycle
    <3>1. Clocks(synced, retry)[e] = Rule!Idle
      BY <1>4, <2>2, ClockIs
    <3> QED
      BY <3>1 DEF Rule!After
  <2>3. CASE /\ base[e] = NoCycle /\ since[e] \in 0..now
             /\ synced[e].started = since[e] /\ synced[e].handled = FALSE
             /\ synced[e].retryAt = NoTime
    <3>1. Clocks(base, retry)[e] = Rule!Idle
      BY <2>3, ClockIs
    <3>2. Clocks(synced, retry)[e]
            = [since |-> since[e], tried |-> Rule!NoTime, claimed |-> FALSE]
      <4>1. /\ synced[e].started = since[e] /\ synced[e].handled = FALSE
            /\ synced[e].retryAt = NoTime /\ Rule!NoTime = NoTime
        BY <2>3 DEF Rule!NoTime, NoTime
      <4> QED
        BY <4>1 DEF Clocks, Clock
    <3> QED
      BY <2>3, <3>1, <3>2 DEF Rule!After
  <2> QED
    BY <1>3, <2>1, <2>2, <2>3
<1> QED
  BY <1>3, <1>4, <1>5

\* Rearming is what settling an attempt that ended at `at` does to a clock.
LEMMA RearmedAfter ==
  ASSUME NEW base, Readable(base, retry), retry \in Nat, retry > 0, now \in Int,
         NEW synced, Readable(synced, retry),
         \A e \in Entities :
           /\ Clocks(synced, retry)[e] \in Rule!After(Clocks(base, retry)[e], NoTime)
           /\ \/ synced[e] = base[e] \/ synced[e] = NoCycle
              \/ base[e] = NoCycle /\ ~synced[e].handled,
         NEW at \in 0..now, NEW cs, cs = Rearmed(synced, at, retry)
  PROVE  /\ Readable(cs, retry)
         /\ \A e \in Entities :
              Clocks(cs, retry)[e] \in Rule!After(Clocks(base, retry)[e], at)
<1>1. cs \in Cycles /\ Clocked(cs) /\ at # NoTime /\ at # Rule!NoTime
  BY ChangedCycles, ClaimsKeepClocks DEF Readable, NoTime, Rule!NoTime
<1>2. NoCycle.started = NoTime /\ NoCycle.retryAt = NoTime /\ NoCycle.handled = FALSE
  BY DEF NoCycle
<1>3. ASSUME NEW e \in Entities
      PROVE  IF synced[e].handled
             THEN /\ cs[e].started = synced[e].started /\ cs[e].handled = FALSE
                  /\ cs[e].retryAt = at + retry
             ELSE cs[e] = synced[e]
  BY DEF Rearmed, Readable, Cycles, Cycle
<1>4. Readable(cs, retry)
  <2>1. ASSUME NEW e \in Entities, cs[e].retryAt # NoTime, ~cs[e].handled
        PROVE  cs[e].retryAt - retry >= 0
    <3>1. CASE synced[e].handled
      <4>1. cs[e].retryAt = at + retry
        BY <1>3, <3>1
      <4> QED
        BY <4>1
    <3>2. CASE ~synced[e].handled
      BY <1>3, <2>1, <3>2 DEF Readable, TriedIn
    <3> QED
      BY <3>1, <3>2
  <2> QED
    BY <1>1, <2>1 DEF Readable, TriedIn
<1>5. ASSUME NEW e \in Entities
      PROVE  Clocks(cs, retry)[e] \in Rule!After(Clocks(base, retry)[e], at)
  <2>0. base[e].handled \in BOOLEAN /\ synced[e].handled \in BOOLEAN
    BY DEF Readable, Cycles, Cycle
  <2>1. CASE synced[e].handled
    <3>1. synced[e] = base[e] /\ base[e] # NoCycle /\ base[e].handled
      BY <1>2, <2>1
    <3>2. /\ Clocks(base, retry)[e] # Rule!Idle /\ Clocks(base, retry)[e].claimed
          /\ Clocks(base, retry)[e].since = synced[e].started
      BY <3>1, ClockIs
    <3>3. at + retry # NoTime /\ at + retry - retry = at
      BY DEF NoTime
    <3>4. Clocks(cs, retry)[e]
            = [since |-> synced[e].started, tried |-> at, claimed |-> FALSE]
      <4>1. /\ cs[e].started = synced[e].started /\ cs[e].handled = FALSE
            /\ cs[e].retryAt = at + retry
        BY <1>3, <2>1
      <4>2. Clocks(cs, retry)[e] = Clock(cs[e], retry)
        BY DEF Clocks
      <4>3. (IF cs[e].retryAt # NoTime /\ ~cs[e].handled THEN cs[e].retryAt - retry ELSE NoTime) = at
        BY <3>3, <4>1
      <4> QED
        BY <4>1, <4>2, <4>3 DEF Clock
    <3> QED
      BY <1>1, <3>2, <3>4 DEF Rule!After
  <2>2. CASE ~synced[e].handled
    <3>1. Clocks(cs, retry)[e] = Clocks(synced, retry)[e]
      BY <1>3, <2>2 DEF Clocks
    <3>2. CASE Clocks(base, retry)[e].claimed /\ Clocks(base, retry)[e] # Rule!Idle
      <4>1. base[e].handled /\ base[e] # NoCycle
        BY <3>2, ClockIs
      <4>2. synced[e] = NoCycle
        BY <1>2, <2>2, <4>1
      <4>3. Clocks(synced, retry)[e] = Rule!Idle
        BY <4>2, ClockIs
      <4> QED
        BY <3>1, <4>3 DEF Rule!After
    <3>3. CASE ~(Clocks(base, retry)[e].claimed /\ Clocks(base, retry)[e] # Rule!Idle)
      <4>1. Rule!After(Clocks(base, retry)[e], at) = Rule!After(Clocks(base, retry)[e], NoTime)
        BY <3>3 DEF Rule!After
      <4> QED
        BY <3>1, <4>1
    <3> QED
      BY <3>2, <3>3
  <2> QED
    BY <2>0, <2>1, <2>2
<1> QED
  BY <1>4, <1>5

\* A claim is a claim, and taking it back at once leaves what was there.
LEMMA ClaimedIs ==
  ASSUME NEW cs, Readable(cs, retry), retry \in Nat
  PROVE  /\ Readable(Claimed(cs), retry)
         /\ Clocks(Claimed(cs), retry)
              = [e \in Entities |-> Rule!ClaimedClock(Clocks(cs, retry)[e])]
         /\ Handled(cs) = {} => Unclaimed(Claimed(cs)) = cs
<1>1. Claimed(cs) \in Cycles /\ Clocked(Claimed(cs))
  BY ChangedCycles, ClaimsKeepClocks DEF Readable
<1>2. NoCycle.started = NoTime /\ NoCycle.retryAt = NoTime /\ NoCycle.handled = FALSE
  BY DEF NoCycle
<1>3. \A e \in Entities :
        IF cs[e] = NoCycle THEN Claimed(cs)[e] = NoCycle
        ELSE /\ Claimed(cs)[e].started = cs[e].started /\ Claimed(cs)[e].handled = TRUE
             /\ Claimed(cs)[e].retryAt = cs[e].retryAt
  BY DEF Claimed, Readable, Cycles, Cycle
<1>4. Readable(Claimed(cs), retry)
  <2>1. \A e \in Entities : Claimed(cs)[e].retryAt = NoTime \/ Claimed(cs)[e].handled
    BY <1>2, <1>3
  <2> QED
    BY <1>1, <2>1 DEF Readable, TriedIn
<1>5. ASSUME NEW e \in Entities
      PROVE  Clocks(Claimed(cs), retry)[e] = Rule!ClaimedClock(Clocks(cs, retry)[e])
  <2>1. CASE cs[e] = NoCycle
    <3>0. Claimed(cs)[e] = NoCycle
      BY <1>3, <2>1
    <3>1. Clocks(Claimed(cs), retry)[e] = Rule!Idle /\ Clocks(cs, retry)[e] = Rule!Idle
      BY <1>4, <2>1, <3>0, ClockIs
    <3> QED
      BY <3>1 DEF Rule!ClaimedClock
  <2>2. CASE cs[e] # NoCycle
    <3>1. Clocks(cs, retry)[e] # Rule!Idle /\ Clocks(cs, retry)[e].since = cs[e].started
      BY <2>2, ClockIs
    <3>2. Clocks(Claimed(cs), retry)[e]
            = [since |-> cs[e].started, tried |-> Rule!NoTime, claimed |-> TRUE]
      <4>1. /\ Claimed(cs)[e].started = cs[e].started /\ Claimed(cs)[e].handled = TRUE
            /\ Rule!NoTime = NoTime
        BY <1>3, <2>2 DEF Rule!NoTime, NoTime
      <4> QED
        BY <4>1 DEF Clocks, Clock
    <3> QED
      BY <3>1, <3>2 DEF Rule!ClaimedClock
  <2> QED
    BY <2>1, <2>2
<1>6. Clocks(Claimed(cs), retry) = [e \in Entities |-> Rule!ClaimedClock(Clocks(cs, retry)[e])]
  BY <1>5 DEF Clocks
<1>7. ASSUME Handled(cs) = {} PROVE Unclaimed(Claimed(cs)) = cs
  <2>1. \A e \in Entities : cs[e] # NoCycle => ~cs[e].handled
    BY <1>7 DEF Handled, Active
  <2>2. \A e \in Entities : Unclaimed(Claimed(cs))[e]
          = [started |-> Claimed(cs)[e].started, handled |-> FALSE,
             retryAt |-> Claimed(cs)[e].retryAt]
    BY <1>1 DEF Unclaimed, Cycles, Cycle
  <2>3. \A e \in Entities : cs[e] = [started |-> cs[e].started, handled |-> cs[e].handled,
                                    retryAt |-> cs[e].retryAt] /\ cs[e].handled \in BOOLEAN
    BY DEF Readable, Cycles, Cycle
  <2>4. ASSUME NEW e \in Entities
        PROVE  Unclaimed(Claimed(cs))[e] = cs[e]
    <3>1. /\ cs[e].handled = FALSE /\ Claimed(cs)[e].started = cs[e].started
          /\ Claimed(cs)[e].retryAt = cs[e].retryAt
      BY <1>2, <1>3, <2>1, <2>3
    <3>2. cs[e] = [started |-> cs[e].started, handled |-> FALSE, retryAt |-> cs[e].retryAt]
      BY <2>3, <3>1
    <3> QED
      BY <2>2, <3>1, <3>2
  <2>5. Unclaimed(Claimed(cs)) = [e \in Entities |-> Unclaimed(Claimed(cs))[e]]
    BY DEF Unclaimed
  <2>6. cs = [e \in Entities |-> cs[e]]
    BY DEF Readable, Cycles
  <2> QED
    BY <2>4, <2>5, <2>6
<1> QED
  BY <1>4, <1>6, <1>7

-----------------------------------------------------------------------------
(* When things happened *)

\* Reports, fired deadlines and ended executions are of the past, and a plan has
\* its targets before it.
EventsOK ==
  \A e \in Entities :
    /\ entState[e] = "on" => changedAt[e] \in 0..now
    /\ \A j \in ReportsOf(queue, e) : j.seen = "on" => j.at \in 0..now
Fired(q, t) == \A i \in 1..Len(q) : q[i].kind = "deadline" => q[i].at <= t
RunFitsOK ==
  /\ run.stage = "finish" => run.at \in 0..now
  /\ run.stage \in {"call", "confirm"} =>
       run.target \in Entities /\ run.at = NoTime /\ \A e \in run.todo : e > run.target
TimesOK == EventsOK /\ Fired(queue, now) /\ RunFitsOK

LEMMA ClockGoesOn ==
  ASSUME QuietInv, [Next]_vars
  PROVE  now \in Nat /\ now' \in {now, now + 1}
<1>1. PICK e \in Entities : TRUE
  BY RuleAssumption
<1>2. now \in Nat /\ LifeInv
  BY DEF QuietInv, LifeInv, TypeOK, WorldOK
<1>3. CASE Crash
  BY <1>2, <1>3 DEF Crash
<1>4. ASSUME NEW s \in Reports, Report(e, s) PROVE now' = now
  BY <1>4 DEF Report
<1>5. CASE Undisturbed(e)
  BY <1>2, <1>5 DEF Undisturbed
<1>6. CASE Skip
  BY <1>2, <1>6 DEF Skip, world
<1>7. CASE Section /\ ~Skip
  BY <1>2, <1>7, SectionSummary DEF SectionRuns, world, LifeInv
<1> QED
  BY <1>2, <1>3, <1>4, <1>5, <1>6, <1>7, StepOf

LEMMA EventsNext ==
  ASSUME QuietInv, EventsOK, [Next]_vars
  PROVE  EventsOK'
<1> DEFINE Fine(e) == /\ entState[e] = "on" => changedAt[e] \in 0..now
                      /\ \A j \in ReportsOf(queue, e) : j.seen = "on" => j.at \in 0..now
<1> SUFFICES ASSUME NEW e \in Entities PROVE Fine(e)'
  BY DEF EventsOK
<1>1. TypeOK /\ now \in Nat /\ now' \in {now, now + 1} /\ Fine(e)
  BY ClockGoesOn DEF QuietInv, LifeInv, EventsOK
<1>2. CASE Crash
  <2>1. entState'[e] = "lost" /\ queue' = <<>>
    BY <1>2 DEF Crash
  <2> QED
    BY <2>1 DEF ReportsOf
<1>3. ASSUME NEW s \in Reports, Report(e, s) PROVE Fine(e)'
  <2> DEFINE j == Job("event", e, s, ChangedAt(s))
  <2>1. /\ entState'[e] = s /\ changedAt'[e] = ChangedAt(s) /\ now' = now
        /\ ~subscribed => queue' = queue
        /\ subscribed => ReportsOf(queue', e) = ReportsOf(queue, e) \cup {j}
    BY <1>1, <1>3, ReportStep
  <2>2. j.at = ChangedAt(s) /\ j.seen = s /\ (s = "on" => ChangedAt(s) \in 0..now)
    BY <1>1 DEF Job, ChangedAt
  <2> HIDE DEF j
  <2> QED
    BY <1>1, <2>1, <2>2
<1>4. ASSUME /\ entState'[e] = entState[e] /\ changedAt'[e] = changedAt[e]
             /\ ReportsOf(queue', e) \subseteq ReportsOf(queue, e)
      PROVE  Fine(e)'
  <2>1. 0..now \subseteq 0..now'
    BY <1>1
  <2> QED
    BY <1>1, <1>4, <2>1
<1>5. CASE Undisturbed(e)
  BY <1>4, <1>5 DEF Undisturbed
<1>6. CASE Skip
  BY <1>4, <1>6, SkipReports DEF world
<1>7. CASE Section /\ ~Skip
  <2>1. PICK kind, p, q : /\ SectionRuns(kind, p, q)
                          /\ SectionSaves(kind, p, q) \/ SectionWaits(kind, p, q)
    BY <1>1, <1>7, SectionSummary
  <2> QED
    BY <1>4, <2>1, SectionReports DEF world
<1> QED
  BY <1>2, <1>3, <1>5, <1>6, <1>7, StepOf

LEMMA FiredQueues ==
  ASSUME NEW q \in Seq(Jobs), NEW t, Fired(q, t)
  PROVE  /\ Fired(Outdated(q), t)
         /\ \A j \in Jobs : j.kind # "deadline" \/ j.at <= t => Fired(Append(q, j), t)
         /\ q # <<>> => Fired(Tail(q), t) /\ (Head(q).kind = "deadline" => Head(q).at <= t)
<1>1. Fired(Outdated(q), t)
  <2>1. Kinds(Outdated(q)) \subseteq (Kinds(q) \ {"deadline"}) \cup {"outdated"}
    BY KindsOutdated
  <2> QED
    BY <2>1 DEF Fired, Kinds
<1>2. ASSUME NEW j \in Jobs, j.kind # "deadline" \/ j.at <= t PROVE Fired(Append(q, j), t)
  <2>1. /\ Len(Append(q, j)) = Len(q) + 1 /\ Len(q) \in Nat /\ Append(q, j)[Len(q) + 1] = j
        /\ \A i \in 1..Len(q) : Append(q, j)[i] = q[i]
    BY AppendElements
  <2>2. \A i \in 1..Len(Append(q, j)) : i \in 1..Len(q) \/ Append(q, j)[i] = j
    BY <2>1
  <2> QED
    BY <1>2, <2>1, <2>2 DEF Fired
<1>3. ASSUME q # <<>>
      PROVE  Fired(Tail(q), t) /\ (Head(q).kind = "deadline" => Head(q).at <= t)
  <2>1. /\ Len(q) \in Nat /\ Len(q) > 0 /\ Head(q) = q[1]
        /\ \A i \in 1..Len(Tail(q)) : i + 1 \in 1..Len(q) /\ Tail(q)[i] = q[i + 1]
    BY <1>3, TailElements
  <2>2. 1 \in 1..Len(q)
    BY <2>1
  <2> QED
    BY <2>1, <2>2 DEF Fired
<1> QED
  BY <1>1, <1>2, <1>3

LEMMA FiredNext ==
  ASSUME QuietInv, Fired(queue, now), [Next]_vars
  PROVE  Fired(queue', now')
<1>1. /\ TypeOK /\ TaskOK /\ queue \in Seq(Jobs) /\ queue' \in Seq(Jobs)
      /\ now \in Int /\ now' \in {now, now + 1}
  BY ClockGoesOn, TypeNext DEF QuietInv, LifeInv, TypeOK, TasksOK
<1>2. SUFFICES Fired(queue', now)
  <2>1. \A i \in 1..Len(queue') : queue'[i] \in Jobs
    BY <1>1
  <2>2. \A i \in 1..Len(queue') : queue'[i].at \in Int
    BY <2>1 DEF Jobs
  <2> QED
    BY <1>1, <1>2, <2>2 DEF Fired
<1>3. \A k \in JobKinds \ {"deadline"} :
        Call(k, NoTime) \in Jobs /\ Call(k, NoTime).kind # "deadline"
  BY CallIsJob, NoneType DEF Call, Job
<1>4. CASE Crash
  BY <1>4 DEF Crash, Fired
<1>5. CASE (Tick \/ Fire \/ Environment) /\ ~Crash
  <2>1. \/ queue' = queue
        \/ \E j \in Jobs : /\ queue' = Append(queue, j)
                           /\ j.kind # "deadline" \/ j.at <= now
    BY <1>1, <1>5, HomeSummary
  <2> QED
    BY <1>1, <2>1, FiredQueues
<1>6. CASE Execution
  <2>1. \/ queue' = queue
        \/ \E k \in RunKinds \cup {"cancelled"} : queue' = Append(queue, Call(k, NoTime))
    BY <1>1, <1>6, ExecutionSummary
  <2> QED
    BY <1>1, <1>3, <2>1, FiredQueues DEF RunKinds, JobKinds
<1>7. CASE LifeCycle
  <2>1. \/ queue' \in {queue, Outdated(queue)}
        \/ \E k \in LifeKinds : queue' = Append(queue, Call(k, NoTime))
    BY <1>7 DEF LifeCycle, Load, ReadStore, LoadFails, RollBack, BeginSetup, BeginStop,
                FinishUnload, RejectUnload, Post, LifeKinds, tasks
  <2> QED
    BY <1>1, <1>3, <2>1, FiredQueues DEF LifeKinds, JobKinds
<1>8. ASSUME NEW r \in Seq(Jobs), Fired(r, now), NEW kind, NEW p, Release(kind, p, r)
      PROVE  Fired(queue', now)
  <2>1. queue' = r \/ \E k \in RunKinds : queue' = Append(r, Call(k, NoTime))
    BY <1>8, ReleaseRun
  <2> QED
    BY <1>3, <1>8, <2>1, FiredQueues DEF RunKinds, JobKinds
<1>9. CASE Section /\ ~Skip
  <2>1. PICK kind, p, q : /\ SectionRuns(kind, p, q)
                          /\ SectionSaves(kind, p, q) \/ SectionWaits(kind, p, q)
    BY <1>1, <1>9, SectionSummary
  <2>2. queue # <<>> /\ (q = queue \/ q = Outdated(queue))
    BY <2>1 DEF SectionRuns
  <2>3. q \in Seq(Jobs) /\ q # <<>> /\ Tail(q) \in Seq(Jobs) /\ Fired(q, now) /\ Fired(Tail(q), now)
    BY <1>1, <2>2, SectionQueue, FiredQueues
  <2>4. queue' = q \/ Release(kind, p, Tail(q))
    BY <2>1 DEF SectionSaves, SectionWaits, Save
  <2> QED
    BY <1>8, <2>3, <2>4
<1>10. CASE Skip
  BY <1>1, <1>10, FiredQueues DEF Skip
<1>11. CASE SaveEnds
  <2>1. queue # <<>> /\ Tail(queue) \in Seq(Jobs) /\ Fired(Tail(queue), now)
    BY <1>1, <1>11, SaveEndsSummary, TailElements, FiredQueues
  <2>2. CASE SetupSaveFails \/ ResumeSaveFails
    <3>1. queue' = Outdated(Tail(queue))
      BY <2>2 DEF SetupSaveFails, ResumeSaveFails, RollBack
    <3> QED
      BY <2>1, <3>1, FiredQueues
  <2> QED
    BY <1>1, <1>8, <1>11, <2>1, <2>2, SaveEndsSummary
<1>12. CASE UNCHANGED vars
  BY <1>12 DEF vars, tasks
<1> QED
  BY <1>4, <1>5, <1>6, <1>7, <1>9, <1>10, <1>11, <1>12 DEF Next

LEMMA RunFitsNext ==
  ASSUME QuietInv, RunFitsOK, [Next]_vars
  PROVE  RunFitsOK'
<1>1. now \in Nat /\ now' \in {now, now + 1} /\ TypeOK /\ TaskOK
  BY ClockGoesOn DEF QuietInv, LifeInv
<1>2. 0..now \subseteq 0..now' /\ now \in 0..now'
  BY <1>1
<1>3. CASE run' = run
  BY <1>2, <1>3 DEF RunFitsOK
<1>4. CASE run' = NoRun
  BY <1>4 DEF RunFitsOK, NoRun
<1>5. CASE Running("call") /\ run' = [run EXCEPT !.stage = "confirm"]
  <2>1. run \in Runs /\ run.stage = "call"
    BY <1>1, <1>5 DEF Running, TypeOK, TasksOK
  <2>2. /\ run'.stage = "confirm" /\ run'.target = run.target /\ run'.todo = run.todo
        /\ run'.at = run.at
    BY <1>5, <2>1 DEF Runs
  <2> QED
    BY <2>1, <2>2 DEF RunFitsOK
<1>6. CASE \/ run'.stage = "blocked" \/ (run'.stage = "finish" /\ run'.at = now)
           \/ /\ run'.stage = "call" /\ run'.target \in Entities /\ run'.at = NoTime
              /\ \A e \in run'.todo : e > run'.target
  BY <1>2, <1>6 DEF RunFitsOK
<1> QED
  BY <1>1, <1>3, <1>4, <1>5, <1>6, NextRun DEF RunAfter

LEMMA TimesNext ==
  ASSUME QuietInv, TimesOK, [Next]_vars
  PROVE  TimesOK'
<1>1. EventsOK' /\ Fired(queue', now') /\ RunFitsOK'
  BY EventsNext, FiredNext, RunFitsNext DEF TimesOK
<1> QED
  BY <1>1 DEF TimesOK, Fired

LEMMA TimesInit == Init => TimesOK
BY DEF Init, TimesOK, EventsOK, Fired, RunFitsOK, ReportsOf, NoRun

-----------------------------------------------------------------------------
(* What holds of a controller that implements the rule *)

TriedOK ==
  /\ TriedIn(cycles, retry) /\ TriedIn(disk.cycles, disk.retry)
  /\ disk.retry = NoTime \/ disk.retry > 0

RefInv ==
  /\ StoredInv /\ SkippedSaveIsOnDisk /\ DurableOK /\ StoppedOK /\ RetryOK
  /\ TimesOK /\ TriedOK

LEMMA RefFacts ==
  ASSUME RefInv
  PROVE  /\ QuietInv /\ LifeInv /\ TypeOK /\ TaskOK /\ OpenInv /\ CycleInv
         /\ Readable(cycles, retry) /\ Readable(disk.cycles, disk.retry)
         /\ now \in Nat /\ retry \in Nat /\ retry > 0 /\ disk.retry \in Int
         /\ saving \in BOOLEAN /\ queue \in Seq(Jobs)
         /\ waiting \in Seq(Plans) /\ claim \in Plans \cup {NoPlan}
         /\ run \in Runs \cup {NoRun}
<1>1. QuietInv /\ LifeInv /\ TypeOK /\ TaskOK /\ FreshOK /\ ClockedOK
  BY DEF RefInv, StoredInv, QuietInv, LifeInv
<1>2. /\ cycles \in Cycles /\ disk.cycles \in Cycles /\ disk.retry \in Int
      /\ now \in Nat /\ retry \in Nat
      /\ saving \in BOOLEAN /\ queue \in Seq(Jobs)
      /\ waiting \in Seq(Plans) /\ claim \in Plans \cup {NoPlan}
      /\ run \in Runs \cup {NoRun}
  BY <1>1 DEF TypeOK, WorldOK, ConfigOK, RuleOK, StoreOK, Payloads, TasksOK
<1>3. OpenInv /\ CycleInv /\ retry > 0
  BY <1>1 DEF RefInv, OpenInv, CycleInv, RetryOK
<1>4. Readable(cycles, retry) /\ Readable(disk.cycles, disk.retry)
  BY <1>1, <1>2 DEF RefInv, TriedOK, Readable, ClockedOK
<1> QED
  BY <1>1, <1>2, <1>3, <1>4

\* What is restored, whatever the new interval is, are the clocks of the store.
LEMMA RestoredIs ==
  ASSUME RefInv, Awaiting, entry # "loading"
  PROVE  /\ Readable(Restored.cycles, retry)
         /\ Clocks(Restored.cycles, retry) = Clocks(disk.cycles, disk.retry)
<1>1. /\ snapshot = disk /\ cycles = NoCycles /\ Readable(disk.cycles, disk.retry)
      /\ retry \in Nat /\ retry > 0 /\ disk.retry \in Int
      /\ disk.retry = NoTime \/ disk.retry > 0
      /\ disk.retry = NoTime => disk.cycles = NoCycles
  BY RefFacts DEF RefInv, StoredInv, FreshOK, StoredOK, TriedOK
<1>2. NoCycle.started = NoTime /\ NoCycle.retryAt = NoTime /\ NoCycle.handled = FALSE
  BY DEF NoCycle
<1> DEFINE found == [e \in Entities |-> IF ~(disk.retry = NoTime) /\ disk.cycles[e] # NoCycle
                                        THEN disk.cycles[e] ELSE NoCycles[e]]
<1>3. found = disk.cycles
  <2>1. \A e \in Entities : found[e] = disk.cycles[e]
    BY <1>1 DEF NoCycles
  <2>2. found = [e \in Entities |-> found[e]] /\ disk.cycles = [e \in Entities |-> disk.cycles[e]]
    BY <1>1 DEF Readable, Cycles
  <2> QED
    BY <2>1, <2>2
<1>4. PICK last : Restored.cycles = Rescheduled(disk.cycles, disk.retry, retry, last, now)
  <2>1. \E last : Restored.cycles = Rescheduled(found, disk.retry, retry, last, now)
    BY <1>1 DEF Restored
  <2> QED
    BY <1>3, <2>1
<1>5. Restored.cycles \in Cycles /\ Clocked(Restored.cycles)
  BY RefFacts, RestoredClocks DEF RefInv, StoredInv, ClockedOK
<1>6. ASSUME NEW e \in Entities
      PROVE  LET c == Restored.cycles[e]
                 d == disk.cycles[e]
             IN  IF disk.retry # retry /\ e \in Retrying(disk.cycles)
                 THEN /\ c.started = d.started /\ c.handled = FALSE /\ d.handled = FALSE
                      /\ d.retryAt # NoTime
                      /\ c.retryAt = (d.retryAt - disk.retry) + retry
                 ELSE c = d
  <2>1. CASE disk.retry # retry /\ e \in Retrying(disk.cycles)
    <3>1. disk.cycles[e] \in Cycle /\ disk.cycles[e] # NoCycle
      BY <1>1, <2>1 DEF Readable, Cycles, Retrying, Pending, Active
    <3>2. disk.cycles[e].handled = FALSE /\ disk.cycles[e].retryAt # NoTime
      BY <2>1, <3>1 DEF Retrying, Pending, Active, Handled, Cycle
    <3>3. disk.retry > 0
      BY <1>1, <1>2, <3>2 DEF NoCycles
    <3>4. Restored.cycles[e]
            = [disk.cycles[e] EXCEPT !.retryAt = (disk.cycles[e].retryAt - disk.retry) + retry]
      BY <1>4, <2>1, <3>3 DEF Rescheduled
    <3> QED
      BY <2>1, <3>1, <3>2, <3>4 DEF Cycle
  <2>2. CASE ~(disk.retry # retry /\ e \in Retrying(disk.cycles))
    BY <1>4, <2>2 DEF Rescheduled
  <2> QED
    BY <2>1, <2>2
<1>7. ASSUME NEW e \in Entities
      PROVE  /\ Restored.cycles[e].retryAt # NoTime /\ ~Restored.cycles[e].handled
                  => Restored.cycles[e].retryAt - retry >= 0
             /\ Clock(Restored.cycles[e], retry) = Clock(disk.cycles[e], disk.retry)
  <2>0. disk.cycles[e] \in Cycle
    BY <1>1 DEF Readable, Cycles
  <2>1. CASE disk.retry # retry /\ e \in Retrying(disk.cycles)
    <3>1. disk.cycles[e].retryAt \in Int /\ disk.cycles[e].retryAt - disk.retry >= 0
      BY <1>1, <1>6, <2>0, <2>1 DEF Readable, TriedIn, Cycle
    <3>2. /\ Restored.cycles[e].retryAt = (disk.cycles[e].retryAt - disk.retry) + retry
          /\ Restored.cycles[e].started = disk.cycles[e].started
          /\ Restored.cycles[e].handled = FALSE /\ disk.cycles[e].handled = FALSE
          /\ disk.cycles[e].retryAt # NoTime
      BY <1>6, <2>1
    <3>3. /\ Restored.cycles[e].retryAt # NoTime
          /\ Restored.cycles[e].retryAt - retry = disk.cycles[e].retryAt - disk.retry
      BY <1>1, <3>1, <3>2 DEF NoTime
    <3> QED
      BY <3>1, <3>2, <3>3 DEF Clock
  <2>2. CASE ~(disk.retry # retry /\ e \in Retrying(disk.cycles))
    <3>1. Restored.cycles[e] = disk.cycles[e]
      BY <1>6, <2>2
    <3>2. disk.retry = retry \/ ~(disk.cycles[e].retryAt # NoTime /\ ~disk.cycles[e].handled)
      BY <1>2, <2>2 DEF Retrying, Pending, Active, Handled
    <3>3. CASE disk.retry = retry
      BY <1>1, <3>1, <3>3 DEF Readable, TriedIn
    <3>4. CASE ~(disk.cycles[e].retryAt # NoTime /\ ~disk.cycles[e].handled)
      BY <3>1, <3>4 DEF Clock
    <3> QED
      BY <3>2, <3>3, <3>4
  <2> QED
    BY <2>1, <2>2
<1> QED
  BY <1>5, <1>7 DEF Readable, TriedIn, Clocks

\* A section starts from cycles that read as clocks.
LEMMA BaseReads ==
  ASSUME RefInv, NEW kind, NEW p, NEW q, SectionRuns(kind, p, q)
  PROVE  /\ Readable(Base(kind), retry) /\ ~saving /\ retry' = retry
         /\ kind = "setup" => /\ Awaiting /\ ~starting /\ ~setupComplete
                              /\ Clocks(Base(kind), retry) = Clocks(disk.cycles, disk.retry)
         /\ kind # "blocked"
<1>1. QuietInv /\ OpenInv /\ TypeOK /\ Readable(cycles, retry)
  BY RefFacts
<1>2. ~saving /\ (kind = "setup" => entry = "setup" /\ Awaiting)
  BY <1>1, SectionEntry
<1>3. kind = "setup" => ~starting /\ ~setupComplete
  BY <1>1, <1>2 DEF QuietInv, QuietOK, AwaitingOK
<1>4. kind # "blocked" /\ retry' = retry
  BY <1>1, NeverBlocked, HeadKind DEF SectionRuns
<1> QED
  BY <1>1, <1>2, <1>3, <1>4, RestoredIs DEF Base

\* A section that rearms settles an attempt, or what the last process left.
Settling(kind) ==
  kind \in {"setup", "started", "finish", "cancelled"} \/ (kind = "resume" /\ starting)
Attempted(kind) == IF Settling(kind) THEN MomentOf(kind) ELSE NoTime

\* What a section makes of the clocks, and what it claims.
Matched(kind, p, cs) ==
  /\ Readable(cs, retry)
  /\ \A e \in Entities :
       Clocks(cs, retry)[e] \in Rule!After(Clocks(Base(kind), retry)[e], Attempted(kind))
  /\ \/ p = NoPlan /\ cycles' = cs
     \/ p # NoPlan /\ cycles' = Claimed(cs) /\ Rule!IsDue(Clocks(cs, retry))

LEMMA SectionSyncs ==
  ASSUME RefInv, NEW kind, NEW p, NEW q, SectionRuns(kind, p, q),
         NEW synced \in Cycles, SectionLooks(kind, synced)
  PROVE  /\ Readable(synced, retry)
         /\ \A e \in Entities :
              /\ Clocks(synced, retry)[e] \in Rule!After(Clocks(Base(kind), retry)[e], NoTime)
              /\ \/ synced[e] = Base(kind)[e] \/ synced[e] = NoCycle
                 \/ Base(kind)[e] = NoCycle /\ ~synced[e].handled
<1>1. /\ Readable(Base(kind), retry) /\ retry \in Nat /\ now \in Int /\ TypeOK /\ EventsOK
      /\ queue # <<>> /\ kind = Head(queue).kind /\ queue \in Seq(Jobs)
  <2>1. EventsOK /\ queue # <<>> /\ kind = Head(queue).kind
    BY DEF SectionRuns, RefInv, TimesOK
  <2> QED
    BY <2>1, BaseReads, RefFacts
<1>2. \A e \in Entities : changedAt[e] \in Int /\ (entState[e] = "on" => changedAt[e] \in 0..now)
  BY <1>1 DEF EventsOK, TypeOK, WorldOK
<1>3. CASE synced = Base(kind)
  BY <1>1, <1>3, SameAfter
<1>4. CASE synced = Sync(Base(kind))
  BY <1>1, <1>2, <1>4, SyncedAfter DEF Sync
<1>5. CASE /\ kind = "event"
           /\ synced = Synced(Base(kind), Seen(Head(queue)), Since(Head(queue)), allowed)
  <2>1. /\ Head(queue) \in Jobs /\ Head(queue).at \in Int
        /\ Head(queue) = queue[1] /\ 1 \in 1..Len(queue)
    BY <1>1, TailElements, HeadType DEF TypeOK, Jobs
  <2>2. Head(queue).ent \in Entities => Head(queue) \in ReportsOf(queue, Head(queue).ent)
    BY <1>1, <1>5, <2>1 DEF ReportsOf, EventOf
  <2>3. \A e \in Entities :
          /\ Since(Head(queue))[e] \in Int
          /\ Seen(Head(queue))[e] = "on" => Since(Head(queue))[e] \in 0..now
    BY <1>1, <1>2, <2>1, <2>2 DEF EventsOK, Seen, Since
  <2> QED
    BY <1>1, <1>5, <2>3, SyncedAfter
<1> QED
  BY <1>1, <1>3, <1>4, <1>5 DEF SectionLooks, Base

LEMMA SectionMatches ==
  ASSUME RefInv, NEW kind, NEW p, NEW q, SectionRuns(kind, p, q), SectionCycles(kind, p),
         SectionSaves(kind, p, q)
  PROVE  \E cs : Matched(kind, p, cs)
<1>1. /\ Readable(Base(kind), retry) /\ retry \in Nat /\ retry > 0 /\ now \in Nat
      /\ TypeOK /\ TaskOK /\ CycleInv /\ ~saving /\ kind # "blocked"
      /\ (kind = "setup" => ~starting) /\ queue \in Seq(Jobs)
  BY BaseReads, RefFacts
<1>2. starting' = (starting /\ kind \notin {"started", "resume"})
  BY DEF SectionSaves
<1>3. PICK synced \in Cycles, cs \in Cycles : /\ SectionLooks(kind, synced)
                                              /\ SectionRearms(kind, synced, cs)
                                              /\ SectionClaims(kind, p, cs)
  BY DEF SectionCycles
<1>4. /\ Readable(synced, retry)
      /\ \A e \in Entities :
           /\ Clocks(synced, retry)[e] \in Rule!After(Clocks(Base(kind), retry)[e], NoTime)
           /\ \/ synced[e] = Base(kind)[e] \/ synced[e] = NoCycle
              \/ Base(kind)[e] = NoCycle /\ ~synced[e].handled
  BY <1>3, SectionSyncs
<1>5. queue # <<>> /\ kind = Head(queue).kind
  BY DEF SectionRuns
\* The moment it works with has passed.
<1>6. MomentOf(kind) \in Int /\ MomentOf(kind) <= now /\ (Settling(kind) => MomentOf(kind) \in 0..now)
  <2>1. MomentOf(kind) \in Int
    BY <1>1, <1>5, MomentType
  <2>2. CASE kind = "finish"
    <3>1. run.stage = "finish"
      BY <1>1, <1>5, <2>2, HeadKind DEF TaskOK, RunOK, RunKinds
    <3> QED
      BY <1>1, <2>1, <2>2, <3>1 DEF MomentOf, RefInv, TimesOK, RunFitsOK
  <2>3. CASE kind = "deadline"
    <3>1. Head(queue).at <= now
      BY <1>1, <1>5, <2>3, FiredQueues DEF RefInv, TimesOK
    <3> QED
      BY <2>1, <2>3, <3>1 DEF MomentOf, Settling
  <2>4. CASE kind \notin {"finish", "deadline"}
    BY <1>1, <2>4 DEF MomentOf
  <2> QED
    BY <2>2, <2>3, <2>4
<1>7. /\ Readable(cs, retry)
      /\ \A e \in Entities :
           Clocks(cs, retry)[e] \in Rule!After(Clocks(Base(kind), retry)[e], Attempted(kind))
  <2>1. CASE Settling(kind)
    <3>1. cs = Rearmed(synced, MomentOf(kind), retry)
      BY <1>1, <1>2, <1>3, <2>1 DEF SectionRearms, Settling
    <3> QED
      BY <1>1, <1>4, <1>6, <2>1, <3>1, RearmedAfter DEF Attempted
  <2>2. CASE ~Settling(kind)
    <3>1. cs = synced
      BY <1>1, <1>3, <2>2 DEF SectionRearms, Settling
    <3> QED
      BY <1>4, <2>2, <3>1 DEF Attempted
  <2> QED
    BY <2>1, <2>2
<1>8. CASE p = NoPlan /\ cycles' = cs
  BY <1>7, <1>8 DEF Matched
<1>9. CASE p # NoPlan /\ cycles' = Claimed(cs) /\ WasDue(cs, MomentOf(kind))
  BY <1>1, <1>6, <1>7, <1>9, DueIsDue DEF Matched
<1>10. CASE kind = "cancelled" /\ cycles' = Unclaimed(Claimed(cs))
  <2>1. p = NoPlan
    BY <1>10 DEF SectionRuns
  <2>2. cs = Rearmed(synced, now, retry)
    BY <1>3, <1>10 DEF SectionRearms, MomentOf
  <2>3. Handled(cs) = {}
    BY <1>1, <1>3, <2>2, ClaimsDoNotMix
  <2>4. cycles' = cs
    BY <1>1, <1>7, <1>10, <2>3, ClaimedIs
  <2> QED
    BY <1>7, <2>1, <2>4 DEF Matched
<1> QED
  BY <1>1, <1>3, <1>8, <1>9, <1>10 DEF SectionClaims

LEMMA SectionReads ==
  ASSUME RefInv, NEW kind, NEW p, NEW q, SectionRuns(kind, p, q), SectionCycles(kind, p),
         SectionSaves(kind, p, q) \/ SectionWaits(kind, p, q)
  PROVE  Readable(cycles', retry)
<1>1. retry \in Nat
  BY RefFacts
<1>2. CASE SectionSaves(kind, p, q)
  <2>1. PICK cs : Matched(kind, p, cs)
    BY <1>2, SectionMatches
  <2> QED
    BY <1>1, <2>1, ClaimedIs DEF Matched
<1>3. CASE SectionWaits(kind, p, q)
  BY <1>3, BaseReads DEF SectionWaits, Base
<1> QED
  BY <1>2, <1>3

LEMMA TriedNext ==
  ASSUME RefInv, [Next]_vars
  PROVE  TriedOK'
<1>1. LifeInv /\ retry \in Nat /\ retry > 0
  BY RefFacts
<1>2. /\ disk' \in {disk, Payload}
      /\ Payload.cycles = cycles /\ Payload.retry = retry
  BY <1>1, CyclesStep DEF Payload
<1>3. \A ri : TriedIn(NoCycles, ri)
  BY DEF TriedIn, NoCycles, NoCycle
<1>4. TriedIn(disk'.cycles, disk'.retry) /\ (disk'.retry = NoTime \/ disk'.retry > 0)
  BY <1>1, <1>2 DEF RefInv, TriedOK
<1>5. TriedIn(cycles', retry')
  <2>1. CASE Section /\ ~Skip
    <3>1. PICK kind, p, q : /\ SectionRuns(kind, p, q) /\ SectionCycles(kind, p)
                            /\ SectionSaves(kind, p, q) \/ SectionWaits(kind, p, q)
      BY <1>1, <2>1, SectionSummary DEF LifeInv
    <3> QED
      BY <3>1, SectionReads, BaseReads DEF Readable
  <2>2. CASE cycles' = NoCycles
    BY <1>3, <2>2
  <2>3. CASE retry' = retry /\ cycles' = cycles
    BY <2>3 DEF RefInv, TriedOK
  <2>4. retry' = retry \/ cycles' = NoCycles \/ (Section /\ ~Skip)
    <3>1. CASE Tick \/ Fire \/ Environment
      <4>1. CASE Crash
        BY <4>1 DEF Crash
      <4>2. CASE ~Crash
        BY <1>1, <3>1, <4>2, HomeSummary DEF config, LifeInv
      <4> QED
        BY <4>1, <4>2
    <3>2. CASE Execution
      BY <1>1, <3>2, ExecutionSummary DEF config, LifeInv
    <3>3. CASE LifeCycle
      BY <3>3 DEF LifeCycle, Load, ReadStore, LoadFails, RollBack, BeginSetup, BeginStop,
                  FinishUnload, RejectUnload, config
    <3>4. CASE Skip \/ UNCHANGED vars
      BY <3>4 DEF Skip, vars, config
    <3>5. CASE SaveEnds
      BY <1>1, <3>5, SaveEndsSummary DEF config, SetupSaveFails, ResumeSaveFails, RollBack, LifeInv
    <3> QED
      BY <3>1, <3>2, <3>3, <3>4, <3>5 DEF Next
  <2> QED
    BY <1>1, <2>1, <2>2, <2>3, <2>4, PlainStep
<1> QED
  BY <1>4, <1>5 DEF TriedOK, TriedIn

LEMMA RefInit ==
  ASSUME 0 \notin RetryIntervals, Init
  PROVE  StoredInv /\ DurableOK /\ StoppedOK /\ RetryOK /\ TimesOK /\ TriedOK
<1>1. StoredInv /\ TimesOK
  BY StoredInit, TimesInit
<1>2. DurableOK /\ StoppedOK
  BY DEF Init, DurableOK, Live, Parked, StoppedOK, NoRun
<1>3. RetryOK
  BY InvInit DEF Inv, CycleInv
<1>4. TriedOK
  BY DEF Init, TriedOK, TriedIn, NoCycles, NoCycle, NoData
<1> QED
  BY <1>1, <1>2, <1>3, <1>4

LEMMA RefNext ==
  ASSUME 0 \notin RetryIntervals, "gate" \notin Moves, "savefail" \notin Moves,
         "earlytoggle" \notin Moves, RefInv, SkippedSaveIsOnDisk', [Next]_vars
  PROVE  RefInv'
<1>1. QuietInv /\ LifeInv /\ CycleInv /\ StoredInv /\ TimesOK
  BY RefFacts DEF RefInv
<1>2. StoredInv' /\ DurableOK' /\ StoppedOK' /\ RetryOK'
  BY <1>1, StoredNext, DurableNext, StoppedNext, RetryNext DEF RefInv
<1>3. TimesOK' /\ TriedOK'
  BY <1>1, TimesNext, TriedNext
<1> QED
  BY <1>2, <1>3 DEF RefInv

LEMMA RefAlways ==
  ASSUME 0 \notin RetryIntervals, "gate" \notin Moves, "savefail" \notin Moves,
         "earlytoggle" \notin Moves
  PROVE  Spec => []RefInv
<1>1. Init => StoredInv /\ DurableOK /\ StoppedOK /\ RetryOK /\ TimesOK /\ TriedOK
  BY RefInit
<1>2. Init /\ SkippedSaveIsOnDisk => RefInv
  BY <1>1 DEF RefInv
<1>3. RefInv /\ SkippedSaveIsOnDisk' /\ [Next]_vars => RefInv'
  BY RefNext
<1> QED
  BY <1>2, <1>3, SavedIsOnDisk, PTL DEF Spec

-----------------------------------------------------------------------------
(* Interrupted plans in the queue *)

Interrupted(q, s) == {i \in 1..Len(q) : q[i].kind = "cancelled" /\ ~(s /\ i = 1)}

LEMMA BrokenIs ==
  /\ Broken = Cardinality(Interrupted(queue, saving))
  /\ Broken' = Cardinality(Interrupted(queue', saving'))
BY DEF Broken, Interrupted

LEMMA InterruptedFinite ==
  ASSUME NEW q \in Seq(Jobs), NEW s
  PROVE  IsFiniteSet(Interrupted(q, s)) /\ Cardinality(Interrupted(q, s)) \in Nat
<1>1. Len(q) \in Int /\ Interrupted(q, s) \in SUBSET (1..Len(q))
  BY DEF Interrupted
<1>2. IsFiniteSet(1..Len(q))
  BY <1>1, FS_Interval
<1>3. IsFiniteSet(Interrupted(q, s))
  BY <1>1, <1>2, FS_Subset
<1> QED
  BY <1>3, FS_CardinalityType

LEMMA InterruptedAppend ==
  ASSUME NEW q \in Seq(Jobs), NEW j \in Jobs, NEW s \in BOOLEAN, s => q # <<>>
  PROVE  Cardinality(Interrupted(Append(q, j), s))
           = Cardinality(Interrupted(q, s)) + (IF j.kind = "cancelled" THEN 1 ELSE 0)
<1>1. /\ Len(Append(q, j)) = Len(q) + 1 /\ Len(q) \in Nat /\ Append(q, j)[Len(q) + 1] = j
      /\ \A i \in 1..Len(q) : Append(q, j)[i] = q[i]
      /\ s => Len(q) > 0
  BY AppendElements
<1>2. \A i \in 1..Len(Append(q, j)) : i \in 1..Len(q) \/ i = Len(q) + 1
  BY <1>1
<1>3. Len(q) + 1 \notin Interrupted(q, s) /\ 1..Len(q) \subseteq 1..Len(Append(q, j))
      /\ Len(q) + 1 \in 1..Len(Append(q, j)) /\ ~(s /\ Len(q) + 1 = 1)
  BY <1>1 DEF Interrupted
<1>4. Interrupted(Append(q, j), s)
        = IF j.kind = "cancelled" THEN Interrupted(q, s) \cup {Len(q) + 1} ELSE Interrupted(q, s)
  BY <1>1, <1>2, <1>3 DEF Interrupted
<1>5. IsFiniteSet(Interrupted(q, s)) /\ Cardinality(Interrupted(q, s)) \in Nat
  BY InterruptedFinite
<1>6. Cardinality(Interrupted(q, s) \cup {Len(q) + 1}) = Cardinality(Interrupted(q, s)) + 1
  BY <1>3, <1>5, FS_AddElement
<1> QED
  BY <1>4, <1>5, <1>6

\* The section at the head takes its own away, as soon as it has run.
LEMMA InterruptedSection ==
  ASSUME TypeOK, queue # <<>>, NEW q, q = queue \/ q = Outdated(queue)
  PROVE  Cardinality(Interrupted(q, TRUE))
           = Cardinality(Interrupted(queue, FALSE))
               - (IF Head(queue).kind = "cancelled" THEN 1 ELSE 0)
<1>1. queue \in Seq(Jobs) /\ Head(queue) = queue[1] /\ 1 \in 1..Len(queue)
  BY TailElements DEF TypeOK, TasksOK
<1>2. Len(q) = Len(queue) /\ \A i \in 1..Len(queue) : q[i].kind = "cancelled" <=> queue[i].kind = "cancelled"
  BY <1>1, OutdatedType
<1>3. Interrupted(q, TRUE) = Interrupted(queue, FALSE) \ {1}
  BY <1>2 DEF Interrupted
<1>4. 1 \in Interrupted(queue, FALSE) <=> Head(queue).kind = "cancelled"
  BY <1>1 DEF Interrupted
<1>5. IsFiniteSet(Interrupted(queue, FALSE)) /\ Cardinality(Interrupted(queue, FALSE)) \in Nat
  BY <1>1, InterruptedFinite
<1>6. Cardinality(Interrupted(queue, FALSE) \ {1})
        = IF 1 \in Interrupted(queue, FALSE) THEN Cardinality(Interrupted(queue, FALSE)) - 1
          ELSE Cardinality(Interrupted(queue, FALSE))
  BY <1>5, FS_RemoveElement
<1>7. CASE Head(queue).kind = "cancelled"
  BY <1>3, <1>4, <1>6, <1>7
<1>8. CASE Head(queue).kind # "cancelled"
  <2>1. Cardinality(Interrupted(q, TRUE)) = Cardinality(Interrupted(queue, FALSE))
    BY <1>3, <1>4, <1>6, <1>8
  <2>2. \A n \in Nat : n - 0 = n
    OBVIOUS
  <2> QED
    BY <1>5, <1>8, <2>1, <2>2
<1> QED
  BY <1>7, <1>8

LEMMA InterruptedTail ==
  ASSUME NEW q \in Seq(Jobs), q # <<>>
  PROVE  Cardinality(Interrupted(Tail(q), FALSE)) = Cardinality(Interrupted(q, TRUE))
<1>1. /\ Tail(q) \in Seq(Jobs) /\ Len(q) \in Nat /\ Len(q) > 0 /\ Len(Tail(q)) = Len(q) - 1
      /\ \A i \in 1..Len(Tail(q)) : i + 1 \in 1..Len(q) /\ Tail(q)[i] = q[i + 1]
  BY TailElements
<1> DEFINE S == Interrupted(Tail(q), FALSE)
           T == Interrupted(q, TRUE)
           f == [i \in S |-> i + 1]
<1>2. \A i \in S : i \in Int /\ i > 0 /\ i + 1 \in T
  BY <1>1 DEF Interrupted
<1>3. \A i \in T : i - 1 \in S /\ (i - 1) + 1 = i
  <2>1. \A i \in T : i \in 1..Len(q) /\ i # 1 /\ q[i].kind = "cancelled"
    BY DEF Interrupted
  <2>2. ASSUME NEW i \in T
        PROVE  i - 1 \in 1..Len(Tail(q)) /\ (i - 1) + 1 = i
    <3>1. i \in 1..Len(q) /\ i # 1
      BY <2>1
    <3> HIDE DEF T
    <3> QED
      BY <1>1, <3>1
  <2> QED
    BY <1>1, <2>1, <2>2 DEF Interrupted
<1>4. IsFiniteSet(S)
  BY <1>1, InterruptedFinite
<1> HIDE DEF S, T
<1>5. f \in Injection(S, T)
  BY <1>2 DEF Injection, IsInjective
<1>6. f \in Surjection(S, T)
  BY <1>2, <1>3 DEF Surjection
<1>7. ExistsBijection(S, T)
  BY <1>5, <1>6 DEF ExistsBijection, Bijection
<1> QED
  BY <1>4, <1>7, FS_Bijection DEF S, T

LEMMA InterruptedNone ==
  ASSUME NEW q, "cancelled" \notin Kinds(q), NEW s
  PROVE  Cardinality(Interrupted(q, s)) = 0
<1>1. Interrupted(q, s) = {}
  BY DEF Interrupted, Kinds
<1> QED
  BY <1>1, FS_EmptySet

-----------------------------------------------------------------------------
(* The locked sections as steps of the rule *)

\* A save that is skipped has no claim to make durable.
LEMMA SkippedHasNoPlan ==
  ASSUME RefInv, NEW kind, NEW p, NEW q, SectionRuns(kind, p, q),
         SectionSaves(kind, p, q), NEW cs, Matched(kind, p, cs),
         Payload' = lastSaved, kind \notin {"setup", "started", "stop", "finish", "cancelled"}
  PROVE  p = NoPlan
<1> SUFFICES ASSUME p # NoPlan PROVE FALSE
  OBVIOUS
<1>1. /\ QuietInv /\ TypeOK /\ LifeInv /\ retry \in Nat /\ retry > 0 /\ now \in Nat
      /\ Readable(cycles, retry) /\ ~saving /\ kind # "blocked"
  BY RefFacts, BaseReads
<1>2. /\ queue # <<>> /\ kind = Head(queue).kind /\ ~Stale(Head(queue)) /\ retry' = retry
      /\ disk' = disk /\ Head(queue).kind \in Kinds(queue)
  BY <1>1, HeadKind DEF SectionRuns, store
<1>3. kind \in {"event", "deadline", "enable", "resume"} /\ (kind \in {"event", "enable"} => ~starting)
  <2>1. kind \in JobKinds \ Unwinding /\ kind # "outdated"
    BY <1>1, <1>2, SectionPhase
  <2> QED
    BY <1>1, <2>1 DEF SectionRuns, JobKinds
<1>4. Live \/ Parked
  <2>1. CASE kind = "resume"
    BY <1>1, <1>2, <2>1, SectionPhase DEF Parked
  <2>2. CASE kind # "resume"
    <3>1. entry = "loaded"
      BY <1>1, <1>2, <1>3, <2>2, SectionPhase
    <3>2. kind = "deadline" => ~starting
      BY <1>1, <1>2 DEF QuietInv, QuietOK, StartingOK
    <3> QED
      BY <1>3, <2>2, <3>1, <3>2 DEF Live
  <2> QED
    BY <2>1, <2>2
<1>5. cycles' = cycles
  <2>1. disk.cycles = cycles
    BY <1>1, <1>4 DEF RefInv, DurableOK, Payload
  <2>2. lastSaved # NoData
    BY <1>1, <1>2 DEF Payload, NoData, NoTime
  <2>3. Payload' = disk
    BY <2>2 DEF RefInv, SkippedSaveIsOnDisk
  <2> QED
    BY <2>1, <2>3 DEF Payload
<1>6. /\ Readable(cs, retry) /\ cycles' = Claimed(cs) /\ Rule!IsDue(Clocks(cs, retry))
      /\ \A e \in Entities :
           Clocks(cs, retry)[e] \in Rule!After(Clocks(cycles, retry)[e], Attempted(kind))
  BY <1>3 DEF Matched, Base
\* Whatever is due was claimed before, and so has just been attempted.
<1>7. ASSUME NEW e \in Rule!Counting(Clocks(cs, retry))
      PROVE  Settling(kind) /\ Clocks(cs, retry)[e].tried = now
  <2>1. e \in Pending(cs) /\ e \in Entities
    BY <1>1, <1>6, CountingIs DEF Pending, Active
  <2>2. cs[e] # NoCycle /\ ~cs[e].handled /\ cs[e] \in Cycle
    BY <1>6, <2>1 DEF Pending, Active, Handled, Readable, Cycles
  <2>3. cycles[e].handled /\ cycles[e] # NoCycle
    <3>1. cycles[e] = [cs[e] EXCEPT !.handled = TRUE]
      BY <1>5, <1>6, <2>1, <2>2 DEF Claimed
    <3> QED
      BY <2>2, <3>1 DEF Cycle, NoCycle
  <2>4. /\ Clocks(cycles, retry)[e].claimed /\ Clocks(cycles, retry)[e] # Rule!Idle
        /\ Clocks(cs, retry)[e] # Rule!Idle /\ ~Clocks(cs, retry)[e].claimed
    BY <1>1, <1>6, <2>1, <2>2, <2>3, ClockIs
  <2>5. /\ Attempted(kind) # Rule!NoTime
        /\ Clocks(cs, retry)[e] = [since |-> Clocks(cycles, retry)[e].since,
                                   tried |-> Attempted(kind), claimed |-> FALSE]
    BY <1>6, <2>1, <2>4 DEF Rule!After
  <2>6. Settling(kind) /\ Attempted(kind) = now
    BY <1>3, <2>5 DEF Attempted, Settling, MomentOf, Rule!NoTime, NoTime
  <2> QED
    BY <2>5, <2>6
<1>8. PICK e \in Rule!Counting(Clocks(cs, retry)) : Rule!DueAt(Clocks(cs, retry)[e]) <= now
  <2>1. Rule!Tried(Clocks(cs, retry)) \subseteq Rule!Counting(Clocks(cs, retry))
    BY DEF Rule!Tried
  <2>2. CASE Rule!Tried(Clocks(cs, retry)) # {}
    BY <1>6, <2>1, <2>2 DEF Rule!IsDue, Rule!Passed
  <2>3. CASE Rule!Tried(Clocks(cs, retry)) = {}
    BY <1>6, <2>3 DEF Rule!IsDue, Rule!Passed
  <2> QED
    BY <2>2, <2>3
<1>9. Rule!DueAt(Clocks(cs, retry)[e]) = now + retry
  BY <1>1, <1>7 DEF Rule!DueAt, Rule!NoTime
<1> QED
  BY <1>1, <1>8, <1>9

\* What the rule sees of a section that saves, apart from the clocks.
LEMMA SectionTasks ==
  ASSUME RefInv, NEW kind, NEW p, NEW q, SectionRuns(kind, p, q),
         SectionSaves(kind, p, q), NEW cs, Matched(kind, p, cs)
  PROVE  /\ claim = NoPlan /\ claim' = p
         /\ UNCHANGED <<now, retry, disk, waiting, run>>
         /\ ~saving /\ (saving' /\ Head(queue').kind = "finish" <=> kind = "finish")
         /\ Broken \in Nat /\ (kind = "cancelled" => Broken > 0)
         /\ Broken' = Broken - (IF kind = "cancelled" THEN 1 ELSE 0)
<1>1. /\ TypeOK /\ TaskOK /\ queue \in Seq(Jobs) /\ saving = FALSE /\ kind # "blocked"
  BY RefFacts, BaseReads DEF SectionRuns
<1>2. /\ queue # <<>> /\ kind = Head(queue).kind /\ (q = queue \/ q = Outdated(queue))
      /\ UNCHANGED <<now, retry, disk>>
  BY DEF SectionRuns, world, store
<1>3. /\ q \in Seq(Jobs) /\ q # <<>>
      /\ kind # "deadline" => Head(q) = Head(queue)
      /\ kind = "deadline" => Head(q).kind \in {"deadline", "outdated"}
  BY <1>1, <1>2, SectionQueue
<1>4. claim = NoPlan
  BY <1>1 DEF TaskOK
<1>5. /\ Broken = Cardinality(Interrupted(queue, FALSE)) /\ Broken \in Nat
      /\ Cardinality(Interrupted(q, TRUE)) = Broken - (IF kind = "cancelled" THEN 1 ELSE 0)
  BY <1>1, <1>2, BrokenIs, InterruptedSection, InterruptedFinite
<1>6. Cardinality(Interrupted(q, TRUE)) \in Nat
  BY <1>3, InterruptedFinite
<1>7. kind = "cancelled" => Broken > 0
  <2>1. kind = "cancelled" => Broken - 1 \in Nat
    BY <1>5, <1>6
  <2>2. Broken \in Nat
    BY <1>5
  <2> QED
    BY <2>1, <2>2
<1>8. CASE saving' = TRUE /\ claim' = p /\ queue' = q /\ UNCHANGED <<entry, waiting, run>>
  BY <1>1, <1>2, <1>3, <1>4, <1>5, <1>7, <1>8, BrokenIs
<1>9. CASE /\ Release(kind, p, Tail(q)) /\ Payload' = lastSaved
           /\ kind \notin {"setup", "started", "stop", "finish", "cancelled"}
  <2>1. p = NoPlan
    BY <1>9, SkippedHasNoPlan
  <2>2. kind \notin RunKinds
    BY <1>1, <1>9 DEF RunKinds
  <2>3. saving' = FALSE /\ claim' = NoPlan /\ queue' = Tail(q) /\ run' = run /\ waiting' = waiting
    BY <1>9, <2>1, <2>2, ReleaseRun
  <2>4. Broken' = Broken - (IF kind = "cancelled" THEN 1 ELSE 0)
    BY <1>3, <1>5, <2>3, BrokenIs, InterruptedTail
  <2> QED
    BY <1>1, <1>2, <1>4, <1>5, <1>7, <1>9, <2>1, <2>3, <2>4
<1> QED
  BY <1>8, <1>9 DEF SectionSaves, Save

LEMMA ClocksPrimed ==
  /\ Clocks(cycles, retry)' = Clocks(cycles', retry')
  /\ Clocks(disk.cycles, disk.retry)' = Clocks(disk'.cycles, disk'.retry)
  /\ \A cs, ri : DOMAIN Clocks(cs, ri) = Entities
BY DEF Clocks, Clock

\* The clocks are brought up to date, and claimed if the section makes a plan.
LEMMA SectionUpdates ==
  ASSUME RefInv, NEW kind, NEW p, NEW q, SectionRuns(kind, p, q), claim' = p,
         NEW cs, Matched(kind, p, cs)
  PROVE  Rule!Update(Clocks(Base(kind), retry), Attempted(kind))
<1>1. retry' = retry /\ retry \in Nat
  BY BaseReads, RefFacts
<1>2. \A e \in Entities :
        Clocks(cs, retry)[e] \in Rule!After(Clocks(Base(kind), retry)[e], Attempted(kind))
  BY DEF Matched
<1>3. CASE p = NoPlan /\ cycles' = cs
  BY <1>1, <1>2, <1>3, ClocksPrimed DEF Rule!Update
<1>4. CASE p # NoPlan /\ cycles' = Claimed(cs) /\ Rule!IsDue(Clocks(cs, retry))
  <2>1. Clocks(cycles, retry)' = [e \in Entities |-> Rule!ClaimedClock(Clocks(cs, retry)[e])]
    BY <1>1, <1>4, ClocksPrimed, ClaimedIs DEF Matched
  <2>2. Clocks(cs, retry) \in
          [Entities -> UNION {Rule!After(Clocks(Base(kind), retry)[e], Attempted(kind)) : e \in Entities}]
    BY <1>2 DEF Clocks
  <2> QED
    BY <1>2, <1>4, <2>1, <2>2 DEF Rule!Update
<1> QED
  BY <1>3, <1>4 DEF Matched

\* The plan whose turn it is, as the rule sees it.
AsRun(r, settled) ==
  IF r = NoRun THEN Rule!NoRun
  ELSE [stage |-> IF r.stage # "finish" THEN "attempt"
                  ELSE IF settled THEN "settled" ELSE "ended",
        target |-> r.target, ended |-> r.at]

LEMMA RunIs ==
  /\ Run = AsRun(run, Settled) /\ Run' = AsRun(run', Settled')
  /\ \A r, s : /\ AsRun(r, s) = Rule!NoRun <=> r = NoRun
               /\ r # NoRun /\ r.stage # "finish" => AsRun(r, s).stage = "attempt"
               /\ r # NoRun => AsRun(r, s).target = r.target /\ AsRun(r, s).ended = r.at
               /\ r # NoRun /\ r.stage = "finish" =>
                    AsRun(r, s).stage = IF s THEN "settled" ELSE "ended"
  /\ Rule!NoRun.stage = "none"
BY DEF Run, AsRun, Rule!NoRun, Rule!NoTime, NoTime

LEMMA PhaseIs ==
  /\ Phase = IF ~setupComplete THEN "down" ELSE IF starting THEN "starting" ELSE "up"
  /\ Phase' = IF ~setupComplete' THEN "down" ELSE IF starting' THEN "starting" ELSE "up"
BY DEF Phase

\* A section that saves is a look at the entities, of one kind or another.
LEMMA SavingSection ==
  ASSUME RefInv, NEW kind, NEW p, NEW q, SectionRuns(kind, p, q), SectionCycles(kind, p),
         SectionSaves(kind, p, q)
  PROVE  Rule!Next
<1>1. PICK cs : Matched(kind, p, cs)
  BY SectionMatches
<1>2. /\ claim = NoPlan /\ claim' = p /\ UNCHANGED <<now, retry, disk, waiting, run>>
      /\ ~saving /\ (saving' /\ Head(queue').kind = "finish" <=> kind = "finish")
      /\ Broken \in Nat /\ (kind = "cancelled" => Broken > 0)
      /\ Broken' = Broken - (IF kind = "cancelled" THEN 1 ELSE 0)
  BY <1>1, SectionTasks
<1>3. Rule!Update(Clocks(Base(kind), retry), Attempted(kind))
  BY <1>1, <1>2, SectionUpdates
<1>4. /\ kind # "setup" => Base(kind) = cycles
      /\ kind = "setup" => /\ Clocks(Base(kind), retry) = Clocks(disk.cycles, disk.retry)
                           /\ ~setupComplete /\ ~starting
      /\ kind # "setup" => setupComplete
  BY BaseReads, SectionEntry, RefFacts DEF Base
<1>5. /\ setupComplete' = (setupComplete \/ kind = "setup")
      /\ starting' = (starting /\ kind \notin {"started", "resume"})
      /\ kind = Head(queue).kind /\ ~Stale(Head(queue)) /\ queue # <<>>
  BY DEF SectionRuns, SectionSaves
<1>6. /\ UNCHANGED <<now, retry>> /\ Clocks(disk.cycles, disk.retry)' = Clocks(disk.cycles, disk.retry)
      /\ Len(waiting)' = Len(waiting)
  BY <1>2, ClocksPrimed
<1>7. ~Settled /\ (Settled' <=> kind = "finish")
  BY <1>2 DEF Settled
<1>8. kind # "finish" => Run' = Run
  BY <1>2, <1>7, RunIs DEF AsRun
<1>9. kind # "cancelled" => Broken' = Broken
  BY <1>2
<1>10. kind \in {"setup", "started"} \/ (kind = "resume" /\ starting) => Attempted(kind) = now
  BY DEF Attempted, Settling, MomentOf
<1>11. CASE kind = "setup"
  <2>1. Phase = "down" /\ Phase' = "up"
    BY <1>4, <1>5, <1>11, PhaseIs
  <2> QED
    BY <1>2, <1>3, <1>4, <1>6, <1>8, <1>9, <1>10, <1>11, <2>1 DEF Rule!Start, Rule!Next
<1>12. CASE kind = "started" \/ (kind = "resume" /\ starting)
  <2>1. starting
    BY <1>5, <1>12 DEF Stale
  <2>2. Phase = "starting" /\ Phase' = "up"
    BY <1>4, <1>5, <1>12, <2>1, PhaseIs
  <2> QED
    BY <1>2, <1>3, <1>4, <1>6, <1>8, <1>9, <1>10, <1>12, <2>2 DEF Rule!Start, Rule!Next
<1>13. CASE kind \notin {"setup", "started"} /\ ~(kind = "resume" /\ starting)
  <2>1. Phase' = Phase
    BY <1>4, <1>5, <1>13, PhaseIs
  <2>2. CASE kind = "finish"
    <3>1. run.stage = "finish" /\ run # NoRun
      BY <1>5, <2>2, RefFacts, HeadKind DEF TaskOK, RunOK, RunKinds, NoRun
    <3>2. Run.stage = "ended" /\ Run.ended = run.at
      BY <1>7, <3>1, RunIs
    <3>3. Run' = [Run EXCEPT !.stage = "settled"]
      BY <1>2, <1>7, <2>2, <3>1 DEF Run
    <3>4. Attempted(kind) = Run.ended
      BY <2>2, <3>2 DEF Attempted, Settling, MomentOf
    <3> QED
      BY <1>2, <1>3, <1>4, <1>6, <1>9, <2>1, <2>2, <3>2, <3>3, <3>4 DEF Rule!Settle, Rule!Next
  <2>3. CASE kind = "cancelled"
    <3>1. Attempted(kind) = now /\ p = NoPlan
      BY <2>3 DEF Attempted, Settling, MomentOf, SectionRuns
    <3> QED
      BY <1>2, <1>3, <1>4, <1>6, <1>8, <2>1, <2>3, <3>1 DEF Rule!Recover, Rule!Next
  <2>4. CASE kind \notin {"finish", "cancelled"}
    <3>1. Attempted(kind) = Rule!NoTime
      BY <1>13, <2>4 DEF Attempted, Settling, NoTime, Rule!NoTime
    <3> QED
      BY <1>2, <1>3, <1>4, <1>6, <1>8, <1>9, <1>13, <2>1, <2>4, <3>1 DEF Rule!Look, Rule!Next
  <2> QED
    BY <2>2, <2>3, <2>4
<1> QED
  BY <1>11, <1>12, <1>13

-----------------------------------------------------------------------------
(* The other steps as steps of the rule *)

\* A job more in the queue is nothing to the rule, unless a plan was interrupted.
LEMMA QueuedIs ==
  ASSUME RefInv, saving' = saving,
         \/ queue' = queue
         \/ \E j \in Jobs : queue' = Append(queue, j) /\ j.kind # "cancelled"
  PROVE  Broken' = Broken /\ Settled' = Settled
<1>1. queue \in Seq(Jobs) /\ saving \in BOOLEAN /\ (saving => queue # <<>>)
  BY RefFacts DEF TypeOK, TasksOK
<1>2. CASE queue' = queue
  BY <1>2, BrokenIs DEF Settled
<1>3. ASSUME NEW j \in Jobs, queue' = Append(queue, j), j.kind # "cancelled"
      PROVE  Broken' = Broken /\ Settled' = Settled
  <2>1. Cardinality(Interrupted(Append(queue, j), saving)) = Cardinality(Interrupted(queue, saving)) + 0
    BY <1>1, <1>3, InterruptedAppend
  <2>2. Cardinality(Interrupted(queue, saving)) \in Nat
    BY <1>1, InterruptedFinite
  <2>3. Cardinality(Interrupted(queue, saving)) + 0 = Cardinality(Interrupted(queue, saving))
    BY <2>2
  <2>4. Broken' = Broken
    BY <1>3, <2>1, <2>3, BrokenIs
  <2>5. saving => Head(queue') = Head(queue)
    BY <1>1, <1>3, AppendElements
  <2> QED
    BY <1>1, <2>4, <2>5 DEF Settled
<1> QED
  BY <1>2, <1>3

LEMMA Unseen ==
  ASSUME RefInv,
         UNCHANGED <<now, retry, cycles, disk, setupComplete, starting, saving, claim,
                     waiting, run>>,
         \/ queue' = queue
         \/ \E j \in Jobs : queue' = Append(queue, j) /\ j.kind # "cancelled"
  PROVE  UNCHANGED Rule!vars
<1>1. Broken' = Broken /\ Settled' = Settled
  BY QueuedIs
<1>2. Run' = Run
  BY <1>1, RunIs
<1>3. Phase' = Phase
  BY PhaseIs
<1> QED
  BY <1>1, <1>2, <1>3, ClocksPrimed DEF Rule!vars

LEMMA CallsAreJobs ==
  \A k \in JobKinds : /\ Call(k, NoTime) \in Jobs /\ Call(k, NoTime).kind = k
BY CallIsJob, NoneType DEF Call, Job

LEMMA HomeIs ==
  ASSUME RefInv, Tick \/ Fire \/ Environment, ~Crash
  PROVE  Rule!Next \/ UNCHANGED Rule!vars
<1>1. TypeOK
  BY RefFacts
<1>2. /\ UNCHANGED <<retry, cycles, disk, setupComplete, starting, saving, claim, waiting, run>>
      /\ \/ queue' = queue
         \/ \E j \in Jobs : queue' = Append(queue, j) /\ j.kind # "cancelled"
  BY <1>1, HomeSummary DEF config, store
<1>3. CASE Tick
  <2>1. now' = now + 1 /\ queue' = queue
    BY <1>3 DEF Tick, tasks
  <2>2. Broken' = Broken /\ Settled' = Settled
    BY <1>2, QueuedIs
  <2>3. Run' = Run /\ Phase' = Phase
    BY <1>2, <2>2, RunIs, PhaseIs
  <2> QED
    BY <1>2, <2>1, <2>2, <2>3, ClocksPrimed DEF Rule!Tick, Rule!Next
<1>4. CASE ~Tick
  <2>1. now' = now
    BY <1>4 DEF Fire, Environment, Report, ChangeRegistry, MoveGate, HaStarts, RequestEnable,
                RequestDisable, world
  <2> QED
    BY <1>2, <2>1, Unseen
<1> QED
  BY <1>3, <1>4

\* Nothing of the old process is left.
LEMMA EndedIs ==
  ASSUME RefInv, UNCHANGED <<now, disk>>, setupComplete' = FALSE, retry' \in Nat \ {0},
         claim' = NoPlan, waiting' = <<>>, run' = NoRun, "cancelled" \notin Kinds(queue'),
         \/ cycles' = NoCycles
         \/ UNCHANGED <<cycles, retry>> /\ run = NoRun /\ waiting = <<>> /\ claim = NoPlan
  PROVE  Rule!Next
<1>1. Broken' = 0
  BY BrokenIs, InterruptedNone
<1>2. Run' = Rule!NoRun /\ Phase' = "down" /\ (run = NoRun => Run = Rule!NoRun)
  BY RunIs, PhaseIs
<1>3. (Len(waiting))' = 0 /\ (waiting = <<>> => Len(waiting) = 0)
  OBVIOUS
<1>4. cycles' = NoCycles => Clocks(cycles, retry)' = [e \in Entities |-> Rule!Idle]
  BY ClocksPrimed DEF Clocks, Clock, NoCycles, NoCycle, Rule!Idle, Rule!NoTime, NoTime
<1>5. Clocks(disk.cycles, disk.retry)' = Clocks(disk.cycles, disk.retry)
  BY ClocksPrimed
<1>6. UNCHANGED <<cycles, retry>> => Clocks(cycles, retry)' = Clocks(cycles, retry)
  BY ClocksPrimed
<1> QED
  BY <1>1, <1>2, <1>3, <1>4, <1>5, <1>6 DEF Rule!Down, Rule!Next

LEMMA CrashIs ==
  ASSUME RefInv, Crash
  PROVE  Rule!Next
<1>1. retry' \in Nat \ {0}
  BY RefFacts DEF Crash
<1>2. "cancelled" \notin Kinds(queue')
  BY DEF Crash, Kinds
<1> QED
  BY <1>1, <1>2, EndedIs DEF Crash

LEMMA LifeCycleIs ==
  ASSUME 0 \notin RetryIntervals, "savefail" \notin Moves, RefInv, LifeCycle
  PROVE  Rule!Next \/ UNCHANGED Rule!vars
<1>1. /\ QuietInv /\ TypeOK /\ TaskOK /\ retry \in Nat /\ retry > 0
      /\ entry = "down" => run = NoRun /\ waiting = <<>>
  BY RefFacts DEF QuietInv, QuietOK, DormantOK, Dormant
<1>2. CASE Load
  <2>1. queue = <<>> /\ entry = "down"
    BY <1>2 DEF Load
  <2>2. saving = FALSE /\ claim = NoPlan
    BY <1>1, <2>1 DEF TypeOK, TasksOK, TaskOK
  <2>3. retry' \in Nat \ {0}
    BY <1>2, ControllerAssumption DEF Load
  <2>4. "cancelled" \notin Kinds(queue')
    BY <1>2, <2>1 DEF Load, tasks, Kinds
  <2> QED
    BY <1>1, <1>2, <2>1, <2>2, <2>3, <2>4, EndedIs DEF Load, world, tasks
<1>3. CASE FinishUnload
  <2>1. Idle /\ entry \in {"draining", "failing"}
    BY <1>3 DEF FinishUnload
  <2>2. ~saving /\ run = NoRun /\ waiting = <<>> /\ "cancelled" \notin Kinds(queue)
    BY <1>1, <2>1, IdleFree
  <2>3. claim = NoPlan
    BY <1>1, <2>2 DEF TaskOK
  <2> QED
    <3>1. /\ UNCHANGED <<now, retry, cycles, disk, queue, claim, waiting, run>>
          /\ setupComplete' = FALSE
      BY <1>3 DEF FinishUnload, world, config, rule, store, tasks
    <3>2. retry' \in Nat \ {0} /\ "cancelled" \notin Kinds(queue')
      BY <1>1, <2>2, <3>1
    <3> QED
      BY <2>2, <2>3, <3>1, <3>2, EndedIs
<1>4. CASE ReadStore \/ BeginSetup \/ BeginStop \/ RejectUnload
  <2>1. /\ UNCHANGED <<now, retry, cycles, disk, setupComplete, starting, saving, claim,
                       waiting, run>>
        /\ \/ queue' = queue
           \/ \E k \in LifeKinds : queue' = Append(queue, Call(k, NoTime))
    BY <1>4 DEF ReadStore, BeginSetup, BeginStop, RejectUnload, Post, LifeKinds, world, config,
                rule, store, phase, tasks
  <2>2. \A k \in LifeKinds : Call(k, NoTime) \in Jobs /\ Call(k, NoTime).kind # "cancelled"
    BY CallsAreJobs DEF LifeKinds, JobKinds
  <2> QED
    BY <2>1, <2>2, Unseen
<1> QED
  BY <1>2, <1>3, <1>4 DEF LifeCycle, LoadFails

\* A plan that goes on attempts the next of its targets, or ends.
LEMMA AdvanceIs ==
  ASSUME NEW p, NEW todo \in SUBSET Entities, NEW failed, NEW host, NEW q,
         Advance(p, todo, failed, host, q)
  PROVE  /\ run' # NoRun
         /\ \/ /\ run'.stage = "finish" /\ run'.target = 0 /\ run'.at = now
               /\ queue' = Append(q, Call("finish", NoTime))
            \/ /\ run'.stage = "call" /\ run'.target \in todo /\ run'.at = NoTime
               /\ queue' = q
<1> DEFINE callable == IF gate # "off" \/ unloaded' \/ inhibited' THEN {}
                       ELSE {e \in todo : allowed[e] /\ entState[e] = "on"}
           target == CHOOSE e \in callable : \A f \in callable : e <= f
<1>1. run' # NoRun
  BY AdvanceRuns
<1>2. CASE callable = {}
  BY <1>1, <1>2 DEF Advance
<1>3. CASE callable # {}
  <2>1. target \in callable /\ callable \subseteq todo
    BY <1>3, LeastEntity
  <2> HIDE DEF target
  <2>2. run'.stage = "call" /\ run'.target = target /\ run'.at = NoTime /\ queue' = q
    BY <1>3 DEF Advance, target
  <2> QED
    BY <1>1, <2>1, <2>2
<1> QED
  BY <1>2, <1>3

LEMMA BeginIs ==
  ASSUME RefInv, NEW p, NEW host, NEW q, Begin(p, host, q), ~Settled'
  PROVE  Rule!Begins /\ (queue' = q \/ queue' = Append(q, Call("finish", NoTime)))
<1>1. gate = "off"
  BY DEF RefInv, StoppedOK
<1>2. /\ run' # NoRun
      /\ \/ /\ run'.stage = "finish" /\ run'.target = 0 /\ run'.at = now
            /\ queue' = Append(q, Call("finish", NoTime))
         \/ /\ run'.stage = "call" /\ run'.target \in Entities /\ run'.at = NoTime
            /\ queue' = q
  BY <1>1, AdvanceIs DEF Begin
<1>3. \/ Run' = [stage |-> "ended", target |-> 0, ended |-> now]
      \/ \E e \in Entities : Run' = [stage |-> "attempt", target |-> e, ended |-> Rule!NoTime]
  BY <1>2, RunIs DEF AsRun, NoTime, Rule!NoTime
<1> QED
  BY <1>2, <1>3 DEF Rule!Begins

LEMMA SaveSucceedsIs ==
  ASSUME RefInv, SaveSucceeds
  PROVE  Rule!Next
<1> DEFINE kind == Head(queue).kind
<1>1. /\ TypeOK /\ TaskOK /\ OpenInv /\ queue \in Seq(Jobs) /\ saving = TRUE /\ queue # <<>>
      /\ waiting \in Seq(Plans) /\ run \in Runs \cup {NoRun} /\ kind \in Kinds(queue)
  BY RefFacts, HeadKind DEF SaveSucceeds, TypeOK, TasksOK
<1>2. /\ UNCHANGED <<now, retry, cycles, setupComplete, starting>> /\ disk' = Payload
      /\ Release(kind, claim, Tail(queue))
  BY DEF SaveSucceeds, world, config, phase
<1>3. kind # "blocked"
  BY <1>1, NeverBlocked
<1>4. /\ saving' = FALSE /\ claim' = NoPlan /\ ~Settled'
  BY <1>2, ReleaseRun DEF Settled
<1>5. Settled <=> kind = "finish"
  BY <1>1 DEF Settled
<1>6. Broken' = Broken
  <2>1. /\ Tail(queue) \in Seq(Jobs)
        /\ Cardinality(Interrupted(Tail(queue), FALSE)) = Cardinality(Interrupted(queue, TRUE))
        /\ Cardinality(Interrupted(Tail(queue), FALSE)) \in Nat
    BY <1>1, TailElements, InterruptedTail, InterruptedFinite
  <2>2. CASE queue' = Tail(queue)
    BY <1>1, <1>4, <2>1, <2>2, BrokenIs
  <2>3. ASSUME NEW k \in RunKinds, queue' = Append(Tail(queue), Call(k, NoTime))
        PROVE  Broken' = Broken
    <3>1. Call(k, NoTime) \in Jobs /\ Call(k, NoTime).kind # "cancelled"
      BY CallsAreJobs DEF RunKinds, JobKinds
    <3>2. Cardinality(Interrupted(queue', FALSE)) = Cardinality(Interrupted(Tail(queue), FALSE)) + 0
      BY <2>1, <2>3, <3>1, InterruptedAppend
    <3>3. Cardinality(Interrupted(queue', FALSE)) = Cardinality(Interrupted(Tail(queue), FALSE))
      <4>1. \A n \in Nat : n + 0 = n
        OBVIOUS
      <4> QED
        BY <2>1, <3>2, <4>1
    <3> QED
      BY <1>1, <1>4, <2>1, <3>3, BrokenIs
  <2> QED
    BY <1>2, <2>2, <2>3, ReleaseRun
<1>7. /\ Clocks(disk.cycles, disk.retry)' = Clocks(cycles, retry) /\ Phase' = Phase
      /\ Clocks(cycles, retry)' = Clocks(cycles, retry)
  BY <1>2, ClocksPrimed, PhaseIs DEF Payload
<1>8. SUFFICES Rule!Dispatched
  BY <1>2, <1>4, <1>6, <1>7, <1>8 DEF Rule!Save, Rule!Next
<1>9. CASE kind = "finish"
  <2>1. run.stage = "finish" /\ run # NoRun
    BY <1>1, <1>9 DEF TaskOK, RunOK, RunKinds, NoRun
  <2>2. Run.stage = "settled"
    BY <1>5, <1>9, <2>1, RunIs
  <2>3. CASE claim = NoPlan
    <3>1. run' = NoRun /\ waiting' = waiting
      BY <1>2, <1>9, <2>3 DEF Release, EndRun
    <3>2. Run' = Rule!NoRun
      BY <3>1, RunIs
    <3> QED
      BY <2>2, <2>3, <3>1, <3>2 DEF Rule!Dispatched
  <2>4. CASE claim # NoPlan
    <3>1. Begin(claim, run.host, Tail(queue)) /\ waiting' = waiting
      BY <1>2, <1>9, <2>4 DEF Release
    <3>2. Rule!Begins
      BY <1>4, <3>1, BeginIs
    <3> QED
      BY <2>2, <2>4, <3>1, <3>2 DEF Rule!Dispatched
  <2> QED
    BY <2>3, <2>4
<1>10. CASE kind # "finish"
  <2>1. Dispatch(claim, HostOf(kind), Tail(queue))
    BY <1>2, <1>3, <1>10 DEF Release
  <2>2. Run.stage # "settled" /\ (Run = Rule!NoRun <=> run = NoRun)
    BY <1>5, <1>10, RunIs DEF AsRun
  <2>3. run' = run => Run' = Run
    BY <1>4, <1>5, <1>10, RunIs DEF AsRun
  <2>4. CASE claim = NoPlan
    <3>1. run' = run /\ waiting' = waiting
      BY <2>1, <2>4 DEF Dispatch
    <3> QED
      BY <2>2, <2>3, <2>4, <3>1 DEF Rule!Dispatched
  <2>5. CASE claim # NoPlan /\ (run # NoRun \/ waiting # <<>>)
    <3>1. run' = run /\ waiting' = Append(waiting, claim) /\ claim \in Plans
      BY <1>1, <2>1, <2>5 DEF Dispatch, TypeOK, TasksOK
    <3>2. Len(waiting') = Len(waiting) + 1 /\ (waiting # <<>> => Len(waiting) > 0)
      BY <1>1, <3>1
    <3> QED
      BY <2>2, <2>3, <2>5, <3>1, <3>2 DEF Rule!Dispatched
  <2>6. CASE claim # NoPlan /\ run = NoRun /\ waiting = <<>>
    <3>1. Begin(claim, HostOf(kind), Tail(queue)) /\ waiting' = waiting
      BY <2>1, <2>6 DEF Dispatch
    <3>2. Rule!Begins /\ ~(Len(waiting) > 0)
      BY <1>4, <2>6, <3>1, BeginIs
    <3> QED
      BY <2>2, <2>6, <3>1, <3>2 DEF Rule!Dispatched
  <2> QED
    BY <2>4, <2>5, <2>6
<1> QED
  BY <1>9, <1>10

\* While a plan calls or waits for its turn to, its end is not being saved.
LEMMA NotSettling ==
  ASSUME RefInv, run.stage # "finish"
  PROVE  ~Settled
<1>1. /\ TypeOK /\ TaskOK /\ (saving => queue # <<>>)
  BY RefFacts DEF TypeOK, TasksOK
<1>2. saving => Head(queue).kind # "finish"
  BY <1>1, HeadKind DEF TaskOK, RunOK, RunKinds
<1> QED
  BY <1>2 DEF Settled

LEMMA ProceedIs ==
  ASSUME RefInv, Running("call") \/ Running("confirm"), NEW bad, Proceed(bad)
  PROVE  Rule!Next
<1>1. /\ run \in Runs /\ run # NoRun /\ run.stage \in {"call", "confirm"}
      /\ run.todo \subseteq Entities
  <2>1. run # NoRun /\ run.stage \in {"call", "confirm"} /\ run \in Runs \cup {NoRun}
    BY RefFacts DEF Running
  <2> QED
    BY <2>1 DEF Runs
<1>2. /\ UNCHANGED <<now, retry, cycles, disk, setupComplete, starting, saving, claim, waiting>>
      /\ Advance(run.plan, run.todo, run.failed \/ bad, run.host, queue)
  BY DEF Proceed, world, config, rule, store, phase
<1>3. /\ run' # NoRun
      /\ \/ /\ run'.stage = "finish" /\ run'.target = 0 /\ run'.at = now
            /\ queue' = Append(queue, Call("finish", NoTime))
         \/ /\ run'.stage = "call" /\ run'.target \in run.todo /\ run'.at = NoTime
            /\ queue' = queue
  BY <1>1, <1>2, AdvanceIs
<1>4. Broken' = Broken /\ Settled' = FALSE
  <2>1. Call("finish", NoTime) \in Jobs /\ Call("finish", NoTime).kind # "cancelled"
    BY CallsAreJobs DEF JobKinds
  <2>2. Broken' = Broken /\ Settled' = Settled
    BY <1>2, <1>3, <2>1, QueuedIs
  <2> QED
    BY <1>1, <2>2, NotSettling DEF Settled
<1>5. Run.stage = "attempt" /\ Run.target = run.target
  BY <1>1, RunIs
<1>6. \/ Run' = [stage |-> "ended", target |-> 0, ended |-> now]
      \/ \E e \in Entities : e > Run.target /\ Run' = [Run EXCEPT !.target = e]
  <2>1. CASE run'.stage = "finish"
    BY <1>3, <1>4, <2>1, RunIs DEF AsRun
  <2>2. CASE run'.stage = "call"
    <3>1. run'.target \in Entities /\ run'.target > run.target /\ run'.target \in run.todo
      BY <1>1, <1>3, <2>2 DEF RefInv, TimesOK, RunFitsOK
    <3>2. Run' = [stage |-> "attempt", target |-> run'.target, ended |-> NoTime]
      BY <1>3, <2>2, RunIs DEF AsRun
    <3>3. run.at = NoTime
      BY <1>1 DEF RefInv, TimesOK, RunFitsOK
    <3> QED
      BY <1>1, <1>5, <3>1, <3>2, <3>3, RunIs DEF AsRun
  <2> QED
    BY <1>3, <2>1, <2>2
<1>7. Phase' = Phase /\ Clocks(cycles, retry)' = Clocks(cycles, retry)
      /\ Clocks(disk.cycles, disk.retry)' = Clocks(disk.cycles, disk.retry)
  BY <1>2, PhaseIs, ClocksPrimed
<1> QED
  BY <1>2, <1>4, <1>5, <1>6, <1>7 DEF Rule!NextTarget, Rule!Next

LEMMA ExecutionIs ==
  ASSUME RefInv, Execution
  PROVE  Rule!Next \/ UNCHANGED Rule!vars
<1>1. /\ TypeOK /\ TaskOK /\ run \in Runs \cup {NoRun} /\ waiting \in Seq(Plans)
      /\ queue \in Seq(Jobs) /\ saving \in BOOLEAN /\ (saving => queue # <<>>)
  BY RefFacts DEF TypeOK, TasksOK
<1>2. UNCHANGED <<now, retry, cycles, disk, setupComplete, starting, saving, claim>>
  BY <1>1, ExecutionSummary DEF world, config, rule, store, phase
<1>3. Phase' = Phase /\ Clocks(cycles, retry)' = Clocks(cycles, retry)
      /\ Clocks(disk.cycles, disk.retry)' = Clocks(disk.cycles, disk.retry)
  BY <1>2, PhaseIs, ClocksPrimed
<1>4. CASE ServiceReturns /\ Unsettled(run.target)
  <2>1. run # NoRun /\ run.stage = "call" /\ run' = [run EXCEPT !.stage = "confirm"]
        /\ UNCHANGED <<queue, waiting>>
    BY <1>4 DEF ServiceReturns, Running
  <2>2. run \in Runs
    BY <1>1, <2>1
  <2>3. run'.stage = "confirm" /\ run'.target = run.target /\ run'.at = run.at /\ run' # NoRun
    BY <2>1, <2>2 DEF Runs, NoRun
  <2>4. Broken' = Broken /\ Settled' = Settled
    BY <1>2, <2>1, QueuedIs
  <2>5. Run' = Run
    BY <2>1, <2>3, RunIs DEF AsRun
  <2> QED
    BY <1>2, <1>3, <2>1, <2>4, <2>5 DEF Rule!vars
<1>5. CASE \/ (ServiceReturns /\ ~Unsettled(run.target)) \/ ServiceFails \/ ConfirmEnds
  <2>1. (Running("call") \/ Running("confirm")) /\ \E bad : Proceed(bad)
    BY <1>5 DEF ServiceReturns, ServiceFails, ConfirmEnds
  <2> QED
    BY <2>1, ProceedIs
<1>6. CASE StartNext
  <2>1. /\ run = NoRun /\ waiting # <<>> /\ waiting' = Tail(waiting)
        /\ Begin(Head(waiting), "task", queue)
    BY <1>6 DEF StartNext
  <2>2. Len(waiting) > 0 /\ Len(waiting') = Len(waiting) - 1
    BY <1>1, <2>1
  <2>3. queue' = queue \/ \E k \in RunKinds : queue' = Append(queue, Call(k, NoTime))
    BY <2>1, BeginRun
  <2>4. \A k \in RunKinds : Call(k, NoTime) \in Jobs /\ Call(k, NoTime).kind # "cancelled"
    BY CallsAreJobs DEF RunKinds, JobKinds
  <2>5. Broken' = Broken /\ Settled' = Settled
    BY <1>2, <2>3, <2>4, QueuedIs
  <2>6. ~Settled
    BY <2>1, NotSettling DEF NoRun
  <2>7. Rule!Begins
    BY <2>1, <2>5, <2>6, BeginIs
  <2>8. Run = Rule!NoRun
    BY <2>1, RunIs
  <2> QED
    BY <1>2, <1>3, <2>2, <2>5, <2>7, <2>8 DEF Rule!NextTurn, Rule!Next
<1>7. CASE Cancel \/ CancelWaiting
  <2>1. queue' = Append(queue, Call("cancelled", NoTime))
    BY <1>7 DEF Cancel, CancelWaiting, Post
  <2>2. Call("cancelled", NoTime) \in Jobs /\ Call("cancelled", NoTime).kind = "cancelled"
    BY CallsAreJobs DEF JobKinds
  <2>3. Broken' = Broken + 1
    BY <1>1, <1>2, <2>1, <2>2, BrokenIs, InterruptedAppend
  <2>4. Settled' = Settled
    BY <1>1, <1>2, <2>1, <2>2, AppendElements DEF Settled
  <2>5. CASE Cancel
    <3>1. /\ run # NoRun /\ run.stage \in {"call", "confirm"}
          /\ run' = NoRun /\ waiting' = waiting
      BY <2>5 DEF Cancel, Running
    <3>2. Run.stage = "attempt" /\ Run' = Rule!NoRun
      BY <3>1, RunIs
    <3> QED
      BY <1>2, <1>3, <2>3, <3>1, <3>2 DEF Rule!Interrupt, Rule!Next
  <2>6. CASE CancelWaiting
    <3>1. PICK i \in 1..Len(waiting) :
            waiting' = SubSeq(waiting, 1, i - 1) \o SubSeq(waiting, i + 1, Len(waiting))
      BY <2>6 DEF CancelWaiting
    <3>2. Len(waiting) \in Nat /\ i \in Nat /\ i > 0 /\ i <= Len(waiting)
      BY <1>1
    <3>3. /\ SubSeq(waiting, 1, i - 1) \in Seq(Plans) /\ Len(SubSeq(waiting, 1, i - 1)) = i - 1
          /\ SubSeq(waiting, i + 1, Len(waiting)) \in Seq(Plans)
          /\ Len(SubSeq(waiting, i + 1, Len(waiting))) = Len(waiting) - i
      BY <1>1, <3>2
    <3>4. Len(waiting') = Len(waiting) - 1 /\ Len(waiting) > 0
      <4>1. \A s, t \in Seq(Plans) : Len(s \o t) = Len(s) + Len(t)
        OBVIOUS
      <4>2. Len(waiting') = (i - 1) + (Len(waiting) - i)
        BY <3>1, <3>3, <4>1
      <4> QED
        BY <3>2, <4>2
    <3>5. run' = run
      BY <2>6 DEF CancelWaiting
    <3>6. Run' = Run
      BY <2>4, <3>5, RunIs
    <3> QED
      BY <1>2, <1>3, <2>3, <3>4, <3>6 DEF Rule!Interrupt, Rule!Next
  <2> QED
    BY <1>7, <2>5, <2>6
<1> QED
  BY <1>4, <1>5, <1>6, <1>7 DEF Execution

LEMMA SectionIs ==
  ASSUME RefInv, Section
  PROVE  Rule!Next \/ UNCHANGED Rule!vars
<1>1. TypeOK /\ TaskOK /\ queue \in Seq(Jobs)
  BY RefFacts
<1>2. ASSUME queue # <<>>, saving = FALSE, Head(queue).kind # "cancelled",
             saving' = FALSE, queue' = Tail(queue)
      PROVE  Broken' = Broken /\ Settled' = Settled
  <2>1. /\ Cardinality(Interrupted(Tail(queue), FALSE)) = Cardinality(Interrupted(queue, TRUE))
        /\ Cardinality(Interrupted(queue, TRUE)) = Cardinality(Interrupted(queue, FALSE)) - 0
    BY <1>1, <1>2, InterruptedTail, InterruptedSection
  <2>2. Cardinality(Interrupted(queue, FALSE)) \in Nat
    BY <1>1, InterruptedFinite
  <2>3. \A n \in Nat : n - 0 = n
    OBVIOUS
  <2>4. Broken' = Broken
    BY <1>2, <2>1, <2>2, <2>3, BrokenIs
  <2> QED
    BY <1>2, <2>4 DEF Settled
<1>3. CASE Skip
  <2>1. /\ queue # <<>> /\ saving = FALSE /\ saving' = FALSE /\ queue' = Tail(queue)
        /\ Head(queue).kind # "cancelled"
        /\ UNCHANGED <<now, retry, cycles, disk, setupComplete, starting, claim, waiting, run>>
    BY <1>1, <1>3 DEF Skip, Stale, world, config, rule, store, phase, TypeOK, TasksOK
  <2>2. Broken' = Broken /\ Settled' = Settled
    BY <1>2, <2>1
  <2> QED
    BY <2>1, <2>2, RunIs, PhaseIs, ClocksPrimed DEF Rule!vars
<1>4. CASE ~Skip
  <2>1. PICK kind, p, q : /\ SectionRuns(kind, p, q) /\ SectionCycles(kind, p)
                          /\ SectionSaves(kind, p, q) \/ SectionWaits(kind, p, q)
    BY <1>1, <1>4, SectionSummary
  <2>2. CASE SectionSaves(kind, p, q)
    BY <2>1, <2>2, SavingSection
  <2>3. CASE SectionWaits(kind, p, q)
    <3>1. /\ queue # <<>> /\ saving = FALSE /\ kind = Head(queue).kind /\ retry' = retry
          /\ setupComplete' = (setupComplete \/ kind = "setup")
          /\ kind \in {"setup", "resume"} /\ Release(kind, NoPlan, Tail(queue))
          /\ starting' /\ (kind = "resume" => starting) /\ cycles' = Base(kind)
          /\ UNCHANGED <<now, disk>>
      BY <2>1, <2>3 DEF SectionRuns, SectionWaits, Base, world, store
    <3>2. /\ saving' = FALSE /\ claim' = NoPlan /\ claim = NoPlan
          /\ queue' = Tail(queue) /\ run' = run /\ waiting' = waiting
      BY <1>1, <3>1, ReleaseRun DEF RunKinds, TaskOK
    <3>3. Broken' = Broken /\ Settled' = Settled
      BY <1>2, <3>1, <3>2
    <3>4. Run' = Run /\ Clocks(disk.cycles, disk.retry)' = Clocks(disk.cycles, disk.retry)
      BY <3>1, <3>2, <3>3, RunIs, ClocksPrimed
    <3>5. /\ kind = "setup" => /\ ~setupComplete
                               /\ Clocks(Base(kind), retry) = Clocks(disk.cycles, disk.retry)
          /\ kind = "resume" => setupComplete
      BY <2>1, <3>1, BaseReads, SectionEntry, RefFacts
    <3>6. Clocks(cycles, retry)' = Clocks(Base(kind), retry)
      BY <3>1, ClocksPrimed
    <3>7. CASE kind = "setup"
      <4>1. Phase = "down" /\ Phase' = "starting"
        BY <3>1, <3>5, <3>7, PhaseIs
      <4> QED
        BY <3>1, <3>2, <3>3, <3>4, <3>5, <3>6, <3>7, <4>1 DEF Rule!Restore, Rule!Next
    <3>8. CASE kind = "resume"
      <4>1. Phase' = Phase
        BY <3>1, <3>5, <3>8, PhaseIs
      <4>2. Clocks(cycles, retry)' = Clocks(cycles, retry)
        BY <3>6, <3>8 DEF Base
      <4> QED
        BY <3>1, <3>2, <3>3, <3>4, <4>1, <4>2 DEF Rule!vars
    <3> QED
      BY <3>1, <3>7, <3>8
  <2> QED
    BY <2>1, <2>2, <2>3
<1> QED
  BY <1>3, <1>4

-----------------------------------------------------------------------------
(* The controller implements the rule *)

LEMMA InitIs ==
  ASSUME 0 \notin RetryIntervals, Init
  PROVE  Rule!Init
<1>1. /\ now = 0 /\ retry \in RetryIntervals
      /\ cycles = NoCycles /\ disk = NoData /\ queue = <<>> /\ waiting = <<>>
      /\ setupComplete = FALSE /\ claim = NoPlan /\ run = NoRun
  BY DEF Init
<1>2. retry \in Nat \ {0}
  BY <1>1, ControllerAssumption
<1>3. NoData.cycles = NoCycles
  BY DEF NoData
<1>4. \A ri : Clocks(NoCycles, ri) = [e \in Entities |-> Rule!Idle]
  BY DEF Clocks, Clock, NoCycles, NoCycle, Rule!Idle, Rule!NoTime, NoTime
<1>5. Broken = 0
  BY <1>1, BrokenIs, InterruptedNone DEF Kinds
<1>6. Run = Rule!NoRun /\ Phase = "down"
  BY <1>1, RunIs, PhaseIs
<1>7. Len(waiting) = 0 /\ ~(claim # NoPlan)
  BY <1>1
<1>8. /\ Clocks(cycles, retry) = [e \in Entities |-> Rule!Idle]
      /\ Clocks(disk.cycles, disk.retry) = Clocks(cycles, retry)
  BY <1>1, <1>3, <1>4
<1> QED
  BY <1>1, <1>2, <1>5, <1>6, <1>7, <1>8 DEF Rule!Init

LEMMA StepIs ==
  ASSUME 0 \notin RetryIntervals, "savefail" \notin Moves, RefInv, [Next]_vars
  PROVE  [Rule!Next]_(Rule!vars)
<1>1. CASE UNCHANGED vars
  BY <1>1, Unseen DEF vars, world, config, rule, store, phase, tasks
<1>2. CASE Tick \/ Fire \/ Environment
  BY <1>2, HomeIs, CrashIs
<1>3. CASE LifeCycle
  BY <1>3, LifeCycleIs
<1>4. CASE Section
  BY <1>4, SectionIs
<1>5. CASE SaveEnds
  <2>1. SaveSucceeds
    BY <1>5 DEF SaveEnds, SaveFails, SetupSaveFails, ResumeSaveFails
  <2> QED
    BY <2>1, SaveSucceedsIs
<1>6. CASE Execution
  BY <1>6, ExecutionIs
<1> QED
  BY <1>1, <1>2, <1>3, <1>4, <1>5, <1>6 DEF Next

\* The controller keeps the promises of RuleSpec (controller.py, the whole
\* class): it claims only what is due by the policy and the retries; a claim is
\* durable before its plan calls a service; a plan attempts each entity at most
\* once and in turn, one plan at a time; what is still on counts again from the
\* end of the attempt, or from when an interrupted plan is taken back; and a
\* restart finds every clock and every attempt as saved, whatever the new retry
\* interval is. The options form refuses an interval of zero
\* (config_flow.py:272-274). The other three assumptions exclude what the code
\* is found to do otherwise: a gate that opens again strands claims
\* (ClaimsHaveOwner), after a save that fails a claim outlives its plan, and
\* a switch toggled before the store was read saves over it.
THEOREM RuleIsImplemented ==
  ASSUME 0 \notin RetryIntervals, "gate" \notin Moves, "savefail" \notin Moves,
         "earlytoggle" \notin Moves
  PROVE  Spec => ImplementsRule
<1>1. Init => Rule!Init
  BY InitIs
<1>2. RefInv /\ [Next]_vars => [Rule!Next]_(Rule!vars)
  BY StepIs
<1>3. Spec => []RefInv
  BY RefAlways
<1> QED
  BY <1>1, <1>2, <1>3, PTL DEF Spec, ImplementsRule, Rule!Spec
=============================================================================
