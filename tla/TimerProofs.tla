------------------------------ MODULE TimerProofs ------------------------------
(***************************************************************************)
(* A live rule never forgets a deadline, and what it shows of its timer is *)
(* so: TimerArmed and CountdownIffArmed, for every set of entities, delay, *)
(* policy and bound, and every set of retry intervals without zero.        *)
(*                                                                         *)
(* Both speak of a moment with the lock free. What makes TimerArmed true   *)
(* holds all the time: while the rule is in charge, or about to be, its    *)
(* timer fits its cycles unless a gate event still waits to be handled     *)
(* (TimerInv). That needs to know, from LifeCycleProofs, that a rule in    *)
(* charge is subscribed, set up and not unloaded, and that the sections    *)
(* that change who is in charge are queued one at a time.                  *)
(*                                                                         *)
(* The recovery of a cancelled execution breaks TimerInv, for it matches   *)
(* the cycles to the states and may leave the timer. So may the end of an  *)
(* execution that finds nothing left to track part the timer and the       *)
(* status. Both are harmless when no report waits (ShownInv), because then *)
(* the cycles fit the states as they are: FollowInv of ReportProofs. And   *)
(* the recovery never makes a plan, because a claimed cycle and one that   *)
(* waits for its retry never meet (RetryOK).                               *)
(***************************************************************************)
EXTENDS ReportProofs

GateEvent(j) == j.kind = "event" /\ j.ent = Gate
GateEventWaits ==
  \E i \in 1..Len(queue) : (i > 1 \/ ~saving) /\ GateEvent(queue[i])

Armed ==
  enabled /\ gate = "off" /\ Pending(cycles) # {} => timer = TriggerDeadline(cycles)

TimerInv == InCharge /\ ~starting /\ ~GateEventWaits => Armed

\* A cycle that is claimed and one that waits for its retry never meet, except
\* in cycles restored before Home Assistant has started.
NoMix(cs) == Handled(cs) = {} \/ Retrying(cs) = {}
RetryOK == retry > 0 /\ (~starting => NoMix(cycles))

CycleInv == LifeInv /\ RetryOK

\* No cancelled execution waits for its recovery.
NoRecovery == "cancelled" \notin Kinds(queue)

\* The invariant of the timer where no task is cancelled.
Inv == CycleInv /\ NoRecovery /\ TimerInv

-----------------------------------------------------------------------------
(* The timer *)

\* What deciding leaves pending, it schedules.
LEMMA ReconciledArms ==
  ASSUME NEW cs \in Cycles, NEW un, NEW t \in Int, gate = "off",
         NEW r, r = Reconciled(cs, un, TRUE, t), Pending(r.cycles) # {}
  PROVE  r.timer = TriggerDeadline(r.cycles)
<1>1. Pending(Claimed(cs)) = {}
  <2>1. \A e \in Entities : Claimed(cs)[e] = NoCycle \/ Claimed(cs)[e].handled
    <3>1. \A c \in Cycle : [c EXCEPT !.handled = TRUE].handled = TRUE
      BY DEF Cycle
    <3>2. \A e \in Entities : cs[e] \in Cycle
      BY DEF Cycles
    <3> QED
      BY <3>1, <3>2 DEF Claimed
  <2> QED
    BY <2>1 DEF Pending, Active, Handled
<1>2. Active(cs) = {} => Pending(cs) = {}
  BY DEF Pending
<1>3. CASE Active(cs) # {} /\ Pending(cs) # {} /\ ~Due(cs, t)
  BY <1>3 DEF Reconciled, Outcome
<1>4. CASE Active(cs) = {} \/ Pending(cs) = {}
  BY <1>2, <1>4 DEF Reconciled, Outcome
<1>5. CASE Active(cs) # {} /\ Pending(cs) # {} /\ Due(cs, t)
  BY <1>1, <1>5 DEF Reconciled, Outcome
<1> QED
  BY <1>3, <1>4, <1>5

LEMMA InstalledArms ==
  ASSUME NEW cs \in Cycles, NEW un, NEW on \in BOOLEAN, NEW t \in Int, NEW r,
         r = Reconciled(cs, un, on, t), Install(r), enabled' = on, gate' = gate
  PROVE  Armed'
<1> SUFFICES ASSUME on, gate = "off", Pending(cycles') # {}
             PROVE  timer' = TriggerDeadline(cycles')
  BY DEF Armed
<1>1. cycles' = r.cycles /\ timer' = r.timer
  BY DEF Install
<1>2. r = Reconciled(cs, un, TRUE, t)
  OBVIOUS
<1> QED
  BY <1>1, <1>2, ReconciledArms

\* A step that leaves alone what a rule in charge does and shows, or tells it of
\* the gate.
Stays ==
  InCharge' => /\ InCharge /\ UNCHANGED <<starting, enabled, status, cycles, timer>>
               /\ ~GateEventWaits' => ~GateEventWaits /\ gate' = gate

LEMMA AppendWaits ==
  ASSUME TypeOK, NEW j \in Jobs, saving' = saving,
         queue' = queue \/ queue' = Append(queue, j)
  PROVE  /\ GateEventWaits => GateEventWaits'
         /\ queue' = Append(queue, j) /\ GateEvent(j) => GateEventWaits'
<1>1. queue \in Seq(Jobs) /\ saving \in BOOLEAN /\ (saving => queue # <<>>)
  BY DEF TypeOK, TasksOK
<1>2. CASE queue' = queue
  <2>1. GateEventWaits => GateEventWaits'
    BY <1>2 DEF GateEventWaits
  <2>2. queue # Append(queue, j)
    BY <1>1, AppendElements
  <2> QED
    BY <1>2, <2>1, <2>2
<1>3. CASE queue' = Append(queue, j)
  <2>1. /\ Len(queue') = Len(queue) + 1 /\ Len(queue) \in Nat
        /\ queue'[Len(queue) + 1] = j
        /\ \A i \in 1..Len(queue) : queue'[i] = queue[i]
    BY <1>1, <1>3, AppendElements
  <2>2. GateEventWaits => GateEventWaits'
    BY <2>1 DEF GateEventWaits
  <2>3. Len(queue) + 1 > 1 \/ ~saving'
    <3>1. queue # <<>> => Len(queue) > 0
      BY <1>1, TailElements
    <3> QED
      BY <1>1, <2>1, <3>1
  <2>4. GateEvent(j) => GateEventWaits'
    <3>1. Len(queue) + 1 \in 1..Len(queue')
      BY <2>1
    <3> QED
      BY <2>1, <2>3, <3>1 DEF GateEventWaits
  <2> QED
    BY <2>2, <2>4
<1> QED
  BY <1>2, <1>3

LEMMA TailWaits ==
  ASSUME TypeOK, queue # <<>>, GateEventWaits, saving \/ ~GateEvent(Head(queue)),
         saving' = FALSE,
         queue' = Tail(queue) \/ \E j \in Jobs : queue' = Append(Tail(queue), j)
  PROVE  GateEventWaits'
<1> DEFINE t == Tail(queue)
<1>1. /\ t \in Seq(Jobs) /\ Len(queue) \in Nat /\ Len(queue) > 0
      /\ Len(t) = Len(queue) - 1 /\ Head(queue) = queue[1]
      /\ \A i \in 1..Len(t) : i + 1 \in 1..Len(queue) /\ t[i] = queue[i + 1]
  BY TailElements DEF TypeOK, TasksOK
<1>2. PICK i \in 1..Len(queue) : (i > 1 \/ ~saving) /\ GateEvent(queue[i])
  BY DEF GateEventWaits
<1>3. queue' = t \/ \E j \in Jobs : queue' = Append(t, j)
  OBVIOUS
<1> HIDE DEF t
<1>4. i > 1
  BY <1>1, <1>2
<1>5. i - 1 \in 1..Len(t) /\ t[i - 1] = queue[i]
  BY <1>1, <1>4
<1>6. ASSUME NEW j \in Jobs, queue' = Append(t, j)
      PROVE  i - 1 \in 1..Len(queue') /\ queue'[i - 1] = queue[i]
  <2>1. /\ Len(Append(t, j)) = Len(t) + 1
        /\ \A n \in 1..Len(t) : Append(t, j)[n] = t[n]
    BY <1>1, AppendElements
  <2>2. Append(t, j)[i - 1] = queue[i]
    BY <1>5, <2>1
  <2>3. i - 1 \in 1..Len(t) + 1
    BY <1>1, <1>5
  <2> QED
    BY <1>6, <2>1, <2>2, <2>3
<1>7. i - 1 \in 1..Len(queue') /\ queue'[i - 1] = queue[i]
  BY <1>3, <1>5, <1>6
<1> QED
  BY <1>2, <1>7 DEF GateEventWaits

\* A step that queues at most one job, and leaves the rule and the gate alone.
LEMMA QuietStep ==
  ASSUME TypeOK, queue' = queue \/ \E j \in Jobs : queue' = Append(queue, j),
         UNCHANGED <<entry, saving, starting, enabled, status, gate, cycles, timer>>
  PROVE  Stays
<1>1. queue \in Seq(Jobs) /\ (saving => queue # <<>>)
  BY DEF TypeOK, TasksOK
<1>2. TakingOver' => TakingOver
  BY <1>1, AppendElements DEF TakingOver
<1>3. GateEventWaits => GateEventWaits'
  <2>1. CASE queue' = queue
    BY <2>1 DEF GateEventWaits
  <2>2. ASSUME NEW j \in Jobs, queue' = Append(queue, j) PROVE GateEventWaits => GateEventWaits'
    BY <2>2, AppendWaits
  <2> QED
    BY <2>1, <2>2
<1> QED
  BY <1>2, <1>3 DEF Stays, InCharge

-----------------------------------------------------------------------------
(* The steps that are no section *)

LEMMA MoveGateStays ==
  ASSUME LifeInv, NEW g \in {"off", "on", "bad"}, MoveGate(g)
  PROVE  Stays
<1> DEFINE j == Job("event", Gate, g, NoTime)
<1>1. j \in Jobs /\ GateEvent(j)
  BY NoneType DEF Job, Jobs, JobKinds, GateEvent
<1>2. /\ saving' = saving /\ entry' = entry /\ (subscribed => queue' = Append(queue, j))
      /\ (~subscribed => queue' = queue)
      /\ UNCHANGED <<starting, enabled, status, cycles, timer>>
  BY DEF MoveGate, Notify, Post, rule, phase
<1>3. queue \in Seq(Jobs) /\ (saving => queue # <<>>)
  BY DEF LifeInv, TypeOK, TasksOK
<1> HIDE DEF j
<1>4. TakingOver' => TakingOver
  BY <1>1, <1>2, <1>3, AppendElements DEF TakingOver
<1>5. InCharge' => InCharge /\ subscribed
  BY <1>2, <1>4, ChargePhase DEF InCharge
<1>6. subscribed => GateEventWaits'
  BY <1>1, <1>2, AppendWaits DEF LifeInv
<1> QED
  BY <1>2, <1>5, <1>6 DEF Stays

LEMMA HomeStays ==
  ASSUME LifeInv, Tick \/ Fire \/ Environment
  PROVE  Stays
<1>1. CASE Crash
  BY <1>1 DEF Crash, Stays, InCharge, TakingOver
<1>2. CASE \E g \in {"off", "on", "bad"} : MoveGate(g)
  BY <1>2, MoveGateStays
<1>3. CASE ~Crash /\ ~\E g \in {"off", "on", "bad"} : MoveGate(g)
  <2>1. gate' = gate
    BY <1>3 DEF Environment, Tick, Fire, Report, ChangeRegistry, HaStarts, RequestEnable,
                RequestDisable, world
  <2>2. /\ UNCHANGED <<entry, saving, starting, enabled, status, cycles, timer>>
        /\ queue' = queue \/ \E j \in Jobs : queue' = Append(queue, j)
    BY <1>3, HomeSummary DEF LifeInv
  <2> QED
    BY <2>1, <2>2, QuietStep DEF LifeInv
<1> QED
  BY <1>1, <1>2, <1>3

LEMMA ExecutionStays ==
  ASSUME LifeInv, Execution
  PROVE  Stays
<1>1. /\ UNCHANGED <<world, entry, rule, phase, saving>>
      /\ \/ queue' = queue
         \/ \E k \in RunKinds \cup {"cancelled"} : queue' = Append(queue, Call(k, NoTime))
  BY ExecutionSummary DEF LifeInv
<1>2. UNCHANGED <<entry, saving, starting, enabled, status, gate, cycles, timer>>
  BY <1>1 DEF world, rule, phase
<1>3. queue' = queue \/ \E j \in Jobs : queue' = Append(queue, j)
  BY <1>1, RunCalls
<1> QED
  BY <1>2, <1>3, QuietStep DEF LifeInv

\* No step of the entry leaves a rule in charge; a set-up does, or a resumption.
LEMMA LifeCycleStays ==
  ASSUME LifeInv, LifeCycle
  PROVE  Stays
<1>1. queue \in Seq(Jobs) /\ (saving => queue # <<>>) /\ saving \in BOOLEAN
  BY DEF LifeInv, TypeOK, TasksOK
<1>2. \/ entry' # "loaded" /\ ~saving'
      \/ /\ entry' # "loaded" /\ saving' = saving
         /\ entry \notin {"setup", "stopping", "resuming"}
         /\ queue' = queue \/ \E k \in LifeKinds : queue' = Append(queue, Call(k, NoTime))
  BY <1>1 DEF LifeCycle, Load, ReadStore, LoadFails, RollBack, BeginSetup, BeginStop, FinishUnload,
         RejectUnload, Post, LifeKinds, config, tasks
<1>3. CASE /\ entry' # "loaded" /\ saving' = saving /\ saving
           /\ entry \notin {"setup", "stopping", "resuming"}
           /\ queue' = queue \/ \E k \in LifeKinds : queue' = Append(queue, Call(k, NoTime))
  <2>1. \A k \in LifeKinds : Call(k, NoTime) \in Jobs
    BY CallIsJob, NoneType DEF JobKinds, LifeKinds
  <2>2. Head(queue') = Head(queue)
    BY <1>1, <1>3, <2>1, AppendElements
  <2>3. ~TakingOver
    BY <1>3, NoLifeJob
  <2> QED
    BY <1>3, <2>2, <2>3 DEF Stays, InCharge, TakingOver
<1>4. CASE entry' # "loaded" /\ ~saving'
  BY <1>4 DEF Stays, InCharge, TakingOver
<1> QED
  BY <1>1, <1>2, <1>3, <1>4

LEMMA SaveEndsStays ==
  ASSUME LifeInv, SaveEnds
  PROVE  Stays
<1> DEFINE kind == Head(queue).kind
<1>1. saving /\ queue # <<>>
  BY SaveEndsSummary DEF LifeInv
<1>2. ASSUME NEW p, Release(kind, p, Tail(queue)),
             UNCHANGED <<starting, enabled, status, gate, cycles, timer>>
      PROVE  Stays
  <2> HIDE DEF kind
  <2>1. /\ saving' = FALSE /\ entry' = EntryAfter(kind)
        /\ \/ queue' = Tail(queue)
           \/ \E k \in RunKinds : queue' = Append(Tail(queue), Call(k, NoTime))
    BY <1>2, ReleaseRun
  <2>2. InCharge' => InCharge
    BY <1>1, <2>1 DEF InCharge, TakingOver, EntryAfter, kind
  <2>3. queue' = Tail(queue) \/ \E j \in Jobs : queue' = Append(Tail(queue), j)
    BY <2>1, RunCalls
  <2>4. GateEventWaits => GateEventWaits'
    BY <1>1, <2>1, <2>3, TailWaits DEF LifeInv
  <2> QED
    BY <1>2, <2>2, <2>4 DEF Stays
<1>3. CASE SetupSaveFails \/ ResumeSaveFails
  BY <1>3 DEF SetupSaveFails, ResumeSaveFails, RollBack, Stays, InCharge, TakingOver
<1>4. \/ \E p : /\ Release(kind, p, Tail(queue))
                /\ UNCHANGED <<world, phase, enabled, status, cycles, timer>>
      \/ SetupSaveFails \/ ResumeSaveFails
  BY SaveEndsSummary DEF LifeInv
<1> HIDE DEF kind
<1> QED
  BY <1>2, <1>3, <1>4 DEF world, phase

LEMMA SkipStays ==
  ASSUME LifeInv, Skip
  PROVE  Stays
<1>1. /\ queue # <<>> /\ ~saving /\ saving' = FALSE /\ queue' = Tail(queue)
      /\ entry' = entry /\ Stale(Head(queue))
      /\ UNCHANGED <<starting, enabled, status, gate, cycles, timer>>
  BY DEF Skip, world, rule, phase, LifeInv, TypeOK, TasksOK
<1>2. InCharge' => InCharge
  BY <1>1 DEF InCharge, TakingOver
<1>3. CASE GateEvent(Head(queue))
  <2>1. ~setupComplete \/ unloaded
    BY <1>1, <1>3 DEF Stale, GateEvent
  <2>2. ~InCharge'
    BY <1>2, <2>1, ChargePhase
  <2> QED
    BY <2>2 DEF Stays
<1>4. CASE ~GateEvent(Head(queue))
  <2>1. GateEventWaits => GateEventWaits'
    BY <1>1, <1>4, TailWaits DEF LifeInv
  <2> QED
    BY <1>1, <1>2, <2>1 DEF Stays
<1> QED
  BY <1>3, <1>4

LEMMA StaysNext ==
  ASSUME LifeInv, [Next]_vars, ~Section \/ Skip
  PROVE  Stays
<1>1. CASE UNCHANGED vars
  <2>1. /\ UNCHANGED <<entry, saving, starting, enabled, status, gate, cycles, timer>>
        /\ queue' = queue
    BY <1>1 DEF vars, world, rule, phase, tasks
  <2> QED
    BY <2>1, QuietStep DEF LifeInv
<1> QED
  BY <1>1, HomeStays, ExecutionStays, LifeCycleStays, SaveEndsStays, SkipStays DEF Next

-----------------------------------------------------------------------------
(* Claims and retries *)

\* Matching the cycles to the reports adds no claim and no retry.
LEMMA SyncedMix ==
  ASSUME NEW cs \in Cycles, NEW seen, NEW since, NEW ok
  PROVE  /\ Handled(Synced(cs, seen, since, ok)) \subseteq Handled(cs)
         /\ Retrying(Synced(cs, seen, since, ok)) \subseteq Retrying(cs)
<1>1. ASSUME NEW e \in Entities
      PROVE  \/ Synced(cs, seen, since, ok)[e] = cs[e]
             \/ /\ Synced(cs, seen, since, ok)[e].handled = FALSE
                /\ Synced(cs, seen, since, ok)[e].retryAt = NoTime
  BY DEF Synced, NoCycle
<1> QED
  BY <1>1 DEF Handled, Retrying, Pending, Active

LEMMA ClaimsDoNotMix ==
  ASSUME NEW cs \in Cycles
  PROVE  /\ Retrying(Claimed(cs)) = {} /\ Handled(Unclaimed(cs)) = {}
         /\ \A at \in Int : retry > 0 => Handled(Rearmed(cs, at, retry)) = {}
<1>1. \A c \in Cycle : /\ [c EXCEPT !.handled = TRUE].handled = TRUE
                       /\ [c EXCEPT !.handled = FALSE].handled = FALSE
  BY DEF Cycle
<1>2. \A e \in Entities : cs[e] \in Cycle
  BY DEF Cycles
<1>3. \A e \in Entities : Claimed(cs)[e] = NoCycle \/ Claimed(cs)[e].handled
  BY <1>1, <1>2 DEF Claimed
<1>4. \A e \in Entities : ~Unclaimed(cs)[e].handled
  BY <1>1, <1>2 DEF Unclaimed
<1>5. ASSUME NEW at \in Int, retry > 0, NEW e \in Entities
      PROVE  ~Rearmed(cs, at, retry)[e].handled
  BY <1>2, <1>5 DEF Rearmed, Cycle
<1> QED
  BY <1>3, <1>4, <1>5 DEF Handled, Retrying, Pending, Active

LEMMA SectionMix ==
  ASSUME CycleInv, NEW kind, NEW p, NEW q, SectionRuns(kind, p, q), SectionCycles(kind, p),
         SectionSaves(kind, p, q) \/ SectionWaits(kind, p, q), ~starting'
  PROVE  NoMix(cycles')
<1>1. PICK synced \in Cycles, cs \in Cycles :
        /\ SectionLooks(kind, synced) /\ SectionRearms(kind, synced, cs)
        /\ SectionClaims(kind, p, cs)
  BY DEF SectionCycles
<1>2. retry > 0 /\ cycles \in Cycles /\ starting \in BOOLEAN
  BY DEF CycleInv, RetryOK, LifeInv, TypeOK, RuleOK, PhaseOK
<1>3. starting => kind \in {"started", "resume"}
  BY <1>2 DEF SectionSaves, SectionWaits
<1>4. NoMix(cs)
  <2>1. CASE Handled(cs) = {}
    BY <2>1 DEF NoMix
  <2>2. CASE /\ cs = synced /\ kind \notin {"started", "finish", "cancelled", "blocked"}
             /\ kind = "setup" \/ (kind = "resume" /\ starting) => starting'
    <3>1. kind # "setup" /\ ~starting
      BY <1>3, <2>2
    <3>2. NoMix(cycles)
      BY <3>1 DEF CycleInv, RetryOK
    <3>3. synced = cycles \/ \E seen, since : synced = Synced(cycles, seen, since, allowed)
      BY <1>1, <3>1 DEF SectionLooks, Sync
    <3> QED
      BY <1>2, <2>2, <3>2, <3>3, SyncedMix DEF NoMix
  <2>3. CASE /\ kind \in {"setup", "started", "resume", "finish", "cancelled"}
             /\ cs = Rearmed(synced, MomentOf(kind), retry)
    <3>1. TypeOK /\ kind # "deadline"
      BY <2>3 DEF CycleInv, LifeInv
    <3>2. MomentOf(kind) \in Int
      BY <3>1, MomentType
    <3> QED
      BY <1>2, <2>1, <2>3, <3>2, ClaimsDoNotMix
  <2>4. CASE cs = Unclaimed(synced)
    BY <2>1, <2>4, ClaimsDoNotMix
  <2> QED
    BY <1>1, <2>2, <2>3, <2>4 DEF SectionRearms
<1>5. Claimed(cs) \in Cycles
  BY ChangedCycles
<1> QED
  BY <1>1, <1>4, <1>5, ClaimsDoNotMix DEF SectionClaims, NoMix

LEMMA PlainStep ==
  ASSUME LifeInv, [Next]_vars
  PROVE  /\ retry' \in {retry} \cup RetryIntervals
         /\ \/ UNCHANGED <<cycles, starting>> \/ cycles' = NoCycles
            \/ Section /\ ~Skip
<1> USE DEF LifeInv
<1>1. CASE Tick \/ Fire \/ Environment
  <2>1. CASE Crash
    BY <2>1 DEF Crash
  <2>2. CASE ~Crash
    BY <1>1, <2>2, HomeSummary DEF config
  <2> QED
    BY <2>1, <2>2
<1>2. CASE Execution
  BY <1>2, ExecutionSummary DEF config, rule, phase
<1>3. CASE LifeCycle
  BY <1>3 DEF LifeCycle, Load, ReadStore, LoadFails, RollBack, BeginSetup, BeginStop,
              FinishUnload, RejectUnload, config, rule, phase
<1>4. CASE Skip \/ UNCHANGED vars
  BY <1>4 DEF Skip, vars, config, rule, phase
<1>5. CASE Section /\ ~Skip
  BY <1>5, SectionSummary DEF SectionRuns
<1>6. CASE SaveEnds
  BY <1>6, SaveEndsSummary DEF config, phase, SetupSaveFails, ResumeSaveFails, RollBack
<1> QED
  BY <1>1, <1>2, <1>3, <1>4, <1>5, <1>6 DEF Next

LEMMA RetryNext ==
  ASSUME 0 \notin RetryIntervals, CycleInv, [Next]_vars
  PROVE  RetryOK'
<1>1. retry' > 0
  <2>1. retry' \in {retry} \cup RetryIntervals
    BY PlainStep DEF CycleInv
  <2>2. retry' \in RetryIntervals => retry' \in Nat /\ retry' # 0
    BY ControllerAssumption
  <2>3. retry' \in RetryIntervals => retry' > 0
    BY <2>2
  <2> QED
    BY <2>1, <2>3 DEF CycleInv, RetryOK
<1>2. ~starting' => NoMix(cycles')
  <2>1. CASE UNCHANGED <<cycles, starting>>
    BY <2>1 DEF CycleInv, RetryOK
  <2>2. CASE cycles' = NoCycles
    BY <2>2 DEF NoMix, Handled, Active, NoCycles
  <2>3. CASE Section /\ ~Skip
    BY <2>3, SectionSummary, SectionMix DEF CycleInv, LifeInv
  <2> QED
    BY <2>1, <2>2, <2>3, PlainStep DEF CycleInv
<1>3. RetryOK' <=> retry' > 0 /\ (~starting' => NoMix(cycles'))
  BY DEF RetryOK, NoMix, Handled, Retrying, Pending, Active
<1> QED
  BY <1>1, <1>2, <1>3

-----------------------------------------------------------------------------
(* The locked sections *)

\* The facts about types that the sections need.
LEMMA SectionFacts ==
  ASSUME CycleInv
  PROVE  /\ WorldOK /\ TasksOK /\ cycles \in Cycles /\ enabled \in BOOLEAN
         /\ now \in Int /\ Sync(cycles) \in Cycles
         /\ Rearmed(Sync(cycles), now, retry) \in Cycles
<1>1. WorldOK /\ TasksOK /\ cycles \in Cycles /\ enabled \in BOOLEAN /\ now \in Int
  BY DEF CycleInv, LifeInv, TypeOK, WorldOK, RuleOK
<1>2. Sync(cycles) \in Cycles
  BY <1>1, SyncType
<1> QED
  BY <1>1, <1>2, RearmedType DEF CycleInv, LifeInv

\* A section decides, with one of three times, or it leaves the timer, if it
\* does not clear it, for one of a few reasons.
Decides ==
  \E t \in Int, cs \in Cycles : \E un :
    /\ t \in {now, run.at} \/ (Head(queue).kind = "deadline" /\ t = Head(queue).at)
    /\ Install(Reconciled(cs, un, enabled', t))

\* The end of an execution decides what follows unless the rule is unloaded or,
\* with retries, nothing is tracked any more.
NothingLeft ==
  /\ Head(queue).kind = "finish" /\ cycles' = Rearmed(Sync(cycles), run.at, retry)
  /\ Active(cycles') = {} /\ timer' = timer /\ status' # "countdown"

\* A recovery that takes no claim back decides nothing.
Recovers ==
  /\ Head(queue).kind = "cancelled" /\ cycles' = Sync(cycles)
  /\ timer' = timer /\ status' = status /\ queue' = queue

\* One that does leaves only retries to wait for, and none of them is due: that
\* a plan follows (controller.py:582) does not happen.
LEMMA RecoveryWaits ==
  ASSUME CycleInv, ~starting, NEW synced, synced = Sync(cycles),
         NEW rearmed, rearmed = Rearmed(synced, now, retry), rearmed # synced,
         NEW un, NEW on
  PROVE  Reconciled(rearmed, un, on, now).plan = NoPlan
<1>1. /\ synced \in Cycles /\ rearmed \in Cycles /\ now \in Int /\ retry \in Nat /\ retry > 0
      /\ NoMix(cycles)
  BY SectionFacts DEF CycleInv, RetryOK, LifeInv, TypeOK, ConfigOK
<1>2. PICK e \in Entities : synced[e].handled
  <2>1. synced = [e \in Entities |-> synced[e]]
    BY <1>1 DEF Cycles
  <2> QED
    BY <2>1 DEF Rearmed
<1>3. Retrying(synced) = {}
  <2>1. e \in Handled(synced)
    BY <1>2 DEF Handled, Active, NoCycle
  <2>2. Handled(cycles) # {}
    BY <2>1, SyncedMix, SectionFacts DEF Sync
  <2> QED
    BY <1>1, <2>2, SyncedMix, SectionFacts DEF NoMix, Sync
<1>4. \A f \in Retrying(rearmed) : rearmed[f].retryAt = now + retry
  <2> SUFFICES ASSUME NEW f \in Entities, rearmed[f].retryAt # NoTime, rearmed[f] # NoCycle,
                      ~rearmed[f].handled
               PROVE  rearmed[f].retryAt = now + retry
    BY DEF Retrying, Pending, Handled, Active
  <2>1. synced[f] \in Cycle
    BY <1>1 DEF Cycles
  <2>2. CASE synced[f].handled
    BY <1>1, <2>1, <2>2 DEF Rearmed, Cycle
  <2>3. CASE ~synced[f].handled
    BY <1>3, <2>3 DEF Rearmed, Retrying, Pending, Handled, Active
  <2> QED
    BY <2>2, <2>3
<1>5. e \in Retrying(rearmed)
  <2>1. synced[e] \in Cycle
    BY <1>1 DEF Cycles
  <2>2. /\ rearmed[e].retryAt = now + retry /\ ~rearmed[e].handled
        /\ rearmed[e].started = synced[e].started
    BY <1>1, <1>2, <2>1 DEF Rearmed, Cycle
  <2>3. now + retry # NoTime
    BY <1>1 DEF CycleInv, LifeInv, TypeOK, WorldOK, NoTime
  <2>4. rearmed[e] # NoCycle
    BY <2>2, <2>3 DEF NoCycle
  <2> QED
    BY <2>2, <2>3, <2>4 DEF Retrying, Pending, Handled, Active
<1>6. ~Due(rearmed, now)
  <2>1. Trigger(rearmed) \in Retrying(rearmed)
    <3>1. Pending(rearmed) # {}
      BY <1>5 DEF Retrying
    <3> QED
      BY <1>1, <1>5, <3>1, TriggerIsPending
  <2>2. rearmed[Trigger(rearmed)].retryAt = now + retry /\ now + retry # NoTime
    BY <1>4, <2>1 DEF Retrying
  <2>3. TriggerDeadline(rearmed) = now + retry
    BY <2>2 DEF TriggerDeadline, Deadline
  <2> QED
    BY <1>1, <2>3 DEF Due
<1> QED
  BY <1>6 DEF Reconciled, Outcome

LEMMA SectionTimer ==
  ASSUME CycleInv, Section
  PROVE  /\ gate' = gate /\ enabled' \in BOOLEAN
         /\ \/ Decides
            \/ /\ timer' \in {timer, NoTime, now}
               /\ starting' \/ ~enabled' \/ unloaded' \/ Skip \/ NothingLeft \/ Recovers
<1>1. gate' = gate /\ enabled' \in BOOLEAN
  <2>1. gate' = gate
    BY DEF Section, Skip, EventWhileStarting, HandleEvent, HandleDeadline, HandleEnable,
           HandleDisable, HandleStarted, SetUpWhileStarting, HandleSetup, HandleStop,
           ResumeWhileStarting, HandleResume, HandleBlocked, HandleFinish, HandleCancelled, Recovery, world
  <2>2. enabled' \in {enabled, TRUE, FALSE, Restored.enabled}
    BY DEF Section, Skip, EventWhileStarting, HandleEvent, HandleDeadline, HandleEnable,
           HandleDisable, HandleStarted, SetUpWhileStarting, HandleSetup, HandleStop,
           ResumeWhileStarting, HandleResume, HandleBlocked, HandleFinish, HandleCancelled, Recovery, rule
  <2>3. enabled \in BOOLEAN /\ Restored.enabled \in BOOLEAN
    BY RestoredType DEF CycleInv, LifeInv, TypeOK, RuleOK
  <2> QED
    BY <2>1, <2>2, <2>3
<1>2. CASE HandleEvent
  <2> DEFINE j == Head(queue)
             un == Unreadable(Seen(j), allowed)
             cs == Synced(cycles, Seen(j), Since(j), allowed)
  <2>1. cs \in Cycles
    BY <1>2, SectionFacts, SyncType, HeadType DEF HandleEvent, Holds
  <2>2. Install(Reconciled(cs, un, enabled', now))
    BY <1>2 DEF HandleEvent
  <2> HIDE DEF cs, un
  <2> QED
    BY <1>1, <2>1, <2>2, SectionFacts DEF Decides
<1>3. CASE HandleDeadline
  <2>1. Head(queue).at \in Int /\ Head(queue).kind = "deadline"
    BY <1>3, SectionFacts, HeadType DEF HandleDeadline, Holds, Jobs
  <2>2. \E un : Install(Reconciled(Sync(cycles), un, enabled', Head(queue).at))
    BY <1>3 DEF HandleDeadline
  <2> QED
    BY <1>1, <2>1, <2>2, SectionFacts DEF Decides
<1>4. CASE HandleEnable
  <2>1. ~starting => \E un : Install(Reconciled(Sync(cycles), un, enabled', now))
    BY <1>4 DEF HandleEnable
  <2>2. starting => starting' /\ timer' = timer
    BY <1>4 DEF HandleEnable, Install, Outcome, phase
  <2> QED
    BY <1>1, <2>1, <2>2, SectionFacts DEF Decides
<1>5. CASE HandleStarted
  <2>1. \E un : Install(Reconciled(Rearmed(Sync(cycles), now, retry), un, enabled', now))
    BY <1>5 DEF HandleStarted
  <2> QED
    BY <1>1, <2>1, SectionFacts DEF Decides
<1>6. CASE HandleSetup
  <2> DEFINE m == Restored
             cs == Rearmed(Sync(m.cycles), now, retry)
  <2>1. \E un : Install(Reconciled(cs, un, enabled', now))
    BY <1>6 DEF HandleSetup
  <2>2. m.cycles \in Cycles
    BY RestoredType DEF CycleInv, LifeInv, TypeOK
  <2> HIDE DEF m
  <2>3. cs \in Cycles
    BY <2>2, SectionFacts, SyncType, RearmedType DEF CycleInv, LifeInv
  <2> HIDE DEF cs
  <2> QED
    BY <1>1, <2>1, <2>3, SectionFacts DEF Decides
<1>7. CASE HandleResume
  <2> DEFINE cs == IF starting THEN Rearmed(Sync(cycles), now, retry) ELSE Sync(cycles)
  <2>1. \E un : Install(Reconciled(cs, un, enabled', now))
    BY <1>7 DEF HandleResume
  <2>2. cs \in Cycles
    BY SectionFacts
  <2> HIDE DEF cs
  <2> QED
    BY <1>1, <2>1, <2>2, SectionFacts DEF Decides
<1>8. CASE HandleBlocked
  <2>1. Install(Reconciled(Unclaimed(cycles), unavailable, enabled', now))
    BY <1>8 DEF HandleBlocked
  <2>2. Unclaimed(cycles) \in Cycles
    BY SectionFacts, ChangedCycles
  <2> QED
    BY <1>1, <2>1, <2>2, SectionFacts DEF Decides
<1>9. CASE HandleFinish
  <2> DEFINE un == Unreadable(entState, allowed)
             cs == Rearmed(Sync(cycles), run.at, retry)
             st == IF run.failed THEN "error" ELSE "completed"
  <2>1. run.at \in Int /\ cs \in Cycles
    <3>1. run.at \in Int
      BY NoneType DEF CycleInv, LifeInv, TypeOK, TasksOK, Runs, NoRun
    <3>2. Sync(cycles) \in Cycles /\ retry \in Nat
      BY SectionFacts DEF CycleInv, LifeInv, TypeOK, ConfigOK
    <3> QED
      BY <3>1, <3>2, ChangedCycles
  <2>2. CASE Active(cs) # {} /\ ~unloaded
    <3>1. Install(Reconciled(cs, un, enabled', run.at))
      BY <1>9, <2>2 DEF HandleFinish, CycleInv, RetryOK
    <3> HIDE DEF cs, un
    <3> QED
      BY <1>1, <2>1, <3>1 DEF Decides
  <2>3. CASE Active(cs) = {} \/ unloaded
    <3>1. /\ cycles' = cs /\ timer' = timer /\ status' = st /\ unloaded' = unloaded
          /\ Head(queue).kind = "finish"
      BY <1>9, <2>3 DEF HandleFinish, Holds, Install, Outcome, phase
    <3>2. st # "countdown"
      OBVIOUS
    <3> QED
      BY <1>1, <2>3, <3>1, <3>2 DEF NothingLeft
  <2> QED
    BY <2>2, <2>3
<1>10. CASE HandleStop
  <2>1. queue # <<>> /\ Head(queue).kind = "stop" /\ unloaded' = unloaded /\ timer' = NoTime
    BY <1>10 DEF HandleStop, Holds, phase
  <2>2. entry = "stopping"
    BY <2>1, SectionFacts, KindsTail DEF CycleInv, LifeInv, LifeOK, JobsOK, Fits, TasksOK
  <2> QED
    BY <1>1, <2>1, <2>2 DEF CycleInv, LifeInv, LifeOK, Retired
<1>11. CASE EventWhileStarting \/ HandleDisable \/ SetUpWhileStarting \/ ResumeWhileStarting
  <2>1. EventWhileStarting => starting' /\ timer' = timer
    BY DEF EventWhileStarting, phase
  <2>2. SetUpWhileStarting \/ ResumeWhileStarting => starting' /\ timer' = timer
    BY DEF SetUpWhileStarting, ResumeWhileStarting
  <2>3. HandleDisable => ~enabled' /\ timer' = NoTime
    BY DEF HandleDisable
  <2> QED
    BY <1>1, <1>11, <2>1, <2>2, <2>3
<1>12. CASE Skip
  BY <1>1, <1>12 DEF Skip, rule
<1>13. CASE HandleCancelled
  <2> DEFINE un == Unreadable(entState, allowed)
             synced == Sync(cycles)
             rearmed == Rearmed(synced, now, retry)
             r == Reconciled(rearmed, un, enabled, now)
  <2>1. /\ Head(queue).kind = "cancelled" /\ UNCHANGED <<starting, unloaded, enabled>>
    BY <1>13 DEF HandleCancelled, Recovery, Holds, phase
  <2>2. CASE rearmed = synced \/ unloaded
    <3>1. /\ timer' = timer /\ cycles' = rearmed /\ status' = status
          /\ queue' = queue
      BY <1>13, <2>2 DEF HandleCancelled, Recovery, Install, Outcome, Save
    <3> HIDE DEF rearmed
    <3> QED
      BY <1>1, <2>1, <2>2, <3>1 DEF Recovers
  <2>3. CASE rearmed # synced /\ ~unloaded
    <3>1. CASE r.plan # NoPlan
      <4>1. starting
        BY <2>3, <3>1, RecoveryWaits
      <4>2. timer' = now
        BY <1>13, <2>3, <3>1 DEF HandleCancelled, Recovery, Install, Outcome
      <4> QED
        BY <1>1, <2>1, <4>1, <4>2
    <3>2. CASE r.plan = NoPlan
      <4>1. Install(r)
        BY <1>13, <2>3, <3>2 DEF HandleCancelled, Recovery
      <4>2. rearmed \in Cycles /\ now \in Int
        BY SectionFacts
      <4> HIDE DEF rearmed, un
      <4>3. Install(Reconciled(rearmed, un, enabled', now))
        BY <2>1, <4>1
      <4> QED
        BY <1>1, <4>2, <4>3 DEF Decides
    <3> QED
      BY <3>1, <3>2
  <2> QED
    BY <2>2, <2>3
<1> QED
  BY <1>2, <1>3, <1>4, <1>5, <1>6, <1>7, <1>8, <1>9, <1>10, <1>11, <1>12, <1>13 DEF Section

LEMMA SectionStep ==
  ASSUME Inv, LifeInv', Section
  PROVE  TimerInv'
<1>1. gate' = gate /\ enabled' \in BOOLEAN /\ CycleInv
  BY SectionTimer DEF Inv
<1>2. CASE Decides
  <2>1. PICK t \in Int, cs \in Cycles : \E un : Install(Reconciled(cs, un, enabled', t))
    BY <1>2 DEF Decides
  <2> QED
    BY <1>1, <2>1, InstalledArms DEF TimerInv
<1>3. CASE starting' \/ ~enabled'
  BY <1>3 DEF TimerInv, Armed
<1>4. CASE unloaded'
  BY <1>4 DEF LifeInv, LifeOK, TimerInv
<1>5. CASE Skip
  BY <1>1, <1>5, SkipStays DEF CycleInv, Inv, Stays, TimerInv, Armed
<1>6. CASE NothingLeft
  BY <1>6 DEF NothingLeft, TimerInv, Armed, Pending
<1>7. ~Skip => ~Recovers
  <2>1. queue \in Seq(Jobs) /\ "cancelled" \notin Kinds(queue)
    BY DEF Inv, CycleInv, LifeInv, NoRecovery, TypeOK, TasksOK
  <2>2. ~Skip => queue # <<>>
    BY <1>1, SectionSummary DEF CycleInv, LifeInv, SectionRuns
  <2> QED
    BY <2>1, <2>2, KindsTail DEF Recovers
<1> QED
  BY <1>1, <1>2, <1>3, <1>4, <1>5, <1>6, <1>7, SectionTimer

-----------------------------------------------------------------------------
(* Where no task is cancelled *)

\* A section, or the end of its save, queues no recovery.
LEMMA ReleaseRecovers ==
  ASSUME TypeOK, NoRecovery, queue # <<>>, NEW q, q = queue \/ q = Outdated(queue),
         queue' = q \/ \E kind, p : Release(kind, p, Tail(q))
  PROVE  NoRecovery'
<1>1. /\ q \in Seq(Jobs) /\ Tail(q) \in Seq(Jobs)
      /\ Kinds(q) \subseteq Kinds(queue) \cup {"outdated"} /\ Kinds(Tail(q)) \subseteq Kinds(q)
  BY SectionQueue
<1>2. "cancelled" \notin Kinds(q) /\ "cancelled" \notin Kinds(Tail(q))
  BY <1>1 DEF NoRecovery
<1>3. ASSUME NEW kind, NEW p, Release(kind, p, Tail(q))
      PROVE  "cancelled" \notin Kinds(queue')
  <2>1. \/ queue' = Tail(q)
        \/ \E k \in RunKinds : queue' = Append(Tail(q), Call(k, NoTime))
    BY <1>3, ReleaseRun
  <2>2. ASSUME NEW k \in RunKinds
        PROVE  Kinds(Append(Tail(q), Call(k, NoTime))) = Kinds(Tail(q)) \cup {k}
    BY <1>1, RunCalls, KindsAppend
  <2> QED
    BY <1>2, <2>1, <2>2 DEF RunKinds
<1> QED
  BY <1>2, <1>3 DEF NoRecovery, Kinds

LEMMA NoRecoveryNext ==
  ASSUME "cancel" \notin Moves, LifeInv, NoRecovery, [Next]_vars
  PROVE  NoRecovery'
<1>1. queue \in Seq(Jobs) /\ "cancelled" \notin Kinds(queue) /\ TypeOK /\ TaskOK
  BY DEF LifeInv, TypeOK, TasksOK, NoRecovery
<1>2. ASSUME NEW j \in Jobs, j.kind # "cancelled"
      PROVE  "cancelled" \notin Kinds(Append(queue, j))
  BY <1>1, <1>2, KindsAppend
<1>3. NoRecovery' <=> "cancelled" \notin Kinds(queue')
  BY DEF NoRecovery, Kinds
<1>4. CASE Tick \/ Fire \/ Environment
  <2>1. CASE Crash
    BY <1>3, <2>1, KindsEmpty DEF Crash
  <2>2. CASE ~Crash
    <3>1. \/ queue' = queue
          \/ \E j \in Jobs : queue' = Append(queue, j) /\ j.kind # "cancelled"
      BY <1>1, <1>4, <2>2, HomeSummary
    <3> QED
      BY <1>1, <1>2, <1>3, <3>1
  <2> QED
    BY <2>1, <2>2
<1>5. CASE LifeCycle
  <2>1. \/ queue' = queue \/ queue' = Outdated(queue)
        \/ \E k \in LifeKinds : queue' = Append(queue, Call(k, NoTime))
    BY <1>5 DEF LifeCycle, Load, ReadStore, LoadFails, RollBack, BeginSetup, BeginStop,
                FinishUnload, RejectUnload, Post, LifeKinds, tasks
  <2>2. "cancelled" \notin Kinds(Outdated(queue))
    BY <1>1, KindsOutdated
  <2>3. ASSUME NEW k \in LifeKinds
        PROVE  Call(k, NoTime) \in Jobs /\ Call(k, NoTime).kind # "cancelled"
    BY CallIsJob, NoneType DEF JobKinds, LifeKinds, Call, Job
  <2> QED
    BY <1>1, <1>2, <1>3, <2>1, <2>2, <2>3
<1>6. CASE Skip
  BY <1>1, <1>3, <1>6, KindsTail DEF Skip
<1>7. CASE Section /\ ~Skip
  <2>1. PICK kind, p, q : /\ SectionRuns(kind, p, q)
                          /\ SectionSaves(kind, p, q) \/ SectionWaits(kind, p, q)
    BY <1>1, <1>7, SectionSummary
  <2>2. queue # <<>> /\ (q = queue \/ q = Outdated(queue))
    BY <2>1 DEF SectionRuns
  <2>3. queue' = q \/ Release(kind, p, Tail(q))
    BY <2>1 DEF SectionSaves, SectionWaits, Save
  <2> QED
    BY <1>1, <2>2, <2>3, ReleaseRecovers
<1>8. CASE SaveEnds
  <2>1. queue # <<>>
    BY <1>1, <1>8, SaveEndsSummary
  <2>2. CASE SetupSaveFails \/ ResumeSaveFails
    <3>1. queue' = Outdated(Tail(queue))
      BY <2>2 DEF SetupSaveFails, ResumeSaveFails, RollBack
    <3>2. Tail(queue) \in Seq(Jobs) /\ "cancelled" \notin Kinds(Tail(queue))
      BY <1>1, <2>1, KindsTail, TailElements
    <3> QED
      BY <1>3, <3>1, <3>2, KindsOutdated
  <2>3. CASE \E kind, p : Release(kind, p, Tail(queue))
    BY <1>1, <2>1, <2>3, ReleaseRecovers
  <2> QED
    BY <1>1, <1>8, <2>2, <2>3, SaveEndsSummary
<1>9. CASE Execution
  <2>1. queue' = queue \/ \E k \in RunKinds : queue' = Append(queue, Call(k, NoTime))
    BY <1>9 DEF Execution, ServiceReturns, ServiceFails, ConfirmEnds, StartNext, Cancel,
                CancelWaiting, Proceed, Begin, Advance, RunKinds
  <2>2. \A k \in RunKinds : Call(k, NoTime) \in Jobs /\ Call(k, NoTime).kind # "cancelled"
    BY RunCalls DEF RunKinds
  <2> QED
    BY <1>1, <1>2, <1>3, <2>1, <2>2
<1>10. CASE UNCHANGED vars
  BY <1>1, <1>3, <1>10 DEF vars, tasks
<1> QED
  BY <1>4, <1>5, <1>6, <1>7, <1>8, <1>9, <1>10 DEF Next

LEMMA InvInit ==
  ASSUME 0 \notin RetryIntervals, Init
  PROVE  Inv
<1>1. LifeInv
  BY LifeInit
<1>2. RetryOK
  <2>1. retry \in Nat /\ retry # 0
    BY ControllerAssumption DEF Init
  <2>2. retry > 0
    BY <2>1
  <2> QED
    BY <2>2 DEF Init, RetryOK, NoMix, Handled, Active, NoCycles
<1>3. NoRecovery
  BY KindsEmpty DEF Init, NoRecovery
<1>4. TimerInv
  BY DEF Init, TimerInv, InCharge, TakingOver
<1> QED
  BY <1>1, <1>2, <1>3, <1>4 DEF Inv, CycleInv

LEMMA InvNext ==
  ASSUME 0 \notin RetryIntervals, "cancel" \notin Moves, Inv, [Next]_vars
  PROVE  Inv'
<1>1. LifeInv' /\ RetryOK' /\ NoRecovery'
  BY LifeNext, RetryNext, NoRecoveryNext DEF Inv, CycleInv
<1>2. ASSUME ~Section \/ Skip PROVE TimerInv'
  <2>1. Stays
    BY <1>2, StaysNext DEF Inv, CycleInv
  <2> QED
    BY <2>1 DEF Inv, Stays, TimerInv, Armed
<1>3. ASSUME Section PROVE TimerInv'
  BY <1>1, <1>3, SectionStep
<1> QED
  BY <1>1, <1>2, <1>3 DEF Inv, CycleInv

-----------------------------------------------------------------------------
(* Times *)

\* Nothing in force is earlier than the clock's start.
OnTime(q) == \A i \in 1..Len(q) : q[i].kind = "deadline" => q[i].at >= NoTime
ClockOK == timer >= NoTime /\ run.at >= NoTime /\ OnTime(queue)

LEMMA OnTimeQueues ==
  ASSUME NEW q \in Seq(Jobs), OnTime(q)
  PROVE  /\ OnTime(Outdated(q))
         /\ \A j \in Jobs : j.kind # "deadline" \/ j.at >= NoTime => OnTime(Append(q, j))
         /\ q # <<>> => OnTime(Tail(q)) /\ (Head(q).kind = "deadline" => Head(q).at >= NoTime)
<1>1. OnTime(Outdated(q))
  <2>1. Kinds(Outdated(q)) \subseteq (Kinds(q) \ {"deadline"}) \cup {"outdated"}
    BY KindsOutdated
  <2> QED
    BY <2>1 DEF OnTime, Kinds
<1>2. ASSUME NEW j \in Jobs, j.kind # "deadline" \/ j.at >= NoTime PROVE OnTime(Append(q, j))
  <2>1. /\ Len(Append(q, j)) = Len(q) + 1 /\ Len(q) \in Nat /\ Append(q, j)[Len(q) + 1] = j
        /\ \A i \in 1..Len(q) : Append(q, j)[i] = q[i]
    BY AppendElements
  <2>2. \A i \in 1..Len(Append(q, j)) : i \in 1..Len(q) \/ Append(q, j)[i] = j
    BY <2>1
  <2> QED
    BY <1>2, <2>1, <2>2 DEF OnTime
<1>3. ASSUME q # <<>>
      PROVE  OnTime(Tail(q)) /\ (Head(q).kind = "deadline" => Head(q).at >= NoTime)
  <2>1. /\ Len(q) \in Nat /\ Len(q) > 0 /\ Head(q) = q[1]
        /\ \A i \in 1..Len(Tail(q)) : i + 1 \in 1..Len(q) /\ Tail(q)[i] = q[i + 1]
    BY <1>3, TailElements
  <2>2. 1 \in 1..Len(q)
    BY <2>1
  <2> QED
    BY <2>1, <2>2 DEF OnTime
<1> QED
  BY <1>1, <1>2, <1>3

\* The time of an execution is that of its end.
LEMMA RunTimes ==
  /\ \A p, todo, failed, host, q : Advance(p, todo, failed, host, q) => run'.at \in {now, NoTime}
  /\ \A p, host, q : Begin(p, host, q) => run'.at \in {now, NoTime}
  /\ \A kind, p, q : Release(kind, p, q) => run'.at \in {run.at, now, NoTime}
<1>1. \A p, todo, failed, host, q : Advance(p, todo, failed, host, q) => run'.at \in {now, NoTime}
  BY DEF Advance
<1>2. ASSUME NEW p, NEW host, NEW q, Begin(p, host, q) PROVE run'.at \in {now, NoTime}
  <2>1. CASE gate # "off"
    BY <1>2, <2>1 DEF Begin
  <2>2. CASE gate = "off"
    BY <1>1, <1>2, <2>2 DEF Begin
  <2> QED
    BY <2>1, <2>2
<1>3. ASSUME NEW kind, NEW p, NEW q, Release(kind, p, q)
      PROVE  run'.at \in {run.at, now, NoTime}
  <2>1. EndRun(q) => run'.at = NoTime
    BY DEF EndRun, NoRun
  <2>2. Dispatch(p, HostOf(kind), q) => run'.at \in {run.at, now, NoTime}
    BY <1>2 DEF Dispatch
  <2> QED
    BY <1>2, <1>3, <2>1, <2>2 DEF Release
<1> QED
  BY <1>1, <1>2, <1>3

\* What a decision schedules is later than the time it is made at, and is shown.
LEMMA DecidedShows ==
  ASSUME NEW cs \in Cycles, NEW un, NEW on, NEW t \in Int, t >= NoTime,
         NEW r, r = Reconciled(cs, un, on, t)
  PROVE  /\ r.timer >= NoTime /\ (r.status = "countdown" <=> r.timer # NoTime)
         /\ r.timer # NoTime => Active(r.cycles) # {}
<1>1. CASE on /\ Active(cs) # {} /\ gate = "off" /\ Pending(cs) # {} /\ ~Due(cs, t)
  <2>1. r = Outcome(cs, TriggerDeadline(cs), "countdown", NoPlan)
    BY <1>1 DEF Reconciled
  <2>2. TriggerDeadline(cs) \in Int
    BY <1>1, TriggerType
  <2>3. TriggerDeadline(cs) > NoTime
    BY <1>1, <2>2 DEF Due, NoTime
  <2>4. r.timer = TriggerDeadline(cs) /\ r.status = "countdown" /\ r.cycles = cs
    BY <2>1 DEF Outcome
  <2>5. TriggerDeadline(cs) >= NoTime /\ TriggerDeadline(cs) # NoTime
    BY <2>2, <2>3 DEF NoTime
  <2> QED
    BY <1>1, <2>4, <2>5
<1>2. CASE ~(on /\ Active(cs) # {} /\ gate = "off" /\ Pending(cs) # {} /\ ~Due(cs, t))
  <2>1. r.timer = NoTime /\ r.status # "countdown"
    BY <1>2 DEF Reconciled, Outcome
  <2> QED
    BY <2>1 DEF NoTime
<1> QED
  BY <1>1, <1>2

LEMMA DecidesShown ==
  ASSUME CycleInv, ClockOK, queue # <<>>, Decides
  PROVE  /\ timer' >= NoTime /\ (status' = "countdown" <=> timer' # NoTime)
         /\ timer' # NoTime => Active(cycles') # {}
<1>1. PICK t, cs, un :
        /\ t \in Int /\ cs \in Cycles
        /\ t \in {now, run.at} \/ (Head(queue).kind = "deadline" /\ t = Head(queue).at)
        /\ Install(Reconciled(cs, un, enabled', t))
  BY DEF Decides
<1>2. t >= NoTime
  <2>1. now \in Nat /\ queue \in Seq(Jobs)
    BY DEF CycleInv, LifeInv, TypeOK, WorldOK, TasksOK
  <2>2. Head(queue).kind = "deadline" => Head(queue).at >= NoTime
    BY <2>1, OnTimeQueues DEF ClockOK
  <2> QED
    BY <1>1, <2>1, <2>2 DEF ClockOK, NoTime
<1> DEFINE r == Reconciled(cs, un, enabled', t)
<1>3. /\ r.timer >= NoTime /\ (r.status = "countdown" <=> r.timer # NoTime)
      /\ r.timer # NoTime => Active(r.cycles) # {}
  BY <1>1, <1>2, DecidedShows
<1>4. cycles' = r.cycles /\ timer' = r.timer /\ status' = r.status
  BY <1>1 DEF Install
<1> QED
  BY <1>3, <1>4

LEMMA ClockNext ==
  ASSUME CycleInv, ClockOK, [Next]_vars
  PROVE  ClockOK'
<1>1. /\ TypeOK /\ TaskOK /\ queue \in Seq(Jobs) /\ now \in Nat /\ OnTime(queue)
      /\ now >= NoTime /\ NoTime >= NoTime
  BY DEF CycleInv, LifeInv, TypeOK, WorldOK, TasksOK, ClockOK, NoTime
<1>2. \A k \in JobKinds \ {"deadline"} :
        Call(k, NoTime) \in Jobs /\ Call(k, NoTime).kind # "deadline"
  BY CallIsJob, NoneType DEF Call, Job
<1>3. CASE Crash
  <2>1. timer' = NoTime /\ run'.at = NoTime /\ queue' = <<>>
    BY <1>3 DEF Crash, NoRun
  <2> QED
    BY <1>1, <2>1 DEF ClockOK, OnTime
<1>4. CASE (Tick \/ Fire \/ Environment) /\ ~Crash
  <2>1. timer' = timer /\ run' = run
    BY <1>1, <1>4, HomeSummary
  <2>2. CASE Fire
    <3>1. queue' = Append(queue, Call("deadline", timer)) /\ Call("deadline", timer) \in Jobs
      BY <1>1, <2>2, CallIsJob DEF Fire, Post, JobKinds, TypeOK, RuleOK
    <3>2. Call("deadline", timer).at >= NoTime
      BY DEF Call, Job, ClockOK
    <3> QED
      BY <1>1, <2>1, <3>1, <3>2, OnTimeQueues DEF ClockOK
  <2>3. CASE ~Fire
    <3>1. \/ queue' = queue
          \/ \E j \in Jobs : queue' = Append(queue, j) /\ j.kind # "deadline"
      <4>1. CASE \E e \in Entities, s \in Reports : Report(e, s)
        <5>1. PICK e \in Entities, s \in Reports : Report(e, s)
          BY <4>1
        <5> DEFINE j == Job("event", e, s, ChangedAt(s))
        <5>2. j \in Jobs
          BY <1>1, NoneType DEF Job, Jobs, JobKinds, ChangedAt, TypeOK, WorldOK
        <5>3. j.kind # "deadline" /\ (queue' = queue \/ queue' = Append(queue, j))
          BY <5>1 DEF Report, Notify, Post, Job
        <5> HIDE DEF j
        <5> QED
          BY <5>2, <5>3
      <4>2. CASE \E g \in {"off", "on", "bad"} : MoveGate(g)
        <5>1. PICK g \in {"off", "on", "bad"} : MoveGate(g)
          BY <4>2
        <5> DEFINE j == Job("event", Gate, g, NoTime)
        <5>2. j \in Jobs
          BY NoneType DEF Job, Jobs, JobKinds
        <5>3. j.kind # "deadline" /\ (queue' = queue \/ queue' = Append(queue, j))
          BY <5>1 DEF MoveGate, Notify, Post, Job
        <5> HIDE DEF j
        <5> QED
          BY <5>2, <5>3
      <4>3. CASE Tick \/ HaStarts \/ RequestEnable \/ RequestDisable \/ \E e : ChangeRegistry(e)
        <5>1. queue' = queue \/ \E k \in {"started", "enable", "disable"} :
                                 queue' = Append(queue, Call(k, NoTime))
          BY <4>3 DEF Tick, ChangeRegistry, HaStarts, RequestEnable, RequestDisable, Post, tasks
        <5>2. {"started", "enable", "disable"} \subseteq JobKinds \ {"deadline"}
          BY DEF JobKinds
        <5> QED
          BY <1>2, <5>1, <5>2
      <4> QED
        BY <1>4, <2>3, <4>1, <4>2, <4>3 DEF Environment
    <3> QED
      BY <1>1, <2>1, <3>1, OnTimeQueues DEF ClockOK
  <2> QED
    BY <2>2, <2>3
<1>5. CASE Execution
  <2>1. /\ timer' = timer
        /\ \/ queue' = queue
           \/ \E k \in RunKinds \cup {"cancelled"} : queue' = Append(queue, Call(k, NoTime))
    BY <1>1, <1>5, ExecutionSummary DEF rule
  <2>2. run'.at \in {run.at, now, NoTime}
    <3>1. ASSUME NEW bad, Proceed(bad) PROVE run'.at \in {now, NoTime}
      BY <3>1, RunTimes DEF Proceed
    <3>2. CASE ServiceReturns
      <4>1. CASE run' = [run EXCEPT !.stage = "confirm"]
        <5>1. run \in Runs
          BY <3>2 DEF ServiceReturns, Running, CycleInv, LifeInv, TypeOK, TasksOK
        <5> QED
          BY <4>1, <5>1 DEF Runs
      <4>2. run' = [run EXCEPT !.stage = "confirm"] \/ \E bad : Proceed(bad)
        BY <3>2 DEF ServiceReturns
      <4> QED
        BY <3>1, <4>1, <4>2
    <3>3. CASE ServiceFails \/ ConfirmEnds
      BY <3>1, <3>3 DEF ServiceFails, ConfirmEnds
    <3>4. CASE StartNext
      <4>1. Begin(Head(waiting), "task", queue)
        BY <3>4 DEF StartNext
      <4> QED
        BY <4>1, RunTimes
    <3>5. CASE Cancel
      BY <3>5 DEF Cancel, NoRun
    <3>6. CASE CancelWaiting
      BY <3>6 DEF CancelWaiting
    <3> QED
      BY <1>5, <3>2, <3>3, <3>4, <3>5, <3>6 DEF Execution
  <2>3. OnTime(queue')
    BY <1>1, <1>2, <2>1, OnTimeQueues DEF RunKinds, JobKinds
  <2> QED
    BY <1>1, <2>1, <2>2, <2>3 DEF ClockOK
<1>6. CASE LifeCycle
  <2>1. /\ timer' \in {timer, NoTime} /\ run' = run
        /\ \/ queue' \in {queue, Outdated(queue)}
           \/ \E k \in LifeKinds : queue' = Append(queue, Call(k, NoTime))
    BY <1>6 DEF LifeCycle, Load, ReadStore, LoadFails, RollBack, BeginSetup, BeginStop,
                FinishUnload, RejectUnload, Post, LifeKinds, tasks, rule
  <2>2. OnTime(queue')
    BY <1>1, <1>2, <2>1, OnTimeQueues DEF LifeKinds, JobKinds
  <2> QED
    BY <1>1, <2>1, <2>2 DEF ClockOK
<1>7. ASSUME NEW r \in Seq(Jobs), OnTime(r), NEW kind, NEW p, Release(kind, p, r)
      PROVE  OnTime(queue') /\ run'.at >= NoTime
  <2>1. queue' = r \/ \E k \in RunKinds : queue' = Append(r, Call(k, NoTime))
    BY <1>7, ReleaseRun
  <2>2. OnTime(queue')
    BY <1>2, <1>7, <2>1, OnTimeQueues DEF RunKinds, JobKinds
  <2> QED
    BY <1>1, <1>7, <2>2, RunTimes DEF ClockOK
<1>8. CASE Section /\ ~Skip
  <2>1. PICK kind, p, q : /\ SectionRuns(kind, p, q)
                          /\ SectionSaves(kind, p, q) \/ SectionWaits(kind, p, q)
    BY <1>1, <1>8, SectionSummary
  <2>2. queue # <<>> /\ (q = queue \/ q = Outdated(queue))
    BY <2>1 DEF SectionRuns
  <2>3. q \in Seq(Jobs) /\ q # <<>> /\ Tail(q) \in Seq(Jobs) /\ OnTime(q) /\ OnTime(Tail(q))
    BY <1>1, <2>2, SectionQueue, OnTimeQueues
  <2>4. timer' >= NoTime
    BY <1>1, <1>8, <2>2, SectionTimer, DecidesShown DEF ClockOK
  <2>5. (queue' = q /\ run' = run) \/ Release(kind, p, Tail(q))
    BY <2>1 DEF SectionSaves, SectionWaits, Save
  <2> QED
    BY <1>7, <2>3, <2>4, <2>5 DEF ClockOK
<1>9. CASE Skip
  <2>1. queue # <<>> /\ queue' = Tail(queue) /\ timer' = timer /\ run' = run
    BY <1>9 DEF Skip, rule
  <2> QED
    BY <1>1, <2>1, OnTimeQueues DEF ClockOK
<1>10. CASE SaveEnds
  <2>1. queue # <<>> /\ Tail(queue) \in Seq(Jobs) /\ OnTime(Tail(queue))
    BY <1>1, <1>10, SaveEndsSummary, TailElements, OnTimeQueues
  <2>2. ASSUME NEW p, Release(Head(queue).kind, p, Tail(queue)), timer' = timer PROVE ClockOK'
    BY <1>7, <2>1, <2>2 DEF ClockOK
  <2>3. CASE SetupSaveFails \/ ResumeSaveFails
    <3>1. timer' = NoTime /\ run' = run /\ queue' = Outdated(Tail(queue))
      BY <2>3 DEF SetupSaveFails, ResumeSaveFails, RollBack
    <3> QED
      BY <1>1, <2>1, <3>1, OnTimeQueues DEF ClockOK
  <2> QED
    BY <1>1, <1>10, <2>2, <2>3, SaveEndsSummary
<1>11. CASE UNCHANGED vars
  BY <1>11 DEF vars, rule, tasks, ClockOK
<1> QED
  BY <1>3, <1>4, <1>5, <1>6, <1>8, <1>9, <1>10, <1>11 DEF Next
-----------------------------------------------------------------------------
(* The timer and the status, where reports are followed *)

NoReports == \A e \in Entities : Current(Rest, e) = {}
Shown == /\ status = "countdown" <=> timer # NoTime
         /\ timer # NoTime => Active(cycles) # {}
ShownInv ==
  InCharge /\ ~starting /\ NoReports => /\ enabled => Shown
                                        /\ ~GateEventWaits => Armed

\* With no report waiting, the cycles fit what the entities show.
LEMMA NothingToSync ==
  ASSUME TypeOK, ClockedOK, AllAllowed, FollowOK, InCharge, ~starting, NoReports
  PROVE  Sync(cycles) = cycles
<1>1. cycles \in Cycles
  BY DEF TypeOK, RuleOK
<1>2. ASSUME NEW e \in Entities PROVE Sync(cycles)[e] = cycles[e]
  <2>1. /\ entState[e] = "off" => cycles[e].started = NoTime
        /\ entState[e] = "on" => cycles[e].started # NoTime
    BY DEF FollowOK, NoReports
  <2>2. cycles[e].started = NoTime <=> cycles[e] = NoCycle
    <3>1. NoCycle.started = NoTime
      BY DEF NoCycle
    <3> QED
      BY <3>1 DEF ClockedOK, Clocked
  <2> QED
    BY <2>1, <2>2 DEF Sync, Synced, AllAllowed
<1>3. Sync(cycles) = [e \in Entities |-> Sync(cycles)[e]]
  BY DEF Sync, Synced
<1>4. cycles = [e \in Entities |-> cycles[e]]
  BY <1>1 DEF Cycles
<1> QED
  BY <1>2, <1>3, <1>4

\* So the end of an execution and the recovery of one, if no report waits after
\* them, change no clock.
LEMMA NothingChanged ==
  ASSUME FollowInv, LifeInv', InCharge', ~starting', NoReports',
         NEW kind \in {"finish", "cancelled"}, NEW p, NEW q, SectionRuns(kind, p, q),
         SectionSaves(kind, p, q) \/ SectionWaits(kind, p, q)
  PROVE  InCharge /\ ~starting /\ NoReports /\ enabled' = enabled /\ Sync(cycles) = cycles
<1>1. TypeOK /\ QuietInv /\ ClockedOK /\ AllAllowed /\ FollowOK
  BY DEF FollowInv, QuietInv, LifeInv
<1>2. kind = Head(queue).kind /\ enabled' = enabled
  BY DEF SectionRuns
<1>3. ASSUME NEW e \in Entities
      PROVE  InCharge /\ ~starting /\ Current(Rest, e) = {}
  <2>1. /\ Carries(Rest, Rest', 1, e) /\ InCharge /\ ~starting /\ ~saving /\ Rest = queue
    BY <1>1, <1>2, SectionReports DEF TakesOver
  <2>2. ~EventOf(Head(queue), e)
    BY <1>2 DEF EventOf
  <2>3. Rest \in Seq(Jobs) /\ Rest' \in Seq(Jobs) /\ queue # <<>>
    BY <1>1, RestIs DEF Rest, SectionRuns, LifeInv, TypeOK, TasksOK
  <2>4. Current(Rest, e) = {} \/ Current(Rest, e) = {1}
    BY <2>1, <2>3, NoneCarried DEF NoReports
  <2>5. Rest[1] = Head(queue)
    BY <2>1, <2>3, TailCarries
  <2>6. 1 \in Current(Rest, e) => EventOf(Rest[1], e)
    BY DEF Current
  <2> QED
    BY <2>1, <2>2, <2>4, <2>5, <2>6
<1>4. InCharge /\ ~starting /\ NoReports
  BY <1>3, RuleAssumption DEF NoReports
<1> QED
  BY <1>1, <1>2, <1>4, NothingToSync

\* An execution that leaves nothing to track had left nothing before its end.
LEMMA NothingShown ==
  ASSUME FollowInv, ShownInv, Sync(cycles) = cycles, InCharge, ~starting, NoReports, enabled,
         NothingLeft
  PROVE  Shown'
<1>1. Active(cycles) = {}
  <2>1. cycles \in Cycles /\ Clocked(cycles)
    BY DEF FollowInv, QuietInv, LifeInv, TypeOK, RuleOK, ClockedOK
  <2>2. SameClocks(cycles, Rearmed(cycles, run.at, retry))
    BY <2>1, ClaimsKeepClocks
  <2>3. \A e \in Entities : Rearmed(cycles, run.at, retry)[e] = NoCycle
    BY DEF NothingLeft, Active
  <2>4. NoCycle.started = NoTime
    BY DEF NoCycle
  <2> QED
    BY <2>1, <2>2, <2>3, <2>4 DEF SameClocks, Clocked, Active
<1> QED
  BY <1>1 DEF ShownInv, Shown, NothingLeft

LEMMA ShownNext ==
  ASSUME CycleInv, ClockOK, FollowInv, LifeInv', QuietInv', ShownInv, [Next]_vars
  PROVE  ShownInv'
<1> SUFFICES ASSUME InCharge', ~starting', NoReports'
             PROVE  (enabled' => Shown') /\ (~GateEventWaits' => Armed')
  BY DEF ShownInv
<1>1. TypeOK /\ LifeInv /\ QuietInv
  BY DEF LifeInv, CycleInv, FollowInv
<1>2. CASE ~Section \/ Skip
  <2>1. \A e \in Entities : InCharge /\ UNCHANGED <<starting, cycles>> /\ Current(Rest, e) = {}
    BY <1>1, <1>2, HeardBefore DEF NoReports
  <2>2. NoReports
    BY <2>1 DEF NoReports
  <2>3. /\ InCharge /\ UNCHANGED <<starting, enabled, status, cycles, timer>>
        /\ ~GateEventWaits' => ~GateEventWaits /\ gate' = gate
    BY <1>1, <1>2, StaysNext DEF Stays
  <2> QED
    BY <2>2, <2>3 DEF ShownInv, Shown, Armed
<1>3. CASE Section /\ ~Skip
  <2>1. PICK kind, p, q : /\ SectionRuns(kind, p, q) /\ SectionCycles(kind, p)
                          /\ SectionSaves(kind, p, q) \/ SectionWaits(kind, p, q)
    BY <1>1, <1>3, SectionSummary
  <2>2. queue # <<>> /\ ~saving /\ kind = Head(queue).kind
    BY <2>1 DEF SectionRuns
  <2>3. ~unloaded' /\ gate' = gate /\ enabled' \in BOOLEAN
    BY <1>3, SectionTimer DEF LifeInv, LifeOK
  <2>4. CASE Decides
    <3>1. PICK t \in Int, cs \in Cycles : \E un : Install(Reconciled(cs, un, enabled', t))
      BY <2>4 DEF Decides
    <3>2. Armed'
      BY <2>3, <3>1, InstalledArms
    <3>3. Shown'
      BY <2>2, <2>4, DecidesShown DEF Shown
    <3> QED
      BY <3>2, <3>3
  <2>5. CASE ~enabled'
    BY <2>5 DEF Armed
  <2>6. ASSUME kind \in {"finish", "cancelled"}
        PROVE  InCharge /\ ~starting /\ NoReports /\ enabled' = enabled /\ Sync(cycles) = cycles
    BY <2>1, <2>6, NothingChanged
  <2>7. CASE NothingLeft
    <3>1. kind = "finish"
      BY <2>2, <2>7 DEF NothingLeft
    <3>2. enabled' => Shown'
      BY <2>6, <2>7, <3>1, NothingShown
    <3>3. Armed'
      BY <2>7 DEF NothingLeft, Armed, Pending
    <3> QED
      BY <3>2, <3>3
  <2>8. CASE Recovers
    <3>1. /\ InCharge /\ ~starting /\ NoReports /\ enabled' = enabled /\ cycles' = cycles
          /\ timer' = timer /\ status' = status /\ queue' = queue
      BY <2>2, <2>6, <2>8 DEF Recovers
    <3>2. GateEventWaits => GateEventWaits'
      <4>1. queue \in Seq(Jobs) /\ Head(queue) = queue[1] /\ Len(queue) \in Nat
        BY <1>1, <2>2, TailElements DEF TypeOK, TasksOK
      <4>2. ~GateEvent(queue[1])
        BY <2>8, <4>1 DEF Recovers, GateEvent
      <4>3. \A i \in 1..Len(queue) : GateEvent(queue[i]) => i > 1
        BY <4>1, <4>2
      <4> QED
        BY <3>1, <4>3 DEF GateEventWaits
    <3> QED
      BY <2>3, <3>1, <3>2 DEF ShownInv, Shown, Armed
  <2> QED
    BY <1>3, <2>3, <2>4, <2>5, <2>7, <2>8, SectionTimer
<1> QED
  BY <1>2, <1>3

LEMMA ShownAlways ==
  ASSUME 0 \notin RetryIntervals, "registry" \notin Moves, "earlytoggle" \notin Moves
  PROVE  Spec => [](LifeInv /\ ShownInv)
<1> DEFINE AllInv == CycleInv /\ FollowInv /\ ClockOK /\ ShownInv
<1>1. Init => AllInv
  <2>1. Init => ClockOK /\ ShownInv
    BY DEF Init, ClockOK, OnTime, ShownInv, InCharge, TakingOver, NoRun, NoTime
  <2> QED
    BY <2>1, InvInit, FollowInit DEF Inv
<1>2. AllInv /\ [Next]_vars => AllInv'
  <2> SUFFICES ASSUME AllInv, [Next]_vars PROVE AllInv'
    OBVIOUS
  <2>1. LifeInv' /\ RetryOK' /\ FollowInv' /\ ClockOK'
    BY LifeNext, RetryNext, FollowInvNext, ClockNext DEF CycleInv
  <2>2. QuietInv'
    BY <2>1 DEF FollowInv
  <2>3. ShownInv'
    BY <2>1, <2>2, ShownNext
  <2> QED
    BY <2>1, <2>3 DEF CycleInv
<1>3. AllInv => LifeInv /\ ShownInv
  BY DEF CycleInv
<1> QED
  BY <1>1, <1>2, <1>3, PTL DEF Spec

LEMMA ShownWhenLockFree ==
  ASSUME LifeInv, ShownInv, Live, LockFree
  PROVE  (enabled => Shown) /\ Armed
<1>1. queue = <<>> /\ ~saving /\ InCharge /\ ~starting
  BY DEF Live, LockFree, InCharge, LifeInv, TypeOK, TasksOK
<1>2. NoReports /\ ~GateEventWaits
  BY <1>1 DEF NoReports, Rest, Current, GateEventWaits
<1> QED
  BY <1>1, <1>2 DEF ShownInv

-----------------------------------------------------------------------------
(* The theorems *)

LEMMA ArmedWithoutCancel ==
  ASSUME 0 \notin RetryIntervals, "cancel" \notin Moves
  PROVE  Spec => []TimerArmed
<1>1. Init => Inv
  BY InvInit
<1>2. Inv /\ [Next]_vars => Inv'
  BY InvNext
<1>3. Inv => TimerArmed
  BY DEF Inv, TimerInv, TimerArmed, Live, LockFree, InCharge, GateEventWaits, Armed
<1> QED
  BY <1>1, <1>2, <1>3, PTL DEF Spec

\* With retries configured, a live rule with the lock free has its timer set for
\* exactly the deadline its policy asks for, whatever reports, gate moves, switch
\* calls, failed saves, cancelled tasks, reloads, crashes and restarts came
\* before. The registries may change too where no task is cancelled. (The
\* recovery of a cancelled execution, controller.py:573, matches the cycles to
\* the reports and the registries but schedules anew only if it took a claim
\* back: it can end the cycle of an entity that left the area and leave the timer
\* on its deadline.)
THEOREM TimerIsArmed ==
  ASSUME 0 \notin RetryIntervals,
         "cancel" \notin Moves \/ ("registry" \notin Moves /\ "earlytoggle" \notin Moves)
  PROVE  Spec => []TimerArmed
<1>1. CASE "cancel" \notin Moves
  BY <1>1, ArmedWithoutCancel
<1>2. CASE "registry" \notin Moves /\ "earlytoggle" \notin Moves
  <2>1. LifeInv /\ ShownInv => TimerArmed
    BY ShownWhenLockFree DEF TimerArmed, Armed
  <2>2. Spec => [](LifeInv /\ ShownInv)
    BY <1>2, ShownAlways
  <2> QED
    BY <2>1, <2>2, PTL
<1> QED
  BY <1>1, <1>2

\* With the lock free, the status of a live and enabled rule is "countdown" if
\* and only if its timer is set. The one section that could part them is the
\* end of an execution (controller.py:679), which sets the status to the
\* outcome before it knows whether it will reconcile; no decision follows only
\* if nothing is tracked, and then no timer is set. With a retry interval of
\* zero an entity that joined since is tracked at that moment, and one that
\* leaves the area takes its cycle from under the timer with no report.
THEOREM CountdownIsShown ==
  ASSUME 0 \notin RetryIntervals, "registry" \notin Moves, "earlytoggle" \notin Moves
  PROVE  Spec => []CountdownIffArmed
<1>1. LifeInv /\ ShownInv => CountdownIffArmed
  BY ShownWhenLockFree DEF CountdownIffArmed, Shown
<1>2. Spec => [](LifeInv /\ ShownInv)
  BY ShownAlways
<1> QED
  BY <1>1, <1>2, PTL
=============================================================================
