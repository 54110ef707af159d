------------------------------ MODULE CycleProofs ------------------------------
(***************************************************************************)
(* What becomes of the cycles, in memory and in the store: that a rule at  *)
(* rest is stored as it is, that a clock is never restarted and never lost *)
(* while its entity stays on, that a claim has somebody who will act on it *)
(* or take it back, and that the switch's inhibition lasts exactly as long *)
(* as the rule is disabled.                                                *)
(*                                                                         *)
(* Most theorems exclude moves of the environment that the code does not   *)
(* survive: a store that fails, a gate that closes, an area that changes   *)
(* without notice. Each says which.                                        *)
(***************************************************************************)
EXTENDS LifeCycleProofs, FiniteSetTheorems

-----------------------------------------------------------------------------
(* Memory and store *)

\* What a locked section has done to the rule, the disk does not have before
\* the save ends; a section that saves nothing left the rule as the disk has it.
\* A rule that has stopped has saved, and may be resumed.
Parked == entry \in {"draining", "resuming"}
DurableOK == (Live \/ Parked) /\ ~saving => disk = Payload

LEMMA DurableNext ==
  ASSUME "savefail" \notin Moves, LifeInv, SkippedSaveIsOnDisk, DurableOK, [Next]_vars
  PROVE  DurableOK'
<1>1. ASSUME UNCHANGED <<starting, saving, disk, enabled, retry, cycles, lastExec>>,
             entry' = entry \/ (Parked /\ Parked')
      PROVE  DurableOK'
  BY <1>1 DEF DurableOK, Live, Parked, Payload
<1>2. ASSUME ~Parked', entry' # "loaded" \/ starting'
      PROVE  DurableOK'
  BY <1>2 DEF DurableOK, Live
<1>3. CASE Tick \/ Fire \/ Environment
  <2>1. CASE Crash
    BY <1>2, <2>1 DEF Crash, Parked
  <2>2. CASE ~Crash
    <3>1. UNCHANGED <<entry, config, store, starting, enabled, cycles, lastExec, saving>>
      BY <1>3, <2>2, HomeSummary DEF LifeInv
    <3> QED
      BY <1>1, <3>1 DEF config, store
  <2> QED
    BY <2>1, <2>2
<1>4. CASE Execution
  <2>1. UNCHANGED <<entry, config, rule, store, phase, saving>>
    BY <1>4, ExecutionSummary DEF LifeInv
  <2> QED
    BY <1>1, <2>1 DEF config, rule, store, phase
<1>5. CASE LifeCycle
  <2>1. CASE RejectUnload
    BY <1>1, <2>1 DEF RejectUnload, Parked, config, rule, store
  <2>2. CASE ~RejectUnload
    BY <1>2, <1>5, <2>2 DEF LifeCycle, Load, ReadStore, LoadFails, RollBack, BeginSetup,
                            BeginStop, FinishUnload, Parked
  <2> QED
    BY <2>1, <2>2
<1>6. CASE Skip \/ UNCHANGED vars
  BY <1>1, <1>6 DEF Skip, vars, config, rule, store, phase, tasks
<1>7. CASE Section /\ ~Skip
  <2>1. PICK kind, p, q : /\ SectionRuns(kind, p, q)
                          /\ SectionSaves(kind, p, q) \/ SectionWaits(kind, p, q)
    BY <1>7, SectionSummary DEF LifeInv
  <2>2. CASE SectionWaits(kind, p, q)
    <3>1. entry' = "loaded" /\ starting'
      BY <2>2, ReleaseRun DEF SectionWaits, EntryAfter
    <3> QED
      BY <1>2, <3>1 DEF Parked
  <2>3. CASE saving'
    BY <2>3 DEF DurableOK
  <2>4. CASE Payload' = lastSaved
    <3>1. disk' = disk /\ retry' = retry
      BY <2>1 DEF SectionRuns, store
    <3>2. Payload'.retry = retry
      BY <3>1 DEF Payload
    <3>3. lastSaved # NoData
      BY <2>4, <3>2 DEF NoData, NoTime, LifeInv, TypeOK, ConfigOK
    <3> QED
      BY <2>4, <3>1, <3>3 DEF SkippedSaveIsOnDisk, DurableOK
  <2> QED
    BY <2>1, <2>2, <2>3, <2>4 DEF SectionSaves, Save
<1>8. CASE SaveEnds
  <2>1. SaveSucceeds
    BY <1>8 DEF SaveEnds, SaveFails, SetupSaveFails, ResumeSaveFails
  <2>2. disk' = Payload /\ Payload' = Payload
    BY <2>1 DEF SaveSucceeds, Payload, config
  <2> QED
    BY <2>2 DEF DurableOK
<1> QED
  BY <1>3, <1>4, <1>5, <1>6, <1>7, <1>8 DEF Next

\* With the lock free, the store holds exactly what the live rule has in
\* memory (controller.py, _async_save_locked, and every section that calls
\* it). Assumed is a store that does not fail: a failed save is not retried.
THEOREM MemoryIsDurable ==
  ASSUME "savefail" \notin Moves
  PROVE  Spec => []DurableWhenLockFree
<1>1. Init => LifeInv /\ DurableOK /\ SkippedSaveIsOnDisk
  BY LifeInit DEF Init, DurableOK, Live, Parked, SkippedSaveIsOnDisk
<1>2. LifeInv /\ DurableOK /\ SkippedSaveIsOnDisk /\ SkippedSaveIsOnDisk' /\ [Next]_vars
        => LifeInv' /\ DurableOK'
  BY LifeNext, DurableNext
<1>3. LifeInv /\ DurableOK => DurableWhenLockFree
  BY DEF LifeInv, TypeOK, TasksOK, DurableOK, DurableWhenLockFree, LockFree
<1>4. Spec => []SkippedSaveIsOnDisk
  BY SavedIsOnDisk
<1> QED
  BY <1>1, <1>2, <1>3, <1>4, PTL DEF Spec

-----------------------------------------------------------------------------
(* Clocks *)

\* A cycle has a clock, and operators on cycles keep it.
Clocked(cs) == \A e \in Entities : cs[e].started = NoTime => cs[e] = NoCycle
SameClocks(cs, ds) == \A e \in Entities : cs[e].started = ds[e].started

LEMMA ClaimsKeepClocks ==
  ASSUME NEW cs \in Cycles, Clocked(cs)
  PROVE  /\ Clocked(Claimed(cs)) /\ SameClocks(cs, Claimed(cs))
         /\ Clocked(Unclaimed(cs)) /\ SameClocks(cs, Unclaimed(cs))
         /\ \A at, r : Clocked(Rearmed(cs, at, r)) /\ SameClocks(cs, Rearmed(cs, at, r))
<1>1. ASSUME NEW e \in Entities
      PROVE  /\ Claimed(cs)[e].started = cs[e].started
             /\ Unclaimed(cs)[e].started = cs[e].started
             /\ cs[e] = NoCycle => Claimed(cs)[e] = NoCycle /\ Unclaimed(cs)[e] = NoCycle
  <2>1. cs[e] \in Cycle
    BY DEF Cycles
  <2>2. Claimed(cs)[e].started = cs[e].started
    <3>1. CASE cs[e] = NoCycle
      BY <3>1 DEF Claimed
    <3>2. CASE cs[e] # NoCycle
      <4>1. Claimed(cs)[e] = [cs[e] EXCEPT !.handled = TRUE]
        BY <3>2 DEF Claimed
      <4> QED
        BY <2>1, <4>1 DEF Cycle
    <3> QED
      BY <3>1, <3>2
  <2>3. Unclaimed(cs)[e] = [cs[e] EXCEPT !.handled = FALSE]
    BY DEF Unclaimed
  <2>4. Unclaimed(cs)[e].started = cs[e].started
    BY <2>1, <2>3 DEF Cycle
  <2>5. cs[e] = NoCycle => Claimed(cs)[e] = NoCycle
    BY DEF Claimed
  <2>6. ASSUME cs[e] = NoCycle PROVE Unclaimed(cs)[e] = NoCycle
    <3>1. cs[e].handled = FALSE
      BY <2>6 DEF NoCycle
    <3> QED
      BY <2>1, <2>3, <2>6, <3>1 DEF Cycle
  <2> QED
    BY <2>2, <2>4, <2>5, <2>6
<1>2. ASSUME NEW at, NEW r, NEW e \in Entities
      PROVE  /\ Rearmed(cs, at, r)[e].started = cs[e].started
             /\ cs[e] = NoCycle => Rearmed(cs, at, r)[e] = NoCycle
  <2>1. cs[e] \in Cycle
    BY DEF Cycles
  <2> QED
    BY <2>1 DEF Rearmed, Cycle, NoCycle
<1> QED
  BY <1>1, <1>2 DEF Clocked, SameClocks

LEMMA RescheduledKeepsClocks ==
  ASSUME NEW cs \in Cycles, Clocked(cs), NEW stored, NEW r, NEW last, NEW t
  PROVE  /\ Clocked(Rescheduled(cs, stored, r, last, t))
         /\ SameClocks(cs, Rescheduled(cs, stored, r, last, t))
<1>1. ASSUME NEW e \in Entities
      PROVE  /\ Rescheduled(cs, stored, r, last, t)[e].started = cs[e].started
             /\ cs[e] = NoCycle => Rescheduled(cs, stored, r, last, t)[e] = NoCycle
  <2>1. cs[e] \in Cycle
    BY DEF Cycles
  <2> QED
    BY <2>1 DEF Rescheduled, Retrying, Pending, Active, Cycle, NoCycle
<1> QED
  BY <1>1 DEF Clocked, SameClocks

\* Matching cycles to reports ends those of entities seen off or not allowed,
\* and keeps the others.
LEMMA SyncedClocks ==
  ASSUME NEW cs \in Cycles, Clocked(cs), NEW seen, NEW since, NEW ok
  PROVE  /\ Clocked(Synced(cs, seen, since, ok))
         /\ \A e \in Entities : cs[e] # NoCycle =>
              \/ Synced(cs, seen, since, ok)[e] = cs[e]
              \/ Synced(cs, seen, since, ok)[e] = NoCycle /\ (~ok[e] \/ seen[e] = "off")
<1>1. ASSUME NEW e \in Entities
      PROVE  /\ Synced(cs, seen, since, ok)[e].started = NoTime
                  => Synced(cs, seen, since, ok)[e] = NoCycle
             /\ cs[e] # NoCycle =>
                  \/ Synced(cs, seen, since, ok)[e] = cs[e]
                  \/ Synced(cs, seen, since, ok)[e] = NoCycle /\ (~ok[e] \/ seen[e] = "off")
  <2>1. cs[e].started = NoTime => cs[e] = NoCycle
    BY DEF Clocked
  <2> QED
    BY <2>1 DEF Synced, NoCycle
<1> QED
  BY <1>1 DEF Clocked

LEMMA RestoredClocks ==
  ASSUME TypeOK, Clocked(cycles), Clocked(snapshot.cycles)
  PROVE  /\ Restored.cycles \in Cycles /\ Clocked(Restored.cycles)
         /\ \A e \in Entities : Restored.cycles[e].started =
              IF snapshot.retry # NoTime /\ snapshot.cycles[e] # NoCycle
              THEN snapshot.cycles[e].started ELSE cycles[e].started
<1> DEFINE none == snapshot.retry = NoTime
           cs == [e \in Entities |-> IF ~none /\ snapshot.cycles[e] # NoCycle
                                     THEN snapshot.cycles[e] ELSE cycles[e]]
           last == IF snapshot.lastExec # NoTime THEN snapshot.lastExec ELSE lastExec
<1>1. Restored.cycles \in Cycles
  BY RestoredType DEF TypeOK
<1>2. cs \in Cycles /\ Clocked(cs)
  BY DEF TypeOK, ConfigOK, RuleOK, Payloads, Cycles, Clocked
<1>3. Restored.cycles = Rescheduled(cs, snapshot.retry, retry, last, now)
  BY DEF Restored
<1>4. Clocked(Restored.cycles) /\ SameClocks(cs, Restored.cycles)
  <2> HIDE DEF cs, last
  <2> QED
    BY <1>2, <1>3, RescheduledKeepsClocks
<1> QED
  BY <1>1, <1>4 DEF SameClocks

\* The cycles a section starts from.
Base(kind) == IF kind = "setup" THEN Restored.cycles ELSE cycles

\* A section leaves the clocks of the cycles it has matched to the reports.
LEMMA SectionSynced ==
  ASSUME TypeOK, Clocked(cycles), Clocked(snapshot.cycles),
         NEW kind, NEW p, NEW q, SectionRuns(kind, p, q), SectionCycles(kind, p)
  PROVE  /\ cycles' \in Cycles /\ Clocked(cycles')
         /\ Base(kind) \in Cycles /\ Clocked(Base(kind))
         /\ \E synced \in Cycles : SectionLooks(kind, synced) /\ SameClocks(synced, cycles')
<1>1. PICK synced \in Cycles, cs \in Cycles :
        /\ SectionLooks(kind, synced) /\ SectionRearms(kind, synced, cs)
        /\ SectionClaims(kind, p, cs)
  BY DEF SectionCycles
<1>2. Base(kind) \in Cycles /\ Clocked(Base(kind))
  BY RestoredClocks DEF Base, TypeOK, RuleOK
<1>3. Clocked(synced)
  <2>1. CASE synced = Base(kind)
    BY <1>2, <2>1
  <2>2. CASE synced = Sync(Base(kind))
    BY <1>2, <2>2, SyncedClocks DEF Sync
  <2>3. CASE synced = Synced(Base(kind), Seen(Head(queue)), Since(Head(queue)), allowed)
    <3> HIDE DEF Base
    <3> QED
      BY <1>2, <2>3, SyncedClocks
  <2> QED
    BY <1>1, <2>1, <2>2, <2>3 DEF SectionLooks, Base
<1>4. Clocked(cs) /\ SameClocks(synced, cs)
  <2>1. SameClocks(synced, synced)
    BY DEF SameClocks
  <2> QED
    BY <1>1, <1>3, <2>1, ClaimsKeepClocks DEF SectionRearms
<1>5. /\ cycles' \in {cs, Claimed(cs), Unclaimed(Claimed(cs))}
      /\ Claimed(cs) \in Cycles /\ Unclaimed(Claimed(cs)) \in Cycles
  BY <1>1, ChangedCycles DEF SectionClaims
<1>6. cycles' \in Cycles /\ Clocked(cycles') /\ SameClocks(cs, cycles')
  <2>1. /\ Clocked(Claimed(cs)) /\ SameClocks(cs, Claimed(cs)) /\ SameClocks(cs, cs)
        /\ Clocked(Unclaimed(Claimed(cs))) /\ SameClocks(Claimed(cs), Unclaimed(Claimed(cs)))
    BY <1>4, <1>5, ClaimsKeepClocks DEF SameClocks
  <2>2. SameClocks(cs, Unclaimed(Claimed(cs)))
    BY <2>1 DEF SameClocks
  <2> QED
    BY <1>4, <1>5, <2>1, <2>2
<1>7. SameClocks(synced, cycles')
  BY <1>4, <1>6 DEF SameClocks
<1> QED
  BY <1>1, <1>2, <1>6, <1>7

LEMMA SectionClocks ==
  ASSUME TypeOK, Clocked(cycles), Clocked(snapshot.cycles),
         NEW kind, NEW p, NEW q, SectionRuns(kind, p, q), SectionCycles(kind, p)
  PROVE  /\ cycles' \in Cycles /\ Clocked(cycles')
         /\ \A e \in Entities : Base(kind)[e] # NoCycle =>
              \/ cycles'[e].started = Base(kind)[e].started
              \/ cycles'[e] = NoCycle /\ (~allowed[e] \/ OffSeen(e))
<1>1. /\ cycles' \in Cycles /\ Clocked(cycles')
      /\ Base(kind) \in Cycles /\ Clocked(Base(kind))
  BY SectionSynced
<1>2. PICK synced \in Cycles : SectionLooks(kind, synced) /\ SameClocks(synced, cycles')
  BY SectionSynced
<1>3. \A e \in Entities : Base(kind)[e] # NoCycle =>
        synced[e] = Base(kind)[e] \/ (synced[e] = NoCycle /\ (~allowed[e] \/ OffSeen(e)))
  <2>1. CASE synced = Base(kind)
    BY <2>1
  <2>2. CASE synced = Sync(Base(kind))
    BY <1>1, <2>2, SyncedClocks DEF Sync, OffSeen
  <2>3. CASE synced = Synced(Base(kind), Seen(Head(queue)), Since(Head(queue)), allowed)
    <3>1. \A e \in Entities : Seen(Head(queue))[e] = "off" => OffSeen(e)
      BY DEF Seen, OffSeen, SectionRuns
    <3> HIDE DEF Base
    <3> QED
      BY <1>1, <2>3, <3>1, SyncedClocks
  <2> QED
    BY <1>2, <2>1, <2>2, <2>3 DEF SectionLooks, Base
<1>4. ASSUME NEW e \in Entities, synced[e] = NoCycle
      PROVE  cycles'[e] = NoCycle
  <2>1. cycles'[e].started = NoTime
    BY <1>2, <1>4 DEF SameClocks, NoCycle
  <2> QED
    BY <1>1, <2>1 DEF Clocked
<1> QED
  BY <1>1, <1>2, <1>3, <1>4 DEF SameClocks

\* What a step can do to the cycles, and to the copies of them in the store and
\* in the payload that was read.
LEMMA CyclesStep ==
  ASSUME LifeInv, [Next]_vars
  PROVE  /\ disk' \in {disk, Payload} /\ snapshot' \in {snapshot, disk, NoData}
         /\ \/ cycles' = cycles
            \/ cycles' = NoCycles /\ entry' \in {"down", "loading", "failing"}
            \/ \E kind, p, q : SectionRuns(kind, p, q) /\ SectionCycles(kind, p)
<1>1. CASE Tick \/ Fire \/ Environment
  <2>1. CASE Crash
    BY <2>1 DEF Crash
  <2>2. CASE ~Crash
    BY <1>1, <2>2, HomeSummary DEF LifeInv, config, store
  <2> QED
    BY <2>1, <2>2
<1>2. CASE Execution
  BY <1>2, ExecutionSummary DEF LifeInv, config, rule, store
<1>3. CASE LifeCycle
  BY <1>3 DEF LifeCycle, Load, ReadStore, LoadFails, RollBack, BeginSetup, BeginStop,
              FinishUnload, RejectUnload, config, rule, store
<1>4. CASE Skip \/ UNCHANGED vars
  BY <1>4 DEF Skip, vars, config, rule, store
<1>5. CASE Section /\ ~Skip
  <2>1. PICK kind, p, q : SectionRuns(kind, p, q) /\ SectionCycles(kind, p)
    BY <1>5, SectionSummary DEF LifeInv
  <2>2. disk' = disk
    BY <2>1 DEF SectionRuns, store
  <2>3. snapshot' \in {snapshot, NoData}
    BY <1>5 DEF Section, EventWhileStarting, HandleEvent, HandleDeadline, HandleEnable,
                HandleDisable, HandleStarted, SetUpWhileStarting, HandleSetup, HandleStop,
                ResumeWhileStarting, HandleResume, HandleBlocked, HandleFinish,
                HandleCancelled, Recovery, config
  <2> QED
    BY <2>1, <2>2, <2>3
<1>6. CASE SaveEnds
  BY <1>6 DEF SaveEnds, SaveSucceeds, SaveFails, SetupSaveFails, ResumeSaveFails, RollBack,
              config, rule, store
<1> QED
  BY <1>1, <1>2, <1>3, <1>4, <1>5, <1>6 DEF Next

ClockedOK == Clocked(cycles) /\ Clocked(disk.cycles) /\ Clocked(snapshot.cycles)

LEMMA NoCyclesClocked == NoCycles \in Cycles /\ Clocked(NoCycles) /\ NoData.cycles = NoCycles
  BY DEF NoCycles, NoData, Clocked, Cycles, Cycle, NoCycle, NoTime

LEMMA ClockedNext ==
  ASSUME LifeInv, ClockedOK, [Next]_vars
  PROVE  ClockedOK'
<1>1. Clocked(cycles')
  <2>1. CASE \E kind, p, q : SectionRuns(kind, p, q) /\ SectionCycles(kind, p)
    BY <2>1, SectionClocks DEF LifeInv, ClockedOK
  <2>2. CASE cycles' \in {cycles, NoCycles}
    BY <2>2, NoCyclesClocked DEF ClockedOK
  <2> QED
    BY <2>1, <2>2, CyclesStep
<1>2. Clocked(disk'.cycles)
  <2>1. Payload.cycles = cycles
    BY DEF Payload
  <2> QED
    BY <2>1, CyclesStep DEF ClockedOK
<1>3. Clocked(snapshot'.cycles)
  BY CyclesStep, NoCyclesClocked DEF ClockedOK
<1> QED
  BY <1>1, <1>2, <1>3 DEF ClockedOK, Clocked

LEMMA ClockedInit == Init => ClockedOK
  BY NoCyclesClocked DEF Init, ClockedOK

\* Nobody leaves the rule's area or the registries.
AllAllowed == allowed = [e \in Entities |-> TRUE]

LEMMA AllowedNext ==
  ASSUME "registry" \notin Moves, LifeInv, AllAllowed, [Next]_vars
  PROVE  AllAllowed'
<1>1. allowed' = allowed
  <2>1. CASE Tick \/ Fire \/ Environment
    BY <2>1 DEF Tick, Fire, Environment, Report, ChangeRegistry, MoveGate, HaStarts,
                RequestEnable, RequestDisable, Crash, world
  <2>2. CASE Execution
    BY <2>2, ExecutionSummary DEF LifeInv, world
  <2>3. CASE LifeCycle
    BY <2>3 DEF LifeCycle, Load, ReadStore, LoadFails, RollBack, BeginSetup, BeginStop,
                FinishUnload, RejectUnload, world
  <2>4. CASE Skip \/ UNCHANGED vars
    BY <2>4 DEF Skip, vars, world
  <2>5. CASE Section /\ ~Skip
    BY <2>5, SectionSummary DEF LifeInv, SectionRuns, world
  <2>6. CASE SaveEnds
    BY <2>6 DEF SaveEnds, SaveSucceeds, SaveFails, SetupSaveFails, ResumeSaveFails, RollBack,
                world
  <2> QED
    BY <2>1, <2>2, <2>3, <2>4, <2>5, <2>6 DEF Next
<1> QED
  BY <1>1 DEF AllAllowed

\* A clock ends only when its entity is seen off, by the event that is handled
\* or by its state, or with the controller that keeps it (controller.py,
\* _sync_cycles_locked and every section that calls it): restoring, an outage,
\* a claim, a retry or a new plan ends none. Assumed is that no entity leaves
\* the rule's area, which is the other way for a cycle to end.
THEOREM ClocksEndWithOff ==
  ASSUME "registry" \notin Moves
  PROVE  Spec => OnlyOffEndsAClock
<1> DEFINE Step == \A e \in Entities :
                     cycles[e] # NoCycle /\ cycles'[e] = NoCycle
                       => OffSeen(e) \/ entry' \in {"down", "loading", "failing"}
<1>1. Init => LifeInv /\ ClockedOK /\ AllAllowed
  BY LifeInit, ClockedInit DEF Init, AllAllowed
<1>2. LifeInv /\ ClockedOK /\ AllAllowed /\ [Next]_vars => LifeInv' /\ ClockedOK' /\ AllAllowed'
  BY LifeNext, ClockedNext, AllowedNext
<1>3. ASSUME LifeInv, ClockedOK, AllAllowed, [Next]_vars, NEW e \in Entities,
             cycles[e] # NoCycle, cycles'[e] = NoCycle
      PROVE  OffSeen(e) \/ entry' \in {"down", "loading", "failing"}
  <2>1. CASE cycles' = cycles
    BY <1>3, <2>1
  <2>2. CASE cycles' = NoCycles /\ entry' \in {"down", "loading", "failing"}
    BY <2>2
  <2>3. ASSUME NEW kind, NEW p, NEW q, SectionRuns(kind, p, q), SectionCycles(kind, p)
        PROVE  OffSeen(e)
    <3>1. Base(kind)[e].started # NoTime
      <4>1. cycles[e].started # NoTime /\ (snapshot.cycles[e] # NoCycle => snapshot.cycles[e].started # NoTime)
        BY <1>3 DEF ClockedOK, Clocked
      <4> QED
        BY <1>3, <4>1, RestoredClocks DEF Base, LifeInv, ClockedOK
    <3>2. Base(kind)[e] # NoCycle
      BY <3>1 DEF NoCycle
    <3>3. \/ cycles'[e].started = Base(kind)[e].started
          \/ ~allowed[e] \/ OffSeen(e)
      BY <1>3, <2>3, <3>2, SectionClocks DEF LifeInv, ClockedOK
    <3>4. cycles'[e].started = NoTime
      BY <1>3 DEF NoCycle
    <3> QED
      BY <1>3, <3>1, <3>3, <3>4 DEF AllAllowed
  <2> QED
    BY <1>3, <2>1, <2>2, <2>3, CyclesStep
<1>4. LifeInv /\ ClockedOK /\ AllAllowed /\ [Next]_vars => [Step]_vars
  BY <1>3
<1> QED
  BY <1>1, <1>2, <1>4, PTL DEF Spec, OnlyOffEndsAClock

-----------------------------------------------------------------------------
(* Before the set-up *)

\* A section that has something to do runs in a rule that is set up, or sets it
\* up.
LEMMA SectionEntry ==
  ASSUME QuietInv, NEW kind, NEW p, NEW q, SectionRuns(kind, p, q)
  PROVE  /\ ~saving /\ (kind = "setup" => entry = "setup" /\ Awaiting)
         /\ kind # "setup" => setupComplete /\ entry \notin {"loading", "read", "setup"}
<1>1. queue # <<>> /\ saving = FALSE /\ ~Stale(Head(queue)) /\ kind = Head(queue).kind
  BY DEF SectionRuns
<1>2. /\ kind \in {"event", "deadline", "enable", "disable", "started"}
           => entry = "loaded" /\ ~unloaded
      /\ kind = "setup" => entry = "setup" /\ Awaiting
      /\ kind = "stop" => entry = "stopping"
      /\ kind = "resume" => entry = "resuming"
      /\ kind \in RunKinds \cup {"cancelled"} => ~Dormant
      /\ kind \in JobKinds \ Unwinding /\ kind # "outdated"
  BY <1>1, SectionPhase
<1>3. CASE kind # "setup"
  <2>1. entry \in {"loaded", "stopping", "draining", "resuming"}
    BY <1>2, <1>3 DEF JobKinds, RunKinds, Dormant
  <2> QED
    BY <1>1, <1>3, <2>1 DEF QuietInv, LifeInv, LifeOK
<1> QED
  BY <1>1, <1>2, <1>3

\* The set-up's section ends the wait for it.
LEMMA SectionAwaits ==
  ASSUME QuietInv, NEW kind, NEW p, NEW q, SectionRuns(kind, p, q),
         SectionSaves(kind, p, q) \/ SectionWaits(kind, p, q)
  PROVE  ~Awaiting'
<1>1. /\ ~saving /\ (kind = "setup" => entry = "setup" /\ Awaiting)
      /\ kind # "setup" => setupComplete /\ entry \notin {"loading", "read", "setup"}
  BY SectionEntry
<1>2. CASE SectionWaits(kind, p, q)
  BY <1>2 DEF SectionWaits, Release, EntryAfter, Awaiting
<1>3. CASE SectionSaves(kind, p, q)
  <2>1. CASE kind = "setup"
    <3>1. saving' /\ queue' = q
      BY <1>3, <2>1 DEF SectionSaves, Save
    <3>2. Head(q).kind = "setup"
      BY <2>1, SectionQueue DEF SectionRuns, QuietInv, LifeInv
    <3> QED
      BY <3>1, <3>2 DEF Awaiting, TakingOver
  <2>2. CASE kind # "setup"
    <3>1. entry' \in {entry, EntryAfter(kind)}
      BY <1>3 DEF SectionSaves, Save, Release
    <3> QED
      BY <1>1, <2>2, <3>1 DEF EntryAfter, Awaiting
  <2> QED
    BY <2>1, <2>2
<1> QED
  BY <1>2, <1>3

\* Until then, the controller has no cycles.
FreshOK == Awaiting => cycles = NoCycles

LEMMA FreshNext ==
  ASSUME QuietInv, FreshOK, [Next]_vars
  PROVE  FreshOK'
<1>1. LifeInv /\ TypeOK /\ QuietOK
  BY DEF QuietInv, LifeInv
<1>2. ASSUME cycles' = cycles, Awaiting' => Awaiting
      PROVE  FreshOK'
  BY <1>2 DEF FreshOK
<1>3. ASSUME ~Awaiting' PROVE FreshOK'
  BY <1>3 DEF FreshOK
<1>4. CASE Tick \/ Fire \/ Environment
  <2>1. CASE Crash
    BY <1>3, <2>1 DEF Crash, Awaiting
  <2>2. CASE ~Crash
    <3>1. /\ UNCHANGED <<entry, subscribed, setupComplete, unloaded, saving, cycles>>
          /\ startedSub' => startedSub
          /\ \/ queue' = queue
             \/ \E j \in Jobs : queue' = Append(queue, j) /\ j.kind \notin LifeKinds \cup Unwinding
      BY <1>1, <1>4, <2>2, HomeSummary DEF LifeKinds, Unwinding
    <3>2. TakingOver' = TakingOver
      BY <1>1, <3>1, AppendLife
    <3> QED
      BY <1>2, <3>1, <3>2 DEF Awaiting
  <2> QED
    BY <2>1, <2>2
<1>5. CASE Execution
  <2>1. /\ UNCHANGED <<entry, cycles>>
        /\ run # NoRun \/ waiting # <<>>
    BY <1>1, <1>5, ExecutionSummary DEF LifeInv, rule
  <2>2. ~Dormant
    BY <1>1, <2>1 DEF QuietOK, DormantOK
  <2> QED
    BY <1>3, <2>1, <2>2 DEF Dormant, Awaiting
<1>6. CASE LifeCycle
  <2>1. CASE Load
    BY <2>1 DEF Load, FreshOK
  <2>2. CASE ReadStore \/ BeginSetup
    <3>1. Awaiting /\ cycles' = cycles
      BY <1>1, <2>2, NoLifeJob DEF ReadStore, BeginSetup, Awaiting, rule
    <3> QED
      BY <1>2, <3>1
  <2>3. CASE LoadFails \/ BeginStop \/ FinishUnload \/ RejectUnload
    BY <1>3, <2>3 DEF LoadFails, RollBack, BeginStop, FinishUnload, RejectUnload, Awaiting
  <2> QED
    BY <1>6, <2>1, <2>2, <2>3 DEF LifeCycle
<1>7. CASE Skip \/ UNCHANGED vars
  <2>1. UNCHANGED <<entry, cycles, saving>> /\ (queue' = queue \/ ~saving)
    BY <1>7 DEF Skip, vars, rule, tasks
  <2> QED
    BY <1>2, <2>1 DEF Awaiting, TakingOver
<1>8. CASE Section /\ ~Skip
  BY <1>1, <1>3, <1>8, SectionSummary, SectionAwaits
<1>9. CASE SaveEnds
  <2>1. CASE SetupSaveFails \/ ResumeSaveFails
    BY <1>3, <2>1 DEF SetupSaveFails, ResumeSaveFails, RollBack, Awaiting
  <2>2. CASE ~(SetupSaveFails \/ ResumeSaveFails)
    <3>1. saving /\ entry' = EntryAfter(Head(queue).kind)
      BY <1>1, <1>9, <2>2, SaveEndsSummary DEF Release
    <3> QED
      BY <1>1, <1>3, <3>1 DEF QuietOK, SavingOK, EntryAfter, Awaiting, TakingOver
  <2> QED
    BY <2>1, <2>2
<1> QED
  BY <1>4, <1>5, <1>6, <1>7, <1>8, <1>9 DEF Next

LEMMA FreshInit == Init => FreshOK
  BY DEF Init, FreshOK, Awaiting

-----------------------------------------------------------------------------
(* The clocks in the store *)

Agree(cs, ds) ==
  \A e \in Entities : cs[e] # NoCycle /\ ds[e] # NoCycle => cs[e].started = ds[e].started

\* What was read is what is stored until the set-up has used it; from then on
\* memory and store have the same clocks, but for those a save has yet to
\* start or to end.
StoredOK ==
  /\ disk.retry = NoTime => disk.cycles = NoCycles
  /\ Awaiting /\ entry # "loading" => snapshot = disk
  /\ saving => Agree(cycles, disk.cycles)
  /\ setupComplete /\ ~saving => SameClocks(cycles, disk.cycles)

StoredInv == QuietInv /\ ClockedOK /\ FreshOK /\ StoredOK

\* A step of which neither the memory nor the store is aware.
LEMMA UnawareStored ==
  ASSUME StoredOK, UNCHANGED <<disk, cycles, snapshot, saving>>,
         Awaiting' => Awaiting /\ entry' = entry, setupComplete' => setupComplete
  PROVE  StoredOK'
  BY DEF StoredOK, SameClocks, Agree

LEMMA HomeStored ==
  ASSUME StoredInv, Tick \/ Fire \/ Environment
  PROVE  StoredOK'
<1>1. CASE Crash
  <2>1. disk' = disk /\ entry' = "down" /\ saving' = FALSE /\ setupComplete' = FALSE
    BY <1>1 DEF Crash
  <2> QED
    BY <2>1 DEF StoredInv, StoredOK, Awaiting
<1>2. CASE ~Crash
  <2>1. LifeInv /\ LifeInv' /\ TypeOK
    BY LifeNext DEF StoredInv, QuietInv, Next, LifeInv
  <2>2. /\ UNCHANGED <<entry, disk, cycles, snapshot, saving, setupComplete>>
        /\ queue' = queue \/ \E j \in Jobs : queue' = Append(queue, j)
    BY <1>2, <2>1, HomeSummary DEF config, store
  <2>3. TakingOver' = TakingOver
    <3>1. ASSUME saving, NEW j \in Jobs, queue' = Append(queue, j)
          PROVE  Head(queue') = Head(queue)
      BY <2>1, <3>1, AppendElements DEF TypeOK, TasksOK
    <3>2. CASE saving
      <4>1. Head(queue') = Head(queue)
        BY <2>2, <3>1, <3>2
      <4> QED
        BY <2>2, <4>1 DEF TakingOver
    <3> QED
      BY <2>2, <3>2 DEF TakingOver
  <2> QED
    BY <2>2, <2>3, UnawareStored DEF StoredInv, Awaiting
<1> QED
  BY <1>1, <1>2

LEMMA ExecutionStored ==
  ASSUME StoredInv, Execution
  PROVE  StoredOK'
<1>1. LifeInv
  BY DEF StoredInv, QuietInv
<1>2. UNCHANGED <<entry, disk, cycles, snapshot, saving, setupComplete>>
  BY <1>1, <1>1, ExecutionSummary DEF LifeInv, config, rule, store, phase
<1>3. Awaiting' => Awaiting
  <2>1. ~Dormant
    BY <1>1, ExecutionSummary DEF StoredInv, QuietInv, QuietOK, DormantOK, LifeInv
  <2> QED
    BY <1>2, <2>1 DEF Dormant, Awaiting
<1> QED
  BY <1>2, <1>3, UnawareStored DEF StoredInv

LEMMA LifeCycleStored ==
  ASSUME "savefail" \notin Moves, StoredInv, LifeCycle
  PROVE  StoredOK'
<1>1. /\ LifeInv /\ TypeOK /\ StoredOK /\ QuietOK
      /\ ~saving \/ saving = TRUE
  BY DEF StoredInv, QuietInv, LifeInv, TypeOK, TasksOK
<1>2. CASE Load
  <2>1. /\ saving' = saving /\ ~saving
        /\ disk' = disk /\ cycles' = NoCycles /\ entry' = "loading" /\ setupComplete' = FALSE
    BY <1>1, <1>2 DEF Load, tasks, TypeOK, TasksOK
  <2> QED
    BY <1>1, <2>1 DEF StoredOK
<1>3. CASE ReadStore
  <2>1. Awaiting /\ ~saving /\ ~setupComplete
    BY <1>1, <1>3, NoLifeJob DEF ReadStore, Awaiting, QuietOK, AwaitingOK
  <2>2. /\ saving' = saving /\ setupComplete' = setupComplete
        /\ disk' = disk /\ cycles' = cycles /\ snapshot' = disk
    BY <1>3 DEF ReadStore, tasks, rule, store, phase
  <2> QED
    BY <1>1, <2>1, <2>2 DEF StoredOK
<1>4. CASE BeginSetup
  <2>1. Awaiting /\ ~saving /\ ~setupComplete /\ snapshot = disk
    BY <1>1, <1>4, NoLifeJob DEF BeginSetup, Awaiting, QuietOK, AwaitingOK, StoredOK
  <2>2. /\ saving' = saving /\ setupComplete' = setupComplete
        /\ disk' = disk /\ cycles' = cycles /\ snapshot' = snapshot
    BY <1>4 DEF BeginSetup, rule, store, config
  <2> QED
    BY <1>1, <2>1, <2>2 DEF StoredOK
<1>5. CASE BeginStop \/ FinishUnload \/ RejectUnload
  <2>1. /\ UNCHANGED <<disk, cycles, snapshot, saving>>
        /\ setupComplete' => setupComplete
        /\ ~Awaiting'
    BY <1>5 DEF BeginStop, FinishUnload, RejectUnload, config, store, rule, tasks, Awaiting
  <2> QED
    BY <1>1, <2>1, UnawareStored
<1>6. ~LoadFails
  BY DEF LoadFails
<1> QED
  BY <1>2, <1>3, <1>4, <1>5, <1>6 DEF LifeCycle

\* A section starts from cycles that have the clocks of the store.
LEMMA BaseIsStored ==
  ASSUME StoredInv, NEW kind, NEW p, NEW q, SectionRuns(kind, p, q)
  PROVE  SameClocks(Base(kind), disk.cycles)
<1>1. LifeInv /\ TypeOK /\ StoredOK /\ QuietInv /\ ClockedOK
  BY DEF StoredInv, QuietInv, LifeInv
<1>2. /\ ~saving /\ (kind = "setup" => entry = "setup" /\ Awaiting)
      /\ kind # "setup" => setupComplete
  BY <1>1, SectionEntry
<1>4. CASE kind = "setup"
  <2>1. cycles = NoCycles /\ snapshot = disk
    BY <1>1, <1>2, <1>4 DEF StoredInv, FreshOK, StoredOK
  <2>2. ASSUME NEW e \in Entities
        PROVE  Restored.cycles[e].started = disk.cycles[e].started
    <3>1. Restored.cycles[e].started =
            IF disk.retry # NoTime /\ disk.cycles[e] # NoCycle
            THEN disk.cycles[e].started ELSE cycles[e].started
      BY <1>1, <2>1, RestoredClocks DEF ClockedOK
    <3>2. cycles[e] = NoCycle
      BY <2>1 DEF NoCycles
    <3>3. CASE disk.retry # NoTime /\ disk.cycles[e] # NoCycle
      BY <3>1, <3>3
    <3>4. CASE disk.cycles[e] = NoCycle
      BY <3>1, <3>2, <3>4
    <3>5. CASE disk.retry = NoTime
      BY <1>1, <3>1, <3>2, <3>5 DEF StoredOK, NoCycles
    <3> QED
      BY <3>3, <3>4, <3>5
  <2> QED
    BY <1>4, <2>2 DEF Base, SameClocks
<1>5. CASE kind # "setup"
  BY <1>1, <1>2, <1>5 DEF StoredOK, Base
<1> QED
  BY <1>4, <1>5

LEMMA SectionStored ==
  ASSUME StoredInv, SkippedSaveIsOnDisk, Section
  PROVE  StoredOK'
<1>1. LifeInv /\ TypeOK /\ StoredOK /\ ClockedOK /\ QuietOK
  BY DEF StoredInv, QuietInv, LifeInv
<1>2. CASE Skip
  <2>1. UNCHANGED <<entry, disk, cycles, snapshot, saving, setupComplete>> /\ ~saving
    BY <1>2 DEF Skip, config, rule, store, phase
  <2> QED
    BY <1>1, <2>1, UnawareStored DEF Awaiting, TakingOver
<1>3. CASE ~Skip
  <2>1. PICK kind, p, q : /\ SectionRuns(kind, p, q) /\ SectionCycles(kind, p)
                          /\ SectionSaves(kind, p, q) \/ SectionWaits(kind, p, q)
    BY <1>1, <1>3, SectionSummary
  <2>2. SameClocks(Base(kind), disk.cycles) /\ ~saving /\ ~Awaiting'
    BY <2>1, BaseIsStored, SectionAwaits, SectionEntry DEF StoredInv
  <2>3. disk' = disk /\ retry' = retry /\ lastSaved' = lastSaved
    BY <2>1 DEF SectionRuns, store
  <2>4. Agree(cycles', disk'.cycles)
    <3>1. ASSUME NEW e \in Entities, cycles'[e] # NoCycle, disk.cycles[e] # NoCycle
          PROVE  cycles'[e].started = disk.cycles[e].started
      <4>1. disk.cycles[e].started # NoTime /\ Base(kind)[e].started = disk.cycles[e].started
        BY <1>1, <2>2, <3>1 DEF ClockedOK, Clocked, SameClocks
      <4>2. Base(kind)[e] # NoCycle
        BY <4>1 DEF NoCycle
      <4> QED
        BY <1>1, <2>1, <3>1, <4>1, <4>2, SectionClocks DEF ClockedOK
    <3> QED
      BY <2>3, <3>1 DEF Agree
  <2>5. CASE saving'
    <3> QED
      BY <1>1, <2>2, <2>3, <2>4, <2>5 DEF StoredOK
  <2>6. CASE ~saving'
    <3>1. CASE SectionWaits(kind, p, q)
      <4>1. cycles' = Base(kind)
        BY <3>1 DEF SectionWaits, Base
      <4> QED
        BY <1>1, <2>2, <2>3, <2>6, <4>1 DEF StoredOK
    <3>2. CASE SectionSaves(kind, p, q)
      <4>1. kind # "setup" /\ Payload' = lastSaved /\ entry' = EntryAfter(kind)
        BY <2>6, <3>2 DEF SectionSaves, Save, Release
      <4>2. Payload' = disk
        <5>1. Payload'.retry = retry
          BY <2>3 DEF Payload
        <5>2. lastSaved # NoData
          BY <1>1, <4>1, <5>1 DEF NoData, NoTime, TypeOK, ConfigOK
        <5> QED
          BY <4>1, <5>2 DEF SkippedSaveIsOnDisk
      <4>3. Payload'.cycles = cycles'
        BY DEF Payload
      <4>4. disk'.cycles = cycles'
        BY <2>3, <4>2, <4>3
      <4>5. SameClocks(cycles', disk'.cycles)
        BY <4>4 DEF SameClocks
      <4> QED
        BY <1>1, <2>2, <2>3, <2>6, <4>5 DEF StoredOK
    <3> QED
      BY <2>1, <3>1, <3>2
  <2> QED
    BY <2>5, <2>6
<1> QED
  BY <1>2, <1>3

LEMMA SaveEndsStored ==
  ASSUME "savefail" \notin Moves, StoredInv, SaveEnds
  PROVE  StoredOK'
<1>1. TypeOK /\ StoredOK /\ QuietOK
  BY DEF StoredInv, QuietInv, LifeInv
<1>2. SaveSucceeds
  BY DEF SaveEnds, SaveFails, SetupSaveFails, ResumeSaveFails
<1>3. /\ saving /\ ~saving' /\ entry' = EntryAfter(Head(queue).kind)
      /\ disk' = Payload /\ cycles' = cycles
  BY <1>2 DEF SaveSucceeds, Release
<1>4. disk'.retry # NoTime /\ disk'.cycles = cycles'
  BY <1>1, <1>3 DEF Payload, TypeOK, ConfigOK, NoTime
<1>5. ~Awaiting'
  BY <1>1, <1>3 DEF QuietOK, SavingOK, EntryAfter, Awaiting, TakingOver
<1>6. SameClocks(cycles', disk'.cycles)
  BY <1>4 DEF SameClocks
<1> QED
  BY <1>3, <1>4, <1>5, <1>6 DEF StoredOK

LEMMA StoredNext ==
  ASSUME "savefail" \notin Moves, "earlytoggle" \notin Moves,
         StoredInv, SkippedSaveIsOnDisk, [Next]_vars
  PROVE  StoredInv'
<1>1. QuietInv' /\ ClockedOK' /\ FreshOK'
  BY QuietNext, ClockedNext, FreshNext DEF StoredInv, QuietInv
<1>2. CASE UNCHANGED vars
  <2>1. UNCHANGED <<entry, disk, cycles, snapshot, saving, setupComplete, queue>>
    BY <1>2 DEF vars, config, rule, store, phase, tasks
  <2> QED
    BY <1>1, <2>1, UnawareStored DEF StoredInv, Awaiting, TakingOver
<1>3. CASE Next
  BY <1>1, <1>3, HomeStored, ExecutionStored, LifeCycleStored, SectionStored, SaveEndsStored
     DEF Next, StoredInv
<1> QED
  BY <1>2, <1>3

LEMMA StoredInit == Init => StoredInv
<1> SUFFICES ASSUME Init PROVE StoredInv
  OBVIOUS
<1>1. QuietInv /\ ClockedOK /\ FreshOK
  BY QuietInit, ClockedInit, FreshInit
<1>2. disk = NoData /\ cycles = NoCycles /\ entry = "down" /\ ~saving /\ ~setupComplete
  BY DEF Init
<1> QED
  BY <1>1, <1>2, NoCyclesClocked DEF StoredInv, StoredOK, Awaiting

\* The start of a clock never changes in the store while the clock is there
\* (controller.py, _restore_locked, _sync_cycles_locked, _async_save_locked):
\* outages, retries, restarts, reloads and new options all keep it. Assumed
\* are a store that does not fail, for a failed save loses the end of a clock
\* that a later save then replaces by the next one's start, and a switch that
\* is not used before the stored clocks are read, for it would save without
\* them.
THEOREM StoredClocksStay ==
  ASSUME "savefail" \notin Moves, "earlytoggle" \notin Moves
  PROVE  Spec => ClockIsDurable
<1> DEFINE Step == \A e \in Entities :
                     disk.cycles[e] # NoCycle /\ disk'.cycles[e] # NoCycle
                       => disk'.cycles[e].started = disk.cycles[e].started
<1>1. Init => StoredInv
  BY StoredInit
<1>2. StoredInv /\ SkippedSaveIsOnDisk /\ [Next]_vars => StoredInv'
  BY StoredNext
<1>3. ASSUME StoredInv, [Next]_vars
      PROVE  Step
  <2>1. CASE disk' = disk
    BY <2>1
  <2>2. CASE disk' # disk
    <3>1. SaveSucceeds
      <4>1. ~(Tick \/ Fire \/ Environment)
        <5>1. Crash => disk' = disk
          BY DEF Crash
        <5> QED
          BY <2>2, <1>3, <5>1, HomeSummary DEF StoredInv, QuietInv, LifeInv, store
      <4>2. ~Execution /\ ~(Section /\ ~Skip)
        BY <2>2, <1>3, ExecutionSummary, SectionSummary
           DEF StoredInv, QuietInv, LifeInv, store, SectionRuns
      <4>3. ~LifeCycle /\ ~Skip /\ ~UNCHANGED vars
        BY <2>2 DEF LifeCycle, Load, ReadStore, LoadFails, RollBack, BeginSetup, BeginStop,
                    FinishUnload, RejectUnload, Skip, vars, store
      <4>4. SaveEnds
        BY <1>3, <4>1, <4>2, <4>3 DEF Next
      <4> QED
        BY <4>4 DEF SaveEnds, SaveFails, SetupSaveFails, ResumeSaveFails
    <3>2. saving /\ disk' = Payload
      BY <3>1 DEF SaveSucceeds
    <3> QED
      BY <1>3, <3>2 DEF StoredInv, StoredOK, Agree, Payload
  <2> QED
    BY <2>1, <2>2
<1>4. StoredInv /\ [Next]_vars => [Step]_vars
  BY <1>3
<1>5. Spec => []SkippedSaveIsOnDisk
  BY SavedIsOnDisk
<1> QED
  BY <1>1, <1>2, <1>4, <1>5, PTL DEF Spec, ClockIsDurable

-----------------------------------------------------------------------------
(* Claims *)

\* With the gate open, a claim is never given back as blocked.
OpenInv == QuietInv /\ StoppedOK /\ FreshOK

LEMMA OpenInit == Init => OpenInv
  BY QuietInit, FreshInit DEF Init, OpenInv, StoppedOK, NoRun

LEMMA OpenNext ==
  ASSUME "gate" \notin Moves, "earlytoggle" \notin Moves, OpenInv, [Next]_vars
  PROVE  OpenInv'
BY QuietNext, StoppedNext, FreshNext DEF OpenInv

LEMMA NeverBlocked ==
  ASSUME OpenInv
  PROVE  "blocked" \notin Kinds(queue)
BY DEF OpenInv, QuietInv, LifeInv, TaskOK, RunOK, RunKinds, StoppedOK

LEMMA HeadKind ==
  ASSUME TypeOK, queue # <<>>
  PROVE  Head(queue).kind \in Kinds(queue)
<1>1. queue \in Seq(Jobs)
  BY DEF TypeOK, TasksOK
<1> QED
  BY <1>1, TailElements DEF Kinds

\* A claim has an owner in every phase, and a section that ends an execution
\* leaves no claim but for the plan that follows.
ClaimsOK ==
  retry > 0 =>
    /\ ~starting /\ Handled(cycles) # {} => Owned
    /\ saving /\ Head(queue).kind = "cancelled" => Handled(cycles) = {}
    /\ saving /\ Head(queue).kind = "finish" /\ claim = NoPlan => Handled(cycles) = {}

LEMMA OwnedIs ==
  /\ Owned <=> run # NoRun \/ waiting # <<>> \/ claim # NoPlan \/ "cancelled" \in Kinds(queue)
  /\ Owned' <=> run' # NoRun \/ waiting' # <<>> \/ claim' # NoPlan \/ "cancelled" \in Kinds(queue')
BY DEF Owned, Kinds

\* An execution that goes on, or starts, is there after the step.
LEMMA AdvanceRuns ==
  /\ \A p, todo, failed, host, q : Advance(p, todo, failed, host, q) => run' # NoRun
  /\ \A p, host, q : Begin(p, host, q) => run' # NoRun
<1>1. \A p, todo, failed, host, q : Advance(p, todo, failed, host, q) => run' # NoRun
  <2>1. ASSUME NEW p, NEW todo, NEW failed, NEW host, NEW q,
         Advance(p, todo, failed, host, q)
        PROVE  run'.stage \in {"call", "finish"}
    BY <2>1, AdvanceRun
  <2> QED
    BY <2>1 DEF NoRun
<1>2. ASSUME NEW p, NEW host, NEW q, Begin(p, host, q)
      PROVE  run' # NoRun
  <2>1. run'.stage \in {"call", "finish", "blocked"}
    BY <1>2, BeginRun DEF RunKinds
  <2> QED
    BY <2>1 DEF NoRun
<1> QED
  BY <1>1, <1>2

\* A released plan has an owner; without one, what owned the claims still does.
LEMMA ReleaseOwns ==
  ASSUME TypeOK, NEW q \in Seq(Jobs), NEW kind, kind # "blocked", NEW p, Release(kind, p, q)
  PROVE  /\ p # NoPlan => run' # NoRun \/ waiting' # <<>>
         /\ p = NoPlan /\ kind # "finish" => run' = run /\ waiting' = waiting /\ queue' = q
<1>1. ASSUME p # NoPlan PROVE run' # NoRun \/ waiting' # <<>>
  <2>1. waiting \in Seq(Plans)
    BY DEF TypeOK, TasksOK
  <2>2. Append(waiting, p) # <<>>
    BY <2>1
  <2>3. CASE kind = "finish"
    BY <1>1, <2>3, AdvanceRuns DEF Release
  <2>4. CASE kind # "finish"
    <3>1. Dispatch(p, HostOf(kind), q)
      BY <2>4 DEF Release
    <3> QED
      BY <1>1, <2>2, <3>1, AdvanceRuns DEF Dispatch
  <2> QED
    BY <2>3, <2>4
<1>2. p = NoPlan /\ kind # "finish" => run' = run /\ waiting' = waiting /\ queue' = q
  BY DEF Release, Dispatch
<1> QED
  BY <1>1, <1>2

LEMMA HomeClaims ==
  ASSUME OpenInv, ClaimsOK, Tick \/ Fire \/ Environment
  PROVE  ClaimsOK'
<1>1. TypeOK
  BY DEF OpenInv, QuietInv, LifeInv
<1>2. CASE Crash
  <2>1. cycles' = NoCycles
    BY <1>2 DEF Crash
  <2> QED
    BY <2>1 DEF ClaimsOK, Handled, Active, NoCycles
<1>3. CASE ~Crash
  <2>1. UNCHANGED <<retry, starting, cycles, saving, claim, waiting, run>>
    BY <1>1, <1>3, HomeSummary DEF config
  <2>2. /\ Kinds(queue) \subseteq Kinds(queue')
        /\ saving => Head(queue') = Head(queue)
    <3>1. queue \in Seq(Jobs) /\ (saving => queue # <<>>)
      BY <1>1 DEF TypeOK, TasksOK
    <3>2. queue' = queue \/ \E j \in Jobs : queue' = Append(queue, j)
      BY <1>1, <1>3, HomeSummary
    <3> QED
      BY <3>1, <3>2, KindsAppend, AppendElements
  <2>3. Owned => Owned'
    BY <2>1, <2>2, OwnedIs
  <2> QED
    BY <2>1, <2>2, <2>3 DEF ClaimsOK
<1> QED
  BY <1>2, <1>3

LEMMA ExecutionClaims ==
  ASSUME OpenInv, ClaimsOK, Execution
  PROVE  ClaimsOK'
<1>1. TypeOK /\ TaskOK /\ queue \in Seq(Jobs) /\ (saving => queue # <<>>)
  BY DEF OpenInv, QuietInv, LifeInv, TypeOK, TasksOK
<1>2. UNCHANGED <<retry, starting, cycles, saving, claim>>
  BY <1>1, ExecutionSummary DEF config, rule, phase
<1>3. \A k \in RunKinds \cup {"cancelled"} :
        Call(k, NoTime) \in Jobs /\ Call(k, NoTime).kind = k
  BY RunCalls
<1>4. saving => Head(queue') = Head(queue)
  BY <1>1, <1>3, ExecutionSummary, AppendElements
<1>5. run' # NoRun \/ "cancelled" \in Kinds(queue')
  <2>1. CASE ServiceReturns \/ ServiceFails \/ ConfirmEnds
    <3>1. CASE \E bad : Proceed(bad)
      BY <3>1, AdvanceRuns DEF Proceed
    <3>2. CASE Running("call") /\ run' = [run EXCEPT !.stage = "confirm"]
      <4>1. run \in Runs
        BY <1>1, <3>2 DEF TypeOK, TasksOK, Running
      <4>2. run'.stage = "confirm"
        BY <3>2, <4>1 DEF Runs
      <4> QED
        BY <4>2 DEF NoRun
    <3> QED
      BY <2>1, <3>1, <3>2 DEF ServiceReturns, ServiceFails, ConfirmEnds
  <2>2. CASE StartNext
    BY <2>2, AdvanceRuns DEF StartNext
  <2>3. CASE Cancel \/ CancelWaiting
    <3>1. queue' = Append(queue, Call("cancelled", NoTime))
      BY <2>3 DEF Cancel, CancelWaiting, Post
    <3> QED
      BY <1>1, <1>3, <3>1, KindsAppend
  <2> QED
    BY <2>1, <2>2, <2>3 DEF Execution
<1>6. Owned'
  BY <1>5, OwnedIs
<1> QED
  BY <1>2, <1>4, <1>6 DEF ClaimsOK

LEMMA LifeCycleClaims ==
  ASSUME OpenInv, ClaimsOK, LifeCycle
  PROVE  ClaimsOK'
<1>1. TypeOK /\ LifeInv /\ QuietOK /\ FreshOK /\ queue \in Seq(Jobs) /\ (saving => queue # <<>>)
  BY DEF OpenInv, QuietInv, LifeInv, TypeOK, TasksOK
<1>2. CASE Load \/ LoadFails
  <2>1. cycles' = NoCycles
    BY <1>2 DEF Load, LoadFails, RollBack
  <2> QED
    BY <2>1 DEF ClaimsOK, Handled, Active, NoCycles
<1>3. CASE ReadStore \/ BeginSetup \/ BeginStop \/ FinishUnload \/ RejectUnload
  <2>1. UNCHANGED <<retry, starting, cycles, saving, claim, waiting, run>>
    BY <1>3 DEF ReadStore, BeginSetup, BeginStop, FinishUnload, RejectUnload, config, rule,
                phase, tasks
  <2>2. queue' = queue \/ \E k \in LifeKinds : queue' = Append(queue, Call(k, NoTime))
    BY <1>3 DEF ReadStore, BeginSetup, BeginStop, FinishUnload, RejectUnload, tasks, Post,
                LifeKinds
  <2>3. \A k \in LifeKinds : Call(k, NoTime) \in Jobs
    BY DEF LifeKinds, Call, Job, Jobs, JobKinds, Reports, Gate, NoTime
  <2>4. Kinds(queue) \subseteq Kinds(queue') /\ (saving => Head(queue') = Head(queue))
    BY <1>1, <2>2, <2>3, KindsAppend, AppendElements
  <2>5. Owned => Owned'
    BY <2>1, <2>4, OwnedIs
  <2> QED
    BY <2>1, <2>4, <2>5 DEF ClaimsOK
<1> QED
  BY <1>2, <1>3 DEF LifeCycle

\* What a section without a plan leaves claimed: nothing, or claims of others.
LEMMA SectionLeaves ==
  ASSUME TypeOK, retry > 0, NEW kind, kind # "blocked", SectionCycles(kind, NoPlan)
  PROVE  \/ Handled(cycles') = {}
         \/ /\ kind \notin {"started", "finish", "cancelled", "setup"}
            /\ Handled(cycles') \subseteq Handled(cycles)
            /\ kind = "resume" /\ starting => starting'
         \/ kind = "setup" /\ starting'
<1>1. PICK synced \in Cycles, cs \in Cycles :
        /\ SectionLooks(kind, synced) /\ SectionRearms(kind, synced, cs)
        /\ SectionClaims(kind, NoPlan, cs)
  BY DEF SectionCycles
<1>2. cycles \in Cycles /\ retry \in Nat
  BY DEF TypeOK, RuleOK, ConfigOK
<1>3. CASE kind = "cancelled" /\ cycles' = Unclaimed(Claimed(cs))
  BY <1>3, ChangedCycles, UnclaimedUnclaims
<1>4. CASE cycles' = cs
  <2>1. CASE \E at \in Int : cs = Rearmed(synced, at, retry)
    BY <1>2, <1>4, <2>1, RearmedUnclaims
  <2>2. CASE /\ cs = synced /\ kind \notin {"started", "finish", "cancelled", "blocked"}
             /\ kind = "setup" \/ (kind = "resume" /\ starting) => starting'
    <3>1. kind # "setup" => Handled(synced) \subseteq Handled(cycles)
      BY <1>1, <1>2, SyncedClaimsNothing DEF SectionLooks, Sync
    <3> QED
      BY <1>4, <2>2, <3>1
  <2> QED
    BY <1>1, <2>1, <2>2, MomentType DEF SectionRearms
<1> QED
  BY <1>1, <1>3, <1>4 DEF SectionClaims

LEMMA SectionClaimsOwned ==
  ASSUME OpenInv, ClaimsOK, Section
  PROVE  ClaimsOK'
<1>1. TypeOK /\ TaskOK /\ queue \in Seq(Jobs)
  BY DEF OpenInv, QuietInv, LifeInv, TypeOK, TasksOK
<1>2. CASE Skip
  <2>1. /\ UNCHANGED <<retry, starting, cycles, saving, claim, waiting, run>>
        /\ ~saving /\ queue # <<>> /\ Stale(Head(queue)) /\ queue' = Tail(queue)
    BY <1>2 DEF Skip, config, rule, phase
  <2>2. Head(queue).kind # "cancelled"
    BY <2>1 DEF Stale
  <2>3. "cancelled" \in Kinds(queue) => "cancelled" \in Kinds(queue')
    BY <1>1, <2>1, <2>2, KindsTail
  <2>4. Owned => Owned'
    BY <2>1, <2>3, OwnedIs
  <2> QED
    BY <2>1, <2>4 DEF ClaimsOK
<1>3. CASE ~Skip
  <2>1. PICK kind, p, q : /\ SectionRuns(kind, p, q) /\ SectionCycles(kind, p)
                          /\ SectionSaves(kind, p, q) \/ SectionWaits(kind, p, q)
    BY <1>1, <1>3, SectionSummary
  <2>2. /\ queue # <<>> /\ saving = FALSE /\ kind = Head(queue).kind /\ retry' = retry
        /\ q = queue \/ q = Outdated(queue)
    BY <2>1 DEF SectionRuns
  <2>3. /\ q \in Seq(Jobs) /\ q # <<>> /\ Tail(q) \in Seq(Jobs)
        /\ Kinds(queue) \ {"deadline"} \subseteq Kinds(q)
        /\ kind # "deadline" => Head(q) = Head(queue)
        /\ kind = "deadline" => Head(q).kind \in {"deadline", "outdated"}
    BY <1>1, <2>2, SectionQueue
  <2>4. kind # "blocked" /\ claim = NoPlan
    BY <1>1, <2>2, NeverBlocked, HeadKind DEF TaskOK
  <2>5. CASE SectionWaits(kind, p, q)
    BY <2>5 DEF SectionWaits, Release, ClaimsOK
  <2>6. CASE SectionSaves(kind, p, q) /\ saving'
    <3>1. claim' = p /\ queue' = q /\ UNCHANGED <<waiting, run>>
      BY <2>6 DEF SectionSaves, Save, Release
    <3>2. p # NoPlan => Owned'
      BY <3>1, OwnedIs
    <3>3. Owned => Owned'
      BY <2>3, <2>4, <3>1, OwnedIs
    <3>4. p # NoPlan => kind # "cancelled"
      BY <2>1 DEF SectionRuns
    <3>5. starting /\ ~starting' => kind \in {"started", "resume"}
      BY <2>6 DEF SectionSaves
    <3>6. Head(queue').kind \in {"cancelled", "finish"} => Head(queue').kind = kind
      BY <2>2, <2>3, <3>1
    <3>7. CASE p # NoPlan
      BY <3>1, <3>2, <3>4, <3>6, <3>7 DEF ClaimsOK
    <3>8. CASE p = NoPlan
      <4>1. retry > 0 => \/ Handled(cycles') = {}
                         \/ /\ kind \notin {"started", "finish", "cancelled", "setup"}
                            /\ Handled(cycles') \subseteq Handled(cycles)
                            /\ kind = "resume" /\ starting => starting'
                         \/ kind = "setup" /\ starting'
        BY <1>1, <2>1, <2>4, <3>8, SectionLeaves
      <4> QED
        BY <2>2, <3>3, <3>5, <3>6, <4>1 DEF ClaimsOK
    <3> QED
      BY <3>7, <3>8
  <2>7. CASE SectionSaves(kind, p, q) /\ ~saving'
    <3>1. Release(kind, p, Tail(q)) /\ kind \notin {"setup", "finish", "cancelled"}
      BY <2>7 DEF SectionSaves, Save
    <3>2. p # NoPlan => Owned'
      BY <1>1, <2>3, <2>4, <3>1, ReleaseOwns, OwnedIs
    <3>3. p = NoPlan /\ Owned => Owned'
      <4>1. p = NoPlan => run' = run /\ waiting' = waiting /\ queue' = Tail(q)
        BY <1>1, <2>3, <2>4, <3>1, ReleaseOwns
      <4>2. "cancelled" \in Kinds(queue) => "cancelled" \in Kinds(Tail(q))
        BY <2>2, <2>3, <3>1, KindsTail
      <4> QED
        BY <2>4, <4>1, <4>2, OwnedIs
    <3>4. starting /\ ~starting' => kind \in {"started", "resume"}
      BY <2>7 DEF SectionSaves
    <3>5. CASE p # NoPlan
      BY <2>7, <3>2, <3>5 DEF ClaimsOK
    <3>6. CASE p = NoPlan
      <4>1. retry > 0 => \/ Handled(cycles') = {}
                         \/ /\ kind \notin {"started", "finish", "cancelled", "setup"}
                            /\ Handled(cycles') \subseteq Handled(cycles)
                            /\ kind = "resume" /\ starting => starting'
                         \/ kind = "setup" /\ starting'
        BY <1>1, <2>1, <2>4, <3>6, SectionLeaves
      <4> QED
        BY <2>2, <2>7, <3>3, <3>4, <3>6, <4>1 DEF ClaimsOK
    <3> QED
      BY <3>5, <3>6
  <2> QED
    BY <2>1, <2>5, <2>6, <2>7
<1> QED
  BY <1>2, <1>3

LEMMA SaveEndsClaims ==
  ASSUME "savefail" \notin Moves, OpenInv, ClaimsOK, SaveEnds
  PROVE  ClaimsOK'
<1>1. TypeOK /\ queue \in Seq(Jobs) /\ (saving => queue # <<>>)
  BY DEF OpenInv, QuietInv, LifeInv, TypeOK, TasksOK
<1>2. SaveSucceeds
  BY DEF SaveEnds, SaveFails, SetupSaveFails, ResumeSaveFails
<1>0. saving /\ ~saving' /\ UNCHANGED <<retry, starting, cycles>>
  BY <1>2 DEF SaveSucceeds, Release, config, phase
<1>3. PICK kind, p, q : /\ kind = Head(queue).kind /\ p = claim /\ q = Tail(queue)
                        /\ Release(kind, p, q)
  <2>1. SaveSucceeds =>
          \E kind, p, q : /\ kind = Head(queue).kind /\ p = claim /\ q = Tail(queue)
                          /\ Release(kind, p, q)
    BY DEF SaveSucceeds, Release, Dispatch
  <2> QED
    BY <1>2, <2>1
<1>4. kind # "blocked" /\ q \in Seq(Jobs)
  BY <1>0, <1>1, <1>3, NeverBlocked, HeadKind, TailElements
<1>5. CASE claim # NoPlan
  <2>1. TypeOK /\ Release(kind, p, q) /\ p # NoPlan
    BY <1>1, <1>3, <1>5
  <2>2. Owned'
    BY <1>4, <2>1, ReleaseOwns, OwnedIs
  <2> QED
    BY <1>0, <1>5, <2>2 DEF ClaimsOK
<1>6. CASE claim = NoPlan /\ kind \in {"finish", "cancelled"}
  <2>1. retry > 0 => Handled(cycles) = {}
    BY <1>0, <1>3, <1>6 DEF ClaimsOK
  <2> QED
    BY <1>0, <2>1 DEF ClaimsOK
<1>7. CASE claim = NoPlan /\ kind \notin {"finish", "cancelled"}
  <2>1. run' = run /\ waiting' = waiting /\ queue' = q
    BY <1>1, <1>3, <1>4, <1>7, ReleaseOwns
  <2>2. "cancelled" \in Kinds(queue) => "cancelled" \in Kinds(queue')
    BY <1>0, <1>1, <1>3, <1>7, <2>1, KindsTail
  <2>3. Owned => Owned'
    BY <1>7, <2>1, <2>2, OwnedIs
  <2> QED
    BY <1>0, <2>3 DEF ClaimsOK
<1> QED
  BY <1>5, <1>6, <1>7

\* With retries configured no claim is orphaned: an execution, a plan in line,
\* a save that hands over a plan or the recovery of a cancelled execution is
\* there to attempt the entity or to rearm it (controller.py,
\* _rearm_interrupted_cycles_locked and the handler of a cancellation in
\* _async_execute). Assumed are a store that does not fail and a gate that
\* stays open: either loses a plan whose claims stay (controller.py:444, and
\* the run gate_strands_claim).
THEOREM ClaimsAreOwned ==
  ASSUME "savefail" \notin Moves, "gate" \notin Moves, "earlytoggle" \notin Moves
  PROVE  Spec => []ClaimsHaveOwner
<1>1. Init => OpenInv /\ ClaimsOK
  <2>1. Init => cycles = NoCycles
    BY DEF Init
  <2> QED
    BY <2>1, OpenInit DEF ClaimsOK, Handled, Active, NoCycles
<1>2. OpenInv /\ ClaimsOK /\ [Next]_vars => OpenInv' /\ ClaimsOK'
  <2>1. OpenInv /\ [Next]_vars => OpenInv'
    BY OpenNext
  <2>2. ASSUME ClaimsOK, UNCHANGED vars PROVE ClaimsOK'
    <3>1. UNCHANGED <<retry, starting, cycles, saving, claim, waiting, run, queue>>
      BY <2>2 DEF vars, config, rule, phase, tasks
    <3>2. Owned' = Owned
      BY <3>1 DEF Owned
    <3> QED
      BY <2>2, <3>1, <3>2 DEF ClaimsOK
  <2>3. OpenInv /\ ClaimsOK /\ Next => ClaimsOK'
    BY HomeClaims, ExecutionClaims, LifeCycleClaims, SectionClaimsOwned, SaveEndsClaims DEF Next
  <2> QED
    BY <2>1, <2>2, <2>3
<1>3. ClaimsOK => ClaimsHaveOwner
  BY DEF ClaimsOK, ClaimsHaveOwner
<1> QED
  BY <1>1, <1>2, <1>3, PTL DEF Spec

-----------------------------------------------------------------------------
(* The switch *)

Toggles == {"enable", "disable"}

\* A request of the switch is handled before the next one is made, and the rule
\* is inhibited while it is disabled or is about to be.
SwitchOK ==
  /\ Single(queue, Toggles)
  /\ entry # "loaded" => Kinds(queue) \cap Toggles = {}
  /\ saving /\ Head(queue).kind = "disable" => ~enabled
  /\ entry = "loaded" => (inhibited <=> ~enabled \/ "disable" \in Kinds(queue))
  /\ entry \notin {"stopping", "draining", "resuming", "failed"}

SwitchInv == LifeInv /\ SwitchOK

\* A step that uses the switch not at all.
LEMMA IdleSwitch ==
  ASSUME SwitchInv, UNCHANGED <<entry, enabled, inhibited, saving>>,
         \/ queue' = queue
         \/ \E j \in Jobs : queue' = Append(queue, j) /\ j.kind \notin Toggles
  PROVE  SwitchOK'
<1>1. queue \in Seq(Jobs) /\ (saving => queue # <<>>)
  BY DEF SwitchInv, LifeInv, TypeOK, TasksOK
<1>2. /\ Kinds(queue') \cap Toggles = Kinds(queue) \cap Toggles /\ Single(queue', Toggles)
      /\ saving => Head(queue') = Head(queue)
  <2>1. CASE queue' = queue
    BY <2>1 DEF SwitchInv, SwitchOK
  <2>2. ASSUME NEW j \in Jobs, queue' = Append(queue, j), j.kind \notin Toggles
        PROVE  /\ Kinds(queue') \cap Toggles = Kinds(queue) \cap Toggles
               /\ Single(queue', Toggles)
               /\ saving => Head(queue') = Head(queue)
    BY <1>1, <2>2, KindsAppend, AppendElements DEF SwitchInv, SwitchOK
  <2> QED
    BY <2>1, <2>2
<1>3. "disable" \in Kinds(queue') <=> "disable" \in Kinds(queue)
  BY <1>2 DEF Toggles
<1> QED
  BY <1>2, <1>3 DEF SwitchInv, SwitchOK

\* With one request at a time, the switch is used when none is waiting.
LEMMA SwitchFree ==
  ASSUME MaxToggles <= 1, TypeOK, Switchable
  PROVE  Kinds(queue) \cap Toggles = {}
<1> DEFINE waits == {i \in 1..Len(queue) : queue[i].kind \in {"enable", "disable"}}
<1>1. Len(queue) \in Nat /\ MaxToggles \in Nat
  BY ControllerAssumption DEF TypeOK, TasksOK
<1>2. IsFiniteSet(waits)
  <2>1. IsFiniteSet(1..Len(queue))
    BY <1>1, FS_Interval
  <2>2. waits \in SUBSET (1..Len(queue))
    OBVIOUS
  <2> QED
    BY <2>1, <2>2, FS_Subset
<1>3. Cardinality(waits) \in Nat /\ Cardinality(waits) < MaxToggles
  BY <1>2, FS_CardinalityType DEF Switchable
<1>4. Cardinality(waits) = 0
  BY <1>1, <1>3
<1>5. waits = {}
  BY <1>2, <1>4, FS_EmptySet
<1> QED
  BY <1>5 DEF Kinds, Toggles

LEMMA RequestSwitch ==
  ASSUME MaxToggles <= 1, "reload" \notin Moves, "earlytoggle" \notin Moves,
         SwitchInv, RequestEnable \/ RequestDisable
  PROVE  SwitchOK'
<1>1. TypeOK /\ SwitchOK /\ queue \in Seq(Jobs) /\ (saving => queue # <<>>)
  BY DEF SwitchInv, LifeInv, TypeOK, TasksOK
<1>2. Switchable /\ entry = "loaded" /\ Kinds(queue) \cap Toggles = {}
  <2>1. Switchable
    BY DEF RequestEnable, RequestDisable
  <2> QED
    BY <1>1, <2>1, SwitchFree DEF Switchable, SwitchOK
<1>3. PICK k \in Toggles :
        /\ queue' = Append(queue, Call(k, NoTime)) /\ UNCHANGED <<entry, enabled, saving>>
        /\ inhibited' = IF k = "disable" THEN TRUE ELSE inhibited
  BY DEF RequestEnable, RequestDisable, Post, Toggles, rule
<1>4. Call(k, NoTime) \in Jobs /\ Call(k, NoTime).kind = k
  BY DEF Toggles, Call, Job, Jobs, JobKinds, Reports, Gate, NoTime
<1>5. /\ Kinds(queue') = Kinds(queue) \cup {k}
      /\ Single(queue', Toggles)
      /\ saving => Head(queue') = Head(queue)
  BY <1>1, <1>2, <1>3, <1>4, KindsAppend, AppendElements DEF SwitchOK
<1>6. k = "enable" \/ k = "disable"
  BY DEF Toggles
<1>7. "disable" \notin Kinds(queue)
  BY <1>2 DEF Toggles
<1> QED
  BY <1>1, <1>2, <1>3, <1>5, <1>6, <1>7 DEF SwitchOK

LEMMA EmptySwitch ==
  ASSUME entry' \in {"down", "loading", "read", "setup", "failing"},
         Kinds(queue') \cap Toggles = {}, Single(queue', Toggles),
         saving' => Head(queue').kind \in Kinds(queue')
  PROVE  SwitchOK'
BY DEF SwitchOK, Toggles

LEMMA HomeSwitch ==
  ASSUME MaxToggles <= 1, "reload" \notin Moves, "earlytoggle" \notin Moves,
         SwitchInv, Tick \/ Fire \/ Environment
  PROVE  SwitchOK'
<1>1. CASE Crash
  <2>1. entry' = "down" /\ queue' = <<>> /\ ~saving'
    BY <1>1 DEF Crash
  <2> QED
    BY <2>1, KindsEmpty, EmptySwitch
<1>2. CASE RequestEnable \/ RequestDisable
  BY <1>2, RequestSwitch
<1>3. CASE ~Crash /\ ~RequestEnable /\ ~RequestDisable
  <2>1. UNCHANGED <<entry, enabled, inhibited, saving>>
    BY <1>3, HomeSummary DEF SwitchInv, LifeInv
  <2>2. \/ queue' = queue
        \/ \E j \in Jobs : queue' = Append(queue, j) /\ j.kind \notin Toggles
    BY <1>3, HomeSummary DEF SwitchInv, LifeInv, Toggles
  <2> QED
    BY <2>1, <2>2, IdleSwitch
<1> QED
  BY <1>1, <1>2, <1>3

LEMMA ExecutionSwitch ==
  ASSUME SwitchInv, Execution
  PROVE  SwitchOK'
<1>1. \A k \in RunKinds \cup {"cancelled"} :
        Call(k, NoTime) \in Jobs /\ Call(k, NoTime).kind = k /\ k \notin Toggles
  BY RunCalls DEF RunKinds, Toggles
<1>2. UNCHANGED <<entry, enabled, inhibited, saving>>
  BY ExecutionSummary DEF SwitchInv, LifeInv, rule
<1>3. \/ queue' = queue
      \/ \E j \in Jobs : queue' = Append(queue, j) /\ j.kind \notin Toggles
  BY <1>1, ExecutionSummary DEF SwitchInv, LifeInv
<1> QED
  BY <1>2, <1>3, IdleSwitch

LEMMA LifeCycleSwitch ==
  ASSUME "reload" \notin Moves, SwitchInv, LifeCycle
  PROVE  SwitchOK'
<1>1. /\ TypeOK /\ SwitchOK /\ queue \in Seq(Jobs) /\ (saving => queue # <<>>)
      /\ ~BeginStop /\ ~RejectUnload
  BY DEF SwitchInv, LifeInv, TypeOK, TasksOK, BeginStop, RejectUnload
<1>2. /\ Kinds(queue) \cap Toggles = {} /\ Single(queue, Toggles)
      /\ entry' \in {"down", "loading", "read", "setup", "failing"}
  BY <1>1 DEF LifeCycle, Load, ReadStore, LoadFails, BeginSetup, FinishUnload, RollBack, SwitchOK
<1>3. CASE LoadFails
  <2>1. queue' = Outdated(queue) /\ saving' = FALSE
    BY <1>3 DEF LoadFails, RollBack
  <2>2. Kinds(queue') \cap Toggles = {} /\ Single(queue', Toggles)
    BY <1>1, <1>2, <2>1, KindsOutdated DEF Toggles
  <2> QED
    BY <1>2, <2>1, <2>2, EmptySwitch
<1>4. CASE ~LoadFails
  <2>1. saving' = saving /\ (queue' = queue \/ queue' = Append(queue, Call("setup", NoTime)))
    BY <1>1, <1>4 DEF LifeCycle, Load, ReadStore, BeginSetup, FinishUnload, Post, tasks
  <2>2. Call("setup", NoTime) \in Jobs /\ Call("setup", NoTime).kind = "setup"
    BY DEF Call, Job, Jobs, JobKinds, Reports, Gate, NoTime
  <2>3. Kinds(queue') \cap Toggles = {} /\ Single(queue', Toggles)
    BY <1>1, <1>2, <2>1, <2>2, KindsAppend DEF Toggles
  <2>4. saving' => Head(queue').kind \in Kinds(queue')
    BY <1>1, <2>1, <2>2, KindsTail, KindsAppend, AppendElements
  <2> QED
    BY <1>2, <2>3, <2>4, EmptySwitch
<1> QED
  BY <1>3, <1>4

\* The lock is released by a section that leaves the switch as the lock found
\* it, or as it has just set it.
LEMMA ReleaseSwitch ==
  ASSUME SwitchInv, queue # <<>>, NEW q, q = queue \/ q = Outdated(queue),
         NEW kind, kind = Head(queue).kind, NEW p, Release(kind, p, Tail(q)),
         kind = "setup" => inhibited' = ~enabled',
         kind = "enable" => (enabled' /\ ~inhibited') \/ UNCHANGED <<enabled, inhibited>>,
         kind = "disable" => ~enabled' /\ inhibited' = inhibited,
         kind \notin {"setup", "enable", "disable"} => UNCHANGED <<enabled, inhibited>>
  PROVE  SwitchOK'
<1>1. TypeOK /\ SwitchOK /\ LifeOK /\ queue \in Seq(Jobs) /\ kind \in Kinds(queue)
  BY HeadKind DEF SwitchInv, LifeInv, TypeOK, TasksOK
<1>2. ~saving' /\ entry' = EntryAfter(kind)
  BY DEF Release
<1>3. Fits(kind, entry)
  BY <1>1 DEF LifeOK, JobsOK
<1>4. kind \notin {"stop", "resume"} /\ (kind = "setup" => entry = "setup")
  BY <1>1, <1>3 DEF Fits, SwitchOK
<1>5. entry' = IF kind = "setup" THEN "loaded" ELSE entry
  BY <1>2, <1>4 DEF EntryAfter
<1>6. /\ Single(Tail(q), Toggles) /\ Tail(q) \in Seq(Jobs)
      /\ Kinds(Tail(q)) \cap Toggles \subseteq Kinds(queue)
      /\ kind \in Toggles => Kinds(Tail(q)) \cap Toggles = {}
      /\ kind \notin Toggles => Kinds(queue) \cap Toggles \subseteq Kinds(Tail(q))
  <2>1. /\ q \in Seq(Jobs) /\ q # <<>> /\ Tail(q) \in Seq(Jobs)
        /\ Kinds(Tail(q)) \subseteq Kinds(q) /\ Kinds(q) \subseteq Kinds(queue) \cup {"outdated"}
        /\ Kinds(queue) \ {"deadline"} \subseteq Kinds(q)
        /\ kind # "deadline" => Head(q) = Head(queue)
        /\ kind = "deadline" => Head(q).kind \in {"deadline", "outdated"}
        /\ \A K : Single(queue, K) /\ "outdated" \notin K =>
              /\ Single(q, K) /\ Single(Tail(q), K)
              /\ Head(q).kind \in K => Kinds(Tail(q)) \cap K = {}
    BY <1>1, SectionQueue
  <2>2. Kinds(q) = Kinds(Tail(q)) \cup {Head(q).kind}
    BY <2>1, KindsTail
  <2>3. "outdated" \notin Toggles /\ "deadline" \notin Toggles
    BY DEF Toggles
  <2>4. kind \in Toggles => Head(q).kind = kind
    BY <2>1, <2>3
  <2>5. kind \notin Toggles => Head(q).kind \notin Toggles
    BY <2>1 DEF Toggles
  <2> QED
    BY <1>1, <2>1, <2>2, <2>3, <2>4, <2>5 DEF SwitchOK
<1>7. Single(queue', Toggles) /\ Kinds(queue') \cap Toggles = Kinds(Tail(q)) \cap Toggles
  <2>1. \A k \in RunKinds : /\ Call(k, NoTime) \in Jobs /\ Call(k, NoTime).kind = k
                            /\ k \notin Toggles
    BY RunCalls DEF RunKinds, Toggles
  <2>2. CASE queue' = Tail(q)
    BY <1>6, <2>2
  <2>3. ASSUME NEW k \in RunKinds, queue' = Append(Tail(q), Call(k, NoTime))
        PROVE  Single(queue', Toggles) /\ Kinds(queue') \cap Toggles = Kinds(Tail(q)) \cap Toggles
    BY <1>6, <2>1, <2>3, KindsAppend
  <2> QED
    BY <2>2, <2>3, ReleaseRun
<1>8. "disable" \in Kinds(queue') <=> "disable" \in Kinds(Tail(q))
  BY <1>7 DEF Toggles
<1>9. "disable" \in Kinds(Tail(q)) <=> kind \notin Toggles /\ "disable" \in Kinds(queue)
  BY <1>6 DEF Toggles
<1>10. entry' # "loaded" => Kinds(queue') \cap Toggles = {}
  BY <1>1, <1>5, <1>6, <1>7 DEF SwitchOK
<1>11. ASSUME entry' = "loaded"
       PROVE  inhibited' <=> ~enabled' \/ "disable" \in Kinds(queue')
  <2>1. CASE kind = "setup"
    <3>1. "disable" \notin Kinds(queue)
      BY <1>1, <1>4, <2>1 DEF SwitchOK, Toggles
    <3> QED
      BY <1>8, <1>9, <2>1, <3>1
  <2>2. CASE kind = "enable"
    <3>1. Kinds(Tail(queue)) \cap Toggles = {} /\ Kinds(queue) = Kinds(Tail(queue)) \cup {kind}
      BY <1>1, <2>2, KindsTail DEF SwitchOK, Toggles
    <3>2. "disable" \notin Kinds(queue) /\ "disable" \notin Kinds(queue')
      BY <1>8, <1>9, <2>2, <3>1 DEF Toggles
    <3> QED
      BY <1>1, <1>5, <1>11, <2>2, <3>2 DEF SwitchOK
  <2>3. CASE kind = "disable"
    <3>1. inhibited
      BY <1>1, <1>5, <1>11, <2>3 DEF SwitchOK
    <3> QED
      BY <1>8, <1>9, <2>3, <3>1
  <2>4. CASE kind \notin {"setup", "enable", "disable"}
    BY <1>1, <1>5, <1>8, <1>9, <1>11, <2>4 DEF SwitchOK, Toggles
  <2> QED
    BY <2>1, <2>2, <2>3, <2>4
<1> QED
  BY <1>1, <1>2, <1>5, <1>7, <1>10, <1>11 DEF SwitchOK

LEMMA SectionSwitch ==
  ASSUME SwitchInv, Section
  PROVE  SwitchOK'
<1>1. TypeOK /\ SwitchOK /\ LifeOK /\ LifeInv /\ queue \in Seq(Jobs)
  BY DEF SwitchInv, LifeInv, TypeOK, TasksOK
<1>2. CASE Skip
  <2>1. /\ queue # <<>> /\ ~saving /\ ~saving' /\ Stale(Head(queue)) /\ queue' = Tail(queue)
        /\ UNCHANGED <<entry, enabled, inhibited>>
    BY <1>2 DEF Skip, rule
  <2>2. /\ Kinds(queue) = Kinds(Tail(queue)) \cup {Head(queue).kind}
        /\ Single(Tail(queue), Toggles)
        /\ Head(queue).kind \in Toggles => Kinds(Tail(queue)) \cap Toggles = {}
    BY <1>1, <2>1, KindsTail DEF SwitchOK
  <2>3. entry = "loaded" => ~unloaded
    BY <1>1 DEF LifeOK, InCharge
  <2>4. entry = "loaded" /\ Head(queue).kind = "disable" => ~enabled
    BY <2>1, <2>3 DEF Stale
  <2> QED
    BY <1>1, <2>1, <2>2, <2>4 DEF SwitchOK, Toggles
<1>3. CASE ~Skip
  <2>1. PICK kind, p, q : /\ SectionRuns(kind, p, q) /\ SectionCycles(kind, p)
                          /\ SectionSaves(kind, p, q) \/ SectionWaits(kind, p, q)
    BY <1>1, <1>3, SectionSummary
  <2>2. /\ queue # <<>> /\ saving = FALSE /\ kind = Head(queue).kind
        /\ q = queue \/ q = Outdated(queue)
        /\ kind = "enable" => enabled' /\ ~inhibited'
        /\ kind = "disable" => ~enabled' /\ inhibited' = inhibited
        /\ kind \notin {"setup", "enable", "disable", "resume"} => UNCHANGED <<enabled, inhibited>>
    BY <2>1 DEF SectionRuns
  <2>3. kind \notin {"stop", "resume"} /\ (kind = "setup" => entry = "setup")
    BY <1>1, <2>2, HeadKind DEF LifeOK, JobsOK, Fits, SwitchOK
  <2>4. CASE ~saving'
    <3>1. Release(kind, p, Tail(q)) /\ (kind = "setup" => inhibited' = ~enabled')
      BY <2>1, <2>4 DEF SectionSaves, SectionWaits, Save
    <3>2. kind \notin {"setup", "enable", "disable"} => UNCHANGED <<enabled, inhibited>>
      BY <2>2, <2>3
    <3> QED
      BY <2>2, <3>1, <3>2, ReleaseSwitch
  <2>5. CASE saving'
    <3>1. SectionSaves(kind, p, q) /\ queue' = q /\ entry' = entry
      BY <2>1, <2>5 DEF SectionSaves, SectionWaits, Save, Release
    <3>2. /\ Kinds(q) \subseteq Kinds(queue) \cup {"outdated"}
          /\ Kinds(queue) \ {"deadline"} \subseteq Kinds(q)
          /\ kind # "deadline" => Head(q) = Head(queue)
          /\ kind = "deadline" => Head(q).kind \in {"deadline", "outdated"}
          /\ \A K : Single(queue, K) /\ "outdated" \notin K => Single(q, K)
      BY <1>1, <2>2, SectionQueue
    <3>3. Single(q, Toggles) /\ Kinds(q) \cap Toggles = Kinds(queue) \cap Toggles
      BY <1>1, <3>2 DEF SwitchOK, Toggles
    <3>4. "disable" \in Kinds(q) <=> "disable" \in Kinds(queue)
      BY <3>3 DEF Toggles
    <3>5. kind \in Kinds(queue) /\ (kind = "enable" => "disable" \notin Kinds(queue))
      <4>1. kind \in Toggles => Kinds(Tail(queue)) \cap Toggles = {}
        BY <1>1, <2>2, KindsTail DEF SwitchOK
      <4>2. Kinds(queue) = Kinds(Tail(queue)) \cup {kind}
        BY <1>1, <2>2, KindsTail
      <4> QED
        BY <4>1, <4>2 DEF Toggles
    <3>6. Head(queue').kind = "disable" => ~enabled'
      BY <2>2, <3>1, <3>2
    <3>7. entry' = "loaded" => (inhibited' <=> ~enabled' \/ "disable" \in Kinds(queue'))
      BY <1>1, <2>2, <2>3, <3>1, <3>4, <3>5 DEF SwitchOK
    <3> QED
      BY <1>1, <3>1, <3>3, <3>6, <3>7 DEF SwitchOK
  <2> QED
    BY <2>4, <2>5
<1> QED
  BY <1>2, <1>3

LEMMA SaveEndsSwitch ==
  ASSUME SwitchInv, SaveEnds
  PROVE  SwitchOK'
<1>1. TypeOK /\ SwitchOK /\ LifeOK /\ queue \in Seq(Jobs)
  BY DEF SwitchInv, LifeInv, TypeOK, TasksOK
<1>2. saving /\ queue # <<>> /\ Fits(Head(queue).kind, entry)
  BY <1>1, SaveEndsSummary, HeadKind DEF LifeOK, JobsOK
<1>3. CASE SetupSaveFails
  <2>1. entry = "setup" /\ entry' = "failing" /\ ~saving' /\ queue' = Outdated(Tail(queue))
    BY <1>2, <1>3 DEF SetupSaveFails, RollBack, Fits
  <2>2. Kinds(Tail(queue)) \cap Toggles = {} /\ Single(Tail(queue), Toggles)
    BY <1>1, <1>2, <2>1, KindsTail DEF SwitchOK
  <2>3. Kinds(queue') \cap Toggles = {} /\ Single(queue', Toggles)
    BY <1>1, <1>2, <2>1, <2>2, KindsOutdated, TailElements DEF Toggles
  <2> QED
    BY <2>1, <2>3, EmptySwitch
<1>4. CASE ResumeSaveFails
  BY <1>1, <1>2, <1>4 DEF ResumeSaveFails, Fits, SwitchOK
<1>5. CASE ~SetupSaveFails /\ ~ResumeSaveFails
  <2>1. PICK kind, p :
          /\ kind = Head(queue).kind /\ Release(kind, p, Tail(queue))
          /\ UNCHANGED <<world, config, phase, enabled, status, cycles, unavailable, timer,
                         lastExec>>
          /\ inhibited' = IF kind = "setup" THEN ~enabled ELSE inhibited
    BY <1>1, <1>5, SaveEndsSummary
  <2>2. kind = "disable" => ~enabled'
    BY <1>1, <1>2, <2>1 DEF SwitchOK
  <2>3. /\ kind = "setup" => inhibited' = ~enabled'
        /\ kind # "setup" => UNCHANGED <<enabled, inhibited>>
    BY <2>1
  <2> QED
    BY <1>2, <2>1, <2>2, <2>3, ReleaseSwitch
<1> QED
  BY <1>3, <1>4, <1>5

LEMMA SwitchInit == Init => SwitchInv
BY LifeInit, KindsEmpty DEF Init, SwitchInv, SwitchOK

LEMMA SwitchNext ==
  ASSUME MaxToggles <= 1, "reload" \notin Moves, "earlytoggle" \notin Moves,
         SwitchInv, [Next]_vars
  PROVE  SwitchInv'
<1>1. LifeInv'
  BY LifeNext DEF SwitchInv
<1>2. CASE UNCHANGED vars
  <2>1. UNCHANGED <<entry, enabled, inhibited, saving, queue>>
    BY <1>2 DEF vars, rule, tasks
  <2> QED
    BY <1>1, <2>1, IdleSwitch DEF SwitchInv
<1>3. CASE Next
  BY <1>1, <1>3, HomeSwitch, ExecutionSwitch, LifeCycleSwitch, SectionSwitch, SaveEndsSwitch
     DEF Next, SwitchInv
<1> QED
  BY <1>2, <1>3

\* The inhibition that stops service calls before the lock is free does not
\* outlive a re-enabling, and it is not lost while the rule is disabled
\* (controller.py, async_set_enabled, which sets _action_inhibited before the
\* lock and resets it under it). Assumed is that a request of the switch is
\* handled before the next is made, for of two that wait together the first
\* resets what the second has set (the run pause_race); that none is made before
\* the set-up; and that the entry is not reloaded, for a refused unload sets the
\* inhibition from _enabled while a request may wait behind it.
THEOREM InhibitionFollowsSwitch ==
  ASSUME MaxToggles <= 1, "reload" \notin Moves, "earlytoggle" \notin Moves
  PROVE  Spec => []InhibitedIffDisabled
<1>1. SwitchInv => InhibitedIffDisabled
  <2> SUFFICES ASSUME SwitchInv, Live, LockFree PROVE inhibited <=> ~enabled
    BY DEF InhibitedIffDisabled
  <2>1. "disable" \notin Kinds(queue)
    BY KindsEmpty DEF LockFree
  <2> QED
    BY <2>1 DEF SwitchInv, SwitchOK, Live
<1>2. SwitchInv /\ [Next]_vars => SwitchInv'
  BY SwitchNext
<1> QED
  BY <1>1, <1>2, SwitchInit, PTL DEF Spec

LEMMA ReleaseKinds ==
  ASSUME NEW q \in Seq(Jobs), NEW kind, NEW p, Release(kind, p, q)
  PROVE  Kinds(q) \subseteq Kinds(queue')
<1>1. \A k \in RunKinds : Call(k, NoTime) \in Jobs
  BY RunCalls
<1>2. \/ queue' = q
      \/ \E k \in RunKinds : queue' = Append(q, Call(k, NoTime))
  BY ReleaseRun
<1> QED
  BY <1>1, <1>2, KindsAppend

\* No service call starts after the switch was turned off, even while that
\* request still waits for the lock (controller.py, _async_execute_serialized,
\* which looks at _action_inhibited before every call). Assumed is what the
\* theorem above assumes, and a store that does not fail: after the failed saves of a
\* blocked plan and of a disabling, an enabling that claims again finds nothing
\* to save, and starts the call in the step that enables the rule.
THEOREM NoCallInDisabledRule ==
  ASSUME MaxToggles <= 1, "reload" \notin Moves, "earlytoggle" \notin Moves,
         "savefail" \notin Moves
  PROVE  Spec => NoCallOnceDisabled
<1> DEFINE Free == \A i \in 1..Len(queue) : queue[i].kind # "disable"
           Inv == QuietInv /\ SwitchInv /\ DurableOK
<1>1. Init => Inv
  BY QuietInit, SwitchInit DEF Init, DurableOK, Live, Parked
<1>2. Inv /\ SkippedSaveIsOnDisk /\ [Next]_vars => Inv'
  BY QuietNext, SwitchNext, DurableNext DEF QuietInv
<1>3. ASSUME Inv, Inv', SkippedSaveIsOnDisk, [Next]_vars, NewCall
      PROVE  enabled /\ Free
  <2>1. /\ TypeOK /\ TaskOK /\ LifeInv /\ SwitchOK /\ SwitchOK' /\ DurableOK
        /\ queue \in Seq(Jobs) /\ run' # run
    BY <1>3 DEF QuietInv, LifeInv, SwitchInv, TypeOK, TasksOK, NewCall
  <2>2. ~inhibited' /\ entry' = "loaded" /\ ~starting' /\ run' # NoRun
    BY <1>3, <2>1, CallStarts, CallWhileLive
  <2>3. enabled' /\ "disable" \notin Kinds(queue')
    BY <2>1, <2>2 DEF SwitchOK
  <2>4. enabled /\ "disable" \notin Kinds(queue)
    <3>1. ASSUME enabled' = enabled, "disable" \in Kinds(queue) => "disable" \in Kinds(queue')
          PROVE  enabled /\ "disable" \notin Kinds(queue)
      BY <2>3, <3>1
    <3>2. CASE Tick \/ Fire \/ Environment
      <4>1. run' \in {run, NoRun}
        BY <2>1, <3>2, HomeSummary DEF Crash
      <4> QED
        BY <2>1, <2>2, <4>1
    <3>3. CASE LifeCycle \/ Skip \/ UNCHANGED vars
      <4>1. run' = run
        BY <3>3 DEF LifeCycle, Load, ReadStore, LoadFails, RollBack, BeginSetup, BeginStop,
                    FinishUnload, RejectUnload, Skip, vars, tasks
      <4> QED
        BY <2>1, <4>1
    <3>4. CASE Execution
      <4>1. /\ enabled' = enabled
            /\ \/ queue' = queue
               \/ \E k \in RunKinds \cup {"cancelled"} : queue' = Append(queue, Call(k, NoTime))
        BY <2>1, <3>4, ExecutionSummary DEF rule
      <4>2. \A k \in RunKinds \cup {"cancelled"} : Call(k, NoTime) \in Jobs
        BY RunCalls
      <4>3. Kinds(queue) \subseteq Kinds(queue')
        BY <2>1, <4>1, <4>2, KindsAppend
      <4> QED
        BY <3>1, <4>1, <4>3
    <3>5. CASE SaveEnds
      <4>1. ~SetupSaveFails /\ ~ResumeSaveFails
        BY <2>1 DEF SetupSaveFails, ResumeSaveFails, RollBack
      <4>2. PICK kind, p : /\ kind = Head(queue).kind /\ Release(kind, p, Tail(queue))
                           /\ enabled' = enabled /\ saving /\ queue # <<>>
        BY <2>1, <3>5, <4>1, SaveEndsSummary
      <4>3. kind # "disable"
        BY <2>1, <2>3, <4>2 DEF SwitchOK
      <4>4. "disable" \in Kinds(queue) => "disable" \in Kinds(Tail(queue))
        BY <2>1, <4>2, <4>3, KindsTail
      <4>5. Kinds(Tail(queue)) \subseteq Kinds(queue')
        BY <2>1, <4>2, ReleaseKinds, TailElements
      <4> QED
        BY <3>1, <4>2, <4>4, <4>5
    <3>6. CASE Section /\ ~Skip
      <4>1. PICK kind, p, q : /\ SectionRuns(kind, p, q)
                              /\ SectionSaves(kind, p, q) \/ SectionWaits(kind, p, q)
        BY <2>1, <3>6, SectionSummary
      <4>2. /\ queue # <<>> /\ saving = FALSE /\ ~Stale(Head(queue)) /\ kind = Head(queue).kind
            /\ q = queue \/ q = Outdated(queue)
            /\ kind \notin {"enable", "disable", "setup"} => enabled' = enabled
            /\ kind = "disable" => ~enabled'
            /\ retry' = retry
        BY <4>1 DEF SectionRuns
      <4>3. ~SectionWaits(kind, p, q) /\ ~saving'
        <5>1. SectionWaits(kind, p, q) => run' = run
          BY ReleaseRun DEF SectionWaits, RunKinds
        <5>2. SectionSaves(kind, p, q) /\ saving' => run' = run
          BY DEF SectionSaves, Save, Release
        <5> QED
          BY <2>1, <4>1, <5>1, <5>2
      <4>4. /\ Release(kind, p, Tail(q)) /\ Payload' = lastSaved /\ kind # "setup"
            /\ kind = "enable" => (starting' <=> starting)
        BY <4>1, <4>3 DEF SectionSaves, Save
      <4>5. kind # "enable"
        <5>1. SUFFICES ASSUME kind = "enable" PROVE FALSE
          OBVIOUS
        <5>2. entry = "loaded" /\ ~starting /\ ~unloaded
          BY <1>3, <2>2, <4>2, <4>4, <5>1, SectionPhase
        <5>3. ~enabled
          BY <4>2, <5>1 DEF Stale
        <5>4. disk = Payload
          BY <2>1, <4>2, <5>2 DEF DurableOK, Live
        <5>5. lastSaved # NoData
          <6>1. Payload'.retry = retry
            BY <4>2 DEF Payload
          <6> QED
            BY <2>1, <4>4, <6>1 DEF NoData, NoTime, TypeOK, ConfigOK
        <5>6. Payload' = Payload
          BY <1>3, <4>4, <5>4, <5>5 DEF SkippedSaveIsOnDisk
        <5> QED
          BY <2>3, <5>3, <5>6 DEF Payload
      <4>6. enabled' = enabled /\ kind # "disable"
        BY <2>3, <4>2, <4>4, <4>5
      <4>7. /\ Tail(q) \in Seq(Jobs) /\ q \in Seq(Jobs) /\ q # <<>>
            /\ "disable" \in Kinds(queue) => "disable" \in Kinds(q)
            /\ Head(q).kind # "disable"
        BY <2>1, <4>2, <4>6, SectionQueue
      <4>8. "disable" \in Kinds(q) => "disable" \in Kinds(Tail(q))
        BY <4>7, KindsTail
      <4>9. Kinds(Tail(q)) \subseteq Kinds(queue')
        BY <4>4, <4>7, ReleaseKinds
      <4> QED
        BY <3>1, <4>6, <4>7, <4>8, <4>9
    <3> QED
      BY <1>3, <3>2, <3>3, <3>4, <3>5, <3>6 DEF Next
  <2> QED
    BY <2>4 DEF Kinds
<1>4. Inv /\ Inv' /\ SkippedSaveIsOnDisk /\ [Next]_vars => [NewCall => enabled /\ Free]_vars
  BY <1>3
<1>5. Spec => []SkippedSaveIsOnDisk
  BY SavedIsOnDisk
<1> QED
  BY <1>1, <1>2, <1>4, <1>5, PTL DEF Spec, NoCallOnceDisabled
=============================================================================
