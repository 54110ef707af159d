--------------------------- MODULE RuntimeController ---------------------------
(***************************************************************************)
(* One rule of the integration: the controller (controller.py), the entry  *)
(* life cycle that drives it (__init__.py), and the part of Home Assistant *)
(* they see (entity states, the Shabbat gate, the store, the clock).       *)
(*                                                                         *)
(* The program is one asyncio thread. A coroutine that reaches             *)
(* `async with self._lock` becomes a job at the tail of queue, which is    *)
(* the lock's FIFO of waiters with its holder at the head: one action runs *)
(* a whole locked section up to the save it awaits, and SaveSucceeds or    *)
(* SaveFails ends it. The execution lock is the same: run is its holder,   *)
(* waiting its FIFO of claimed plans.                                      *)
(***************************************************************************)
EXTENDS RuleCycles, Sequences

CONSTANTS
  RetryIntervals,  \* the retry_interval_seconds the options may hold
  Moves,           \* what the environment may do beyond on/off reports
  MaxTime,         \* bound on the clock
  MaxJobs,         \* bound on jobs and plans in line when a report adds one
  MaxToggles       \* bound on switch calls waiting for the lock

ASSUME ControllerAssumption ==
  /\ RetryIntervals \subseteq Nat /\ RetryIntervals # {}
  /\ Moves \subseteq {"lost", "registry", "gate", "toggle", "earlytoggle",
                      "reload", "boot", "crash", "savefail", "servicefail",
                      "cancel"}
  /\ MaxTime \in Nat /\ MaxJobs \in Nat /\ MaxToggles \in Nat

VARIABLES
  \* Home Assistant
  now,           \* dt_util.utcnow()
  entState,      \* hass.states: what each entity reports
  changedAt,     \* last_changed of an "on" state; of the others nobody reads it
  allowed,       \* registry identity and effective area still match the rule
  gate,          \* the Shabbat sensor: "off", "on", or "bad" (not usable)
  haRunning,     \* hass.state is CoreState.running
  entry,         \* where the config entry is in its life cycle
  retry,         \* config.retry_interval_seconds of this controller
  disk,          \* the stored payload
  snapshot,      \* the payload async_load returned, until async_setup used it
  \* the controller's fields
  enabled, inhibited, status, cycles, unavailable, timer, lastExec, lastSaved,
  setupComplete, starting, unloaded, startedSub, subscribed,
  \* its tasks
  queue,         \* jobs on _lock, the holder at the head
  saving,        \* the holder awaits store.async_save
  claim,         \* the plan the holder will execute once it has saved
  waiting,       \* plans waiting for _execution_lock
  run            \* the plan that holds _execution_lock

world == <<now, entState, changedAt, allowed, gate, haRunning>>
config == <<retry, snapshot>>
phase == <<setupComplete, starting, unloaded, startedSub, subscribed>>
rule == <<enabled, inhibited, status, cycles, unavailable, timer, lastExec>>
store == <<disk, lastSaved>>
tasks == <<queue, saving, claim, waiting, run>>
vars == <<world, entry, config, rule, store, phase, tasks>>

-----------------------------------------------------------------------------
(* Types *)

Gate == 0   \* the gate's place among the tracked entities

NoData == [enabled |-> TRUE, retry |-> NoTime, cycles |-> NoCycles,
           lastExec |-> NoTime]

\* A plan is the entity that triggered it: its targets are all the entities,
\* and its claim time, which the code only uses as a lower bound for the time
\* of a later read of the clock, is one the clock has passed.
NoPlan == 0
NoRun == [plan |-> NoPlan, stage |-> "none", target |-> 0, todo |-> {},
          failed |-> FALSE, at |-> NoTime, host |-> "task"]

Payloads == [enabled : BOOLEAN, retry : Int, cycles : Cycles, lastExec : Int]
Plans == Entities
Stages == {"call", "confirm", "blocked", "finish"}
\* Who awaits an execution: async_setup or async_resume, which Home Assistant
\* awaits in turn, or a task of its own.
Hosts == {"task", "setup", "resume"}
Runs == [plan : Plans, stage : Stages, target : Entities \cup {0},
         todo : SUBSET Entities, failed : BOOLEAN, at : Int, host : Hosts]

\* The recoveries of cancelled executions that async_setup and async_resume
\* await (CancelledSetUp).
Unwinding == {"setupcancelled", "resumecancelled"}
JobKinds == {"event", "deadline", "outdated", "enable", "disable", "started",
             "stop", "resume", "setup", "blocked", "finish", "cancelled"}
            \cup Unwinding
Jobs == [kind : JobKinds, ent : Entities \cup {Gate},
         seen : Reports \cup {"on", "off", "bad"}, at : Int]
Statuses == {"initializing", "idle", "countdown", "executing", "completed",
             "error", "disabled", "sensor_unavailable", "waiting_condition"}
Entries == {"down", "loading", "read", "setup", "loaded", "stopping",
            "draining", "resuming", "failing", "failed"}

WorldOK ==
  /\ now \in Nat
  /\ entState \in [Entities -> Reports]
  /\ changedAt \in [Entities -> Int]
  /\ allowed \in [Entities -> BOOLEAN]
  /\ gate \in {"off", "on", "bad"}
  /\ haRunning \in BOOLEAN

ConfigOK == retry \in Nat /\ snapshot \in Payloads

RuleOK ==
  /\ enabled \in BOOLEAN /\ inhibited \in BOOLEAN
  /\ status \in Statuses
  /\ cycles \in Cycles
  /\ unavailable \subseteq Entities
  /\ timer \in Int
  /\ lastExec \in Int

StoreOK == disk \in Payloads /\ lastSaved \in Payloads

PhaseOK ==
  /\ setupComplete \in BOOLEAN /\ starting \in BOOLEAN
  /\ unloaded \in BOOLEAN /\ startedSub \in BOOLEAN /\ subscribed \in BOOLEAN

TasksOK ==
  /\ queue \in Seq(Jobs)
  /\ saving \in BOOLEAN
  /\ saving => queue # <<>>
  /\ claim \in Plans \cup {NoPlan}
  /\ waiting \in Seq(Plans)
  /\ run \in Runs \cup {NoRun}

\* Every variable holds what the code can store in it, and only the holder of
\* the lock saves.
TypeOK ==
  /\ WorldOK /\ entry \in Entries /\ ConfigOK /\ RuleOK /\ StoreOK /\ PhaseOK
  /\ TasksOK

-----------------------------------------------------------------------------
(* The lock and the timer *)

Job(kind, ent, seen, at) == [kind |-> kind, ent |-> ent, seen |-> seen, at |-> at]
Call(kind, at) == Job(kind, Gate, "off", at)
Post(j) == queue' = Append(queue, j)

\* The holder of the lock is about to run a section of this kind.
Holds(kind) == queue # <<>> /\ ~saving /\ Head(queue).kind = kind

\* A new timer generation: a deadline that has fired but not run is void.
Outdated(q) ==
  [i \in DOMAIN q |-> IF q[i].kind = "deadline"
                      THEN [q[i] EXCEPT !.kind = "outdated"] ELSE q[i]]

\* Scheduling the deadline that is already scheduled changes nothing; any
\* other change of the timer starts a new generation.
QueueFor(t) == IF t = timer /\ t # NoTime THEN queue ELSE Outdated(queue)

Payload == [enabled |-> enabled, retry |-> retry, cycles |-> cycles,
            lastExec |-> lastExec]

-----------------------------------------------------------------------------
(* Deciding what is due *)

Outcome(cs, t, st, p) == [cycles |-> cs, timer |-> t, status |-> st, plan |-> p]

\* Nothing is scheduled while the rule is disabled, tracks nothing, waits for
\* the gate or has attempted everything it tracks.
Reconciled(cs, un, on, t) ==
  LET rest(st) == Outcome(cs, NoTime, st, NoPlan)
  IN  IF ~on THEN rest("disabled")
      ELSE IF Active(cs) = {}
           THEN rest(IF un = Entities THEN "sensor_unavailable" ELSE "idle")
      ELSE IF gate # "off"
           THEN rest(IF gate = "bad" THEN "sensor_unavailable"
                     ELSE "waiting_condition")
      ELSE IF Pending(cs) = {} THEN rest("completed")
      ELSE IF ~Due(cs, t)
           THEN Outcome(cs, TriggerDeadline(cs), "countdown", NoPlan)
      ELSE Outcome(Claimed(cs), NoTime, "executing", Trigger(cs))

\* The current states, with the reported one in the place of the entity an
\* event is about.
SeenLatest_Mutant(j) == entState   \* the latest state instead of the event's

Seen(j) == [e \in Entities |-> IF e = j.ent THEN j.seen ELSE entState[e]]
Since(j) == [e \in Entities |-> IF e = j.ent THEN j.at ELSE changedAt[e]]
Sync(cs) == Synced(cs, entState, changedAt, allowed)

\* An armed timer is not moved to another deadline.
InstallKeepsTimer_Mutant(r) ==
  /\ cycles' = r.cycles /\ status' = r.status
  /\ timer' = IF timer # NoTime /\ r.timer # NoTime THEN timer ELSE r.timer

Install(r) == cycles' = r.cycles /\ timer' = r.timer /\ status' = r.status

-----------------------------------------------------------------------------
(* Executing a plan *)

\* Go through the targets that are left, in order, up to the first whose
\* turn_off service has to be called; the others are settled on the way. When
\* the gate blocks or the controller is stopping, none is called.
Advance(p, todo, failed, host, q) ==
  LET callable == IF gate # "off" \/ unloaded' \/ inhibited' THEN {}
                  ELSE {e \in todo : allowed[e] /\ entState[e] = "on"}
      target == CHOOSE e \in callable : \A f \in callable : e <= f
      passed == IF callable = {} THEN todo ELSE {e \in todo : e < target}
      bad == /\ gate = "off"
             /\ \E e \in passed : \/ unloaded' \/ inhibited'
                                  \/ ~allowed[e] \/ entState[e] = "lost"
  IN  IF callable = {}
      THEN /\ run' = [plan |-> p, stage |-> "finish", target |-> 0, todo |-> {},
                      failed |-> failed \/ bad, at |-> now, host |-> host]
           /\ queue' = Append(q, Call("finish", NoTime))
      ELSE /\ run' = [plan |-> p, stage |-> "call", target |-> target,
                      todo |-> {e \in todo : e > target},
                      failed |-> failed \/ bad, at |-> NoTime, host |-> host]
           /\ queue' = q

\* Start a plan that has the execution lock.
Begin(p, host, q) ==
  IF gate # "off"
  THEN /\ run' = [plan |-> p, stage |-> "blocked", target |-> 0, todo |-> {},
                  failed |-> FALSE, at |-> NoTime, host |-> host]
       /\ queue' = Append(q, Call("blocked", NoTime))
  ELSE Advance(p, Entities, FALSE, host, q)

\* Ask for the execution lock. No execution is under way when a set-up, or a
\* refused unload, begins its own.
Dispatch(p, host, q) ==
  IF p = NoPlan THEN queue' = q /\ UNCHANGED <<run, waiting>>
  ELSE IF run # NoRun \/ waiting # <<>>
       THEN waiting' = Append(waiting, p) /\ queue' = q /\ UNCHANGED run
  ELSE Begin(p, host, q) /\ UNCHANGED waiting

-----------------------------------------------------------------------------
(* The end of a locked section *)

EntryAfter(kind) ==
  CASE kind \in {"setup", "resume"} -> "loaded"
    [] kind = "stop" -> "draining"
    [] OTHER -> entry

HostOf(kind) == IF kind \in {"setup", "resume"} THEN kind ELSE "task"

EndRunKept_Mutant(q) == queue' = q /\ UNCHANGED run   \* the task stays tracked

\* The task is discarded from _execution_tasks.
EndRun(q) == run' = NoRun /\ queue' = q

\* The lock is released and the coroutine goes on with what follows it.
Release(kind, p, q) ==
  /\ saving' = FALSE /\ claim' = NoPlan
  /\ entry' = EntryAfter(kind)
  /\ CASE kind = "finish" ->
            /\ IF p = NoPlan THEN EndRun(q) ELSE Begin(p, run.host, q)
            /\ UNCHANGED waiting
       [] kind = "blocked" -> EndRun(q) /\ UNCHANGED waiting
       [] OTHER -> Dispatch(p, HostOf(kind), q)

\* Only a forced save is made.
SaveForced_Mutant(kind, force, p, q) ==
  IF force
  THEN /\ saving' = TRUE /\ claim' = p /\ queue' = q
       /\ UNCHANGED <<entry, waiting, run>>
  ELSE Release(kind, p, Tail(q))

\* A payload equal to the last one saved is not saved again, unless forced.
Save(kind, force, p, q) ==
  IF force \/ Payload' # lastSaved
  THEN /\ saving' = TRUE /\ claim' = p /\ queue' = q
       /\ UNCHANGED <<entry, waiting, run>>
  ELSE Release(kind, p, Tail(q))

SaveSucceeds ==
  LET kind == Head(queue).kind IN
  /\ saving /\ kind \notin Unwinding
  /\ disk' = Payload /\ lastSaved' = Payload
  /\ inhibited' = IF kind = "setup" THEN ~enabled ELSE inhibited
  /\ UNCHANGED <<world, config, phase, enabled, status, cycles, unavailable,
                 timer, lastExec>>
  /\ Release(kind, claim, Tail(queue))

\* The payload is recorded as saved before the save.
SaveFailsRecorded_Mutant ==
  LET kind == Head(queue).kind IN
  /\ "savefail" \in Moves
  /\ saving /\ kind \notin {"setup", "resume"}
  /\ lastSaved' = Payload
  /\ UNCHANGED <<world, config, phase, rule, disk>>
  /\ Release(kind, NoPlan, Tail(queue))

\* The exception is swallowed by the sections that end an execution or stop
\* the controller; elsewhere it ends the coroutine, and its plan with it.
SaveFails ==
  LET kind == Head(queue).kind
      swallowed == kind \in {"finish", "cancelled", "stop"} IN
  /\ "savefail" \in Moves
  /\ saving /\ kind \notin {"setup", "resume"} \cup Unwinding
  /\ kind = "blocked" => run.host = "task"
  /\ UNCHANGED <<world, config, phase, rule, store>>
  /\ Release(kind, IF swallowed THEN claim ELSE NoPlan, Tail(queue))

\* async_setup failed: its rollback, up to the wait for running executions.
RollBack(q) ==
  /\ subscribed' = FALSE /\ startedSub' = FALSE /\ setupComplete' = FALSE
  /\ unloaded' = TRUE /\ inhibited' = TRUE
  /\ timer' = NoTime /\ cycles' = NoCycles
  /\ queue' = Outdated(q) /\ saving' = FALSE /\ claim' = NoPlan
  /\ entry' = "failing"
  /\ UNCHANGED <<world, config, store, enabled, status, unavailable, lastExec,
                 starting, waiting, run>>

SetupSaveFails ==
  /\ "savefail" \in Moves
  /\ saving /\ Head(queue).kind = "setup"
  /\ RollBack(Tail(queue))

\* async_resume failed: the controller stays unloaded.
ResumeSaveFails ==
  /\ "savefail" \in Moves
  /\ saving /\ Head(queue).kind = "resume"
  /\ subscribed' = FALSE /\ startedSub' = FALSE
  /\ unloaded' = TRUE /\ inhibited' = TRUE /\ timer' = NoTime
  /\ queue' = Outdated(Tail(queue)) /\ saving' = FALSE /\ claim' = NoPlan
  /\ entry' = "failed"
  /\ UNCHANGED <<world, config, store, enabled, status, cycles, unavailable,
                 lastExec, setupComplete, starting, waiting, run>>

-----------------------------------------------------------------------------
(* The locked sections *)

\* A section that finds nothing left to do.
Stale(j) ==
  CASE j.kind = "event" -> ~setupComplete \/ unloaded
    [] j.kind = "outdated" -> TRUE
    [] j.kind = "deadline" -> unloaded
    [] j.kind = "enable" -> unloaded \/ enabled
    [] j.kind = "disable" -> unloaded \/ ~enabled
    [] j.kind = "started" -> unloaded \/ ~starting
    [] OTHER -> FALSE

Skip ==
  /\ queue # <<>> /\ ~saving /\ Stale(Head(queue))
  /\ queue' = Tail(queue)
  /\ UNCHANGED <<world, entry, config, rule, store, phase, saving, claim,
                 waiting, run>>

\* _async_state_changed while entity platforms are still starting.
EventWhileStarting ==
  LET j == Head(queue) IN
  /\ Holds("event") /\ ~Stale(j) /\ starting
  /\ cycles' = Synced(cycles, Seen(j), Since(j), allowed)
  /\ unavailable' = Unreadable(Seen(j), allowed)
  /\ UNCHANGED <<world, config, store, phase, enabled, inhibited, status, timer,
                 lastExec>>
  /\ Save("event", FALSE, NoPlan, queue)

\* _async_state_changed.
HandleEvent ==
  LET j == Head(queue)
      un == Unreadable(Seen(j), allowed)
      r == Reconciled(Synced(cycles, Seen(j), Since(j), allowed), un, enabled, now)
  IN
  /\ Holds("event") /\ ~Stale(j) /\ ~starting
  /\ Install(r) /\ unavailable' = un
  /\ UNCHANGED <<world, config, store, phase, enabled, inhibited, lastExec>>
  /\ Save("event", FALSE, r.plan, QueueFor(r.timer))

\* _async_deadline_reached: the time it works with is the deadline's own.
HandleDeadline ==
  LET j == Head(queue)
      un == Unreadable(entState, allowed)
      r == Reconciled(Sync(cycles), un, enabled, j.at)
  IN
  /\ Holds("deadline") /\ ~Stale(j)
  /\ Install(r) /\ unavailable' = un
  /\ UNCHANGED <<world, config, store, phase, enabled, inhibited, lastExec>>
  /\ Save("deadline", FALSE, r.plan, Outdated(queue))

\* async_set_enabled(True), once it has the lock.
HandleEnable ==
  LET un == Unreadable(entState, allowed)
      r == IF starting THEN Outcome(cycles, timer, "initializing", NoPlan)
           ELSE Reconciled(Sync(cycles), un, TRUE, now)
  IN
  /\ Holds("enable") /\ ~Stale(Head(queue))
  /\ enabled' = TRUE /\ inhibited' = FALSE
  /\ Install(r) /\ unavailable' = IF starting THEN unavailable ELSE un
  /\ UNCHANGED <<world, config, store, phase, lastExec>>
  /\ Save("enable", FALSE, r.plan,
          IF starting THEN queue ELSE QueueFor(r.timer))

\* async_set_enabled(False), once it has the lock.
HandleDisable ==
  /\ Holds("disable") /\ ~Stale(Head(queue))
  /\ enabled' = FALSE /\ timer' = NoTime /\ status' = "disabled"
  /\ UNCHANGED <<world, config, store, phase, inhibited, cycles, unavailable,
                 lastExec>>
  /\ Save("disable", FALSE, NoPlan, Outdated(queue))

\* _async_started: reconcile what was restored, now that entities are there.
HandleStarted ==
  LET un == Unreadable(entState, allowed)
      r == Reconciled(Rearmed(Sync(cycles), now, retry), un, enabled, now)
  IN
  /\ Holds("started") /\ ~Stale(Head(queue))
  /\ starting' = FALSE
  /\ Install(r) /\ unavailable' = un
  /\ UNCHANGED <<world, config, store, setupComplete, unloaded, startedSub,
                 subscribed, enabled, inhibited, lastExec>>
  /\ Save("started", TRUE, r.plan, QueueFor(r.timer))

\* What _restore_locked and the retry-interval check leave in memory.
Restored ==
  LET none == snapshot.retry = NoTime
      cs == [e \in Entities |-> IF ~none /\ snapshot.cycles[e] # NoCycle
                                THEN snapshot.cycles[e] ELSE cycles[e]]
      last == IF snapshot.lastExec # NoTime THEN snapshot.lastExec ELSE lastExec
  IN  [enabled |-> IF none THEN enabled ELSE snapshot.enabled,
       cycles |-> Rescheduled(cs, snapshot.retry, retry, last, now),
       lastExec |-> last]

\* async_setup before Home Assistant has started: wait for it.
SetUpWhileStarting ==
  LET m == Restored IN
  /\ Holds("setup") /\ ~haRunning
  /\ enabled' = m.enabled /\ inhibited' = ~m.enabled
  /\ cycles' = m.cycles /\ lastExec' = m.lastExec
  /\ status' = IF m.enabled THEN status ELSE "disabled"
  /\ setupComplete' = TRUE /\ starting' = TRUE /\ unloaded' = FALSE
  /\ startedSub' = TRUE /\ snapshot' = NoData
  /\ UNCHANGED <<world, retry, store, subscribed, unavailable, timer>>
  /\ Release("setup", NoPlan, Tail(queue))

\* async_setup in a running Home Assistant.
HandleSetup ==
  LET m == Restored
      un == Unreadable(entState, allowed)
      r == Reconciled(Rearmed(Sync(m.cycles), now, retry), un, m.enabled, now)
  IN
  /\ Holds("setup") /\ haRunning
  /\ enabled' = m.enabled /\ lastExec' = m.lastExec
  /\ Install(r) /\ unavailable' = un
  /\ setupComplete' = TRUE /\ unloaded' = FALSE /\ snapshot' = NoData
  /\ UNCHANGED <<world, retry, store, starting, startedSub, subscribed, inhibited>>
  /\ Save("setup", TRUE, r.plan, QueueFor(r.timer))

\* The deadline stays scheduled.
HandleStop_Mutant ==
  /\ Holds("stop")
  /\ UNCHANGED <<world, config, store, phase, rule>>
  /\ Save("stop", TRUE, NoPlan, queue)

\* async_stop, once it has the lock.
HandleStop ==
  /\ Holds("stop")
  /\ timer' = NoTime
  /\ UNCHANGED <<world, config, store, phase, enabled, inhibited, status, cycles,
                 unavailable, lastExec>>
  /\ Save("stop", TRUE, NoPlan, Outdated(queue))

\* async_resume while Home Assistant is still starting.
ResumeWhileStarting ==
  /\ Holds("resume") /\ starting /\ ~haRunning
  /\ unloaded' = FALSE /\ inhibited' = ~enabled /\ startedSub' = TRUE
  /\ UNCHANGED <<world, config, store, setupComplete, starting, subscribed,
                 enabled, status, cycles, unavailable, timer, lastExec>>
  /\ Release("resume", NoPlan, Tail(queue))

\* The rule is resumed without a look at what happened meanwhile.
HandleResumeBlind_Mutant ==
  /\ Holds("resume") /\ (starting => haRunning)
  /\ unloaded' = FALSE /\ starting' = FALSE /\ inhibited' = ~enabled
  /\ UNCHANGED <<world, config, store, setupComplete, startedSub, subscribed,
                 enabled, status, cycles, unavailable, timer, lastExec>>
  /\ Save("resume", FALSE, NoPlan, queue)

\* The inhibition of the stop stays.
HandleResumeInhibited_Mutant ==
  LET un == Unreadable(entState, allowed)
      synced == Sync(cycles)
      cs == IF starting THEN Rearmed(synced, now, retry) ELSE synced
      r == Reconciled(cs, un, enabled, now)
  IN
  /\ Holds("resume") /\ (starting => haRunning)
  /\ unloaded' = FALSE /\ starting' = FALSE
  /\ Install(r) /\ unavailable' = un
  /\ UNCHANGED <<world, config, store, setupComplete, startedSub, subscribed,
                 enabled, inhibited, lastExec>>
  /\ Save("resume", FALSE, r.plan, QueueFor(r.timer))

\* async_resume: reconcile what happened while the rule was stopped.
HandleResume ==
  LET un == Unreadable(entState, allowed)
      synced == Sync(cycles)
      cs == IF starting THEN Rearmed(synced, now, retry) ELSE synced
      r == Reconciled(cs, un, enabled, now)
  IN
  /\ Holds("resume") /\ (starting => haRunning)
  /\ unloaded' = FALSE /\ starting' = FALSE /\ inhibited' = ~enabled
  /\ Install(r) /\ unavailable' = un
  /\ UNCHANGED <<world, config, store, setupComplete, startedSub, subscribed,
                 enabled, lastExec>>
  /\ Save("resume", FALSE, r.plan, QueueFor(r.timer))

\* The gate blocked a plan before its first call: give its claims back. What
\* is due again is claimed again, but nothing executes the plan.
HandleBlocked ==
  LET r == Reconciled(Unclaimed(cycles), unavailable, enabled, now) IN
  /\ Holds("blocked")
  /\ Install(r)
  /\ UNCHANGED <<world, config, store, phase, enabled, inhibited, unavailable,
                 lastExec>>
  /\ Save("blocked", FALSE, NoPlan, QueueFor(r.timer))

\* The outcome is shown in the place of what follows.
HandleFinish_Mutant ==
  LET cs == Rearmed(Sync(cycles), run.at, retry)
      st == IF run.failed THEN "error" ELSE "completed"
      follows == Active(cs) # {} /\ retry > 0 /\ ~unloaded
      r == IF follows
           THEN Reconciled(cs, Unreadable(entState, allowed), enabled, run.at)
           ELSE Outcome(cs, timer, st, NoPlan)
  IN
  /\ Holds("finish")
  /\ Install([r EXCEPT !.status = st])
  /\ unavailable' = Unreadable(entState, allowed) /\ lastExec' = run.at
  /\ UNCHANGED <<world, config, store, phase, enabled, inhibited>>
  /\ Save("finish", TRUE, r.plan, IF follows THEN QueueFor(r.timer) ELSE queue)

\* The end of an execution: rearm what is still on and decide what follows.
HandleFinish ==
  LET un == Unreadable(entState, allowed)
      cs == Rearmed(Sync(cycles), run.at, retry)
      st == IF run.failed THEN "error" ELSE "completed"
      r == IF Active(cs) # {} /\ retry > 0 /\ ~unloaded
           THEN Reconciled(cs, un, enabled, run.at)
           ELSE Outcome(cs, timer, st, NoPlan)
      q == IF Active(cs) # {} /\ retry > 0 /\ ~unloaded
           THEN QueueFor(r.timer) ELSE queue
  IN
  /\ Holds("finish")
  /\ Install(r) /\ unavailable' = un /\ lastExec' = run.at
  /\ UNCHANGED <<world, config, store, phase, enabled, inhibited>>
  /\ Save("finish", TRUE, r.plan, q)

\* The recovery of a cancelled execution: rearm, and leave any attempt that
\* is due to a timer that fires at once.
Recovery(kind) ==
  LET un == Unreadable(entState, allowed)
      synced == Sync(cycles)
      rearmed == Rearmed(synced, now, retry)
      r == Reconciled(rearmed, un, enabled, now)
      r2 == IF rearmed = synced \/ unloaded
            THEN Outcome(rearmed, timer, status, NoPlan)
            ELSE IF r.plan # NoPlan
                 THEN Outcome(Unclaimed(r.cycles), now, r.status, NoPlan)
            ELSE r
      q == IF rearmed = synced \/ unloaded THEN queue
           ELSE IF r.plan # NoPlan THEN Outdated(queue)
           ELSE QueueFor(r.timer)
  IN
  /\ Holds(kind)
  /\ Install(r2) /\ unavailable' = un
  /\ UNCHANGED <<world, config, store, phase, enabled, inhibited, lastExec>>
  /\ Save(kind, TRUE, NoPlan, q)

HandleCancelled == Recovery("cancelled")

-----------------------------------------------------------------------------
(* The execution *)

\* Wait for the switched-off state to be reported, unless it is settled.
Unsettled(e) ==
  /\ allowed[e] /\ entState[e] = "on"
  /\ ~unloaded /\ ~inhibited /\ gate = "off"

Confirmed(e) == allowed[e] /\ entState[e] = "off"

Running(stage) == run # NoRun /\ run.stage = stage

\* The target is done: go on to the next one.
Proceed(bad) ==
  /\ UNCHANGED <<world, entry, config, rule, store, phase, saving, claim, waiting>>
  /\ Advance(run.plan, run.todo, run.failed \/ bad, run.host, queue)

ServiceReturns ==
  /\ Running("call")
  /\ IF Unsettled(run.target)
     THEN /\ run' = [run EXCEPT !.stage = "confirm"]
          /\ UNCHANGED <<world, entry, config, rule, store, phase, queue, saving,
                         claim, waiting>>
     ELSE Proceed(~Confirmed(run.target))

\* A service that fails breaks off the plan.
ServiceFails_Mutant ==
  /\ "servicefail" \in Moves
  /\ Running("call")
  /\ UNCHANGED <<world, entry, config, rule, store, phase, saving, claim, waiting>>
  /\ Advance(run.plan, {}, TRUE, run.host, queue)

\* The call raises or takes longer than its timeout.
ServiceFails ==
  /\ "servicefail" \in Moves
  /\ Running("call")
  /\ Proceed(TRUE)

\* A wake-up that finds the target settled, or the confirmation timeout.
ConfirmEnds ==
  /\ Running("confirm")
  /\ Proceed(~Confirmed(run.target))

\* The next plan in line gets the execution lock.
StartNext ==
  /\ run = NoRun /\ waiting # <<>>
  /\ waiting' = Tail(waiting)
  /\ UNCHANGED <<world, entry, config, rule, store, phase, saving, claim>>
  /\ Begin(Head(waiting), "task", queue)

\* The task is cancelled in a service call or a confirmation. (A cancelled
\* set-up or resume is the subject of CancelledSetUp.)
Cancel ==
  /\ "cancel" \in Moves
  /\ Running("call") \/ Running("confirm")
  /\ run.host = "task"
  /\ run' = NoRun
  /\ Post(Call("cancelled", NoTime))
  /\ UNCHANGED <<world, entry, config, rule, store, phase, saving, claim, waiting>>

\* The task is cancelled while it waits for the execution lock.
CancelWaiting ==
  /\ "cancel" \in Moves
  /\ \E i \in 1..Len(waiting) :
       waiting' = SubSeq(waiting, 1, i - 1) \o SubSeq(waiting, i + 1, Len(waiting))
  /\ Post(Call("cancelled", NoTime))
  /\ UNCHANGED <<world, entry, config, rule, store, phase, saving, claim, run>>

Idle_Mutant == TRUE   \* nobody waits for the executions

\* No task tracked in _execution_tasks.
Idle ==
  /\ run = NoRun /\ waiting = <<>>
  /\ \A i \in 1..Len(queue) : queue[i].kind # "cancelled"

-----------------------------------------------------------------------------
(* The life cycle of the entry *)

\* async_setup_entry: a new controller, its platforms, and the load awaited.
Load ==
  /\ entry = "down" /\ queue = <<>>
  /\ entry' = "loading"
  /\ retry' \in RetryIntervals
  /\ enabled' = TRUE /\ inhibited' = FALSE /\ status' = "initializing"
  /\ cycles' = NoCycles /\ unavailable' = {} /\ timer' = NoTime
  /\ lastExec' = NoTime /\ lastSaved' = NoData
  /\ setupComplete' = FALSE /\ starting' = FALSE /\ unloaded' = FALSE
  /\ startedSub' = FALSE /\ subscribed' = FALSE
  /\ UNCHANGED <<world, snapshot, disk, tasks>>

ReadStore ==
  /\ entry = "loading"
  /\ entry' = "read" /\ snapshot' = disk
  /\ UNCHANGED <<world, retry, rule, store, phase, tasks>>

LoadFails ==
  /\ "savefail" \in Moves
  /\ entry = "loading"
  /\ RollBack(queue)

\* async_setup goes on: subscribe, then ask for the lock.
BeginSetup ==
  /\ entry = "read"
  /\ entry' = "setup" /\ subscribed' = TRUE
  /\ Post(Call("setup", NoTime))
  /\ UNCHANGED <<world, config, rule, store, setupComplete, starting, unloaded,
                 startedSub, saving, claim, waiting, run>>

\* Home Assistant still awaits the execution that async_setup, or a refused
\* unload, has begun.
HostAwaited ==
  \/ run.host # "task"
  \/ \E i \in 1..Len(queue) : queue[i].kind \in Unwinding

\* The controller does not take note of the stop before it has the lock.
BeginStop_Mutant ==
  /\ "reload" \in Moves
  /\ entry = "loaded" /\ ~HostAwaited
  /\ entry' = "stopping"
  /\ subscribed' = FALSE /\ startedSub' = FALSE
  /\ Post(Call("stop", NoTime))
  /\ UNCHANGED <<world, config, store, setupComplete, starting, unloaded, rule,
                 saving, claim, waiting, run>>

\* async_unload_entry: what async_stop does before it asks for the lock. No
\* unload begins before the set-up, or an earlier unload, has returned.
BeginStop ==
  /\ "reload" \in Moves
  /\ entry = "loaded" /\ ~HostAwaited
  /\ entry' = "stopping"
  /\ subscribed' = FALSE /\ startedSub' = FALSE
  /\ unloaded' = TRUE /\ inhibited' = TRUE
  /\ Post(Call("stop", NoTime))
  /\ UNCHANGED <<world, config, store, setupComplete, starting, enabled, status,
                 cycles, unavailable, timer, lastExec, saving, claim, waiting, run>>

\* The stop, or the rollback, has waited for every execution, and the
\* platforms are unloaded.
FinishUnload ==
  /\ entry \in {"draining", "failing"} /\ Idle
  /\ entry' = "down" /\ setupComplete' = FALSE
  /\ UNCHANGED <<world, config, rule, store, starting, unloaded, startedSub,
                 subscribed, tasks>>

\* The platforms refuse to unload: async_resume, up to the lock.
RejectUnload ==
  /\ "reload" \in Moves
  /\ entry = "draining" /\ Idle
  /\ entry' = "resuming" /\ subscribed' = TRUE
  /\ Post(Call("resume", NoTime))
  /\ UNCHANGED <<world, config, rule, store, setupComplete, starting, unloaded,
                 startedSub, saving, claim, waiting, run>>

\* Home Assistant dies or shuts down: only the store is left.
Crash ==
  /\ "crash" \in Moves
  /\ entry # "down"
  /\ entry' = "down" /\ haRunning' = FALSE
  /\ entState' = [e \in Entities |-> "lost"]
  /\ changedAt' = [e \in Entities |-> NoTime]
  /\ enabled' = TRUE /\ inhibited' = FALSE /\ status' = "initializing"
  /\ cycles' = NoCycles /\ unavailable' = {} /\ timer' = NoTime
  /\ lastExec' = NoTime /\ lastSaved' = NoData
  /\ setupComplete' = FALSE /\ starting' = FALSE /\ unloaded' = FALSE
  /\ startedSub' = FALSE /\ subscribed' = FALSE
  /\ queue' = <<>> /\ saving' = FALSE /\ claim' = NoPlan
  /\ waiting' = <<>> /\ run' = NoRun /\ snapshot' = NoData
  /\ UNCHANGED <<now, allowed, gate, retry, disk>>

-----------------------------------------------------------------------------
(* The environment *)

Tick ==
  /\ now < MaxTime
  /\ now' = now + 1
  /\ UNCHANGED <<entState, changedAt, allowed, gate, haRunning, entry, config,
                 rule, store, phase, tasks>>

\* The gate is not among the tracked entities.
NotifyEntities_Mutant(j) ==
  IF subscribed /\ j.ent # Gate
  THEN Len(queue) + Len(waiting) < MaxJobs /\ Post(j)
  ELSE UNCHANGED queue

\* The listener's handler is a task that queues on the lock.
Notify(j) ==
  IF subscribed THEN Len(queue) + Len(waiting) < MaxJobs /\ Post(j)
  ELSE UNCHANGED queue

ChangedAt(s) == IF s = "on" THEN now ELSE NoTime

\* An entity reports another state.
Report(e, s) ==
  /\ s # entState[e]
  /\ s = "lost" => "lost" \in Moves
  /\ entState' = [entState EXCEPT ![e] = s]
  /\ changedAt' = [changedAt EXCEPT ![e] = ChangedAt(s)]
  /\ Notify(Job("event", e, s, ChangedAt(s)))
  /\ UNCHANGED <<now, allowed, gate, haRunning, entry, config, rule, store, phase,
                 saving, claim, waiting, run>>

\* The entity leaves or rejoins the area, or is removed from the registry or
\* added to it: nobody is told.
ChangeRegistry(e) ==
  /\ "registry" \in Moves
  /\ allowed' = [allowed EXCEPT ![e] = ~allowed[e]]
  /\ UNCHANGED <<now, entState, changedAt, gate, haRunning, entry, config, rule,
                 store, phase, tasks>>

MoveGate(g) ==
  /\ "gate" \in Moves
  /\ g # gate /\ gate' = g
  /\ Notify(Job("event", Gate, g, NoTime))
  /\ UNCHANGED <<now, entState, changedAt, allowed, haRunning, entry, config, rule,
                 store, phase, saving, claim, waiting, run>>

HaStarts ==
  /\ ~haRunning /\ haRunning' = TRUE
  /\ startedSub' = FALSE
  /\ IF startedSub THEN Post(Call("started", NoTime)) ELSE UNCHANGED queue
  /\ UNCHANGED <<now, entState, changedAt, allowed, gate, entry, config, rule,
                 store, setupComplete, starting, unloaded, subscribed, saving,
                 claim, waiting, run>>

\* Only one fired deadline of a generation can be waiting for the lock.
Fire ==
  /\ timer # NoTime /\ timer <= now
  /\ \A i \in 1..Len(queue) : queue[i].kind # "deadline"
  /\ Post(Call("deadline", timer))
  /\ UNCHANGED <<world, entry, config, rule, store, phase, saving, claim, waiting,
                 run>>

\* The switch platform is up from before async_setup to the unload.
Switchable ==
  /\ \/ entry \in {"loaded", "stopping", "draining", "resuming"} /\ "toggle" \in Moves
     \/ entry \in {"loading", "read", "setup"} /\ "earlytoggle" \in Moves
  /\ Cardinality({i \in 1..Len(queue) : queue[i].kind \in {"enable", "disable"}})
       < MaxToggles

RequestEnable ==
  /\ Switchable
  /\ Post(Call("enable", NoTime))
  /\ UNCHANGED <<world, entry, config, rule, store, phase, saving, claim, waiting,
                 run>>

\* The inhibition waits for the lock, or is forgotten.
RequestDisable_Mutant ==
  /\ Switchable
  /\ Post(Call("disable", NoTime))
  /\ UNCHANGED <<world, entry, config, rule, store, phase, saving, claim, waiting,
                 run>>

\* async_set_enabled(False) inhibits actions before it has the lock.
RequestDisable ==
  /\ Switchable
  /\ inhibited' = TRUE
  /\ Post(Call("disable", NoTime))
  /\ UNCHANGED <<world, entry, config, enabled, status, cycles, unavailable, timer,
                 lastExec, store, phase, saving, claim, waiting, run>>

-----------------------------------------------------------------------------
(* The specification *)

Init ==
  /\ now = 0 /\ changedAt = [e \in Entities |-> NoTime]
  /\ haRunning = ("boot" \notin Moves)
  /\ entState = [e \in Entities |-> IF haRunning THEN "off" ELSE "lost"]
  /\ allowed = [e \in Entities |-> TRUE]
  /\ gate = "off"
  /\ entry = "down" /\ retry \in RetryIntervals
  /\ disk = NoData /\ snapshot = NoData
  /\ enabled = TRUE /\ inhibited = FALSE /\ status = "initializing"
  /\ cycles = NoCycles /\ unavailable = {} /\ timer = NoTime
  /\ lastExec = NoTime /\ lastSaved = NoData
  /\ setupComplete = FALSE /\ starting = FALSE /\ unloaded = FALSE
  /\ startedSub = FALSE /\ subscribed = FALSE
  /\ queue = <<>> /\ saving = FALSE /\ claim = NoPlan
  /\ waiting = <<>> /\ run = NoRun

Environment ==
  \/ \E e \in Entities : (\E s \in Reports : Report(e, s)) \/ ChangeRegistry(e)
  \/ \E g \in {"off", "on", "bad"} : MoveGate(g)
  \/ HaStarts \/ RequestEnable \/ RequestDisable \/ Crash

LifeCycle ==
  \/ Load \/ ReadStore \/ LoadFails \/ BeginSetup
  \/ BeginStop \/ FinishUnload \/ RejectUnload

Section ==
  \/ Skip \/ EventWhileStarting \/ HandleEvent \/ HandleDeadline
  \/ HandleEnable \/ HandleDisable \/ HandleStarted
  \/ SetUpWhileStarting \/ HandleSetup \/ HandleStop
  \/ ResumeWhileStarting \/ HandleResume
  \/ HandleBlocked \/ HandleFinish \/ HandleCancelled

SaveEnds == SaveSucceeds \/ SaveFails \/ SetupSaveFails \/ ResumeSaveFails

Execution ==
  \/ ServiceReturns \/ ServiceFails \/ ConfirmEnds \/ StartNext
  \/ Cancel \/ CancelWaiting

Next == Tick \/ Fire \/ Environment \/ LifeCycle \/ Section \/ SaveEnds \/ Execution

Spec == Init /\ [][Next]_vars

\* The event loop runs every task that can run, the executor finishes every
\* save, a service call ends by its answer or by its timeout, a confirmation
\* ends by its own, and the clock and the timers it drives go on.
Fairness ==
  /\ WF_vars(Tick) /\ WF_vars(Fire)
  /\ WF_vars(Section) /\ WF_vars(SaveEnds)
  /\ WF_vars(ServiceReturns \/ ServiceFails) /\ WF_vars(ConfirmEnds)
  /\ WF_vars(StartNext)
  /\ WF_vars(ReadStore) /\ WF_vars(BeginSetup)
  /\ WF_vars(FinishUnload \/ RejectUnload)

FairSpec == Spec /\ Fairness

-----------------------------------------------------------------------------
(* Properties *)

\* The rule is in charge: set up, started and not being unloaded.
Live == entry = "loaded" /\ ~starting

\* Nobody holds the lock or waits for it.
LockFree == queue = <<>>

\* A live rule never forgets a deadline: with the lock free, an enabled rule
\* that nothing blocks and that has something left to attempt has its timer
\* set for exactly the deadline its policy asks for.
TimerArmed ==
  Live /\ LockFree /\ enabled /\ gate = "off" /\ Pending(cycles) # {}
    => timer = TriggerDeadline(cycles)

\* Once every report has been handled, the cycles are those of the entities
\* that are on. None started after its entity last went on, and each started
\* exactly then where no report can be missed: in an outage, a reload or while
\* Home Assistant is down, an off may pass unseen and the old clock goes on.
CyclesFollowReports ==
  Live /\ LockFree =>
    \A e \in Entities : allowed[e] =>
      /\ entState[e] = "off" => cycles[e] = NoCycle
      /\ entState[e] = "on" =>
           /\ cycles[e] # NoCycle
           /\ cycles[e].started <= changedAt[e]
           /\ {"lost", "reload", "crash"} \cap Moves = {}
                => cycles[e].started = changedAt[e]

\* Some task will execute, or take back, what is claimed.
Owned ==
  \/ run # NoRun \/ waiting # <<>> \/ claim # NoPlan
  \/ \E i \in 1..Len(queue) : queue[i].kind = "cancelled"

\* With retries configured, no entity stays claimed when nothing is left to
\* rearm it: it would be on for ever and never be attempted again.
ClaimsHaveOwner ==
  entry = "loaded" /\ ~starting /\ retry > 0 /\ Handled(cycles) # {} => Owned

\* With the lock free, a restart would find on disk exactly what the live
\* rule has in memory.
DurableWhenLockFree == Live /\ LockFree => disk = Payload

\* The save that is skipped because nothing changed is one the disk has.
SkippedSaveIsOnDisk == lastSaved # NoData => lastSaved = disk

\* Once async_stop has waited, nothing of the rule runs: no execution, no
\* timer, and no task that could start one. Its timer is gone before it waits.
\* Nor does a rule whose set-up, or refused unload, was given up hear or time
\* anything.
StoppedIsQuiet ==
  /\ entry = "down" => /\ run = NoRun /\ waiting = <<>>
                       /\ timer = NoTime /\ ~subscribed
  /\ entry = "draining" => timer = NoTime
  /\ entry = "failed" => timer = NoTime /\ ~subscribed

\* What the status sensor shows is so: it counts down if and only if a timer
\* is set, whatever section changed the one or the other last.
CountdownIffArmed ==
  Live /\ LockFree /\ enabled => (status = "countdown" <=> timer # NoTime)

\* The inhibition that stops service calls at once is the switch's: it does
\* not outlive a re-enabling and it is not lost while the rule is disabled.
InhibitedIffDisabled == Live /\ LockFree => (inhibited <=> ~enabled)

\* A step that starts a service call.
NewCall ==
  /\ run'.stage = "call"
  /\ run.stage # "call" \/ run'.target # run.target

\* No service call starts after the switch was turned off, even while that
\* request still waits for the lock.
NoCallOnceDisabled ==
  [][NewCall => /\ enabled
                /\ \A i \in 1..Len(queue) : queue[i].kind # "disable"]_vars

\* No service call starts once an unload has been asked for, although the
\* stop still waits for the lock and plans wait for their turn, nor before
\* the set-up or the refused unload is over.
NoCallWhileStopping == [][NewCall => entry' = "loaded" /\ ~starting']_vars

\* The start of a clock never changes on disk while the clock is there:
\* outages, reloads, restarts, retries and new options all keep it.
ClockIsDurable ==
  [][\A e \in Entities :
       disk.cycles[e] # NoCycle /\ disk'.cycles[e] # NoCycle
         => disk'.cycles[e].started = disk.cycles[e].started]_vars

\* A clock ends only when its entity was seen off, by the event being handled
\* or by the state itself, or with the controller that keeps it.
OffSeen(e) ==
  \/ entState[e] = "off"
  \/ queue # <<>> /\ Head(queue).ent = e /\ Head(queue).seen = "off"

OnlyOffEndsAClock ==
  [][\A e \in Entities :
       cycles[e] # NoCycle /\ cycles'[e] = NoCycle
         => OffSeen(e) \/ entry' \in {"down", "loading", "failing"}]_vars

\* A target leaves a plan by being called, or by what excuses it at that
\* moment: it is not on, it is not in the rule any more, the gate blocks or the
\* controller is stopping. Whatever the services of the others do, nothing
\* else ends a plan's turn (controller.py, _async_execute_serialized: "Turn each
\* selected active entity off independently").
YetToTry == IF run.stage \in {"call", "confirm"} THEN run.todo ELSE Entities

Excused(e) ==
  ~allowed[e] \/ entState[e] # "on" \/ gate # "off" \/ unloaded' \/ inhibited'

RestIsTried ==
  [][run' # run /\ run'.stage \in {"call", "finish"} =>
       \A e \in YetToTry : e \in run'.todo \/ e = run'.target \/ Excused(e)]_vars

\* The switch pauses the rule: a disabled rule calls no service.
PausedRuleCallsNothing == [][NewCall => enabled]_vars

\* An entity is on for the configured time before it is called (stated for a
\* rule of one entity, where no other can trigger).
CalledOnlyWhenDue == [][NewCall => changedAt[run'.target] + Delay <= now]_vars

\* One attempt per retry interval: no entity is called whose next attempt is
\* not due yet.
NoCallBeforeRetry ==
  [][NewCall => LET c == cycles[run'.target] IN
       c.retryAt # NoTime /\ ~c.handled => c.retryAt <= now]_vars

\* Restart and set-up keep the clocks: while the rule is being set up the disk
\* loses the clock of no entity that is not off.
SetUpKeepsClocks ==
  [][\A e \in Entities :
       entry \in {"loading", "read", "setup"} /\ disk.cycles[e] # NoCycle
         => disk'.cycles[e] # NoCycle \/ entState[e] = "off"]_vars

\* The deadline of a pending cycle does not just pass: the entity is claimed,
\* rescheduled or off in the end, or the rule is no longer in charge.
DueIsClaimed ==
  \A e \in Entities, d \in 0..MaxTime :
    (Live /\ e \in Pending(cycles) /\ Deadline(cycles[e]) = d)
      ~> (~Live \/ e \notin Pending(cycles) \/ Deadline(cycles[e]) # d)

\* A claim does not stay: the entity is off in the end, or due for a retry.
ClaimEnds ==
  \A e \in Entities :
    (retry > 0 /\ e \in Handled(cycles)) ~> e \notin Handled(cycles)

\* An unload gets past every execution that is under way.
StopCompletes == entry = "stopping" ~> entry \in {"down", "loaded"}
=============================================================================
