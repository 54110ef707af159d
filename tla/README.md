# Runtime Auto-Off: a TLA+ verification project

SmplWise Runtime Auto-Off is a Home Assistant integration. One config entry is
one *rule*: a set of entities of one area, a maximum continuous runtime
(`delay`), a retry interval, a policy (`first` or `last`) and optionally a
Shabbat/holiday sensor that blocks it (the *gate*). When the policy's entity has
been on for `delay`, every selected entity that is on gets `turn_off`; what stays
on is attempted again after the retry interval. The clocks are durable: outages,
reloads and restarts must not reset them, only a real `off` does.

This directory models the rule, checks the model with TLC and proves part of it
with TLAPS. Paths below are relative to `src/custom_components/runtime_auto_off`.

## 1. The system

| Component | State | Operations | Correct when |
|---|---|---|---|
| Controller, cycles and decisions (`controller.py`, `models.py`) | `_cycles`, `_unavailable_entities`, `_status` | sync with reported states, rearm, recalculate retries, choose the trigger, claim | cycles follow the reports; only an off ends a clock; the policy's deadline is the one acted on |
| Controller, lock, timer, events (`controller.py`) | `_lock`, `_next_deadline`, `_timer_generation`, subscriptions | state change, deadline, started, enable, disable | no deadline is forgotten; an outdated timer does nothing |
| Controller, execution (`controller.py`) | `_execution_lock`, tasks, confirmation waiters, `_action_inhibited` | gate check, target loop, service, confirmation, finish, cancellation | every claim ends; a paused or stopped rule calls nothing |
| Controller, persistence (`controller.py`, HA's `Store`) | stored payload, `_last_saved_payload` | save, skip an equal save, restore | a restart finds what the live rule knew |
| Entry life cycle (`__init__.py`) | entry state, `_setup_complete`, `_unloaded`, `_starting` | set-up, rollback, unload, refused unload | a stopped rule is quiet; an unload completes |
| Switch (`switch.py`) | none | turn on, turn off | calls stop at once when it is turned off |
| Stored data and options (`models.py`) | none | parse and serialize, defaults | round trips; defaults keep what an old rule did |
| Config and options flow (`config_flow.py`, `_resolve_runtime_config` in `__init__.py`) | `_working`, the registry references of a rule | three forms, validation, resolving at a load | a rule goes on meaning what was picked, whatever is renamed or replaced |
| Area lookup (`helpers.py`) | none | walk parent devices | terminates; the own area wins |
| Sensors, event, entity base, device, diagnostics (`sensor.py`, `binary_sensor.py`, `event.py`, `entity.py`, `device.py`, `diagnostics.py`) | none | read the controller | projections only |

*How they interact.* Everything runs in one asyncio thread. A state report or
the gate's makes a task of `_async_state_changed`; a timer makes one of
`_async_deadline_reached`; the switch calls `async_set_enabled`; Home Assistant
calls `async_setup_entry` and `async_unload_entry`, and `_async_started` once it
runs. Each of these takes `_lock` for one section that changes the cycles,
decides, and awaits a save *with the lock held*. If the decision was to act, the
coroutine then goes on, without `_lock`, to `_async_execute`, which takes
`_execution_lock`, calls the services, and takes `_lock` again to finish. Three
things happen outside `_lock`: `_action_inhibited` is set by a request to disable
before it waits, `_unloaded` by `async_stop`, and subscriptions come and go.

*What is hard.* Sections that queue behind a save; state read before the save
and used after it (the plan); a timer that fired but has not run; crashes
between a claim and its outcome; saves that fail; the gate moving while a
coroutine waits; requests of the switch that overtake each other in what they do
outside the lock; an unload that waits for executions that wait for the lock.
`PROJECT.json` lists each of these hazards at its line.

## 2. The modules

| Module | What it is |
|---|---|
| `RuleCycles` | Pure: cycles, deadlines, trigger, sync, claim, rearm, retry recalculation. |
| `RuntimeController` | The state machine: controller, entry life cycle, and the Home Assistant around them. |
| `Confirmation` | `RuntimeController` with the waiter of a confirmation: its event, wake-ups and timeout. |
| `CancelledSetUp` | `Confirmation` with the cancellation of a set-up or a resume in its own execution. |
| `RuleSpec` | Abstract: what one rule promises, without locks, timers, tasks or a store format. |
| `RuleRefinement` | The mapping by which `RuntimeController` implements `RuleSpec`. |
| `MCRuntimeController` | Names the environments the configurations check these in. |
| `AreaLookup` | Pure: the walk up the parent devices to an entity's area. |
| `RuleOptions` | Pure: a rule's numbers in milliseconds, their defaults, ranges and form fields. |
| `ConfigFlow` | The state machine of the forms, the registries, and the loading of a rule. |
| `MCConfigFlow` | A home and some stored rules to check it with. |
| `RuntimeControllerProofs` | Facts about the pure operators, type correctness, and that a skipped save is on disk. |
| `LifeCycleProofs` | What holds in each phase of the entry: a rule that is not in charge calls nothing, a stopped one leaves nothing behind, and every target of a plan has its turn. |
| `CycleProofs` | Memory and store, clocks, claims, and the switch. |
| `ReportProofs` | That the cycles follow the reports. |
| `TimerProofs` | That the timer is armed, and that the status shows it. |
| `RefinementProofs` | That the controller implements the abstract rule. |
| `ConfirmationProofs` | That the waiter implements the controller the theorems are about, and that no wake-up is lost. |
| `ConfigFlowProofs` | That a rule calls what was picked, that clocks keep their owners, and what an edit proposes. |

The proof modules about the controller form a line, each extending the one before:
`RuntimeControllerProofs`, `LifeCycleProofs`, `CycleProofs`, `ReportProofs`,
`TimerProofs`, `RefinementProofs`, `ConfirmationProofs`.

Two state machines stand side by side. `RuntimeController` is a loaded rule in
time: which sections run, what is due, what is saved. Its entities are fixed, and
the registries are reduced to whether an entity is a usable target (`allowed`).
`ConfigFlow` is the rule's meaning: which entity a target stands for, while the
user edits and the registries change. Its executions are reduced to which targets
one would call. The two meet in `_identity_or_area_error`: `allowed` in the first,
`IdentityError` in the second.

### The controller

* **The lock.** `queue` is `_lock`: its FIFO of waiters, the holder at the head.
  A coroutine reaching `async with self._lock` appends a job (`Post`). One
  action (`HandleEvent`, `HandleDeadline`, `HandleStop`, ...) is a whole locked
  section up to its save: sync, rearm, reconcile, the assignments. `Save` then
  either skips an equal payload and goes straight to `Release`, or sets `saving`
  until `SaveSucceeds` or `SaveFails`. `Release` is what follows the section:
  the claimed plan is executed, the task ends, the entry advances.
* **Early returns** (unloaded, not set up, wrong generation, nothing to change)
  are `Stale`, and `Skip` drops such a job.
* **The timer.** `timer` is `_next_deadline` with its callback armed. The
  generation counter is modelled by what it decides: when the timer is changed,
  a fired deadline that still waits (`deadline`) becomes `outdated`, which is
  what its generation check would find. Scheduling the same deadline again
  changes nothing, as in `_schedule_deadline_locked`.
* **Execution.** `run` holds `_execution_lock`, `waiting` is its FIFO, `claim`
  the plan of the section that is saving. `Advance` goes through the targets up
  to the next service call, checking gate, inhibition and target as the loop
  does; `ServiceReturns`, `ServiceFails`, `ConfirmEnds` go on. `finish`,
  `blocked` and `cancelled` are the sections an execution takes the lock for.
  `HandleBlocked` drops the plan of its reconcile because the code does.
* **Who awaits an execution.** `run.host` is `task` for an execution of a task of
  its own, `setup` or `resume` for one that `async_setup` or `async_resume` awaits
  (and Home Assistant them: `HostAwaited`, no unload begins before). In
  `RuntimeController` only a task's execution is cancelled. `CancelledSetUp` adds the
  others: `CancelHost` ends the execution, `HandleUnwinding` is its recovery, the
  same section as any cancelled execution's (`Recovery`), and `UnwindingEnds` goes on
  with the cancellation, by which `async_setup` rolls back and `async_resume` takes
  itself back (`GiveUp`). `async_setup_entry` catches an `Exception`, which a
  cancellation is not, so nothing is unloaded then and the entry stays `failed`.
* **Confirmation.** In `RuntimeController` a confirmation ends at any time, by
  `ConfirmEnds`, with the result of that moment. `Confirmation` adds
  `_async_confirm_turn_off`: `changed` is the `asyncio.Event`, `left` what
  `asyncio.timeout` has left. Every step of the controller is said to signal the
  waiter or not: reports of the tracked target and of the gate, a request to
  disable and a stop do (`Signal`), all else does not (`Unheard`). `Wake` clears
  the event and looks at the target; `Expire` is the timeout, which may cancel a
  wait whose event has just been set. The runs check this composed specification
  (`ConfirmSpec`; `failing_store` checks `CancelledSpec`, which adds to it).
* **Persistence.** `Payload` is what `_async_save_locked` builds, `disk` what is
  stored, `lastSaved` is `_last_saved_payload`. `ReadStore` reads before the
  set-up has the lock, and `snapshot` keeps what was read, so that a save in
  between is seen to be lost. A crash may come before or after any save.
* **The entry.** `entry` goes `down`, `loading`, `read`, `setup`, `loaded`,
  `stopping` (waiting for the lock), `draining` (waiting for executions), and
  `down`, or `resuming` after a refused unload; `failing` is the rollback,
  `failed` a failed resume, or a cancelled set-up or resume.
* **Status.** `status` is `_status` as far as a section decides it, for the
  property that what is shown fits the timer.
* **Entities** are numbers, a stable key and a place in the rule at once.
  `entState` is `on` (any active state), `off` or `lost` (unknown, unavailable,
  no state).

### The abstract rule

`RuleSpec` keeps one clock per entity: since when it is on, when it was last
attempted, whether it is claimed. What is due follows from these, the policy and
the retry interval. Its steps look at the entities (and may claim what is due),
make a claim durable, let one plan at a time attempt each target at most once and
in order, count what is left from the plan's end, and restart from what was saved.
`RuleRefinement` maps a cycle to its clock: `retryAt` minus the interval it was
computed with is the last attempt, so that a recalculation on another interval
moves no attempt. The abstract restart finds exactly the saved clocks; the
abstract `Down` may lose only what was not saved.

### The forms and the registries

* **Registries.** `registry` maps a registry id to its entry (entity id, area,
  device, enabled) or to `Gone`; `devices` are the parents. They change between
  any two steps of a flow or of a rule: `Rename`, `Remove`, `Return` (an entity
  added again gets its id again), `Toggle`, `Move`, `ChangeDevice`. A name that is
  free may go to another entity.
* **The flow.** `form` is what the user sees, `working` is `_working`. `Open`
  copies the options with the retry interval an edit starts from; `SubmitRoom`,
  `SubmitEntities`, `Save` are the three submissions, `RefuseDelay` and the second
  branch of `SubmitEntities` the errors that show the form again. What is stored
  are registry ids (`Canonical`), resolved again when shown and when loaded.
* **The loaded rule.** `Load` is `_resolve_runtime_config` and the constructor:
  names and expected registry ids are those of the moment of the load; `Holder` is
  `EntityRegistry.async_get`, which takes a name or a registry id. `Sync` is
  `_sync_cycles_locked` as far as the keys of the clocks go. `Callable` and
  `GateBlocked` are the checks before a call. A gate may be a sensor without a registry
  entry (`Unregistered`), which is asked by its name.
* **History.** `picked` records the registry ids of what the user picked, in the
  form, in the saved options and in the options the rule was loaded from. It is
  the reference of `OnlyPickedIsCallable`; no action reads it for another purpose.

### What is abstracted

* A task starts when its handler is created and sections are granted in that
  order. Between the two the code has one more trip through the event loop, which
  preserves the order.
* The time `_async_deadline_reached` is given is the timer's own, and the clock
  does not go back, so the code's `max(..., claimed_at)` changes nothing and a
  plan is only its trigger.
* `last_changed` is kept for entities that are on, the only ones it is read for.
  An entity has one active state: a change between two of them (which the code
  treats as no change of the cycle) is not a step.
* Activity events, `trigger_entity`, `next_shutdown_kind` and listeners are
  outputs no decision reads, and are left out. So are `unsupported_service`
  (another failed target) and which targets succeeded (only whether one failed,
  for the status). A changed set of entities is in `ConfigFlow` only.
* The seconds of a confirmation are counted on their own: they are short against
  the delays and retry intervals that `now` counts.
* A task is cancelled where it awaits a service, a confirmation or the execution
  lock.
* The entry counts as loaded when the section of its set-up or resume ends, while the
  execution it begins may go on; `HostAwaited` keeps an unload from overtaking it.
  When a set-up's or a resume's plan is blocked, the save that gives its claims back
  is taken to succeed: its failure would end the set-up.
* A cancellation that meets a set-up, an unload or a section elsewhere than in a
  service call, a confirmation or the wait for the execution lock is left out.
* A new controller is set up once no task of the old one is waiting for the lock.
* In the forms, selections are sets; the name, title and policy are carried
  through and not told apart; an entity of a platform without a `turn_off`, or one
  of this integration's own, is never a target and is not in `Targets`. A name
  typed into a form is a name at the time of the submission. A selected entity
  counts as on, and the gate as off, whenever it has a state. Numbers of seconds,
  floats in the code, are whole milliseconds.
* `split_entity_id` raising `ValueError` on an id without a domain is Home
  Assistant's behaviour, taken from its use.

## 3. The runs

`config_flow` and `unresolved_target` check `MCConfigFlow`; all other runs check
`MCRuntimeController`.

| Run | Environment | Properties | Result |
|---|---|---|---|
| `two_entities` | failing services, cancellation; two entities, `first` | `TypeOK`, `TimerArmed`, `CyclesFollowReports`, `ClaimsHaveOwner`, `RestIsTried`, `ImplementsRule` | pass |
| `paused_and_gated` | switch, moving gate; two entities, `last` | `TimerArmed`, `DurableWhenLockFree`, `InhibitedIffDisabled`, `CountdownIffArmed`, `NoLostWakeup`, `NoCallOnceDisabled` | pass |
| `restarts` | start, crash, reload with new retry interval, outages | `DurableWhenLockFree`, `ClockIsDurable`, `OnlyOffEndsAClock`, `ImplementsRule` | pass |
| `failing_store` | start, crash, reload, failing loads and saves, cancelled executions, set-ups and resumes, registry changes; retry 0 and 1 | `SkippedSaveIsOnDisk`, `StoppedIsQuiet`, `NoCallWhileStopping` | pass |
| `progress` | reload, refused unload, failing services, cancellation; fairness | `NoLostWakeup`, `TimerArmed`, `InhibitedIffDisabled`, `DueIsClaimed`, `ClaimEnds`, `StopCompletes`, `ImplementsController` | pass |
| `config_flow` | forms, loads, changing registries | `TypeOK`, `OnlyPickedIsCallable`, `ClocksKeepIdentity`, `LoadsKeepClocks`, `DefaultsKeepRule`, `NoStrangersOffered`, `AreaIsNearest` | pass |
| `pause_race` | switch, two requests at once | `PausedRuleCallsNothing` | violated |
| `gate_strands_claim` | moving gate | `ClaimsHaveOwner` | violated |
| `called_too_early` | reports only | `CalledOnlyWhenDue` | violated |
| `early_switch` | start, crash, switch during set-up | `SetUpKeepsClocks` | violated |
| `second_plan` | failing services; two entities | `NoCallBeforeRetry` | violated |
| `unresolved_target` | forms, loads, changing registries | `EachTargetIsIndependent` | violated |

Deadlock is checked in every run of the controller: some action can always be
taken. `config_flow` and `unresolved_target` do not check it: a home whose
registries have stopped changing, without a rule and with no dialog open, need do
nothing more.

### What some properties say

* `StoppedIsQuiet`: a rule that is down has no execution, plan, timer or
  subscription; one that waits for its executions has no timer; one whose set-up or
  resume was given up has neither timer nor subscription. In `failing_store` timers
  are set before the stop (`Delay` 1) and for retries, so a stop, a rollback or a
  failed resume that left one would be found.
* `RestIsTried`: in the steps of an execution, a target leaves the plan by being
  called or by what excuses it at that moment (it is not on, no usable target, the
  gate blocks, the rule is paused or stopped). What the service of another target
  answered is no excuse. Not covered is an exception outside the `try` of the call
  (`unresolved_target`) and a cancelled task, which ends its plan on purpose.
* `TimerArmed` and `InhibitedIffDisabled` in `progress` are about a refused unload:
  the resumed rule has a timer for its trigger and is not inhibited.
* `LoadsKeepClocks` is about loads only. While the rule runs, a report finds a renamed
  target under its old name no more, and drops its clock (lines 834-837), against
  `CHANGELOG.md` 39-40; this is listed among the hazards.
* `DefaultsKeepRule`: an untouched edit proposes the rule, its numbers cut to whole
  seconds (`_seconds_to_duration`). An interval below a second is shown as zero and
  refused.

### What the violated runs show

* **A paused rule executes** (`pause_race`). A request to enable waits for the
  lock; a request to disable sets `_action_inhibited` (line 375) and waits behind
  it. The enabling section clears the inhibition (382) and claims a due batch;
  the disabling section does not set it again. The batch is executed while the
  rule is disabled.
* **A claim nobody owns** (`gate_strands_claim`). The gate closes before a plan's
  first call; while the coroutine waits for the lock to give the claims back, the
  gate reopens; `_reconcile_locked` claims the batch again and line 615 throws its
  plan away. The entity stays on with `handled` set and no timer, until its next
  off, the next execution or a restart.
* **An entity called before its time** (`called_too_early`). It goes off and on
  while its claim is saved. The plan does not look at the cycles again.
* **Clocks lost in set-up** (`early_switch`). The switch is there before the store
  is read, and `async_set_enabled` does not ask whether the set-up is complete: a
  toggle in that window saves an empty payload over the stored clocks. If the load
  comes after that save, or a crash before the set-up's own, they are lost for good.
* **A second round before the retry** (`second_plan`). While one plan executes, an
  entity goes on and is claimed with a plan of its own, which waits at line 571.
  The first plan's finishing section gives back *every* handled cycle, with a
  retry one interval later (795-808). The second plan then starts at once and calls
  what is still on, before that retry is due; its end moves the retries again.
* **One missing target stops the others** (`unresolved_target`). A target whose
  entry is gone when the rule is loaded keeps its registry id as its entity id
  (`__init__.py` 37-41). Nothing is expected of it and nothing is found, so
  `_identity_or_area_error` lets it pass; `split_entity_id` (888) raises, outside
  the `try` around the service call. Targets after it are not called, and the
  claims are neither finished nor rearmed.

### Bounds

`MaxTime` bounds the clock: each run gives it room for a first attempt, its
retry and, where restarts matter, what happens after one. With `Delay` 1 and a
retry of 1 a bound of 2 has both deadlines. In `paused_and_gated` it is 1: first
attempts and their gate, pause and confirmation are in it, and retries are
scheduled but none fires there; retries that fire are in `two_entities`,
`restarts`, `progress` and `failing_store`. `MaxJobs` bounds the tasks that wait
when a report adds one (a report is not taken while the line is full, the
holder of the lock counted), so 2 lets a report wait behind a section that saves,
or an off and an on wait together, the shapes the ordering hazards here have
(`called_too_early` needs an off and an on behind a save, and has 4); the other
jobs are not bounded by it but by the protocol
(one timer, one life-cycle step, one job per execution). `MaxToggles` bounds the
waiting requests of the switch. Two entities are needed for the policy, for batch
claims and for partial failure; the properties about durability speak of one
entity at a time, and their runs use one. No run combines the switch with
registry changes: together they can add plans to `waiting` without end.

`Seconds` is 1 in `progress`, so that a confirmation can be woken before, between
and after its second; it is 0 elsewhere, where the timeout may come at once or
after any wake-up and the number of seconds plays no part.

In `config_flow`, `MaxChanges` 2 has a renaming or removal *and* the takeover of
the name by another entity, at every pair of moments of a flow and of the loads
around it. One flow (`MaxFlows`) creates or edits any of the stored rules, which
are what earlier flows and versions left, one of them with fractions of a second and
a gate without a registry entry. `Durations` has a typed fraction, and one number
above the greatest allowed. A third name is free from the start.

Each environment contains what its properties are exposed to. Some properties do
not hold in every environment, and what falsifies them is stated rather than
bounded away:

* `ClaimsHaveOwner` needs a gate that does not reopen while a blocked plan waits
  for the lock (`gate_strands_claim`) and saves that succeed (a save that fails
  after a claim ends the coroutine and its plan; see the hazards).
* `InhibitedIffDisabled` and `NoCallOnceDisabled` need one request of the switch at
  a time (`MaxToggles` 1); with two, `pause_race`.
* `ClockIsDurable` and `OnlyOffEndsAClock` are checked without the early switch
  (`early_switch`) and without registry changes, by which the code ends a clock on
  purpose.
* `DurableWhenLockFree` is checked where saves succeed.
* `TimerArmed` is checked with retry intervals above zero: with zero, an entity
  that comes back into the registry during an execution gets a cycle and no timer.
* `StoppedIsQuiet` is checked without a moving gate: the section that gives
  claims back does not ask whether the rule is stopped, and may set a timer there
  (which does nothing when it fires).
* `ImplementsRule` is checked without failing saves and without the switch and the
  gate, and with retry intervals above zero: a failed save after a claim loses the
  plan, and a gate that reopens strands a claim (`gate_strands_claim`), which
  `RuleSpec` does not allow. The theorem adds the switch, once the rule is set up.

### Fairness

`progress` assumes weak fairness of the locked sections and of the start of
waiting plans (the event loop runs ready tasks; an `asyncio.Lock` is FIFO), of the
end of a save (the executor ends), of the end of a service call (30 s timeout),
of a woken waiter (`Wake`) and of the confirmation's timeout (`Expire`), of the
clock and of fired timers, and of the steps
by which Home Assistant goes on with a load or an unload it has begun. Of the
passing of a confirmation's seconds it assumes strong fairness: a waiter may be
woken again and again within a second, which interrupts the wait each time, and
time passes nevertheless. Nothing is
assumed of the entities, the gate, the switch or the user: a `turn_off` may be
ignored for ever, and an unload need never be asked for. Saves succeed in this run.
`ImplementsController` shows that the fairness `RuntimeController` puts on
`ConfirmEnds` follows from these.
Because the clock is bounded, the liveness properties say nothing about deadlines
beyond `MaxTime`.

### Mutants

Each property of each passing run is paired in `PROJECT.json` with an operator
named `*_Mutant`, which stands before the definition it changes: an event
handled with the latest state, a timer not moved, a claim kept after an attempt, an
unsaved change, a failed save recorded, a stop that leaves the timer or does not wait
for executions, a cancelled set-up that is not rolled back, a resume that looks at
nothing, a failed service that breaks off the plan, a waiter nobody
wakes, a timeout that starts again, a selection kept in another room, clocks filed
under names, and so on. With
the definition replaced by its mutant, the run finds the property violated.

## 4. The proofs

Proofs about the controller hold for every value of the constants that satisfies
`RuleAssumption` (a finite, nonempty set of positive numbers as entities, a natural
delay, one of the two policies), `ControllerAssumption` (types of the other
constants) and `ConfirmationAssumption` (a natural number of seconds); those about
the forms for every home and stored rule that satisfies `FlowAssumption`,
`AreaAssumption` and `OptionAssumption` (types, distinct names, stored rules
that name registry ids).

A theorem says which moves of the environment (`Moves`) it excludes, and what the
code or TLC shows with them is said below. The theorems are about `Spec` (or
`ConfirmSpec`), which has no cancelled set-up or resume: `CancelledSetUp` is
model-checked only. Failing services, outages and crashes are
never excluded, reloads only by the two theorems about the switch, and a request of the
switch before the set-up is over (`early_switch`) by most.

Types, decisions and the store:

* **`TypeCorrect`**: `Spec => []TypeOK`. Inductive as it stands; one lemma per
  operator that builds state, then one per action.
* **`TriggerIsPending`** (`RuntimeControllerProofs`): with something pending, the trigger
  is a pending cycle, a retry when there is one, with the least deadline of the
  retries, or else the least or greatest pending one as the policy says. It rests on
  `LeastElement`: a total preorder on a finite nonempty set has a least element.
* **`SavedIsOnDisk`**: `Spec => []SkippedSaveIsOnDisk`. Inductive: only a
  successful save changes `disk` or sets `lastSaved`, and it sets both; a new
  controller and a crash forget `lastSaved`; a failed save changes neither.

The life cycle (`LifeCycleProofs`). Every proof after it starts from two invariants:

* `LifeInv == TypeOK /\ LifeOK /\ TaskOK` holds in every environment. A set-up, stop
  or resume is queued only in its phase of the entry and at most one at a time; a rule
  in charge is subscribed, set up and not unloaded; one that was stopped or has failed
  is unloaded and hears nothing; a job that ends an execution is there only while that
  execution waits for it.
* `QuietInv` adds `QuietOK`, which needs a switch that is not used before the set-up
  is over (`early_switch` is why): while the rule is *dormant* there is no execution
  and nothing queued that could start one, and before the set-up's section nothing
  is armed or saving.
* `SectionSummary` says once what every section does to the variables that are not
  the cycles (`SectionRuns`), so that most later proofs have one case for all sections.

**`NoCallInStoppedRule`** (`Spec => NoCallWhileStopping`) follows from `QuietInv`, and
**`StoppedRuleIsQuiet`** (`[]StoppedIsQuiet`) from it and `StoppedOK`: a rule that was
stopped has no timer. This excludes the gate, because the section that gives
blocked claims back does not ask whether the rule is stopped (line 611) and may set
a timer behind a stop. **`EveryTargetIsTried`** (`Spec => RestIsTried`) needs
`LifeInv` only, and no exclusion: `RunAfter` says where an execution can be after a step, and
`AdvanceAfter` that what `Advance` passes over is excused, because the target it
chooses is the least that can be called.

Memory, clocks and claims (`CycleProofs`):

* **`MemoryIsDurable`** (`[]DurableWhenLockFree`), with saves that succeed. `DurableOK`:
  between saves a live rule, and one that has stopped and may be resumed, is on disk
  as it is; a section that differs saves.
* **`ClocksEndWithOff`** (`OnlyOffEndsAClock`), without registry changes. `SectionClocks`
  follows a clock through what each section does to the cycles.
* **`StoredClocksStay`** (`ClockIsDurable`), with saves that succeed and no early
  switch. `StoredOK`: what a set-up has read is what is stored until it has used
  it, and from then on memory and store agree on every clock that both have. TLC finds
  the property false with failing saves.
* **`ClaimsAreOwned`** (`[]ClaimsHaveOwner`), without a gate and an early switch, and with
  saves that succeed. `ClaimsOK`:
  a claim has an owner in every phase, and the section that ends an execution leaves
  none but for the plan that follows. The exclusions are `gate_strands_claim` and the
  hazard at line 444.
* **`InhibitionFollowsSwitch`** (`[]InhibitedIffDisabled`) and **`NoCallInDisabledRule`**
  (`NoCallOnceDisabled`), with one request of the switch at a time, no reload and no early
  switch, the second also with saves that succeed. `SwitchOK` says, with the lock
  taken too, that a loaded rule is inhibited exactly when it is disabled or about to be.
  More requests are `pause_race`; a resume behind which a request to disable waits sets
  the inhibition from the old `enabled` and forgets the request's (the hazard at line
  382). With failing saves `NoCallOnceDisabled` says too much: when the save of a
  request to disable failed, the next request to enable finds its payload on disk,
  skips its save, and starts calls in the step in which it enables.

Reports (`ReportProofs`): **`ReportsAreFollowed`** (`[]CyclesFollowReports`), without
registry changes (an entity that comes back into the area gets a cycle at its next
report only) and an early switch. The property speaks of a moment with the lock free;
`FollowInv` relates the cycles to the reports that wait:

* `LatestOK`: the last report of an entity that waits, if no set-up or resume will
  overtake it, shows the entity's state and time;
* `FollowOK`: an entity without such a report has the cycle it should have;
* `OldOK`: no clock, in memory, in the store, in what was read or in a report, is
  ahead of its entity;
* `ExactOK` and `ColdOK`, where no report can be missed: a clock or a report that shows an
  old time is followed by an off that waits, and the rule is set up from an empty store.

The timer (`TimerProofs`):

* **`TimerIsArmed`** (`[]TimerArmed`), with retry intervals above zero, and *either* without
  cancelled tasks, *or* without registry changes and an early switch. `TimerInv` holds
  with the lock taken too: while the rule is in charge, or its set-up or resume is saving,
  the timer fits the cycles, *unless a gate event waits*: closing the gate cancels the
  timer at some later section, and only the event of its reopening sets it again.
  The recovery of a cancelled execution breaks `TimerInv`: it matches the cycles with
  the states, but sets the timer only if it gave something back (573-580). With
  `FollowInv` it finds nothing new to match unless a report waits, and that report's
  section sets the timer; `ShownInv` says so. With cancellations *and* registry
  changes TLC finds `TimerArmed` false.
* `RetryOK`, on the way: in a started rule, claimed cycles and cycles that wait for a
  retry never meet. So the recovery never claims a plan of its own (`RecoveryWaits`):
  its branch at line 582 is not reached while retry intervals are above zero.
* **`CountdownIsShown`** (`[]CountdownIffArmed`), with retry intervals above zero, no
  registry changes and no early switch. `ShownInv` has the second half: the status says
  countdown exactly when a timer is set, and then there is something to count
  for. A retry interval of zero and registry changes each falsify it: a section that
  creates a cycle at the end of an execution leaves timer and status apart.

The abstract rule (`RefinementProofs`): **`RuleIsImplemented`** (`Spec => ImplementsRule`),
with retry intervals above zero (the form refuses zero, config_flow.py:272-274), and without a
gate, failing saves and an early switch. `InitIs` and `StepIs` map the initial states and
every step:

| The controller | is, to the rule |
|---|---|
| `Tick` | `Tick` |
| a section, up to its save | `Look`; `HandleFinish` is `Settle`, `HandleCancelled` is `Recover`; a set-up, a start and the resume of a rule that had not started are `Start` |
| `SetUpWhileStarting`, `ResumeWhileStarting` | `Restore`, nothing |
| `SaveSucceeds`, with what `Release` does | `Save` |
| `StartNext`; a call that fails or needs no confirmation, a confirmation that ends | `NextTurn`; `NextTarget` |
| `Cancel`, `CancelWaiting` | `Interrupt` |
| `Crash`, `Load`, `FinishUnload` | `Down` |
| `Skip`, reports, requests, timers, the rest of the life cycle | nothing |

The mapping reads more from a state than any one invariant above says, so the steps are
taken from `RefInv`, which collects `StoredInv`, `DurableOK`, `StoppedOK` and `RetryOK`
and adds two:

* `TimesOK`: a moment that a section works with has passed. `HandleEvent` takes the
  time of its report, `HandleDeadline` that of its timer, `HandleFinish` the end of its
  execution; were one of them ahead of the clock, a section could claim a clock that
  `RuleSpec` does not find due yet. `EventsOK` and `Fired` follow the reports and the
  deadline into the queue, `RunFitsOK` the execution.
* `TriedOK`: a retry time, in memory or on disk, is an attempt the clock has shown plus
  the interval. The mapping subtracts the interval again, so a load with another
  interval has to find the same attempt (`RestoredIs`), and `Rearmed` has to leave the
  time of the attempt and not that of the section (`RearmedAfter`).

The hardest case is a section whose save is skipped although it claimed something: the
rule would see a claim that never becomes durable. `SkippedHasNoPlan` shows there is
none: an equal payload means that what is claimed was claimed before, so it was given
back in the same section and is due only an interval later. This is where a zero
interval fails. Without `DurableOK` for stopped rules, a resume would escape it.

The waiter (`ConfirmationProofs`):

* **`WaiterImplements`**: `ConfirmSpec => Spec`. Each step of
  the composed specification is one of `Next` or leaves `vars` alone, so every
  theorem about `Spec` holds with the waiter; **`TimerIsArmedWithWaiter`** states
  it for `TimerArmed` and **`WaiterImplementsRule`** for `ImplementsRule`. That the confirmation also ends is left to `progress`.
* **`NoWakeupIsLost`** (`[]NoLostWakeup`), without an early switch. `WakeOK`: a waiter
  whose event is not set waits for a target that is on, with an open gate and a rule in
  service. The steps that take a rule out of service without waking anyone, the
  rollbacks, find no execution: that is `QuietOK`.

The forms (`ConfigFlowProofs`):

* **`CallsOnlyPicked`**: `Spec => []OnlyPickedIsCallable`. The
  property speaks of the loaded rule, so the invariant follows a selection through
  its whole way: `PickedInv == WellTyped /\ PickedTyped /\ SavedArePicked /\
  ChosenArePicked /\ KnownArePicked`. The last form is about to save, and the
  options do save, the registry ids of what was picked; a loaded target is a picked
  entity under the name it had at the load, or an id that had no entry then. A
  changed registry disturbs none of these, because none speaks of who bears a name
  now; `IdentityError` does, at the moment of the call.
* **`ClocksAreOwn`**: `Spec => []ClocksKeepIdentity`, from `ClocksFiled`: a clock
  filed under a registry id times the entity of that id.
* **`ClocksSurviveLoads`**: `Spec => LoadsKeepClocks`, from `ClocksFiled` as well: at a
  load a target that the registry has gets its entity's present name and, as its key,
  its registry id, under which its clock is filed; so the section of the set-up keeps it.
* **`EditKeepsRule`** (`[]DefaultsKeepRule`) and **`OffersOnlyTheRoom`** (`NoStrangersOffered`),
  for stored rules with a room and a delay (`StoredByForm`), which every version of the
  form has stored. `EditInv` follows an edit from form to form: numbers and gate are
  the rule's until the last one is submitted (`NumbersKept`), shown in whole
  seconds, the selection is the rule's or, in another room, empty (`RoomKept`), and a form that nothing has touched, the registries
  included, shows the rule by the names it has now (`UntouchedKept`).
* **`FlowTypeCorrect`**: `Spec => []TypeOK` of `ConfigFlow`, with the one part that
  is not typing: no name is two entities'.
* **`DurationRoundTrip`**: what a form shows of a number of milliseconds is read back
  as its whole seconds, for every natural number.

Only model-checked:

* liveness, which is beyond the prover: `DueIsClaimed`, `ClaimEnds`, `StopCompletes`, and
  the fairness in `ImplementsController`;
* `AreaIsNearest`: the walk is a recursive function over data, and what it returns for
  every home takes an induction the prover cannot do.

## 5. What is left

The refinement and the claims are proved without the gate; with it they are false
(`gate_strands_claim`). An abstract rule in which a blocked plan gives its claims back
unattempted, and may strand them, could be implemented with the gate too; its proof would
need `ClaimsOK` and `StoppedOK` restated for a rule that is blocked.

One combination is modelled more coarsely than the others and is in no run: a load
that fails while an early request of the switch is saving ends that save with it
(`LoadFails`).

Not modelled:

* Sensors, event entity, entity base, device, diagnostics and translations
  (`sensor.py`, `binary_sensor.py`, `event.py`, `entity.py`, `device.py`,
  `diagnostics.py`): projections of the controller's fields without state or control of
  their own. What is shown is covered where it is decided: `CountdownIffArmed` is
  about the status the controller sets.
* `from_dict`, `_parse_datetime` and `_string_mapping` in `models.py`: parsing of
  strings, dates and damaged payloads. They keep no state and depend on no order;
  what they are for, that a stored clock is found again, is in `restarts`.
