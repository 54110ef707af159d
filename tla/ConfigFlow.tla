------------------------------ MODULE ConfigFlow ------------------------------
(***************************************************************************)
(* A rule is created and edited in three forms (config_flow.py), saved by  *)
(* the registry ids of what was picked, and loaded by resolving these ids  *)
(* to the entities that bear them now (__init__.py,                        *)
(* _resolve_runtime_config; the constructor of the controller). The        *)
(* registries may change between any two of these steps: entities are      *)
(* renamed, removed, moved to another room and disabled, and a name that   *)
(* has become free may go to another entity.                               *)
(*                                                                         *)
(* Selections are sets: the order of the targets plays no part here. The   *)
(* selected entities are on, and the gate is off, whenever they have a     *)
(* state: RuntimeController is about their reports. An entity has a state  *)
(* while its entry is there and enabled; a sensor without an entry has one *)
(* until another takes its name.                                           *)
(***************************************************************************)
EXTENDS AreaLookup, RuleOptions

CONSTANTS
  Targets,       \* registry ids of entities with a turn_off service
  Gates,         \* registry ids of binary sensors
  TargetNames,   \* the entity ids these may have
  GateNames,
  Unregistered,  \* those of sensors with a state and no registry entry
  Home,          \* the registries, before anything changes
  Stored,        \* the options a rule may have from an earlier version
  Durations,     \* what may be typed into a duration field, in milliseconds
  MaxChanges,    \* bound on the changes of the registries
  MaxFlows       \* bound on the flows opened

Ids == Targets \cup Gates
Names == TargetNames \cup GateNames

Entry == [name : Names, area : Areas \cup {None}, device : Devices \cup {None},
          enabled : BOOLEAN]
Gone == [gone |-> TRUE]      \* no entry

References == Ids \cup Names

Options == [area : Areas \cup {None}, targets : SUBSET References,
            delay : Optional(Nat), retry : Optional(Nat), gate : Optional(References)]
NoOptions == [saved |-> FALSE]   \* the entry does not exist

\* What a loaded rule knows of an entity: the entity id its configuration
\* resolves to, and the registry id that had it when the rule was loaded.
Known == [name : References, reg : Optional(Ids)]
Rules == [area : Areas \cup {None}, targets : SUBSET Known, gate : Optional(Known),
          delay : Nat, retry : Nat]
NoRule == [loaded |-> FALSE]

NoForm == [step |-> "none"]

ASSUME FlowAssumption ==
  /\ None \notin References /\ Ids \cap Names = {}
  /\ Targets \cap Gates = {} /\ TargetNames \cap GateNames = {}
  /\ Unregistered \subseteq GateNames
  /\ Home \in [entries : [Ids -> Entry], devices : [Devices -> Device]]
  /\ \A i, j \in Ids : Home.entries[i].name = Home.entries[j].name => i = j
  /\ Stored \subseteq Options
  /\ \A o \in Stored : o.targets \subseteq Ids /\ o.gate \subseteq Gates \cup GateNames
  /\ Durations \subseteq Nat /\ MaxChanges \in Nat /\ MaxFlows \in Nat

VARIABLES
  registry,      \* the entity registry, and
  devices,       \* the device registry
  changes,
  options,       \* entry.options
  form,          \* the form the user sees
  working,       \* _working
  flows,
  rule,          \* the configuration of the running controller
  cycles,        \* its clocks, by stable key, each with the entity it times
  picked         \* history: the registry ids of what the user picked, in the
                 \* form, as saved, and as saved when the rule was loaded

registries == <<registry, devices, changes>>
editing == <<form, working, flows>>
vars == <<registries, options, editing, rule, cycles, picked>>

-----------------------------------------------------------------------------
(* The registries *)

Present(i) == registry[i] # Gone

\* EntityRegistry.async_get: the entity with this name, or this registry id.
Holder(ref) == {i \in Ids : Present(i) /\ ref \in {i, registry[i].name}}

\* _resolve_entity_id: the name of an id; a name stands for itself.
Resolved(ref) ==
  IF ref \in Names THEN {ref} ELSE {registry[i].name : i \in {j \in {ref} : Present(j)}}

\* The shown name of a selection is kept.
CanonicalName_Mutant(name) == name

\* _canonical_reference
Canonical(name) == OrElse(Holder(name), name)

InRoom(i, area) == EffectiveArea(devices, registry[i]) = area

\* _turn_off_entities_in_area
Candidates(area, selected) ==
  {registry[i].name :
     i \in {j \in Targets : Present(j) /\ registry[j].enabled /\ InRoom(j, area)}}
  \cup UNION {Resolved(ref) : ref \in selected}

-----------------------------------------------------------------------------
(* The loaded rule *)

\* An id without an entry resolves to nothing.
KnowNothing_Mutant(ref) ==
  LET name == OrElse(Resolved(ref), None) IN [name |-> name, reg |-> Holder(name)]

\* _resolve_runtime_config and the constructor: an id without an entry stays
\* as it is, and is then the name of nothing.
Know(ref) ==
  LET name == OrElse(Resolved(ref), ref) IN [name |-> name, reg |-> Holder(name)]

Loaded(o) ==
  LET numbers == FromMapping(o)
  IN  [area |-> o.area, targets |-> {Know(ref) : ref \in o.targets},
       gate |-> {Know(ref) : ref \in o.gate},
       delay |-> numbers.delay, retry |-> numbers.retry]

\* Clocks are filed under the entity's name.
StableKeyName_Mutant(t) == <<"entity", t.name>>

\* _stable_key_by_entity
StableKey(t) ==
  IF t.reg = {} THEN <<"entity", t.name>> ELSE <<"registry", OrElse(t.reg, None)>>

\* _identity_or_area_error: the name is now another's or nobody's, a target
\* that was unresolved is back, or the entity is disabled or elsewhere.
IdentityError(r, t) ==
  \/ Holder(t.name) # t.reg
  \/ \E i \in t.reg : ~registry[i].enabled \/ ~InRoom(i, r.area)

\* _target_runtime_error of a target that is still unresolved: split_entity_id
\* is given a registry id.
Raises(r, t) == ~IdentityError(r, t) /\ t.name \in Ids

HasState(name) ==
  name \in Unregistered \/ \E i \in Holder(name) : registry[i].enabled

\* _shabbat_block_reason: the sensor is another or none, disabled, or without
\* a state. One that never had an entry needs none.
GateBlocked(r) ==
  \E g \in r.gate :
    \/ Holder(g.name) # g.reg
    \/ \E i \in g.reg : ~registry[i].enabled
    \/ ~HasState(g.name)

\* A claimed plan would call this target.
Callable(r, t) ==
  /\ ~GateBlocked(r)
  /\ ~IdentityError(r, t) /\ ~Raises(r, t)

\* _sync_cycles_locked: clocks of what is no target, or not reachable as
\* such, are dropped; a target without a state keeps its own.
Synced(r, c) ==
  LET usable == {t \in r.targets : ~IdentityError(r, t)}
      kept == {y \in c : \E t \in usable : y.key = StableKey(t)}
  IN  kept \cup {[key |-> StableKey(t), owner |-> OrElse(t.reg, None)] :
                   t \in {u \in usable : u.reg # {} /\
                                         \A y \in kept : y.key # StableKey(u)}}

-----------------------------------------------------------------------------
(* The forms *)

\* What the entities form shows: the candidates, and those of them that are
\* selected. It is shown without a field when there are none.
EntitiesForm(w, untouched) ==
  LET offered == Candidates(w.area, w.targets)
      selected == UNION {IF Resolved(ref) = {} THEN {ref} ELSE Resolved(ref) : ref \in w.targets}
  IN  [step |-> "entities", offered |-> offered, default |-> selected \cap offered,
       untouched |-> untouched]

\* What the delay form shows of the gate. The numbers are those of _working.
DelayForm(w, untouched) ==
  [step |-> "delay", offered |-> {},
   default |-> UNION {Resolved(ref) : ref \in w.gate}, untouched |-> untouched]

Shown(ms) == DurationToSeconds(SecondsToDuration(ms))

-----------------------------------------------------------------------------
UniqueNames ==
  \A i, j \in Ids : Present(i) /\ Present(j) /\ registry[i].name = registry[j].name => i = j

\* A name is at most one entity's; the rest is typing.
TypeOK ==
  /\ registry \in [Ids -> Entry \cup {Gone}] /\ devices \in [Devices -> Device]
  /\ changes \in 0 .. MaxChanges /\ flows \in 0 .. MaxFlows
  /\ options = NoOptions \/ options \in Options
  /\ form.step \in {"none", "room", "entities", "delay"}
  /\ working \in Options
  /\ rule = NoRule \/ rule \in Rules
  /\ UniqueNames

Empty == [area |-> None, targets |-> {}, delay |-> {}, retry |-> {}, gate |-> {}]

Nothing == [targets |-> {}, gate |-> {}]

Init ==
  /\ registry = Home.entries /\ devices = Home.devices /\ changes = 0
  /\ options \in Stored \cup {NoOptions}
  /\ form = NoForm /\ working = Empty /\ flows = 0
  /\ rule = NoRule /\ cycles = {}
  /\ picked = [chosen |-> {}, loaded |-> Nothing,
               saved |-> IF options = NoOptions THEN Nothing
                         ELSE [targets |-> options.targets, gate |-> options.gate]]

-----------------------------------------------------------------------------
(* The registries change. What a form shows does not follow. *)

Outdate ==
  /\ changes < MaxChanges /\ changes' = changes + 1
  /\ form' = IF form = NoForm THEN form ELSE [form EXCEPT !.untouched = FALSE]
  /\ UNCHANGED <<options, working, flows, rule, cycles, picked>>

SetEntry(i, entry) ==
  /\ registry' = [registry EXCEPT ![i] = entry] /\ registry' # registry
  /\ UNCHANGED devices

Rename(i) ==
  \E name \in IF i \in Targets THEN TargetNames ELSE GateNames :
    /\ Present(i) /\ Holder(name) = {}
    /\ SetEntry(i, [registry[i] EXCEPT !.name = name]) /\ Outdate

Remove(i) == Present(i) /\ SetEntry(i, Gone) /\ Outdate

\* An entity that is added again has its registry id again.
Return(i) ==
  /\ ~Present(i) /\ Holder(Home.entries[i].name) = {}
  /\ SetEntry(i, Home.entries[i]) /\ Outdate

Toggle(i) ==
  /\ Present(i)
  /\ SetEntry(i, [registry[i] EXCEPT !.enabled = ~@]) /\ Outdate

Move(i) ==
  \E area \in Areas \cup {None} :
    Present(i) /\ SetEntry(i, [registry[i] EXCEPT !.area = area]) /\ Outdate

ChangeDevice(d) ==
  /\ \E device \in Device : devices' = [devices EXCEPT ![d] = device] /\ devices' # devices
  /\ UNCHANGED registry
  /\ Outdate

-----------------------------------------------------------------------------
(* The flow *)

EntryUnchanged == UNCHANGED <<registries, options, rule, cycles>>

\* async_step_user, async_step_init: old options get a retry interval.
Open ==
  /\ form = NoForm /\ flows < MaxFlows /\ flows' = flows + 1
  /\ form' = [step |-> "room", offered |-> {}, default |-> {}, untouched |-> TRUE]
  /\ working' = IF options = NoOptions THEN Empty
                ELSE [options EXCEPT !.retry = {EditedRetry(options)}]
  /\ picked' = [picked EXCEPT !.chosen = {}]
  /\ EntryUnchanged

\* The selection of the old room stays selected.
InNewRoom_Mutant(w, area) == [w EXCEPT !.area = area]

\* _accept_room: another room, no selection.
InNewRoom(w, area) ==
  [w EXCEPT !.area = area,
            !.targets = IF w.area \in {None, area} THEN @ ELSE {}]

SubmitRoom ==
  /\ form.step = "room"
  /\ \E area \in Areas :
       /\ working' = InNewRoom(working, area)
       /\ form' = EntitiesForm(working', form.untouched /\ area = working.area)
  /\ UNCHANGED <<flows, picked>> /\ EntryUnchanged

\* _accept_entities of references that resolve, are some and are in the room.
Acceptable(chosen) ==
  /\ chosen # {}
  /\ \A ref \in chosen : Resolved(ref) # {}
  /\ UNION {Resolved(ref) : ref \in chosen} \subseteq Candidates(working.area, {})

\* Anything may be submitted; the form is shown again with what it has now
\* when nothing can be selected or the selection is refused.
SubmitEntities ==
  /\ form.step = "entities"
  /\ \E chosen \in SUBSET (Targets \cup TargetNames) :
       LET untouched == form.untouched /\ chosen = form.default
           names == UNION {Resolved(ref) : ref \in chosen}
       IN  IF Candidates(working.area, working.targets) # {} /\ Acceptable(chosen)
           THEN /\ working' = [working EXCEPT !.targets = {Canonical(name) : name \in names}]
                /\ picked' = [picked EXCEPT !.chosen = UNION {Holder(name) : name \in names}]
                /\ form' = DelayForm(working', untouched)
           ELSE /\ form' = EntitiesForm(working, form.untouched)
                /\ UNCHANGED <<working, picked>>
  /\ UNCHANGED flows /\ EntryUnchanged

\* A number is typed, or left as shown.
Typed(shown) == Durations \cup {Shown(shown)}

\* _accept_delay refuses: a number out of its range, a policy that is none, a
\* gate that is no binary sensor. The form is shown again.
RefuseDelay ==
  /\ form.step = "delay"
  /\ form' = DelayForm(working, form.untouched)
  /\ UNCHANGED <<working, flows, picked>> /\ EntryUnchanged

\* _accept_delay accepts, and the entry is created or updated. The gate is
\* one by its name, or none.
Save ==
  /\ form.step = "delay"
  /\ \E delay \in Typed(OrElse(working.delay, DefaultDelay)),
        retry \in Typed(OrElse(working.retry, DefaultRetry)),
        gate \in Optional(GateNames) :
       /\ ValidDelay(delay) /\ ValidRetry(retry)
       /\ options' = [working EXCEPT !.delay = {delay}, !.retry = {retry},
                                     !.gate = {Canonical(name) : name \in gate}]
       /\ picked' = [picked EXCEPT !.saved =
                       [targets |-> picked.chosen,
                        gate |-> {OrElse(Holder(name), name) : name \in gate}]]
       /\ form' = NoForm
  /\ working' = Empty
  /\ UNCHANGED <<registries, flows, rule, cycles>>

\* The dialog is closed.
Abandon ==
  /\ form # NoForm /\ form' = NoForm /\ working' = Empty
  /\ UNCHANGED <<flows, picked>> /\ EntryUnchanged

-----------------------------------------------------------------------------
(* The entry *)

\* async_setup_entry, after a start or the reload that follows a save, until
\* the first synchronisation.
Load ==
  /\ options # NoOptions
  /\ rule' = Loaded(options)
  /\ cycles' = Synced(rule', cycles)
  /\ picked' = [picked EXCEPT !.loaded = picked.saved]
  /\ UNCHANGED <<registries, options, editing>>

\* A report of a target.
Sync ==
  /\ rule # NoRule
  /\ cycles' = Synced(rule, cycles)
  /\ UNCHANGED <<registries, options, editing, rule, picked>>

Next ==
  \/ \E i \in Ids : Rename(i) \/ Remove(i) \/ Return(i) \/ Toggle(i)
  \/ \E i \in Targets : Move(i)
  \/ \E d \in Devices : ChangeDevice(d)
  \/ Open \/ SubmitRoom \/ SubmitEntities \/ RefuseDelay \/ Save \/ Abandon
  \/ Load \/ Sync

Spec == Init /\ [][Next]_vars

-----------------------------------------------------------------------------
(* Properties *)

\* Whatever is renamed, removed and replaced, before and after it is loaded,
\* a rule calls only entities the user picked, in their room; and the gate it
\* then looks at is the entity the user picked, or bears the name of the
\* sensor without an entry that was picked (CHANGELOG.md 1.4.2: "invalid,
\* disabled or replaced sensors fail closed").
OnlyPickedIsCallable ==
  rule # NoRule => \A t \in rule.targets : Callable(rule, t) =>
    /\ \E i \in picked.loaded.targets : Holder(t.name) = {i} /\ InRoom(i, rule.area)
    /\ \A g \in picked.loaded.gate :
         \E k \in rule.gate : IF g \in Ids THEN Holder(k.name) = {g} ELSE k.name = g

\* A clock is that of the entity it is filed under: an entity that takes the
\* name of another does not inherit its running time.
ClocksKeepIdentity ==
  rule # NoRule => \A t \in rule.targets, y \in cycles :
    y.key = StableKey(t) => y.owner \in t.reg

\* A rule that is loaded again goes on with the clock of every entity it
\* names, in its room and enabled, whatever name the entity had and has
\* (__init__.py, "rename-safe registry references"). While the rule runs it
\* is not so: a report finds a renamed target under the name it was loaded
\* with no more, and drops its clock (controller.py, _sync_cycles_locked).
LoadsKeepClocks ==
  [][Load => \A y \in cycles :
       LET i == y.owner IN
       i \in options.targets /\ Present(i) /\ registry[i].enabled /\ InRoom(i, options.area)
         => y \in cycles']_vars

\* What an options flow proposes when nothing is touched is the rule as it
\* is, but for what cannot be resolved any more and for the fraction of a
\* second, which the form cuts off (test_config_flow.py: old options default
\* the retry interval to the existing shutdown time).
DefaultsKeepRule ==
  form.step = "delay" /\ form.untouched /\ options # NoOptions =>
    /\ LET numbers == FromMapping(options) IN
         /\ Shown(OrElse(working.delay, DefaultDelay)) = 1000 * Whole(numbers.delay)
         /\ Shown(OrElse(working.retry, DefaultRetry)) = 1000 * Whole(numbers.retry)
    /\ working.area = options.area
    /\ working.targets = {ref \in options.targets : Resolved(ref) # {}}
    /\ form.default = UNION {Resolved(ref) : ref \in options.gate}

\* Once the room is changed, the form offers what is in the new room, never
\* what was selected in the old one.
NoStrangersOffered ==
  [][form'.step = "entities" /\ form' # form /\ UNCHANGED registries
     /\ options # NoOptions /\ working'.area # options.area
       => \A name \in form'.offered : \E i \in Holder(name) : InRoom(i, working'.area)]_vars

\* An entity's room is the nearest above it (test_helpers.py: a child device
\* inherits the area of its parent), whatever circle the parents form.
AreaIsNearest == NearestIn(devices)

\* Each selected entity is turned off independently of the others
\* (controller.py, _async_execute_serialized): one of them cannot keep
\* another from being called.
EachTargetIsIndependent ==
  rule # NoRule => \A t, u \in rule.targets :
    Callable(rule, t) => ~Raises(rule, u)
=============================================================================
