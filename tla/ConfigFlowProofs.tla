--------------------------- MODULE ConfigFlowProofs ---------------------------
(***************************************************************************)
(* Theorems about the forms and the loading of a rule, for every home and  *)
(* every number of registry changes.                                       *)
(***************************************************************************)
EXTENDS ConfigFlow, TLAPS

\* A number of seconds is the sum of its days, hours, minutes and seconds.
LEMMA DurationSplit ==
  ASSUME NEW s \in Nat
  PROVE  86400 * (s \div 86400) + 3600 * ((s % 86400) \div 3600)
           + 60 * ((s % 3600) \div 60) + (s % 60) = s
<1>1. s = 86400 * (s \div 86400) + (s % 86400)
  BY SMT
<1>2. s % 86400 = 3600 * ((s % 86400) \div 3600) + (s % 3600)
  BY SMT
<1>3. s % 3600 = 60 * ((s % 3600) \div 60) + (s % 60)
  BY SMT
<1> QED
  BY <1>1, <1>2, <1>3, SMT

LEMMA ShownWhole ==
  ASSUME NEW ms \in Nat
  PROVE  Shown(ms) = 1000 * Whole(ms)
<1> DEFINE s == Whole(ms)
<1>1. s \in Nat
  BY SMT DEF Whole
<1>2. Shown(ms) = 1000 * (86400 * (s \div 86400) + 3600 * ((s % 86400) \div 3600)
                          + 60 * ((s % 3600) \div 60) + (s % 60)) + 0
  BY SMT DEF Shown, DurationToSeconds, SecondsToDuration
<1> HIDE DEF s
<1>3. Shown(ms) = 1000 * s + 0
  BY <1>1, <1>2, DurationSplit, SMT
<1> QED
  BY <1>1, <1>3, SMT DEF s

LEMMA WholeIsFloor ==
  ASSUME NEW ms \in Nat
  PROVE  /\ 1000 * Whole(ms) \in Nat
         /\ 1000 * Whole(ms) <= ms /\ ms < 1000 * Whole(ms) + 1000
         /\ ms % 1000 = 0 => 1000 * Whole(ms) = ms
BY SMT DEF Whole

LEMMA ShownTyped ==
  ASSUME NEW ms \in Nat
  PROVE  Shown(ms) \in Nat
BY ShownWhole, WholeIsFloor, SMT

\* What a form shows of a number, and reads back from days, hours, minutes
\* and seconds, is the number without the fraction of its last second; a
\* number of whole seconds is read back as it was
\* (config_flow.py, _seconds_to_duration and _duration_to_seconds).
THEOREM DurationRoundTrip ==
  ASSUME NEW ms \in Nat
  PROVE  LET shown == DurationToSeconds(SecondsToDuration(ms)) IN
         /\ shown \in Nat /\ shown <= ms /\ ms < shown + 1000
         /\ ms % 1000 = 0 => shown = ms
<1>1. DurationToSeconds(SecondsToDuration(ms)) = 1000 * Whole(ms)
  BY ShownWhole, SMT DEF Shown
<1> QED
  BY <1>1, WholeIsFloor, SMT

-----------------------------------------------------------------------------
(* Types *)

USE DEF None

\* An optional value that is there is the value.
LEMMA OrElseIn ==
  ASSUME NEW S, NEW default, S # {}
  PROVE  OrElse(S, default) \in S
BY DEF OrElse

LEMMA OrElseOf ==
  ASSUME NEW v, NEW default
  PROVE  OrElse({v}, default) = v
BY OrElseIn

LEMMA OrElseTyped ==
  ASSUME NEW T, NEW S \in Optional(T), NEW default \in T
  PROVE  OrElse(S, default) \in T
<1>1. CASE S = {}
  BY <1>1 DEF OrElse
<1>2. CASE S # {}
  BY <1>2, OrElseIn DEF Optional
<1> QED
  BY <1>1, <1>2

LEMMA OptionalTyped ==
  ASSUME NEW T
  PROVE  {} \in Optional(T) /\ \A v \in T : {v} \in Optional(T)
BY DEF Optional

FormSteps == {"room", "entities", "delay"}

\* A form has its four fields.
FormTyped ==
  \/ form = NoForm
  \/ /\ form = [step |-> form.step, offered |-> form.offered,
                default |-> form.default, untouched |-> form.untouched]
     /\ form.step \in FormSteps

WellTyped == TypeOK /\ FormTyped

\* Names are those of the registry, and a name or a registry id is at most
\* one entity's.
LEMMA HolderTyped ==
  ASSUME TypeOK, NEW ref
  PROVE  Holder(ref) \in Optional(Ids)
<1>1. \A i \in Ids : Present(i) => registry[i].name \in Names
  BY DEF TypeOK, Present, Entry
<1> QED
  BY <1>1, FlowAssumption DEF TypeOK, UniqueNames, Holder, Optional

LEMMA HolderOfName ==
  ASSUME TypeOK, NEW i \in Ids, Present(i)
  PROVE  registry[i].name \in Names /\ Holder(registry[i].name) = {i}
<1>1. registry[i].name \in Names
  BY DEF TypeOK, Present, Entry
<1> QED
  BY <1>1, FlowAssumption DEF TypeOK, UniqueNames, Holder

LEMMA HolderOfId ==
  ASSUME TypeOK, NEW i \in Ids, ~Present(i)
  PROVE  Holder(i) = {}
<1>1. \A j \in Ids : Present(j) => registry[j].name \in Names
  BY DEF TypeOK, Present, Entry
<1> QED
  BY <1>1, FlowAssumption DEF Holder

LEMMA ResolvedTyped ==
  ASSUME TypeOK, NEW ref \in References
  PROVE  Resolved(ref) \in Optional(Names)
<1>1. CASE ref \in Names
  BY <1>1 DEF Resolved, Optional
<1>2. CASE ref \notin Names
  <2>1. ref \in Ids
    BY <1>2 DEF References
  <2>2. Present(ref) => registry[ref].name \in Names
    BY <2>1 DEF TypeOK, Present, Entry
  <2> QED
    BY <1>2, <2>2 DEF Resolved, Optional
<1> QED
  BY <1>1, <1>2

LEMMA CanonicalTyped ==
  ASSUME TypeOK, NEW name \in Names
  PROVE  Canonical(name) \in References
BY HolderTyped, OrElseTyped, OrElseIn DEF Canonical, References, OrElse, Optional

LEMMA KnowTyped ==
  ASSUME TypeOK, NEW ref \in References
  PROVE  Know(ref) \in Known
<1>1. OrElse(Resolved(ref), ref) \in References
  BY ResolvedTyped, OrElseIn DEF References, OrElse, Optional
<1> QED
  BY <1>1, HolderTyped DEF Know, Known

LEMMA LoadedTyped ==
  ASSUME TypeOK, NEW o \in Options
  PROVE  Loaded(o) \in Rules
<1>1. /\ o.area \in Areas \cup {None} /\ o.targets \subseteq References
      /\ o.delay \in Optional(Nat) /\ o.retry \in Optional(Nat)
      /\ o.gate \in Optional(References)
  BY DEF Options
<1>2. {Know(ref) : ref \in o.targets} \subseteq Known
  BY <1>1, KnowTyped
<1>3. {Know(ref) : ref \in o.gate} \in Optional(Known)
  BY <1>1, KnowTyped DEF Optional
<1>4. FromMapping(o).delay \in Nat /\ FromMapping(o).retry \in Nat
  <2>1. OrElse(o.delay, DefaultDelay) \in Nat
    BY <1>1, OrElseTyped, OptionAssumption
  <2>2. OrElse(o.retry, OrElse(o.delay, DefaultDelay)) \in Nat
    BY <1>1, <2>1, OrElseTyped
  <2> QED
    BY <2>1, <2>2 DEF FromMapping, NotNegative
<1> QED
  BY <1>1, <1>2, <1>3, <1>4 DEF Loaded, Rules

LEMMA EntitiesFormTyped ==
  ASSUME NEW w, NEW u
  PROVE  LET f == EntitiesForm(w, u)
         IN  /\ f = [step |-> f.step, offered |-> f.offered, default |-> f.default,
                     untouched |-> f.untouched]
             /\ f.step = "entities"
BY DEF EntitiesForm

LEMMA DelayFormTyped ==
  ASSUME NEW w, NEW u
  PROVE  LET f == DelayForm(w, u)
         IN  /\ f = [step |-> f.step, offered |-> f.offered, default |-> f.default,
                     untouched |-> f.untouched]
             /\ f.step = "delay"
BY DEF DelayForm

LEMMA WellTypedInit == Init => WellTyped
<1> SUFFICES ASSUME Init PROVE WellTyped
  OBVIOUS
<1>1. options = NoOptions \/ options \in Options
  BY FlowAssumption DEF Init
<1>2. working \in Options
  BY OptionalTyped DEF Init, Empty, Options
<1>3. registry \in [Ids -> Entry \cup {Gone}] /\ devices \in [Devices -> Device]
  BY FlowAssumption DEF Init
<1> QED
  BY <1>1, <1>2, <1>3, FlowAssumption DEF Init, WellTyped, TypeOK, FormTyped, NoForm, UniqueNames, Present

\* The registries change: one entry at a time, and to a name that is free.
LEMMA ChangeKeepsTypes ==
  ASSUME WellTyped,
         \/ \E i \in Ids : Rename(i) \/ Remove(i) \/ Return(i) \/ Toggle(i)
         \/ \E i \in Targets : Move(i)
         \/ \E d \in Devices : ChangeDevice(d)
  PROVE  WellTyped'
<1> USE DEF WellTyped, TypeOK
<1>1. Outdate
  BY DEF Rename, Remove, Return, Toggle, Move, ChangeDevice
<1>2. FormTyped' /\ form'.step \in {"none", "room", "entities", "delay"}
  BY <1>1 DEF Outdate, FormTyped, NoForm, FormSteps
<1>3. /\ changes' \in 0 .. MaxChanges /\ flows' \in 0 .. MaxFlows
      /\ options' = NoOptions \/ options' \in Options
      /\ working' \in Options /\ (rule' = NoRule \/ rule' \in Rules)
  BY <1>1, FlowAssumption DEF Outdate
<1>4. devices' \in [Devices -> Device]
  BY DEF Rename, Remove, Return, Toggle, Move, ChangeDevice, SetEntry
<1>5. ASSUME NEW i \in Ids, NEW entry, SetEntry(i, entry),
             \/ entry = Gone
             \/ /\ entry \in Entry
                /\ Present(i) /\ entry.name = registry[i].name
             \/ entry \in Entry /\ Holder(entry.name) = {}
      PROVE  registry' \in [Ids -> Entry \cup {Gone}] /\ UniqueNames'
  BY <1>5, FlowAssumption DEF SetEntry, Present, Holder, UniqueNames
<1>6. registry' \in [Ids -> Entry \cup {Gone}] /\ UniqueNames'
  <2>1. ASSUME NEW i \in Ids, Rename(i) PROVE registry' \in [Ids -> Entry \cup {Gone}] /\ UniqueNames'
    BY <2>1, <1>5 DEF Rename, Present, Entry, Names
  <2>2. ASSUME NEW i \in Ids, Remove(i) PROVE registry' \in [Ids -> Entry \cup {Gone}] /\ UniqueNames'
    BY <2>2, <1>5 DEF Remove
  <2>3. ASSUME NEW i \in Ids, Return(i) PROVE registry' \in [Ids -> Entry \cup {Gone}] /\ UniqueNames'
    BY <2>3, <1>5, FlowAssumption DEF Return
  <2>4. ASSUME NEW i \in Ids, Toggle(i) PROVE registry' \in [Ids -> Entry \cup {Gone}] /\ UniqueNames'
    BY <2>4, <1>5 DEF Toggle, Present, Entry
  <2>5. ASSUME NEW i \in Targets, Move(i) PROVE registry' \in [Ids -> Entry \cup {Gone}] /\ UniqueNames'
    BY <2>5, <1>5 DEF Move, Present, Entry, Ids
  <2>6. ASSUME NEW d \in Devices, ChangeDevice(d) PROVE registry' \in [Ids -> Entry \cup {Gone}] /\ UniqueNames'
    BY <2>6 DEF ChangeDevice, UniqueNames, Present
  <2> QED
    BY <2>1, <2>2, <2>3, <2>4, <2>5, <2>6
<1> QED
  BY <1>2, <1>3, <1>4, <1>6

LEMMA OpenKeepsTypes ==
  ASSUME WellTyped, Open
  PROVE  WellTyped'
<1> USE DEF WellTyped, TypeOK
<1>1. working' \in Options
  <2>1. CASE options = NoOptions
    BY <2>1, OptionalTyped DEF Open, Empty, Options
  <2>2. CASE options \in Options
    <3>1. EditedRetry(options) \in Nat
      BY <2>2, OrElseTyped, OptionAssumption DEF EditedRetry, Options
    <3>2. [options EXCEPT !.retry = {EditedRetry(options)}] \in Options
      BY <2>2, <3>1, OptionalTyped DEF Options
    <3> QED
      BY <3>2, OptionalTyped DEF Open, Empty, Options
  <2> QED
    BY <2>1, <2>2
<1>2. FormTyped'
  BY DEF Open, FormTyped, FormSteps
<1>3. flows' \in 0 .. MaxFlows
  BY FlowAssumption DEF Open
<1> QED
  BY <1>1, <1>2, <1>3
     DEF Open, EntryUnchanged, registries, UniqueNames, Present

LEMMA SubmitRoomKeepsTypes ==
  ASSUME WellTyped, SubmitRoom
  PROVE  WellTyped'
<1> USE DEF WellTyped, TypeOK
<1>1. PICK area \in Areas :
        /\ working' = InNewRoom(working, area)
        /\ form' = EntitiesForm(working', form.untouched /\ area = working.area)
  BY DEF SubmitRoom
<1>2. working' \in Options
  BY <1>1 DEF InNewRoom, Options
<1>3. FormTyped'
  BY <1>1, EntitiesFormTyped DEF FormTyped, FormSteps
<1> QED
  BY <1>1, <1>2, <1>3, EntitiesFormTyped
     DEF SubmitRoom, EntryUnchanged, registries, UniqueNames, Present

LEMMA SubmitEntitiesKeepsTypes ==
  ASSUME WellTyped, SubmitEntities
  PROVE  WellTyped'
<1> USE DEF WellTyped, TypeOK
<1>1. PICK chosen \in SUBSET (Targets \cup TargetNames) :
        LET untouched == form.untouched /\ chosen = form.default
            names == UNION {Resolved(ref) : ref \in chosen}
        IN  \/ /\ working' = [working EXCEPT !.targets = {Canonical(name) : name \in names}]
               /\ form' = DelayForm(working', untouched)
            \/ /\ working' = working
               /\ form' = EntitiesForm(working, form.untouched)
  BY Zenon DEF SubmitEntities
<1>2. working' \in Options
  <2> DEFINE names == UNION {Resolved(ref) : ref \in chosen}
  <2>1. names \subseteq Names
    BY ResolvedTyped DEF Optional, References, Ids, Names
  <2>2. {Canonical(name) : name \in names} \subseteq References
    BY <2>1, CanonicalTyped
  <2> HIDE DEF names
  <2>3. [working EXCEPT !.targets = {Canonical(name) : name \in names}] \in Options
    BY <2>2 DEF Options
  <2> QED
    BY <1>1, <2>3 DEF names
<1>3. FormTyped' /\ form'.step \in {"entities", "delay"}
  BY <1>1, EntitiesFormTyped, DelayFormTyped DEF FormTyped, FormSteps
<1> QED
  BY <1>2, <1>3
     DEF SubmitEntities, EntryUnchanged, registries, UniqueNames, Present

LEMMA SaveKeepsTypes ==
  ASSUME WellTyped, Save
  PROVE  WellTyped'
<1> USE DEF WellTyped, TypeOK
<1>1. PICK delay \in Typed(OrElse(working.delay, DefaultDelay)),
           retry \in Typed(OrElse(working.retry, DefaultRetry)),
           gate \in Optional(GateNames) :
        options' = [working EXCEPT !.delay = {delay}, !.retry = {retry},
                                   !.gate = {Canonical(name) : name \in gate}]
  BY DEF Save
<1>2. delay \in Nat /\ retry \in Nat
  <2>1. \A s \in Nat : Typed(s) \subseteq Nat
    <3>1. \A s \in Nat : Shown(s) \in Nat
      BY ShownTyped
    <3> QED
      BY <3>1, FlowAssumption DEF Typed
  <2>2. OrElse(working.delay, DefaultDelay) \in Nat /\ OrElse(working.retry, DefaultRetry) \in Nat
    BY OrElseTyped, OptionAssumption DEF Options
  <2> QED
    BY <2>1, <2>2
<1>3. {Canonical(name) : name \in gate} \in Optional(References)
  BY CanonicalTyped DEF Optional, Names
<1>4. options' \in Options
  <2>1. {delay} \in Optional(Nat) /\ {retry} \in Optional(Nat)
    BY <1>2, OptionalTyped
  <2> QED
    BY <1>1, <1>3, <2>1 DEF Options
<1>5. working' \in Options
  BY OptionalTyped DEF Save, Empty, Options
<1> QED
  BY <1>4, <1>5
     DEF Save, registries, UniqueNames, Present, FormTyped, NoForm

LEMMA NextKeepsTypes == WellTyped /\ [Next]_vars => WellTyped'
<1> SUFFICES ASSUME WellTyped, [Next]_vars PROVE WellTyped'
  OBVIOUS
<1>1. CASE RefuseDelay
  BY <1>1, DelayFormTyped
     DEF RefuseDelay, EntryUnchanged, registries, WellTyped, TypeOK, UniqueNames, Present,
         FormTyped, FormSteps
<1>2. CASE Abandon
  BY <1>2, OptionalTyped
     DEF Abandon, EntryUnchanged, registries, WellTyped, TypeOK, UniqueNames, Present,
         FormTyped, NoForm, Empty, Options
<1>3. CASE Load
  <2>1. rule' \in Rules
    BY <1>3, LoadedTyped DEF Load, WellTyped, TypeOK
  <2> QED
    BY <1>3, <2>1
       DEF Load, editing, registries, WellTyped, TypeOK, UniqueNames, Present, FormTyped
<1>4. CASE Sync
  BY <1>4 DEF Sync, editing, registries, WellTyped, TypeOK, UniqueNames, Present, FormTyped
<1>5. CASE UNCHANGED vars
  BY <1>5 DEF vars, editing, registries, WellTyped, TypeOK, UniqueNames, Present, FormTyped
<1> QED
  BY <1>1, <1>2, <1>3, <1>4, <1>5, ChangeKeepsTypes, OpenKeepsTypes, SubmitRoomKeepsTypes,
     SubmitEntitiesKeepsTypes, SaveKeepsTypes DEF Next

\* Every action of the forms, of the entry and of the registries keeps every
\* variable in its type, and a name at most one entity's.
THEOREM FlowTypeCorrect == Spec => []TypeOK
<1>1. Spec => []WellTyped
  BY WellTypedInit, NextKeepsTypes, PTL DEF Spec
<1>2. WellTyped => TypeOK
  BY DEF WellTyped
<1> QED
  BY <1>1, <1>2, PTL

-----------------------------------------------------------------------------
(* Clocks *)

\* Clocks are filed under the registry id of the entity they time.
ClocksFiled == \A y \in cycles : y.key = <<"registry", y.owner>>

LEMMA SyncedFiles ==
  ASSUME ClocksFiled, NEW r
  PROVE  \A y \in Synced(r, cycles) : y.key = <<"registry", y.owner>>
<1> SUFFICES ASSUME NEW y \in Synced(r, cycles) PROVE y.key = <<"registry", y.owner>>
  OBVIOUS
<1>1. \/ y \in cycles
      \/ \E t \in r.targets : /\ t.reg # {}
                             /\ y = [key |-> StableKey(t), owner |-> OrElse(t.reg, None)]
  BY Zenon DEF Synced
<1>2. CASE y \in cycles
  BY <1>2 DEF ClocksFiled
<1>3. ASSUME NEW t \in r.targets, t.reg # {},
             y = [key |-> StableKey(t), owner |-> OrElse(t.reg, None)]
      PROVE  y.key = <<"registry", y.owner>>
  BY <1>3 DEF StableKey
<1> QED
  BY <1>1, <1>2, <1>3

LEMMA NextFilesClocks ==
  ASSUME ClocksFiled, [Next]_vars
  PROVE  ClocksFiled'
<1>1. CASE Load
  BY <1>1, SyncedFiles DEF Load, ClocksFiled
<1>2. CASE Sync
  BY <1>2, SyncedFiles DEF Sync, ClocksFiled
<1>3. CASE UNCHANGED cycles
  BY <1>3 DEF ClocksFiled
<1> QED
  BY <1>1, <1>2, <1>3
     DEF Next, vars, Rename, Remove, Return, Toggle, Move, ChangeDevice, Outdate,
         Open, SubmitRoom, SubmitEntities, RefuseDelay, Save, Abandon, EntryUnchanged

\* A target's clock times the entity that the target was resolved to,
\* whatever took its name before or after.
THEOREM ClocksAreOwn == Spec => []ClocksKeepIdentity
<1>1. Init => ClocksFiled
  BY DEF Init, ClocksFiled
<1>2. ClocksFiled => ClocksKeepIdentity
  <2> SUFFICES ASSUME ClocksFiled, NEW t \in rule.targets, NEW y \in cycles,
                      y.key = StableKey(t)
               PROVE  y.owner \in t.reg
    BY DEF ClocksKeepIdentity
  <2>1. t.reg # {} /\ y.owner = OrElse(t.reg, None)
    BY DEF ClocksFiled, StableKey
  <2> QED
    BY <2>1, OrElseIn
<1> QED
  BY <1>1, <1>2, NextFilesClocks, PTL DEF Spec

-----------------------------------------------------------------------------
(* The entities a rule may call are those the user picked *)

\* What is saved is what was picked, by registry ids.
SavedArePicked ==
  options # NoOptions => /\ options.targets = picked.saved.targets
                         /\ options.targets \subseteq Ids
                         /\ options.gate = picked.saved.gate

\* So is what the last form is about to save.
ChosenArePicked ==
  form.step = "delay" => /\ working.targets = picked.chosen
                         /\ working.targets \subseteq Ids

\* A loaded target is a picked entity, by the name it had, or the registry id
\* of one that was not there; the picked gate is known likewise.
KnownArePicked ==
  rule # NoRule =>
    /\ \A t \in rule.targets : \/ t.reg = {} /\ t.name \in Ids
                              \/ \E i \in picked.loaded.targets : t.reg = {i}
    /\ \A g \in picked.loaded.gate : \E k \in rule.gate :
         IF g \in Ids THEN k.reg = {g} \/ (k.reg = {} /\ k.name = g) ELSE k.name = g

PickedTyped ==
  picked = [chosen |-> picked.chosen, loaded |-> picked.loaded, saved |-> picked.saved]

PickedInv ==
  WellTyped /\ PickedTyped /\ SavedArePicked /\ ChosenArePicked /\ KnownArePicked

\* A registry id is resolved to the entity it is the id of, or to itself.
LEMMA KnowId ==
  ASSUME TypeOK, NEW i \in Ids
  PROVE  \/ Know(i).reg = {i}
         \/ Know(i).reg = {} /\ Know(i).name = i
<1>1. i \notin Names
  BY FlowAssumption
<1>2. CASE Present(i)
  <2>1. Resolved(i) = {registry[i].name}
    BY <1>1, <1>2 DEF Resolved
  <2>2. OrElse(Resolved(i), i) = registry[i].name
    BY <2>1, OrElseOf
  <2>3. Holder(registry[i].name) = {i}
    BY <1>2, HolderOfName
  <2> QED
    BY <2>2, <2>3 DEF Know
<1>3. CASE ~Present(i)
  <2>1. OrElse(Resolved(i), i) = i
    BY <1>1, <1>3 DEF Resolved, OrElse
  <2>2. Holder(i) = {}
    BY <1>3, HolderOfId
  <2> QED
    BY <2>1, <2>2 DEF Know
<1> QED
  BY <1>2, <1>3

\* A name is resolved to itself.
LEMMA KnowName ==
  ASSUME NEW name \in Names
  PROVE  Know(name).name = name
BY OrElseOf DEF Know, Resolved

\* Entities in the room are in the registry: their references are their ids.
LEMMA CandidatesAreHeld ==
  ASSUME TypeOK, NEW area, NEW name \in Candidates(area, {})
  PROVE  \E i \in Ids : Holder(name) = {i} /\ Canonical(name) = i
<1>1. PICK i \in Targets : Present(i) /\ registry[i].name = name
  BY DEF Candidates
<1>2. Holder(name) = {i}
  BY <1>1, HolderOfName DEF Ids
<1> QED
  BY <1>2, OrElseOf DEF Canonical, Ids

LEMMA AcceptedArePicked ==
  ASSUME PickedInv, SubmitEntities
  PROVE  ChosenArePicked' /\ PickedTyped'
<1>1. PICK chosen \in SUBSET (Targets \cup TargetNames) :
        LET names == UNION {Resolved(ref) : ref \in chosen}
        IN  \/ /\ Acceptable(chosen)
               /\ working' = [working EXCEPT !.targets = {Canonical(name) : name \in names}]
               /\ picked' = [picked EXCEPT !.chosen = UNION {Holder(name) : name \in names}]
            \/ /\ form'.step = "entities" /\ picked' = picked
  BY EntitiesFormTyped DEF SubmitEntities
<1> DEFINE names == UNION {Resolved(ref) : ref \in chosen}
<1>2. CASE /\ Acceptable(chosen)
           /\ working' = [working EXCEPT !.targets = {Canonical(name) : name \in names}]
           /\ picked' = [picked EXCEPT !.chosen = UNION {Holder(name) : name \in names}]
  <2>1. \A name \in names : \E i \in Ids : Holder(name) = {i} /\ Canonical(name) = i
    BY <1>2, CandidatesAreHeld DEF Acceptable, PickedInv, WellTyped
  <2> HIDE DEF names
  <2>2. {Canonical(name) : name \in names} = UNION {Holder(name) : name \in names}
    BY <2>1
  <2>3. {Canonical(name) : name \in names} \subseteq Ids
    BY <2>1
  <2>4. working'.targets = {Canonical(name) : name \in names}
    BY <1>2 DEF PickedInv, WellTyped, TypeOK, Options
  <2>5. picked'.chosen = UNION {Holder(name) : name \in names} /\ PickedTyped'
    BY <1>2 DEF PickedInv, PickedTyped
  <2> QED
    BY <2>2, <2>3, <2>4, <2>5 DEF ChosenArePicked
<1>3. CASE form'.step = "entities" /\ picked' = picked
  BY <1>3 DEF ChosenArePicked, PickedInv, PickedTyped
<1> QED
  BY <1>1, <1>2, <1>3

LEMMA SavedStayPicked ==
  ASSUME PickedInv, Save
  PROVE  SavedArePicked' /\ PickedTyped' /\ picked'.loaded = picked.loaded
<1>1. PICK delay \in Typed(OrElse(working.delay, DefaultDelay)),
           retry \in Typed(OrElse(working.retry, DefaultRetry)),
           gate \in Optional(GateNames) :
        /\ options' = [working EXCEPT !.delay = {delay}, !.retry = {retry},
                                      !.gate = {Canonical(name) : name \in gate}]
        /\ picked' = [picked EXCEPT !.saved =
                        [targets |-> picked.chosen,
                         gate |-> {OrElse(Holder(name), name) : name \in gate}]]
  BY Zenon DEF Save
<1>2. form.step = "delay"
  BY DEF Save
<1>3. options'.targets = working.targets
      /\ options'.gate = {Canonical(name) : name \in gate}
  BY <1>1 DEF PickedInv, WellTyped, TypeOK, Options
<1>4. /\ picked'.saved = [targets |-> picked.chosen,
                          gate |-> {OrElse(Holder(name), name) : name \in gate}]
      /\ picked'.loaded = picked.loaded /\ PickedTyped'
  BY <1>1 DEF PickedInv, PickedTyped
<1>5. {Canonical(name) : name \in gate} = {OrElse(Holder(name), name) : name \in gate}
  BY DEF Canonical
<1> QED
  BY <1>2, <1>3, <1>4, <1>5 DEF SavedArePicked, ChosenArePicked, PickedInv

LEMMA LoadedArePicked ==
  ASSUME PickedInv, Load
  PROVE  KnownArePicked' /\ PickedTyped' /\ picked'.saved = picked.saved
                         /\ picked'.chosen = picked.chosen
<1>1. /\ rule'.targets = {Know(ref) : ref \in options.targets}
      /\ rule'.gate = {Know(ref) : ref \in options.gate}
  BY DEF Load, Loaded
<1>2. /\ picked'.loaded = picked.saved /\ PickedTyped'
      /\ picked'.saved = picked.saved /\ picked'.chosen = picked.chosen
  BY DEF Load, PickedInv, PickedTyped
<1>3. options \in Options /\ SavedArePicked /\ options # NoOptions /\ TypeOK
  BY DEF Load, PickedInv, WellTyped, TypeOK
<1>4. ASSUME NEW t \in rule'.targets
      PROVE  \/ t.reg = {} /\ t.name \in Ids
             \/ \E i \in picked'.loaded.targets : t.reg = {i}
  <2>1. PICK ref \in options.targets : t = Know(ref)
    BY <1>1
  <2>2. ref \in Ids /\ ref \in picked.saved.targets
    BY <1>3, <2>1 DEF SavedArePicked
  <2> QED
    BY <1>2, <1>3, <2>1, <2>2, KnowId
<1>5. ASSUME NEW g \in picked'.loaded.gate
      PROVE  \E k \in rule'.gate :
               IF g \in Ids THEN k.reg = {g} \/ (k.reg = {} /\ k.name = g) ELSE k.name = g
  <2>1. g \in options.gate /\ g \in References
    BY <1>2, <1>3, <1>5 DEF SavedArePicked, Options, Optional
  <2>2. CASE g \in Ids
    BY <1>1, <1>3, <2>1, <2>2, KnowId
  <2>3. CASE g \notin Ids
    BY <1>1, <2>1, <2>3, KnowName DEF References
  <2> QED
    BY <2>2, <2>3
<1> QED
  BY <1>2, <1>4, <1>5 DEF KnownArePicked

LEMMA PickedInit == Init => PickedInv
<1> SUFFICES ASSUME Init PROVE PickedInv
  OBVIOUS
<1>1. PickedTyped
  BY DEF Init, PickedTyped
<1>2. SavedArePicked
  BY FlowAssumption DEF Init, SavedArePicked
<1>3. ChosenArePicked /\ KnownArePicked
  BY DEF Init, ChosenArePicked, KnownArePicked, NoForm
<1> QED
  BY <1>1, <1>2, <1>3, WellTypedInit DEF PickedInv

LEMMA NextKeepsPicked == PickedInv /\ [Next]_vars => PickedInv'
<1> SUFFICES ASSUME PickedInv, [Next]_vars PROVE PickedInv'
  OBVIOUS
<1>1. WellTyped'
  BY NextKeepsTypes DEF PickedInv
<1> USE <1>1
<1>2. CASE \/ \E i \in Ids : Rename(i) \/ Remove(i) \/ Return(i) \/ Toggle(i)
           \/ \E i \in Targets : Move(i)
           \/ \E d \in Devices : ChangeDevice(d)
  <2>1. Outdate
    BY <1>2 DEF Rename, Remove, Return, Toggle, Move, ChangeDevice
  <2>2. form'.step = form.step
    BY <2>1 DEF Outdate, PickedInv, WellTyped, FormTyped
  <2> QED
    BY <2>1, <2>2
       DEF Outdate, PickedInv, PickedTyped, SavedArePicked, ChosenArePicked, KnownArePicked
<1>3. CASE Open
  <2>1. /\ picked'.saved = picked.saved /\ picked'.loaded = picked.loaded
        /\ form'.step = "room" /\ PickedTyped'
    BY <1>3 DEF Open, PickedInv, PickedTyped
  <2> QED
    BY <1>3, <2>1
       DEF Open, EntryUnchanged, PickedInv, SavedArePicked, ChosenArePicked, KnownArePicked
<1>4. CASE SubmitRoom
  <2>1. form'.step = "entities"
    BY <1>4, EntitiesFormTyped DEF SubmitRoom
  <2> QED
    BY <1>4, <2>1
       DEF SubmitRoom, EntryUnchanged, PickedInv, PickedTyped, SavedArePicked,
           ChosenArePicked, KnownArePicked
<1>5. CASE SubmitEntities
  <2>1. picked'.saved = picked.saved /\ picked'.loaded = picked.loaded
    <3>1. picked' = picked \/ \E chosen : picked' = [picked EXCEPT !.chosen = chosen]
      BY <1>5 DEF SubmitEntities
    <3> QED
      BY <3>1 DEF PickedInv, PickedTyped
  <2> QED
    BY <1>5, <2>1, AcceptedArePicked
       DEF SubmitEntities, EntryUnchanged, PickedInv, SavedArePicked, KnownArePicked
<1>6. CASE RefuseDelay
  BY <1>6
     DEF RefuseDelay, EntryUnchanged, PickedInv, PickedTyped, SavedArePicked,
         ChosenArePicked, KnownArePicked
<1>7. CASE Save
  <2>1. form'.step = "none" /\ rule' = rule
    BY <1>7 DEF Save, NoForm
  <2> QED
    BY <1>7, <2>1, SavedStayPicked DEF PickedInv, ChosenArePicked, KnownArePicked
<1>8. CASE Abandon
  <2>1. form'.step = "none"
    BY <1>8 DEF Abandon, NoForm
  <2> QED
    BY <1>8, <2>1
       DEF Abandon, EntryUnchanged, PickedInv, PickedTyped, SavedArePicked,
           ChosenArePicked, KnownArePicked
<1>9. CASE Load
  BY <1>9, LoadedArePicked
     DEF Load, editing, PickedInv, SavedArePicked, ChosenArePicked
<1>10. CASE Sync \/ UNCHANGED vars
  BY <1>10
     DEF Sync, vars, editing, PickedInv, PickedTyped, SavedArePicked, ChosenArePicked,
         KnownArePicked
<1> QED
  BY <1>2, <1>3, <1>4, <1>5, <1>6, <1>7, <1>8, <1>9, <1>10 DEF Next, PickedInv

\* In every home and through any number of renamings, removals, replacements
\* and edits, a rule calls only what the user picked, in its room, and asks
\* the gate the user picked.
THEOREM CallsOnlyPicked == Spec => []OnlyPickedIsCallable
<1>1. PickedInv => OnlyPickedIsCallable
  <2> SUFFICES ASSUME PickedInv, rule # NoRule,
                      NEW t \in rule.targets, Callable(rule, t)
               PROVE  /\ \E i \in picked.loaded.targets :
                            Holder(t.name) = {i} /\ InRoom(i, rule.area)
                      /\ \A g \in picked.loaded.gate : \E k \in rule.gate :
                           IF g \in Ids THEN Holder(k.name) = {g} ELSE k.name = g
    BY DEF OnlyPickedIsCallable
  <2>1. Holder(t.name) = t.reg /\ \A i \in t.reg : InRoom(i, rule.area)
    BY DEF Callable, IdentityError
  <2>2. t.name \notin Ids
    BY DEF Callable, Raises
  <2>3. \E i \in picked.loaded.targets : Holder(t.name) = {i} /\ InRoom(i, rule.area)
    BY <2>1, <2>2 DEF PickedInv, KnownArePicked
  <2>4. \A k \in rule.gate : Holder(k.name) = k.reg /\ HasState(k.name)
    BY DEF Callable, GateBlocked
  <2>5. ASSUME NEW g \in picked.loaded.gate
        PROVE  \E k \in rule.gate : IF g \in Ids THEN Holder(k.name) = {g} ELSE k.name = g
    <3>1. PICK k \in rule.gate :
            IF g \in Ids THEN k.reg = {g} \/ (k.reg = {} /\ k.name = g) ELSE k.name = g
      BY DEF PickedInv, KnownArePicked
    <3>2. ASSUME g \in Ids, k.reg = {}, k.name = g PROVE FALSE
      <4>1. k.name \in Unregistered
        BY <2>4, <3>2 DEF HasState
      <4> QED
        BY <3>2, <4>1, FlowAssumption DEF Names
    <3> QED
      BY <2>4, <3>1, <3>2
  <2> QED
    BY <2>3, <2>5
<1>2. Spec => []PickedInv
  BY PickedInit, NextKeepsPicked, PTL DEF Spec
<1> QED
  BY <1>1, <1>2, PTL

-----------------------------------------------------------------------------
(* What an edit proposes *)

\* Every version of the forms has stored a room and a delay.
StoredByForm == \A o \in Stored : o.area # None /\ o.delay # {}

OptionsByForm == options # NoOptions => options.area # None /\ options.delay # {}

\* A form after the first has a room.
HasRoom == form.step \in {"entities", "delay"} => working.area # None

Editing == form # NoForm /\ options # NoOptions

\* The last form's numbers and gate are those of the rule, whatever was
\* changed in the forms before it.
NumbersKept ==
  Editing => /\ working.delay = options.delay
             /\ working.retry = {EditedRetry(options)}
             /\ working.gate = options.gate

\* A selection is the rule's own until a room or another selection is
\* submitted, and none in a room that has just been changed.
RoomKept ==
  /\ Editing /\ form.step = "room" =>
       working.area = options.area /\ working.targets = options.targets
  /\ Editing /\ form.step = "entities" =>
       working.area = options.area \/ working.targets = {}

\* A form that nothing has touched shows the rule, by the names it has now.
UntouchedKept ==
  Editing /\ form.untouched =>
    /\ form.step \in {"entities", "delay"} => working.area = options.area
    /\ form.step = "entities" =>
         /\ working.targets = options.targets
         /\ form.default = EntitiesForm(working, TRUE).default
    /\ form.step = "delay" =>
         /\ working.targets = {ref \in options.targets : Resolved(ref) # {}}
         /\ form.default = UNION {Resolved(ref) : ref \in options.gate}

EditInv ==
  PickedInv /\ OptionsByForm /\ HasRoom /\ NumbersKept /\ RoomKept /\ UntouchedKept

LEMMA EditInit ==
  ASSUME StoredByForm, Init
  PROVE  EditInv
BY PickedInit
   DEF Init, StoredByForm, EditInv, OptionsByForm, HasRoom, NumbersKept, RoomKept,
       UntouchedKept, Editing, NoForm

LEMMA RegistryKeepsEdit ==
  ASSUME EditInv, Outdate
  PROVE  OptionsByForm' /\ HasRoom' /\ NumbersKept' /\ RoomKept' /\ UntouchedKept'
<1>1. /\ form'.step = form.step /\ options' = options /\ working' = working
      /\ Editing' => Editing /\ ~form'.untouched
  BY DEF Outdate, EditInv, PickedInv, WellTyped, FormTyped, Editing
<1> QED
  BY <1>1 DEF EditInv, OptionsByForm, HasRoom, NumbersKept, RoomKept, UntouchedKept

LEMMA OpenKeepsEdit ==
  ASSUME EditInv, Open
  PROVE  OptionsByForm' /\ HasRoom' /\ NumbersKept' /\ RoomKept' /\ UntouchedKept'
<1>1. form'.step = "room" /\ options' = options
  BY DEF Open, EntryUnchanged
<1>2. options # NoOptions =>
        /\ working'.area = options.area /\ working'.targets = options.targets
        /\ working'.delay = options.delay /\ working'.gate = options.gate
        /\ working'.retry = {EditedRetry(options)}
  BY DEF Open, EditInv, PickedInv, WellTyped, TypeOK, Options
<1> QED
  BY <1>1, <1>2 DEF EditInv, OptionsByForm, HasRoom, NumbersKept, RoomKept, UntouchedKept, Editing

LEMMA SubmitRoomKeepsEdit ==
  ASSUME EditInv, SubmitRoom
  PROVE  OptionsByForm' /\ HasRoom' /\ NumbersKept' /\ RoomKept' /\ UntouchedKept'
<1>1. PICK area \in Areas :
        /\ working' = InNewRoom(working, area)
        /\ form' = EntitiesForm(working', form.untouched /\ area = working.area)
  BY DEF SubmitRoom
<1>2. area # None
  BY AreaAssumption
<1>3. /\ working'.area = area /\ working'.delay = working.delay
      /\ working'.retry = working.retry /\ working'.gate = working.gate
      /\ working'.targets = IF working.area \in {None, area} THEN working.targets ELSE {}
  BY <1>1 DEF InNewRoom, EditInv, PickedInv, WellTyped, TypeOK, Options
<1>4. form'.step = "entities" /\ form'.untouched = (form.untouched /\ area = working.area)
  BY <1>1 DEF EntitiesForm
<1>5. form.step = "room" /\ form # NoForm /\ options' = options
  BY DEF SubmitRoom, EntryUnchanged, NoForm
<1>6. form'.default = EntitiesForm(working, TRUE).default'
  <2>1. registry' = registry /\ devices' = devices
    BY DEF SubmitRoom, EntryUnchanged, registries
  <2> QED
    BY <1>1, <2>1 DEF EntitiesForm, Candidates, Resolved, Present, InRoom
<1>7. OptionsByForm' /\ HasRoom' /\ NumbersKept' /\ RoomKept'
  BY <1>2, <1>3, <1>4, <1>5
     DEF EditInv, OptionsByForm, HasRoom, NumbersKept, RoomKept, Editing
<1>8. UntouchedKept'
  BY <1>2, <1>3, <1>4, <1>5, <1>6
     DEF EditInv, RoomKept, UntouchedKept, Editing
<1> QED
  BY <1>7, <1>8

\* An id that has an entry stands for its name, and its name for it.
LEMMA IdAndName ==
  ASSUME TypeOK, NEW i \in Ids
  PROVE  /\ ~Present(i) => Resolved(i) = {}
         /\ Present(i) => /\ registry[i].name \in Names
                          /\ Resolved(i) = {registry[i].name}
                          /\ Resolved(registry[i].name) = {registry[i].name}
                          /\ Canonical(registry[i].name) = i
<1>1. i \notin Names
  BY FlowAssumption
<1>2. CASE ~Present(i)
  BY <1>1, <1>2 DEF Resolved
<1>3. CASE Present(i)
  <2>1. registry[i].name \in Names
    BY <1>3 DEF TypeOK, Present, Entry
  <2>2. Holder(registry[i].name) = {i}
    BY <1>3, HolderOfName
  <2>3. Canonical(registry[i].name) = i
    BY <2>2, OrElseOf DEF Canonical
  <2> QED
    BY <1>1, <1>3, <2>1, <2>3 DEF Resolved
<1> QED
  BY <1>2, <1>3

\* What a form selects of a rule's ids are the names of those that have one.
LEMMA SelectedByDefault ==
  ASSUME TypeOK, NEW w, w.targets \subseteq Ids, NEW u
  PROVE  EntitiesForm(w, u).default = {registry[i].name : i \in {j \in w.targets : Present(j)}}
<1> DEFINE Named == {registry[i].name : i \in {j \in w.targets : Present(j)}}
           Picked == UNION {Resolved(ref) : ref \in w.targets}
           Selected == UNION {IF Resolved(ref) = {} THEN {ref} ELSE Resolved(ref) :
                                ref \in w.targets}
           Offered == Candidates(w.area, w.targets)
<1>1. Picked = Named
  BY IdAndName
<1>2. Named \subseteq Names
  BY IdAndName
<1>3. Offered \subseteq Names /\ Named \subseteq Offered
  <2>1. \A i \in Targets : Present(i) => registry[i].name \in Names
    BY IdAndName DEF Ids
  <2> QED
    BY <1>1, <1>2, <2>1 DEF Candidates
<1>4. Named \subseteq Selected /\ \A n \in Selected : n \in Named \/ n \in Ids
  <2>1. Named \subseteq Selected
    BY IdAndName
  <2>2. ASSUME NEW ref \in w.targets
        PROVE  (IF Resolved(ref) = {} THEN {ref} ELSE Resolved(ref)) \subseteq Named \cup Ids
    BY IdAndName
  <2> QED
    BY <2>1, <2>2
<1>5. EntitiesForm(w, u).default = Selected \cap Offered
  BY DEF EntitiesForm
<1> HIDE DEF Named, Selected, Offered
<1>6. EntitiesForm(w, u).default = Named
  BY <1>2, <1>3, <1>4, <1>5, FlowAssumption
<1> QED
  BY <1>6 DEF Named

\* Submitting a selection as it is shown keeps the ids that have an entry.
LEMMA ShownSelection ==
  ASSUME TypeOK, NEW ids, ids \subseteq Ids
  PROVE  LET chosen == {registry[i].name : i \in {j \in ids : Present(j)}}
             names == UNION {Resolved(ref) : ref \in chosen}
         IN  {Canonical(name) : name \in names} = {ref \in ids : Resolved(ref) # {}}
<1> DEFINE chosen == {registry[i].name : i \in {j \in ids : Present(j)}}
<1>1. UNION {Resolved(ref) : ref \in chosen} = chosen
  <2>1. \A name \in chosen : Resolved(name) = {name}
    BY IdAndName
  <2> HIDE DEF chosen
  <2> QED
    BY <2>1
<1>2. {Canonical(name) : name \in chosen} = {j \in ids : Present(j)}
  BY IdAndName
<1>3. {ref \in ids : Resolved(ref) # {}} = {j \in ids : Present(j)}
  BY IdAndName
<1> QED
  BY <1>1, <1>2, <1>3

LEMMA SubmitEntitiesKeepsEdit ==
  ASSUME EditInv, SubmitEntities
  PROVE  OptionsByForm' /\ HasRoom' /\ NumbersKept' /\ RoomKept' /\ UntouchedKept'
<1>1. PICK chosen \in SUBSET (Targets \cup TargetNames) :
        LET names == UNION {Resolved(ref) : ref \in chosen}
        IN  \/ /\ working' = [working EXCEPT !.targets = {Canonical(name) : name \in names}]
               /\ form' = DelayForm(working', form.untouched /\ chosen = form.default)
            \/ /\ form' = EntitiesForm(working, form.untouched)
               /\ working' = working
  BY Zenon DEF SubmitEntities
<1>2. /\ form.step = "entities" /\ form # NoForm /\ options' = options
      /\ registry' = registry /\ devices' = devices
  BY DEF SubmitEntities, EntryUnchanged, registries, NoForm
<1>3. OptionsByForm'
  BY <1>2 DEF EditInv, OptionsByForm
<1>4. CASE form' = EntitiesForm(working, form.untouched) /\ working' = working
  <2>1. /\ form'.step = "entities" /\ form'.untouched = form.untouched
        /\ form'.default = EntitiesForm(working, TRUE).default
    BY <1>4 DEF EntitiesForm
  <2>2. EntitiesForm(working, TRUE).default' = EntitiesForm(working, TRUE).default
    BY <1>2, <1>4 DEF EntitiesForm, Candidates, Resolved, Present, InRoom
  <2>3. HasRoom' /\ NumbersKept' /\ RoomKept'
    BY <1>2, <1>4, <2>1 DEF EditInv, HasRoom, NumbersKept, RoomKept, Editing
  <2>4. UntouchedKept'
    BY <1>2, <1>4, <2>1, <2>2 DEF EditInv, UntouchedKept, Editing
  <2> QED
    BY <1>3, <2>3, <2>4
<1>5. ASSUME NEW untouched, untouched = (form.untouched /\ chosen = form.default),
             NEW T, T = {Canonical(name) : name \in UNION {Resolved(ref) : ref \in chosen}},
             working' = [working EXCEPT !.targets = T],
             form' = DelayForm(working', untouched)
      PROVE  HasRoom' /\ NumbersKept' /\ RoomKept' /\ UntouchedKept'
  <2>1. /\ form'.step = "delay" /\ form'.untouched = untouched
        /\ form'.default = UNION {Resolved(ref) : ref \in working'.gate}
    BY <1>5 DEF DelayForm
  <2>2. /\ working'.area = working.area /\ working'.delay = working.delay
        /\ working'.retry = working.retry /\ working'.gate = working.gate
        /\ working'.targets = T
    BY <1>5 DEF EditInv, PickedInv, WellTyped, TypeOK, Options
  <2>3. HasRoom' /\ NumbersKept' /\ RoomKept'
    BY <1>2, <2>1, <2>2 DEF EditInv, HasRoom, NumbersKept, RoomKept, Editing
  <2>4. \A ref : Resolved(ref)' = Resolved(ref)
    BY <1>2 DEF Resolved, Present
  <2>5. ASSUME Editing, untouched
        PROVE  T = {ref \in options.targets : Resolved(ref) # {}}
    <3>1. /\ chosen = EntitiesForm(working, TRUE).default
          /\ working.targets = options.targets
      BY <1>2, <1>5, <2>5 DEF EditInv, UntouchedKept
    <3>2. options.targets \subseteq Ids /\ TypeOK
      BY <2>5 DEF Editing, EditInv, PickedInv, SavedArePicked, WellTyped
    <3>3. chosen = {registry[i].name : i \in {j \in options.targets : Present(j)}}
      BY <3>1, <3>2, SelectedByDefault
    <3> QED
      BY <1>5, <3>2, <3>3, ShownSelection
  <2>6. UntouchedKept'
    <3> SUFFICES ASSUME Editing', form'.untouched
                 PROVE  /\ working'.area = options'.area
                        /\ working'.targets = {ref \in options'.targets : Resolved(ref)' # {}}
                        /\ form'.default = UNION {Resolved(ref)' : ref \in options'.gate}
      BY <2>1 DEF UntouchedKept
    <3>1. Editing /\ untouched /\ form.untouched
      BY <1>2, <1>5, <2>1 DEF Editing
    <3>2. working.gate = options.gate /\ working.area = options.area
      BY <1>2, <3>1 DEF EditInv, NumbersKept, UntouchedKept
    <3>3. form'.default = UNION {Resolved(ref)' : ref \in options'.gate}
      BY <1>2, <2>1, <2>2, <2>4, <3>2
    <3> QED
      BY <1>2, <2>2, <2>4, <2>5, <3>1, <3>2, <3>3
  <2> QED
    BY <2>3, <2>6
<1> QED
  BY <1>1, <1>3, <1>4, <1>5

LEMMA NextKeepsEdit ==
  ASSUME EditInv, [Next]_vars
  PROVE  EditInv'
<1>1. PickedInv'
  BY NextKeepsPicked DEF EditInv
<1>2. CASE \/ \E i \in Ids : Rename(i) \/ Remove(i) \/ Return(i) \/ Toggle(i)
           \/ \E i \in Targets : Move(i)
           \/ \E d \in Devices : ChangeDevice(d)
  <2>1. Outdate
    BY <1>2 DEF Rename, Remove, Return, Toggle, Move, ChangeDevice
  <2> QED
    BY <1>1, <2>1, RegistryKeepsEdit DEF EditInv
<1>3. CASE RefuseDelay
  <2>1. /\ form.step = "delay" /\ form # NoForm /\ form'.step = "delay"
        /\ form'.untouched = form.untouched
        /\ form'.default = UNION {Resolved(ref) : ref \in working.gate}
        /\ working' = working /\ options' = options /\ registry' = registry
    BY <1>3 DEF RefuseDelay, DelayForm, EntryUnchanged, registries, NoForm
  <2>2. \A ref : Resolved(ref)' = Resolved(ref)
    BY <2>1 DEF Resolved, Present
  <2>3. OptionsByForm' /\ HasRoom' /\ NumbersKept' /\ RoomKept'
    BY <2>1 DEF EditInv, OptionsByForm, HasRoom, NumbersKept, RoomKept, Editing
  <2>4. UntouchedKept'
    <3>1. Editing /\ form.untouched => working.gate = options.gate
      BY DEF EditInv, NumbersKept
    <3> QED
      BY <2>1, <2>2, <3>1 DEF EditInv, UntouchedKept, Editing
  <2> QED
    BY <1>1, <2>3, <2>4 DEF EditInv
<1>4. CASE Save
  <2>1. form.step = "delay" /\ form' = NoForm /\ form'.step = "none"
    BY <1>4 DEF Save, NoForm
  <2>2. options'.area # None /\ options'.delay # {}
    <3>1. PICK delay \in Typed(OrElse(working.delay, DefaultDelay)),
               retry \in Typed(OrElse(working.retry, DefaultRetry)),
               gate \in Optional(GateNames) :
            options' = [working EXCEPT !.delay = {delay}, !.retry = {retry},
                                       !.gate = {Canonical(name) : name \in gate}]
      BY <1>4 DEF Save
    <3>2. options'.area = working.area /\ options'.delay = {delay}
      BY <3>1 DEF EditInv, PickedInv, WellTyped, TypeOK, Options
    <3> QED
      BY <2>1, <3>2 DEF EditInv, HasRoom
  <2> QED
    BY <1>1, <2>1, <2>2
       DEF EditInv, OptionsByForm, HasRoom, NumbersKept, RoomKept, UntouchedKept, Editing
<1>5. CASE Abandon
  <2>1. form' = NoForm /\ form'.step = "none" /\ options' = options
    BY <1>5 DEF Abandon, EntryUnchanged, NoForm
  <2> QED
    BY <1>1, <2>1
       DEF EditInv, OptionsByForm, HasRoom, NumbersKept, RoomKept, UntouchedKept, Editing
<1>6. CASE Load \/ Sync \/ UNCHANGED vars
  <2>1. UNCHANGED <<registry, devices, options, form, working>>
    BY <1>6 DEF Load, Sync, vars, editing, registries
  <2>2. \A ref : Resolved(ref)' = Resolved(ref)
    BY <2>1 DEF Resolved, Present
  <2>3. EntitiesForm(working, TRUE).default' = EntitiesForm(working, TRUE).default
    BY <2>1 DEF EntitiesForm, Candidates, Resolved, Present, InRoom
  <2>4. OptionsByForm' /\ HasRoom' /\ NumbersKept' /\ RoomKept'
    BY <2>1 DEF EditInv, OptionsByForm, HasRoom, NumbersKept, RoomKept, Editing
  <2>5. UntouchedKept'
    BY <2>1, <2>2, <2>3 DEF EditInv, UntouchedKept, Editing
  <2> QED
    BY <1>1, <2>4, <2>5 DEF EditInv
<1> QED
  BY <1>1, <1>2, <1>3, <1>4, <1>5, <1>6, OpenKeepsEdit, SubmitRoomKeepsEdit,
     SubmitEntitiesKeepsEdit DEF Next, EditInv

LEMMA EditHolds ==
  ASSUME StoredByForm
  PROVE  Spec => []EditInv
BY EditInit, NextKeepsEdit, PTL DEF Spec

\* An edit that touches nothing proposes the rule: its room, its entities and
\* its gate by the ids that can be resolved, and its delay and the interval it
\* has retried at in whole seconds: a fraction is lost, and an interval below
\* a second becomes none (config_flow.py, async_step_init and
\* _seconds_to_duration).
THEOREM EditKeepsRule ==
  ASSUME StoredByForm
  PROVE  Spec => []DefaultsKeepRule
<1>1. EditInv => DefaultsKeepRule
  <2> SUFFICES ASSUME EditInv, form.step = "delay", form.untouched, options # NoOptions
               PROVE  /\ Shown(OrElse(working.delay, DefaultDelay)) =
                           1000 * Whole(FromMapping(options).delay)
                      /\ Shown(OrElse(working.retry, DefaultRetry)) =
                           1000 * Whole(FromMapping(options).retry)
                      /\ working.area = options.area
                      /\ working.targets = {ref \in options.targets : Resolved(ref) # {}}
                      /\ form.default = UNION {Resolved(ref) : ref \in options.gate}
    BY DEF DefaultsKeepRule
  <2>1. Editing
    BY DEF Editing, NoForm
  <2>2. options \in Options /\ options.delay # {}
    BY DEF EditInv, PickedInv, WellTyped, TypeOK, OptionsByForm
  <2> DEFINE delay == OrElse(options.delay, DefaultDelay)
             retry == OrElse(options.retry, delay)
  <2>3. delay \in Nat /\ retry \in Nat
    <3>1. delay \in Nat
      BY <2>2, OrElseTyped, OptionAssumption DEF Options
    <3> QED
      BY <2>2, <3>1, OrElseTyped DEF Options
  <2>4. FromMapping(options) = [delay |-> delay, retry |-> retry]
    BY <2>3 DEF FromMapping, NotNegative
  <2>5. working.delay = options.delay /\ OrElse(working.retry, DefaultRetry) = retry
    <3>1. working.delay = options.delay /\ working.retry = {EditedRetry(options)}
      BY <2>1 DEF EditInv, NumbersKept
    <3>2. EditedRetry(options) = retry
      BY <2>2 DEF EditedRetry, OrElse
    <3> QED
      BY <3>1, <3>2, OrElseOf
  <2>6. Shown(delay) = 1000 * Whole(delay) /\ Shown(retry) = 1000 * Whole(retry)
    BY <2>3, ShownWhole, SMT
  <2> QED
    BY <2>1, <2>4, <2>5, <2>6 DEF EditInv, UntouchedKept
<1> QED
  BY <1>1, EditHolds, PTL

\* Once the room is changed, the form offers entities of the new room only
\* (config_flow.py, _accept_room and _turn_off_entities_in_area).
THEOREM OffersOnlyTheRoom ==
  ASSUME StoredByForm
  PROVE  Spec => NoStrangersOffered
<1> DEFINE Step == form'.step = "entities" /\ form' # form /\ UNCHANGED registries
                   /\ options # NoOptions /\ working'.area # options.area
                   => \A name \in form'.offered :
                        \E i \in Holder(name) : InRoom(i, working'.area)
<1>1. ASSUME EditInv, [Next]_vars PROVE Step
  <2> SUFFICES ASSUME form'.step = "entities", form' # form, UNCHANGED registries,
                      options # NoOptions, working'.area # options.area,
                      NEW name \in form'.offered
               PROVE  \E i \in Holder(name) : InRoom(i, working'.area)
    OBVIOUS
  <2>1. form'.offered = Candidates(working'.area, working'.targets) /\ options' = options
    <3>1. SubmitRoom \/ SubmitEntities
      <4>1. ~Outdate
        BY <1>1, FlowAssumption DEF Outdate, registries, EditInv, PickedInv, WellTyped, TypeOK
      <4>2. ~Open /\ ~RefuseDelay /\ ~Save /\ ~Abandon
        <5>1. Open => form'.step = "room"
          BY DEF Open
        <5>2. RefuseDelay => form'.step = "delay"
          BY DEF RefuseDelay, DelayForm
        <5>3. Save \/ Abandon => form' = NoForm
          BY DEF Save, Abandon
        <5> QED
          BY <5>1, <5>2, <5>3 DEF NoForm
      <4>3. ~Load /\ ~Sync /\ ~UNCHANGED vars
        BY DEF Load, Sync, editing, vars
      <4> QED
        BY <1>1, <4>1, <4>2, <4>3
           DEF Next, Rename, Remove, Return, Toggle, Move, ChangeDevice
    <3>2. CASE SubmitRoom
      BY <3>2 DEF SubmitRoom, EntitiesForm, EntryUnchanged
    <3>3. CASE SubmitEntities
      BY <3>3 DEF SubmitEntities, EntitiesForm, DelayForm, EntryUnchanged
    <3> QED
      BY <3>1, <3>2, <3>3
  <2>2. working'.targets = {}
    <3>1. Editing'
      BY <2>1 DEF Editing, NoForm
    <3> QED
      BY <1>1, <2>1, <3>1, NextKeepsEdit DEF EditInv, RoomKept
  <2>3. PICK i \in Targets : Present(i) /\ InRoom(i, working'.area) /\ registry[i].name = name
    BY <2>1, <2>2 DEF Candidates
  <2> QED
    BY <2>3 DEF Holder, Ids
<1>2. EditInv /\ [Next]_vars => [Step]_vars
  BY <1>1
<1> QED
  BY <1>2, EditInit, NextKeepsEdit, PTL DEF Spec, NoStrangersOffered

\* Loading a rule again keeps the clock of every entity it names that is in
\* the registry, enabled and in the room, whatever its name was and is
\* (__init__.py, _resolve_runtime_config; controller.py,
\* _stable_key_by_entity and _sync_cycles_locked).
THEOREM ClocksSurviveLoads == Spec => LoadsKeepClocks
<1> DEFINE Step == Load => \A y \in cycles :
                     LET i == y.owner IN
                     i \in options.targets /\ Present(i) /\ registry[i].enabled
                       /\ InRoom(i, options.area) => y \in cycles'
<1>1. ASSUME PickedInv, ClocksFiled PROVE Step
  <2> SUFFICES ASSUME Load, NEW y \in cycles, y.owner \in options.targets, Present(y.owner),
                      registry[y.owner].enabled, InRoom(y.owner, options.area)
               PROVE  y \in cycles'
    OBVIOUS
  <2> DEFINE i == y.owner
             t == [name |-> registry[i].name, reg |-> {i}]
  <2>1. i \in Ids /\ TypeOK
    BY <1>1 DEF Load, PickedInv, SavedArePicked, WellTyped
  <2>2. Know(i) = t
    <3>1. i \notin Names
      BY <2>1, FlowAssumption
    <3>2. Resolved(i) = {registry[i].name}
      BY <3>1 DEF Resolved
    <3>3. OrElse(Resolved(i), i) = registry[i].name
      BY <3>2, OrElseOf
    <3>4. Holder(registry[i].name) = {i}
      BY <2>1, HolderOfName
    <3> QED
      BY <3>3, <3>4 DEF Know
  <2>3. t \in rule'.targets /\ rule'.area = options.area
    BY <2>2 DEF Load, Loaded
  <2>4. ~IdentityError(rule', t)
    BY <2>1, <2>3, HolderOfName DEF IdentityError
  <2>5. y.key = StableKey(t)
    BY <1>1, OrElseOf DEF ClocksFiled, StableKey
  <2> QED
    BY <2>3, <2>4, <2>5 DEF Load, Synced
<1>2. PickedInv /\ ClocksFiled => [Step]_vars
  BY <1>1
<1>3. Init => ClocksFiled
  BY DEF Init, ClocksFiled
<1> QED
  BY <1>2, <1>3, PickedInit, NextKeepsPicked, NextFilesClocks, PTL DEF Spec, LoadsKeepClocks
=============================================================================
