------------------------ MODULE RuntimeControllerProofs ------------------------
(***************************************************************************)
(* What TLAPS proves of RuntimeController, for every set of entities,      *)
(* delay, policy, set of retry intervals, environment and bound.           *)
(***************************************************************************)
EXTENDS RuntimeController, FiniteSetTheorems, TLAPS

-----------------------------------------------------------------------------
(* The pure operators of RuleCycles: what they return, and what they do to *)
(* the claims                                                              *)

\* A total preorder, given as a set of pairs, has a least element on a finite
\* nonempty set: the one with the fewest elements strictly below it.
LEMMA LeastElement ==
  ASSUME NEW S, IsFiniteSet(S), S # {}, NEW R,
         \A x, y \in S : <<x, y>> \in R \/ <<y, x>> \in R,
         \A x, y, z \in S : <<x, y>> \in R /\ <<y, z>> \in R => <<x, z>> \in R
  PROVE  \E x \in S : \A y \in S : <<x, y>> \in R
<1> DEFINE Below(x) == {y \in S : <<x, y>> \notin R}
           T == {Below(x) : x \in S}
<1>1. IsWellFoundedOn(StrictSubsetOrdering(S), FiniteSubsetsOf(S))
  BY FS_StrictSubsetOrderingWellFounded
<1>2. T \subseteq FiniteSubsetsOf(S) /\ T # {}
  <2>1. FiniteSubsetsOf(S) = SUBSET S
    BY FS_FiniteSubsetsOfFinite
  <2>2. T \subseteq SUBSET S
    OBVIOUS
  <2>3. PICK x \in S : TRUE
    OBVIOUS
  <2>4. Below(x) \in T
    BY <2>3
  <2> QED
    BY <2>1, <2>2, <2>4
<1>3. PICK A \in T : \A B \in T : <<B, A>> \notin StrictSubsetOrdering(S)
  <2> HIDE DEF T
  <2> QED BY <1>1, <1>2, WFMin
<1>4. PICK x \in S : A = Below(x)
  BY <1>3
<1>5. ASSUME NEW y \in S, <<x, y>> \notin R
      PROVE  FALSE
  <2>1. <<y, x>> \in R /\ y \in Below(x)
    BY <1>5
  <2>2. Below(y) \subseteq Below(x) /\ y \notin Below(y)
    BY <1>5, <2>1
  <2>3. <<Below(y), Below(x)>> \in StrictSubsetOrdering(S)
    BY <2>1, <2>2 DEF StrictSubsetOrdering
  <2> QED BY <1>3, <1>4, <2>3
<1> QED
  BY <1>5

\* The least and the greatest element of (deadline, key) exist.
LEMMA EarliestExists ==
  ASSUME NEW cs \in Cycles, NEW S \in SUBSET Entities, S # {}
  PROVE  /\ Earliest(cs, S) \in S
         /\ \A f \in S : NotLater(cs, Earliest(cs, S), f)
<1> DEFINE R == {r \in S \X S : NotLater(cs, r[1], r[2])}
<1>1. IsFiniteSet(S)
  BY RuleAssumption, FS_Subset
<1>2. \A e \in S : Deadline(cs[e]) \in Int /\ e \in Nat
  BY RuleAssumption DEF Cycles, Cycle, Deadline
<1>3. /\ \A x, y \in S : <<x, y>> \in R \/ <<y, x>> \in R
      /\ \A x, y, z \in S : <<x, y>> \in R /\ <<y, z>> \in R => <<x, z>> \in R
  BY <1>2 DEF NotLater
<1>4. PICK e \in S : \A f \in S : <<e, f>> \in R
  <2> HIDE DEF R
  <2> QED BY <1>1, <1>3, LeastElement
<1> QED
  BY <1>4 DEF Earliest

LEMMA LatestExists ==
  ASSUME NEW cs \in Cycles, NEW S \in SUBSET Entities, S # {}
  PROVE  /\ Latest(cs, S) \in S
         /\ \A f \in S : NotLater(cs, f, Latest(cs, S))
<1> DEFINE R == {r \in S \X S : NotLater(cs, r[2], r[1])}
<1>1. IsFiniteSet(S)
  BY RuleAssumption, FS_Subset
<1>2. \A e \in S : Deadline(cs[e]) \in Int /\ e \in Nat
  BY RuleAssumption DEF Cycles, Cycle, Deadline
<1>3. /\ \A x, y \in S : <<x, y>> \in R \/ <<y, x>> \in R
      /\ \A x, y, z \in S : <<x, y>> \in R /\ <<y, z>> \in R => <<x, z>> \in R
  BY <1>2 DEF NotLater
<1>4. PICK e \in S : \A f \in S : <<e, f>> \in R
  <2> HIDE DEF R
  <2> QED BY <1>1, <1>3, LeastElement
<1> QED
  BY <1>4 DEF Latest

\* When something is pending, the trigger is one of the pending entities. It
\* is a retry whenever there is one, and then no retry is due before it;
\* otherwise it is the first or the last pending deadline, as the policy says.
THEOREM TriggerIsPending ==
  ASSUME NEW cs \in Cycles, Pending(cs) # {}
  PROVE  /\ Trigger(cs) \in Pending(cs)
         /\ Retrying(cs) # {} =>
              /\ Trigger(cs) \in Retrying(cs)
              /\ \A f \in Retrying(cs) : TriggerDeadline(cs) <= Deadline(cs[f])
         /\ Retrying(cs) = {} =>
              \A f \in Pending(cs) :
                /\ Policy = "first" => TriggerDeadline(cs) <= Deadline(cs[f])
                /\ Policy = "last" => Deadline(cs[f]) <= TriggerDeadline(cs)
<1>1. Pending(cs) \in SUBSET Entities /\ Retrying(cs) \in SUBSET Pending(cs)
  BY DEF Pending, Active, Retrying
<1>2. \A e \in Entities : Deadline(cs[e]) \in Int
  BY RuleAssumption DEF Cycles, Cycle, Deadline, NoTime
<1>3. \A e, f \in Entities :
        NotLater(cs, e, f) => Deadline(cs[e]) <= Deadline(cs[f])
  BY <1>2 DEF NotLater
<1>4. CASE Retrying(cs) # {}
  <2>1. Trigger(cs) = Earliest(cs, Retrying(cs))
    BY <1>4 DEF Trigger
  <2>2. /\ Trigger(cs) \in Retrying(cs)
        /\ \A f \in Retrying(cs) : NotLater(cs, Trigger(cs), f)
    BY <1>1, <1>4, <2>1, EarliestExists
  <2> QED
    BY <1>1, <1>3, <1>4, <2>2 DEF TriggerDeadline
<1>5. CASE Retrying(cs) = {} /\ Policy = "last"
  <2>1. Trigger(cs) = Latest(cs, Pending(cs))
    BY <1>5 DEF Trigger
  <2>2. /\ Trigger(cs) \in Pending(cs)
        /\ \A f \in Pending(cs) : NotLater(cs, f, Trigger(cs))
    BY <1>1, <2>1, LatestExists
  <2> QED
    BY <1>1, <1>3, <1>5, <2>2 DEF TriggerDeadline
<1>6. CASE Retrying(cs) = {} /\ Policy # "last"
  <2>1. Trigger(cs) = Earliest(cs, Pending(cs))
    BY <1>6 DEF Trigger
  <2>2. /\ Trigger(cs) \in Pending(cs)
        /\ \A f \in Pending(cs) : NotLater(cs, Trigger(cs), f)
    BY <1>1, <2>1, EarliestExists
  <2> QED
    BY <1>1, <1>3, <1>6, <2>2 DEF TriggerDeadline
<1> QED
  BY <1>4, <1>5, <1>6

LEMMA TriggerType ==
  ASSUME NEW cs \in Cycles, Pending(cs) # {}
  PROVE  Trigger(cs) \in Entities /\ TriggerDeadline(cs) \in Int
<1>1. Trigger(cs) \in Entities
  BY TriggerIsPending DEF Pending, Active
<1>2. cs[Trigger(cs)] \in Cycle
  BY <1>1 DEF Cycles
<1>3. Deadline(cs[Trigger(cs)]) \in Int
  <2> HIDE DEF Trigger
  <2> QED BY <1>2, RuleAssumption DEF Deadline, Cycle, NoTime
<1> QED
  BY <1>1, <1>3 DEF TriggerDeadline

\* The operators that change cycles return cycles.
LEMMA ChangedCycles ==
  ASSUME NEW cs \in Cycles
  PROVE  /\ Claimed(cs) \in Cycles /\ Unclaimed(cs) \in Cycles
         /\ \A seen, since, ok : (\A e \in Entities : since[e] \in Int)
              => Synced(cs, seen, since, ok) \in Cycles
         /\ \A at \in Int, r \in Nat : Rearmed(cs, at, r) \in Cycles
         /\ \A stored, last, t \in Int, r \in Nat :
              Rescheduled(cs, stored, r, last, t) \in Cycles
<1>0. NoCycle \in Cycle /\ \A e \in Entities : cs[e] \in Cycle
  BY DEF Cycles, Cycle, NoCycle, NoTime
<1>1. Claimed(cs) \in Cycles /\ Unclaimed(cs) \in Cycles
  BY DEF Claimed, Unclaimed, Cycles, Cycle, NoCycle, NoTime
<1>2. ASSUME NEW seen, NEW since, NEW ok, \A e \in Entities : since[e] \in Int
      PROVE  Synced(cs, seen, since, ok) \in Cycles
  <2>1. \A c \in Cycle, x \in Int : [c EXCEPT !.started = x] \in Cycle
    BY DEF Cycle
  <2> QED
    BY <1>0, <1>2, <2>1 DEF Synced, Cycles
<1>3. ASSUME NEW at \in Int, NEW r \in Nat
      PROVE  Rearmed(cs, at, r) \in Cycles
  <2>1. at + r \in Int
    OBVIOUS
  <2>2. \A c \in Cycle, x \in Int :
          [c EXCEPT !.handled = FALSE, !.retryAt = x] \in Cycle
    BY DEF Cycle
  <2> QED
    BY <1>0, <2>1, <2>2 DEF Rearmed, Cycles
<1>4. ASSUME NEW stored \in Int, NEW last \in Int, NEW t \in Int, NEW r \in Nat
      PROVE  Rescheduled(cs, stored, r, last, t) \in Cycles
  BY DEF Rescheduled, Cycles, Cycle
<1> QED
  BY <1>1, <1>2, <1>3, <1>4

\* With a retry interval, rearming leaves no claim.
LEMMA RearmedUnclaims ==
  ASSUME NEW cs \in Cycles, NEW at \in Int, NEW r \in Nat, r > 0
  PROVE  Handled(Rearmed(cs, at, r)) = {}
BY DEF Handled, Active, Rearmed, Cycles, Cycle

LEMMA UnclaimedUnclaims ==
  ASSUME NEW cs \in Cycles
  PROVE  Handled(Unclaimed(cs)) = {}
BY DEF Handled, Active, Unclaimed, Cycles, Cycle

\* Matching the cycles to the reports claims nothing.
LEMMA SyncedClaimsNothing ==
  ASSUME NEW cs \in Cycles, NEW seen, NEW since, NEW ok
  PROVE  Handled(Synced(cs, seen, since, ok)) \subseteq Handled(cs)
BY DEF Handled, Active, Synced, Cycles, Cycle, NoCycle

-----------------------------------------------------------------------------
(* The helpers return what they should *)

LEMMA CallIsJob ==
  ASSUME NEW kind \in JobKinds, NEW at \in Int
  PROVE  Call(kind, at) \in Jobs
BY DEF Call, Job, Jobs, Reports

\* Voiding fired deadlines keeps a queue a queue, as long as it was.
LEMMA OutdatedType ==
  ASSUME NEW q \in Seq(Jobs)
  PROVE  /\ Outdated(q) \in Seq(Jobs)
         /\ Len(Outdated(q)) = Len(q)
         /\ q # <<>> => Outdated(q) # <<>>
         /\ \A i \in 1..Len(q) :
              \/ Outdated(q)[i].kind = q[i].kind
              \/ q[i].kind = "deadline" /\ Outdated(q)[i].kind = "outdated"
<1>1. \A j \in Jobs : /\ [j EXCEPT !.kind = "outdated"] \in Jobs
                      /\ [j EXCEPT !.kind = "outdated"].kind = "outdated"
  BY DEF Jobs, JobKinds
<1>2. DOMAIN q = 1..Len(q) /\ \A i \in 1..Len(q) : q[i] \in Jobs
  OBVIOUS
<1>3. Outdated(q) \in [1..Len(q) -> Jobs]
  BY <1>1, <1>2 DEF Outdated
<1>4. Outdated(q) \in Seq(Jobs) /\ Len(Outdated(q)) = Len(q)
  BY <1>3
<1>5. \A i \in 1..Len(q) :
        \/ Outdated(q)[i].kind = q[i].kind
        \/ q[i].kind = "deadline" /\ Outdated(q)[i].kind = "outdated"
  <2> TAKE i \in 1..Len(q)
  <2>1. Outdated(q)[i] = IF q[i].kind = "deadline"
                         THEN [q[i] EXCEPT !.kind = "outdated"] ELSE q[i]
    BY <1>2 DEF Outdated
  <2> QED
    BY <1>1, <1>2, <2>1
<1>6. ASSUME q # <<>> PROVE Outdated(q) # <<>>
  <2>1. Len(q) > 0
    BY <1>6
  <2> QED
    BY <1>4, <2>1
<1> QED
  BY <1>4, <1>5, <1>6

LEMMA QueueForType ==
  ASSUME TasksOK, NEW t
  PROVE  QueueFor(t) \in Seq(Jobs) /\ (queue # <<>> => QueueFor(t) # <<>>)
BY OutdatedType DEF TasksOK, QueueFor

OutcomeOK(r) ==
  /\ r.cycles \in Cycles /\ r.timer \in Int /\ r.status \in Statuses
  /\ r.plan \in Plans \cup {NoPlan}

\* Deciding what is due yields cycles, a timer, a status and a plan.
LEMMA ReconciledType ==
  ASSUME NEW cs \in Cycles, NEW un, NEW on, NEW t \in Int
  PROVE  OutcomeOK(Reconciled(cs, un, on, t))
<1>1. NoTime \in Int /\ NoPlan \in Plans \cup {NoPlan}
  BY DEF NoTime
<1>2. Claimed(cs) \in Cycles
  BY ChangedCycles
<1>3. CASE Pending(cs) # {}
  <2>1. Trigger(cs) \in Plans /\ TriggerDeadline(cs) \in Int
    BY <1>3, TriggerType DEF Plans
  <2> QED
    BY <1>1, <1>2, <2>1 DEF Reconciled, Outcome, OutcomeOK, Statuses
<1>4. CASE Pending(cs) = {}
  BY <1>1, <1>4 DEF Reconciled, Outcome, OutcomeOK, Statuses
<1> QED
  BY <1>3, <1>4

LEMMA LeastEntity ==
  ASSUME NEW S \in SUBSET Entities, S # {}
  PROVE  /\ (CHOOSE e \in S : \A f \in S : e <= f) \in S
         /\ \A g \in S : (CHOOSE e \in S : \A f \in S : e <= f) <= g
<1> DEFINE R == {r \in S \X S : r[1] <= r[2]}
<1>1. IsFiniteSet(S)
  BY RuleAssumption, FS_Subset
<1>2. \A e \in S : e \in Nat
  BY RuleAssumption
<1>3. /\ \A x, y \in S : <<x, y>> \in R \/ <<y, x>> \in R
      /\ \A x, y, z \in S : <<x, y>> \in R /\ <<y, z>> \in R => <<x, z>> \in R
  BY <1>2
<1>4. PICK e \in S : \A f \in S : <<e, f>> \in R
  <2> HIDE DEF R
  <2> QED BY <1>1, <1>3, LeastElement
<1> QED
  BY <1>4

LEMMA AdvanceType ==
  ASSUME WorldOK, NEW p \in Plans, NEW todo \in SUBSET Entities,
         NEW failed \in BOOLEAN, NEW host \in Hosts, NEW q \in Seq(Jobs),
         Advance(p, todo, failed, host, q)
  PROVE  run' \in Runs /\ queue' \in Seq(Jobs)
<1> DEFINE callable == IF gate # "off" \/ unloaded' \/ inhibited' THEN {}
                       ELSE {e \in todo : allowed[e] /\ entState[e] = "on"}
           target == CHOOSE e \in callable : \A f \in callable : e <= f
           passed == IF callable = {} THEN todo ELSE {e \in todo : e < target}
           bad == /\ gate = "off"
                  /\ \E e \in passed : \/ unloaded' \/ inhibited'
                                       \/ ~allowed[e] \/ entState[e] = "lost"
<1>1. callable \in SUBSET Entities /\ bad \in BOOLEAN /\ now \in Int
  BY DEF WorldOK
<1>2. CASE callable = {}
  <2>1. /\ run' = [plan |-> p, stage |-> "finish", target |-> 0, todo |-> {},
                   failed |-> failed \/ bad, at |-> now, host |-> host]
        /\ queue' = Append(q, Call("finish", NoTime))
    BY <1>2 DEF Advance
  <2>2. Call("finish", NoTime) \in Jobs
    BY CallIsJob DEF JobKinds, NoTime
  <2> HIDE DEF bad
  <2> QED
    BY <1>1, <2>1, <2>2 DEF Runs, Stages
<1>3. CASE callable # {}
  <2>1. /\ run' = [plan |-> p, stage |-> "call", target |-> target,
                   todo |-> {e \in todo : e > target},
                   failed |-> failed \/ bad, at |-> NoTime, host |-> host]
        /\ queue' = q
    BY <1>3 DEF Advance
  <2> HIDE DEF callable
  <2>2. target \in Entities
    BY <1>1, <1>3, LeastEntity
  <2> HIDE DEF bad, target
  <2> QED
    BY <1>1, <2>1, <2>2 DEF Runs, Stages, NoTime
<1> QED
  BY <1>2, <1>3

LEMMA BeginType ==
  ASSUME WorldOK, NEW p \in Plans, NEW host \in Hosts, NEW q \in Seq(Jobs),
         Begin(p, host, q)
  PROVE  run' \in Runs /\ queue' \in Seq(Jobs)
<1>1. CASE gate # "off"
  <2>1. Call("blocked", NoTime) \in Jobs
    BY CallIsJob DEF JobKinds, NoTime
  <2>2. run' = [plan |-> p, stage |-> "blocked", target |-> 0, todo |-> {},
                failed |-> FALSE, at |-> NoTime, host |-> host]
    BY <1>1 DEF Begin
  <2>3. run' \in Runs
    BY <2>2 DEF Runs, Stages, NoTime
  <2> QED
    BY <1>1, <2>1, <2>3 DEF Begin
<1>2. CASE gate = "off"
  BY <1>2, AdvanceType DEF Begin
<1> QED
  BY <1>1, <1>2

LEMMA DispatchType ==
  ASSUME WorldOK, TasksOK, NEW p \in Plans \cup {NoPlan}, NEW host \in Hosts,
         NEW q \in Seq(Jobs), Dispatch(p, host, q)
  PROVE  /\ run' \in Runs \cup {NoRun} /\ queue' \in Seq(Jobs)
         /\ waiting' \in Seq(Plans)
<1>1. CASE p = NoPlan
  BY <1>1 DEF Dispatch, TasksOK
<1>2. CASE p # NoPlan /\ (run # NoRun \/ waiting # <<>>)
  <2>1. waiting' = Append(waiting, p) /\ queue' = q /\ run' = run /\ p \in Plans
    BY <1>2 DEF Dispatch
  <2> QED
    BY <2>1 DEF TasksOK
<1>3. CASE p # NoPlan /\ ~(run # NoRun \/ waiting # <<>>)
  <2>1. Begin(p, host, q) /\ UNCHANGED waiting /\ p \in Plans
    BY <1>3 DEF Dispatch
  <2> QED
    BY <2>1, BeginType DEF TasksOK
<1> QED
  BY <1>1, <1>2, <1>3

\* Releasing the lock, or saving with it, leaves the tasks well typed.
LEMMA ReleaseType ==
  ASSUME WorldOK, entry \in Entries, TasksOK, NEW kind,
         NEW p \in Plans \cup {NoPlan}, NEW q \in Seq(Jobs), Release(kind, p, q)
  PROVE  TasksOK' /\ entry' \in Entries
<1>1. entry' \in Entries
  BY DEF Release, EntryAfter, Entries
<1>2. /\ run' \in Runs \cup {NoRun} /\ queue' \in Seq(Jobs)
      /\ waiting' \in Seq(Plans)
  <2>1. CASE kind = "finish"
    <3>1. IF p = NoPlan THEN EndRun(q) ELSE Begin(p, run.host, q)
      BY <2>1 DEF Release
    <3>2. UNCHANGED waiting
      BY <2>1 DEF Release
    <3>3. run.host \in Hosts
      BY DEF TasksOK, Runs, NoRun, Hosts
    <3> QED
      BY <3>1, <3>2, <3>3, BeginType DEF EndRun, TasksOK
  <2>2. CASE kind = "blocked"
    BY <2>2 DEF Release, EndRun, TasksOK
  <2>3. CASE kind # "finish" /\ kind # "blocked"
    <3>1. Dispatch(p, HostOf(kind), q) /\ HostOf(kind) \in Hosts
      BY <2>3 DEF Release, HostOf, Hosts
    <3> QED
      BY <3>1, DispatchType
  <2> QED
    BY <2>1, <2>2, <2>3
<1>3. saving' = FALSE /\ claim' = NoPlan
  BY DEF Release
<1> QED
  BY <1>1, <1>2, <1>3 DEF TasksOK

LEMMA SaveType ==
  ASSUME WorldOK, entry \in Entries, TasksOK, NEW kind, NEW force,
         NEW p \in Plans \cup {NoPlan}, NEW q \in Seq(Jobs), q # <<>>,
         Save(kind, force, p, q)
  PROVE  TasksOK' /\ entry' \in Entries
<1>1. CASE force \/ Payload' # lastSaved
  BY <1>1 DEF Save, TasksOK
<1>2. CASE ~(force \/ Payload' # lastSaved)
  <2>1. Release(kind, p, Tail(q)) /\ Tail(q) \in Seq(Jobs)
    BY <1>2 DEF Save
  <2> QED
    BY <2>1, ReleaseType
<1> QED
  BY <1>1, <1>2

LEMMA HeadType ==
  ASSUME TasksOK, queue # <<>>
  PROVE  Head(queue) \in Jobs /\ Tail(queue) \in Seq(Jobs)
BY DEF TasksOK

LEMMA SyncType ==
  ASSUME WorldOK, NEW cs \in Cycles
  PROVE  /\ Sync(cs) \in Cycles
         /\ \A j \in Jobs : Synced(cs, Seen(j), Since(j), allowed) \in Cycles
<1>1. \A j \in Jobs, e \in Entities : Since(j)[e] \in Int
  BY DEF WorldOK, Since, Jobs
<1>2. \A e \in Entities : changedAt[e] \in Int
  BY DEF WorldOK
<1> QED
  BY <1>1, <1>2, ChangedCycles DEF Sync

LEMMA RestoredType ==
  ASSUME WorldOK, ConfigOK, RuleOK
  PROVE  /\ Restored.enabled \in BOOLEAN /\ Restored.cycles \in Cycles
         /\ Restored.lastExec \in Int
<1> DEFINE none == snapshot.retry = NoTime
           cs == [e \in Entities |-> IF ~none /\ snapshot.cycles[e] # NoCycle
                                     THEN snapshot.cycles[e] ELSE cycles[e]]
           last == IF snapshot.lastExec # NoTime THEN snapshot.lastExec ELSE lastExec
<1>1. /\ snapshot.cycles \in Cycles /\ snapshot.retry \in Int
      /\ snapshot.lastExec \in Int /\ snapshot.enabled \in BOOLEAN
  BY DEF ConfigOK, Payloads
<1>2. cs \in Cycles
  BY <1>1 DEF RuleOK, Cycles
<1>3. last \in Int
  BY <1>1 DEF RuleOK
<1>4. now \in Int /\ retry \in Nat /\ enabled \in BOOLEAN
  BY DEF WorldOK, ConfigOK, RuleOK
<1>5. Restored = [enabled |-> IF none THEN enabled ELSE snapshot.enabled,
                  cycles |-> Rescheduled(cs, snapshot.retry, retry, last, now),
                  lastExec |-> last]
  BY DEF Restored
<1> HIDE DEF cs, last
<1>6. Rescheduled(cs, snapshot.retry, retry, last, now) \in Cycles
  BY <1>1, <1>2, <1>3, <1>4, ChangedCycles
<1> QED
  BY <1>1, <1>3, <1>4, <1>5, <1>6

-----------------------------------------------------------------------------
(* Type correctness, one part of TypeOK at a time *)

LEMMA NoneType ==
  /\ NoTime \in Int /\ NoCycles \in Cycles /\ NoData \in Payloads
  /\ <<>> \in Seq(Jobs) /\ <<>> \in Seq(Plans)
BY DEF NoTime, NoCycles, NoCycle, Cycles, Cycle, NoData, Payloads

\* A part whose variables a step leaves alone stays well typed.
LEMMA FrameType ==
  /\ WorldOK /\ UNCHANGED world => WorldOK'
  /\ ConfigOK /\ UNCHANGED config => ConfigOK'
  /\ RuleOK /\ UNCHANGED rule => RuleOK'
  /\ StoreOK /\ UNCHANGED store => StoreOK'
  /\ PhaseOK /\ UNCHANGED phase => PhaseOK'
  /\ TasksOK /\ UNCHANGED tasks => TasksOK'
<1>1. WorldOK /\ UNCHANGED world => WorldOK'
  BY DEF world, WorldOK
<1>2. ConfigOK /\ UNCHANGED config => ConfigOK'
  BY DEF config, ConfigOK
<1>3. RuleOK /\ UNCHANGED rule => RuleOK'
  BY DEF rule, RuleOK
<1>4. StoreOK /\ UNCHANGED store => StoreOK'
  BY DEF store, StoreOK
<1>5. PhaseOK /\ UNCHANGED phase => PhaseOK'
  BY DEF phase, PhaseOK
<1>6. TasksOK /\ UNCHANGED tasks => TasksOK'
  BY DEF tasks, TasksOK
<1> QED
  BY <1>1, <1>2, <1>3, <1>4, <1>5, <1>6

LEMMA AppendType ==
  ASSUME NEW q \in Seq(Jobs), NEW j \in Jobs
  PROVE  Append(q, j) \in Seq(Jobs) /\ Append(q, j) # <<>>
<1>1. Append(q, j) \in Seq(Jobs) /\ Len(Append(q, j)) = Len(q) + 1 /\ Len(q) \in Nat
  OBVIOUS
<1>2. Len(Append(q, j)) > 0
  BY <1>1
<1> QED
  BY <1>1, <1>2

LEMMA PostType ==
  ASSUME TasksOK, NEW j \in Jobs, Post(j) \/ UNCHANGED queue,
         UNCHANGED <<saving, claim, waiting, run>>
  PROVE  TasksOK'
<1>1. queue' \in Seq(Jobs) /\ (queue # <<>> => queue' # <<>>)
  BY AppendType DEF Post, TasksOK
<1> QED
  BY <1>1 DEF TasksOK

LEMMA PayloadType ==
  ASSUME RuleOK, ConfigOK
  PROVE  Payload \in Payloads
BY DEF Payload, Payloads, RuleOK, ConfigOK

LEMMA TypeInit == Init => TypeOK
<1> SUFFICES ASSUME Init PROVE TypeOK
  OBVIOUS
<1>1. WorldOK
  BY NoneType DEF Init, WorldOK, Reports
<1>2. entry \in Entries /\ ConfigOK /\ StoreOK /\ PhaseOK
  BY NoneType, ControllerAssumption DEF Init, Entries, ConfigOK, StoreOK, PhaseOK
<1>3. RuleOK
  BY NoneType DEF Init, RuleOK, Statuses
<1>4. TasksOK
  BY NoneType DEF Init, TasksOK
<1> QED
  BY <1>1, <1>2, <1>3, <1>4 DEF TypeOK

-----------------------------------------------------------------------------
(* The environment and the life cycle *)

LEMMA TickType == TypeOK /\ Tick => TypeOK'
<1> SUFFICES ASSUME TypeOK, Tick PROVE TypeOK'
  OBVIOUS
<1>1. WorldOK'
  BY DEF Tick, TypeOK, WorldOK
<1> QED
  BY <1>1, FrameType DEF Tick, TypeOK

LEMMA FireType == TypeOK /\ Fire => TypeOK'
<1> SUFFICES ASSUME TypeOK, Fire PROVE TypeOK'
  OBVIOUS
<1>1. Call("deadline", timer) \in Jobs
  BY CallIsJob DEF TypeOK, RuleOK, JobKinds
<1>2. TasksOK'
  BY <1>1, PostType DEF Fire, TypeOK
<1> QED
  BY <1>2, FrameType DEF Fire, TypeOK

LEMMA NotifyType ==
  ASSUME TasksOK, NEW j \in Jobs, Notify(j), UNCHANGED <<saving, claim, waiting, run>>
  PROVE  TasksOK'
BY PostType DEF Notify

LEMMA ReportType ==
  ASSUME TypeOK, NEW e \in Entities, NEW s \in Reports, Report(e, s)
  PROVE  TypeOK'
<1>1. ChangedAt(s) \in Int
  BY NoneType DEF ChangedAt, TypeOK, WorldOK
<1>2. Job("event", e, s, ChangedAt(s)) \in Jobs
  BY <1>1 DEF Job, Jobs, JobKinds
<1>3. WorldOK'
  BY <1>1 DEF Report, TypeOK, WorldOK
<1>4. TasksOK'
  BY <1>2, NotifyType DEF Report, TypeOK
<1> QED
  BY <1>3, <1>4, FrameType DEF Report, TypeOK

LEMMA ChangeRegistryType ==
  ASSUME TypeOK, NEW e \in Entities, ChangeRegistry(e)
  PROVE  TypeOK'
<1>1. WorldOK'
  BY DEF ChangeRegistry, TypeOK, WorldOK
<1> QED
  BY <1>1, FrameType DEF ChangeRegistry, TypeOK

LEMMA MoveGateType ==
  ASSUME TypeOK, NEW g \in {"off", "on", "bad"}, MoveGate(g)
  PROVE  TypeOK'
<1>1. Job("event", Gate, g, NoTime) \in Jobs
  BY NoneType DEF Job, Jobs, JobKinds
<1>2. WorldOK'
  BY DEF MoveGate, TypeOK, WorldOK
<1>3. TasksOK'
  BY <1>1, NotifyType DEF MoveGate, TypeOK
<1> QED
  BY <1>2, <1>3, FrameType DEF MoveGate, TypeOK

LEMMA HaStartsType == TypeOK /\ HaStarts => TypeOK'
<1> SUFFICES ASSUME TypeOK, HaStarts PROVE TypeOK'
  OBVIOUS
<1>1. Call("started", NoTime) \in Jobs
  BY CallIsJob, NoneType DEF JobKinds
<1>2. WorldOK' /\ PhaseOK'
  BY DEF HaStarts, TypeOK, WorldOK, PhaseOK
<1>3. TasksOK'
  BY <1>1, PostType DEF HaStarts, TypeOK
<1> QED
  BY <1>2, <1>3, FrameType DEF HaStarts, TypeOK

LEMMA RequestType == TypeOK /\ (RequestEnable \/ RequestDisable) => TypeOK'
<1> SUFFICES ASSUME TypeOK, RequestEnable \/ RequestDisable PROVE TypeOK'
  OBVIOUS
<1>1. Call("enable", NoTime) \in Jobs /\ Call("disable", NoTime) \in Jobs
  BY CallIsJob, NoneType DEF JobKinds
<1>2. TasksOK'
  BY <1>1, PostType DEF RequestEnable, RequestDisable, TypeOK
<1>3. RuleOK'
  BY DEF RequestEnable, RequestDisable, TypeOK, RuleOK, rule
<1> QED
  BY <1>2, <1>3, FrameType DEF RequestEnable, RequestDisable, TypeOK

LEMMA CrashType == TypeOK /\ Crash => TypeOK'
<1> SUFFICES ASSUME TypeOK, Crash PROVE TypeOK'
  OBVIOUS
<1>1. WorldOK'
  BY NoneType DEF Crash, TypeOK, WorldOK, Reports
<1>2. entry' \in Entries /\ ConfigOK' /\ StoreOK' /\ PhaseOK'
  BY NoneType DEF Crash, Entries, TypeOK, ConfigOK, StoreOK, PhaseOK
<1>3. RuleOK'
  BY NoneType DEF Crash, RuleOK, Statuses
<1>4. TasksOK'
  BY NoneType DEF Crash, TasksOK
<1> QED
  BY <1>1, <1>2, <1>3, <1>4 DEF TypeOK

LEMMA EnvironmentType == TypeOK /\ Environment => TypeOK'
BY ReportType, ChangeRegistryType, MoveGateType, HaStartsType, RequestType, CrashType
   DEF Environment

LEMMA RollBackType ==
  ASSUME TypeOK, NEW q \in Seq(Jobs), RollBack(q)
  PROVE  TypeOK'
<1>1. entry' \in Entries /\ PhaseOK'
  BY DEF RollBack, Entries, TypeOK, PhaseOK
<1>2. RuleOK'
  BY NoneType DEF RollBack, TypeOK, RuleOK
<1>3. TasksOK'
  BY OutdatedType DEF RollBack, TypeOK, TasksOK
<1> QED
  BY <1>1, <1>2, <1>3, FrameType DEF RollBack, TypeOK

LEMMA LoadType == TypeOK /\ Load => TypeOK'
<1> SUFFICES ASSUME TypeOK, Load PROVE TypeOK'
  OBVIOUS
<1>1. entry' \in Entries /\ ConfigOK' /\ StoreOK' /\ PhaseOK'
  BY NoneType, ControllerAssumption
     DEF Load, Entries, TypeOK, ConfigOK, StoreOK, PhaseOK
<1>2. RuleOK'
  BY NoneType DEF Load, RuleOK, Statuses
<1> QED
  BY <1>1, <1>2, FrameType DEF Load, TypeOK

LEMMA LifeCycleType == TypeOK /\ LifeCycle => TypeOK'
<1> SUFFICES ASSUME TypeOK, LifeCycle PROVE TypeOK'
  OBVIOUS
<1>1. CASE Load
  BY <1>1, LoadType
<1>2. CASE ReadStore
  <2>1. entry' \in Entries /\ ConfigOK' /\ RuleOK'
    BY <1>2, FrameType DEF ReadStore, Entries, TypeOK, ConfigOK, StoreOK
  <2> QED
    BY <1>2, <2>1, FrameType DEF ReadStore, TypeOK
<1>3. CASE LoadFails
  BY <1>3, RollBackType DEF LoadFails, TypeOK, TasksOK
<1>4. CASE BeginSetup \/ BeginStop \/ RejectUnload
  <2>1. /\ Call("setup", NoTime) \in Jobs /\ Call("stop", NoTime) \in Jobs
        /\ Call("resume", NoTime) \in Jobs
    BY CallIsJob, NoneType DEF JobKinds
  <2>2. TasksOK'
    BY <1>4, <2>1, PostType DEF BeginSetup, BeginStop, RejectUnload, TypeOK
  <2>3. entry' \in Entries /\ PhaseOK'
    BY <1>4 DEF BeginSetup, BeginStop, RejectUnload, Entries, TypeOK, PhaseOK
  <2>4. RuleOK'
    BY <1>4, FrameType DEF BeginSetup, BeginStop, RejectUnload, TypeOK, RuleOK
  <2> QED
    BY <1>4, <2>2, <2>3, <2>4, FrameType DEF BeginSetup, BeginStop, RejectUnload, TypeOK
<1>5. CASE FinishUnload
  <2>1. entry' \in Entries /\ PhaseOK'
    BY <1>5 DEF FinishUnload, Entries, TypeOK, PhaseOK
  <2> QED
    BY <1>5, <2>1, FrameType DEF FinishUnload, TypeOK
<1> QED
  BY <1>1, <1>2, <1>3, <1>4, <1>5 DEF LifeCycle

-----------------------------------------------------------------------------
(* The ends of the saves *)

LEMMA SaveEndsType == TypeOK /\ SaveEnds => TypeOK'
<1> SUFFICES ASSUME TypeOK, SaveEnds PROVE TypeOK'
  OBVIOUS
<1>1. saving /\ queue # <<>> /\ Tail(queue) \in Seq(Jobs)
  BY HeadType DEF SaveEnds, SaveSucceeds, SaveFails, SetupSaveFails, ResumeSaveFails,
                  TypeOK, TasksOK
<1>2. CASE SaveSucceeds
  <2>1. StoreOK'
    BY <1>2, PayloadType DEF SaveSucceeds, TypeOK, StoreOK
  <2>2. RuleOK'
    BY <1>2 DEF SaveSucceeds, TypeOK, RuleOK
  <2>3. TasksOK' /\ entry' \in Entries
    BY <1>1, <1>2, ReleaseType DEF SaveSucceeds, TypeOK, TasksOK
  <2> QED
    BY <1>2, <2>1, <2>2, <2>3, FrameType DEF SaveSucceeds, TypeOK
<1>3. CASE SaveFails
  <2>1. TasksOK' /\ entry' \in Entries
    BY <1>1, <1>3, ReleaseType DEF SaveFails, TypeOK, TasksOK
  <2> QED
    BY <1>3, <2>1, FrameType DEF SaveFails, TypeOK
<1>4. CASE SetupSaveFails
  BY <1>1, <1>4, RollBackType DEF SetupSaveFails
<1>5. CASE ResumeSaveFails
  <2>1. entry' \in Entries /\ PhaseOK'
    BY <1>5 DEF ResumeSaveFails, Entries, TypeOK, PhaseOK
  <2>2. RuleOK'
    BY <1>5, NoneType DEF ResumeSaveFails, TypeOK, RuleOK
  <2>3. TasksOK'
    BY <1>1, <1>5, OutdatedType DEF ResumeSaveFails, TypeOK, TasksOK
  <2> QED
    BY <1>5, <2>1, <2>2, <2>3, FrameType DEF ResumeSaveFails, TypeOK
<1> QED
  BY <1>2, <1>3, <1>4, <1>5 DEF SaveEnds

-----------------------------------------------------------------------------
(* The executions *)

LEMMA ProceedType ==
  ASSUME TypeOK, run # NoRun, NEW bad \in BOOLEAN, Proceed(bad)
  PROVE  TypeOK'
<1>1. run \in Runs
  BY DEF TypeOK, TasksOK
<1>2. /\ run.plan \in Plans /\ run.todo \in SUBSET Entities
      /\ (run.failed \/ bad) \in BOOLEAN /\ run.host \in Hosts
  BY <1>1 DEF Runs
<1>3. run' \in Runs /\ queue' \in Seq(Jobs)
  BY <1>2, AdvanceType DEF Proceed, TypeOK, TasksOK
<1>4. queue # <<>> => queue' # <<>>
  <2>1. queue' = queue \/ queue' = Append(queue, Call("finish", NoTime))
    BY DEF Proceed, Advance
  <2>2. Call("finish", NoTime) \in Jobs
    BY CallIsJob, NoneType DEF JobKinds
  <2> QED
    BY <2>1, <2>2, AppendType DEF TypeOK, TasksOK
<1>5. TasksOK'
  BY <1>3, <1>4 DEF Proceed, TypeOK, TasksOK
<1> QED
  BY <1>5, FrameType DEF Proceed, TypeOK

LEMMA StartNextType == TypeOK /\ StartNext => TypeOK'
<1> SUFFICES ASSUME TypeOK, StartNext PROVE TypeOK'
  OBVIOUS
<1>1. Head(waiting) \in Plans /\ waiting' \in Seq(Plans)
  BY DEF StartNext, TypeOK, TasksOK
<1>2. run' \in Runs /\ queue' \in Seq(Jobs)
  BY <1>1, BeginType DEF StartNext, Hosts, TypeOK, TasksOK
<1>3. queue # <<>> => queue' # <<>>
  <2>1. \/ queue' = queue
        \/ \E kind \in {"blocked", "finish"} : queue' = Append(queue, Call(kind, NoTime))
    BY DEF StartNext, Begin, Advance
  <2>2. \A kind \in {"blocked", "finish"} : Call(kind, NoTime) \in Jobs
    BY CallIsJob, NoneType DEF JobKinds
  <2> QED
    BY <2>1, <2>2, AppendType DEF TypeOK, TasksOK
<1>4. TasksOK'
  BY <1>1, <1>2, <1>3 DEF StartNext, TypeOK, TasksOK
<1> QED
  BY <1>4, FrameType DEF StartNext, TypeOK

LEMMA ExecutionType == TypeOK /\ Execution => TypeOK'
<1> SUFFICES ASSUME TypeOK, Execution PROVE TypeOK'
  OBVIOUS
<1>1. CASE ServiceReturns
  <2>1. run \in Runs /\ run # NoRun
    BY <1>1 DEF ServiceReturns, Running, TypeOK, TasksOK
  <2>2. CASE Unsettled(run.target)
    <3>1. [run EXCEPT !.stage = "confirm"] \in Runs
      BY <2>1 DEF Runs, Stages
    <3>2. TasksOK'
      BY <1>1, <2>2, <3>1 DEF ServiceReturns, TypeOK, TasksOK
    <3> QED
      BY <1>1, <2>2, <3>2, FrameType DEF ServiceReturns, TypeOK
  <2>3. CASE ~Unsettled(run.target)
    <3>1. Proceed(~Confirmed(run.target))
      BY <1>1, <2>3 DEF ServiceReturns
    <3> QED
      BY <2>1, <3>1, ProceedType
  <2> QED
    BY <2>2, <2>3
<1>2. CASE ServiceFails
  BY <1>2, ProceedType DEF ServiceFails, Running
<1>3. CASE ConfirmEnds
  BY <1>3, ProceedType DEF ConfirmEnds, Running
<1>4. CASE StartNext
  BY <1>4, StartNextType
<1>5. Call("cancelled", NoTime) \in Jobs
  BY CallIsJob, NoneType DEF JobKinds
<1>6. CASE Cancel
  <2>1. TasksOK'
    BY <1>5, <1>6, AppendType DEF Cancel, Post, TypeOK, TasksOK
  <2> QED
    BY <1>6, <2>1, FrameType DEF Cancel, TypeOK
<1>7. CASE CancelWaiting
  <2>1. waiting' \in Seq(Plans)
    BY <1>7 DEF CancelWaiting, TypeOK, TasksOK
  <2>2. TasksOK'
    BY <1>5, <1>7, <2>1, AppendType DEF CancelWaiting, Post, TypeOK, TasksOK
  <2> QED
    BY <1>7, <2>2, FrameType DEF CancelWaiting, TypeOK
<1> QED
  BY <1>1, <1>2, <1>3, <1>4, <1>6, <1>7 DEF Execution

-----------------------------------------------------------------------------
(* The locked sections *)

LEMMA InstallType ==
  ASSUME NEW r, OutcomeOK(r), Install(r)
  PROVE  cycles' \in Cycles /\ timer' \in Int /\ status' \in Statuses
BY DEF OutcomeOK, Install

LEMMA UnreadableType ==
  ASSUME NEW seen, NEW ok
  PROVE  Unreadable(seen, ok) \subseteq Entities
BY DEF Unreadable

LEMMA RearmedType ==
  ASSUME TypeOK, NEW cs \in Cycles
  PROVE  Rearmed(cs, now, retry) \in Cycles
BY ChangedCycles DEF TypeOK, WorldOK, ConfigOK

\* What every section that ends with a save has to establish.
LEMMA SectionType ==
  ASSUME TypeOK, RuleOK', ConfigOK', PhaseOK', UNCHANGED <<world, store>>,
         NEW kind, NEW force, NEW p \in Plans \cup {NoPlan}, NEW q \in Seq(Jobs),
         q # <<>>, Save(kind, force, p, q)
  PROVE  TypeOK'
<1>1. TasksOK' /\ entry' \in Entries
  BY SaveType DEF TypeOK
<1> QED
  BY <1>1, FrameType DEF TypeOK

LEMMA SkipType == TypeOK /\ Skip => TypeOK'
<1> SUFFICES ASSUME TypeOK, Skip PROVE TypeOK'
  OBVIOUS
<1>1. TasksOK'
  BY HeadType DEF Skip, TypeOK, TasksOK
<1> QED
  BY <1>1, FrameType DEF Skip, TypeOK

LEMMA EventType == TypeOK /\ (EventWhileStarting \/ HandleEvent) => TypeOK'
<1> SUFFICES ASSUME TypeOK, EventWhileStarting \/ HandleEvent PROVE TypeOK'
  OBVIOUS
<1> DEFINE j == Head(queue)
           un == Unreadable(Seen(j), allowed)
           cs == Synced(cycles, Seen(j), Since(j), allowed)
           r == Reconciled(cs, un, enabled, now)
<1>1. j \in Jobs /\ queue # <<>> /\ queue \in Seq(Jobs) /\ TasksOK
  BY HeadType DEF EventWhileStarting, HandleEvent, Holds, TypeOK, TasksOK
<1>2. cs \in Cycles /\ now \in Int
  <2>1. WorldOK /\ cycles \in Cycles
    BY DEF TypeOK, RuleOK
  <2>2. \A i \in Jobs : Synced(cycles, Seen(i), Since(i), allowed) \in Cycles
    BY <2>1, SyncType
  <2>3. now \in Int
    BY <2>1 DEF WorldOK
  <2> QED
    BY <1>1, <2>2, <2>3
<1>3. OutcomeOK(r)
  <2> HIDE DEF cs, un
  <2> QED BY <1>2, ReconciledType
<1>4. un \subseteq Entities
  BY UnreadableType
<1>5. CASE EventWhileStarting
  <2>1. RuleOK'
    BY <1>2, <1>4, <1>5 DEF EventWhileStarting, TypeOK, RuleOK
  <2>2. Save("event", FALSE, NoPlan, queue)
    BY <1>5 DEF EventWhileStarting
  <2> QED
    BY <1>1, <1>5, <2>1, <2>2, FrameType, SectionType DEF EventWhileStarting, TypeOK
<1>6. CASE HandleEvent
  <2>1. Install(r) /\ unavailable' = un
    BY <1>6 DEF HandleEvent
  <2>2. Save("event", FALSE, r.plan, QueueFor(r.timer))
    BY <1>6 DEF HandleEvent
  <2> HIDE DEF r, un
  <2>3. RuleOK'
    BY <1>3, <1>4, <1>6, <2>1, InstallType DEF HandleEvent, TypeOK, RuleOK
  <2>4. r.plan \in Plans \cup {NoPlan} /\ ConfigOK' /\ PhaseOK' /\ UNCHANGED <<world, store>>
    BY <1>3, <1>6, FrameType DEF HandleEvent, OutcomeOK, TypeOK
  <2> QED
    BY <1>1, <2>2, <2>3, <2>4, QueueForType, SectionType
<1> QED
  BY <1>5, <1>6

LEMMA DeadlineType == TypeOK /\ HandleDeadline => TypeOK'
<1> SUFFICES ASSUME TypeOK, HandleDeadline PROVE TypeOK'
  OBVIOUS
<1> DEFINE j == Head(queue)
           un == Unreadable(entState, allowed)
           r == Reconciled(Sync(cycles), un, enabled, j.at)
<1>1. j \in Jobs /\ queue # <<>> /\ queue \in Seq(Jobs)
  BY HeadType DEF HandleDeadline, Holds, TypeOK, TasksOK
<1>2. Sync(cycles) \in Cycles /\ j.at \in Int
  BY <1>1, SyncType DEF TypeOK, RuleOK, Jobs
<1>3. OutcomeOK(r) /\ un \subseteq Entities
  BY <1>2, ReconciledType, UnreadableType
<1>4. Install(r) /\ unavailable' = un /\ Save("deadline", FALSE, r.plan, Outdated(queue))
  BY DEF HandleDeadline
<1> HIDE DEF r, un
<1>5. RuleOK'
  BY <1>3, <1>4, InstallType DEF HandleDeadline, TypeOK, RuleOK
<1>6. r.plan \in Plans \cup {NoPlan} /\ ConfigOK' /\ PhaseOK' /\ UNCHANGED <<world, store>>
  BY <1>3, FrameType DEF HandleDeadline, OutcomeOK, TypeOK
<1> QED
  BY <1>1, <1>4, <1>5, <1>6, OutdatedType, SectionType

LEMMA EnableType == TypeOK /\ HandleEnable => TypeOK'
<1> SUFFICES ASSUME TypeOK, HandleEnable PROVE TypeOK'
  OBVIOUS
<1> DEFINE un == Unreadable(entState, allowed)
           r == IF starting THEN Outcome(cycles, timer, "initializing", NoPlan)
                ELSE Reconciled(Sync(cycles), un, TRUE, now)
           q == IF starting THEN queue ELSE QueueFor(r.timer)
<1>1. queue # <<>> /\ queue \in Seq(Jobs) /\ TasksOK
  BY DEF HandleEnable, Holds, TypeOK, TasksOK
<1>2. Sync(cycles) \in Cycles /\ cycles \in Cycles /\ now \in Int /\ timer \in Int
  BY SyncType DEF TypeOK, RuleOK, WorldOK
<1>3. OutcomeOK(r)
  <2>1. OutcomeOK(Reconciled(Sync(cycles), un, TRUE, now))
    BY <1>2, ReconciledType
  <2>2. OutcomeOK(Outcome(cycles, timer, "initializing", NoPlan))
    BY <1>2 DEF OutcomeOK, Outcome, Statuses
  <2> QED
    BY <2>1, <2>2
<1>4. /\ Install(r) /\ enabled' = TRUE /\ inhibited' = FALSE /\ lastExec' = lastExec
      /\ unavailable' = IF starting THEN unavailable ELSE un
      /\ Save("enable", FALSE, r.plan, q)
  BY DEF HandleEnable
<1> HIDE DEF r
<1>5. q \in Seq(Jobs) /\ q # <<>>
  BY <1>1, QueueForType
<1>6. RuleOK'
  BY <1>3, <1>4, InstallType, UnreadableType DEF TypeOK, RuleOK
<1>7. r.plan \in Plans \cup {NoPlan} /\ ConfigOK' /\ PhaseOK' /\ UNCHANGED <<world, store>>
  BY <1>3, FrameType DEF HandleEnable, OutcomeOK, TypeOK
<1> QED
  BY <1>4, <1>5, <1>6, <1>7, SectionType

LEMMA DisableType == TypeOK /\ (HandleDisable \/ HandleStop) => TypeOK'
<1> SUFFICES ASSUME TypeOK, HandleDisable \/ HandleStop PROVE TypeOK'
  OBVIOUS
<1>1. queue # <<>> /\ queue \in Seq(Jobs)
  BY DEF HandleDisable, HandleStop, Holds, TypeOK, TasksOK
<1>2. RuleOK'
  BY NoneType DEF HandleDisable, HandleStop, TypeOK, RuleOK, Statuses
<1>3. ConfigOK' /\ PhaseOK' /\ UNCHANGED <<world, store>>
  BY FrameType DEF HandleDisable, HandleStop, TypeOK
<1>4. \/ Save("disable", FALSE, NoPlan, Outdated(queue))
      \/ Save("stop", TRUE, NoPlan, Outdated(queue))
  BY DEF HandleDisable, HandleStop
<1> QED
  BY <1>1, <1>2, <1>3, <1>4, OutdatedType, SectionType

LEMMA StartedType == TypeOK /\ HandleStarted => TypeOK'
<1> SUFFICES ASSUME TypeOK, HandleStarted PROVE TypeOK'
  OBVIOUS
<1> DEFINE un == Unreadable(entState, allowed)
           r == Reconciled(Rearmed(Sync(cycles), now, retry), un, enabled, now)
<1>1. queue # <<>> /\ TasksOK
  BY DEF HandleStarted, Holds, TypeOK
<1>2. Sync(cycles) \in Cycles /\ now \in Int
  BY SyncType DEF TypeOK, RuleOK, WorldOK
<1>3. OutcomeOK(r) /\ un \subseteq Entities
  BY <1>2, RearmedType, ReconciledType, UnreadableType
<1>4. Install(r) /\ unavailable' = un /\ Save("started", TRUE, r.plan, QueueFor(r.timer))
  BY DEF HandleStarted
<1> HIDE DEF r, un
<1>5. RuleOK'
  BY <1>3, <1>4, InstallType DEF HandleStarted, TypeOK, RuleOK
<1>6. PhaseOK'
  BY DEF HandleStarted, TypeOK, PhaseOK
<1>7. r.plan \in Plans \cup {NoPlan} /\ ConfigOK' /\ UNCHANGED <<world, store>>
  BY <1>3, FrameType DEF HandleStarted, OutcomeOK, TypeOK
<1> QED
  BY <1>1, <1>4, <1>5, <1>6, <1>7, QueueForType, SectionType

LEMMA SetUpWhileStartingType == TypeOK /\ SetUpWhileStarting => TypeOK'
<1> SUFFICES ASSUME TypeOK, SetUpWhileStarting PROVE TypeOK'
  OBVIOUS
<1>1. queue # <<>> /\ Tail(queue) \in Seq(Jobs)
  BY HeadType DEF SetUpWhileStarting, Holds, TypeOK
<1>2. /\ Restored.enabled \in BOOLEAN /\ Restored.cycles \in Cycles
      /\ Restored.lastExec \in Int
  BY RestoredType DEF TypeOK
<1>3. RuleOK'
  BY <1>2 DEF SetUpWhileStarting, TypeOK, RuleOK, Statuses
<1>4. ConfigOK' /\ PhaseOK'
  BY NoneType DEF SetUpWhileStarting, TypeOK, ConfigOK, PhaseOK
<1>5. TasksOK' /\ entry' \in Entries
  BY <1>1, ReleaseType DEF SetUpWhileStarting, TypeOK
<1> QED
  BY <1>3, <1>4, <1>5, FrameType DEF SetUpWhileStarting, TypeOK

LEMMA SetUpType == TypeOK /\ HandleSetup => TypeOK'
<1> SUFFICES ASSUME TypeOK, HandleSetup PROVE TypeOK'
  OBVIOUS
<1> DEFINE m == Restored
           un == Unreadable(entState, allowed)
           r == Reconciled(Rearmed(Sync(m.cycles), now, retry), un, m.enabled, now)
<1>1. queue # <<>> /\ TasksOK
  BY DEF HandleSetup, Holds, TypeOK
<1>2. m.enabled \in BOOLEAN /\ m.cycles \in Cycles /\ m.lastExec \in Int
  BY RestoredType DEF TypeOK
<1>3. enabled' = m.enabled /\ lastExec' = m.lastExec
  BY DEF HandleSetup
<1>4. Install(r) /\ unavailable' = un /\ Save("setup", TRUE, r.plan, QueueFor(r.timer))
  BY DEF HandleSetup
<1> HIDE DEF m
<1>5. Sync(m.cycles) \in Cycles /\ now \in Int
  BY <1>2, SyncType DEF TypeOK, WorldOK
<1>6. OutcomeOK(r) /\ un \subseteq Entities
  BY <1>5, RearmedType, ReconciledType, UnreadableType
<1> HIDE DEF r, un
<1>7. RuleOK'
  BY <1>2, <1>3, <1>4, <1>6, InstallType DEF HandleSetup, TypeOK, RuleOK
<1>8. ConfigOK' /\ PhaseOK'
  BY NoneType DEF HandleSetup, TypeOK, ConfigOK, PhaseOK
<1>9. r.plan \in Plans \cup {NoPlan} /\ UNCHANGED <<world, store>>
  BY <1>6 DEF HandleSetup, OutcomeOK
<1> QED
  BY <1>1, <1>4, <1>7, <1>8, <1>9, QueueForType, SectionType

LEMMA ResumeWhileStartingType == TypeOK /\ ResumeWhileStarting => TypeOK'
<1> SUFFICES ASSUME TypeOK, ResumeWhileStarting PROVE TypeOK'
  OBVIOUS
<1>1. queue # <<>> /\ Tail(queue) \in Seq(Jobs)
  BY HeadType DEF ResumeWhileStarting, Holds, TypeOK
<1>2. RuleOK' /\ PhaseOK'
  BY DEF ResumeWhileStarting, TypeOK, RuleOK, PhaseOK
<1>3. TasksOK' /\ entry' \in Entries
  BY <1>1, ReleaseType DEF ResumeWhileStarting, TypeOK
<1> QED
  BY <1>2, <1>3, FrameType DEF ResumeWhileStarting, TypeOK

LEMMA ResumeType == TypeOK /\ HandleResume => TypeOK'
<1> SUFFICES ASSUME TypeOK, HandleResume PROVE TypeOK'
  OBVIOUS
<1> DEFINE un == Unreadable(entState, allowed)
           cs == IF starting THEN Rearmed(Sync(cycles), now, retry) ELSE Sync(cycles)
           r == Reconciled(cs, un, enabled, now)
<1>1. queue # <<>> /\ TasksOK
  BY DEF HandleResume, Holds, TypeOK
<1>2. Sync(cycles) \in Cycles /\ now \in Int
  BY SyncType DEF TypeOK, RuleOK, WorldOK
<1>3. cs \in Cycles
  BY <1>2, RearmedType
<1>4. Install(r) /\ unavailable' = un /\ Save("resume", FALSE, r.plan, QueueFor(r.timer))
  BY DEF HandleResume
<1> HIDE DEF cs
<1>5. OutcomeOK(r) /\ un \subseteq Entities
  BY <1>2, <1>3, ReconciledType, UnreadableType
<1> HIDE DEF r, un
<1>6. RuleOK'
  BY <1>4, <1>5, InstallType DEF HandleResume, TypeOK, RuleOK
<1>7. PhaseOK'
  BY DEF HandleResume, TypeOK, PhaseOK
<1>8. r.plan \in Plans \cup {NoPlan} /\ ConfigOK' /\ UNCHANGED <<world, store>>
  BY <1>5, FrameType DEF HandleResume, OutcomeOK, TypeOK
<1> QED
  BY <1>1, <1>4, <1>6, <1>7, <1>8, QueueForType, SectionType

LEMMA BlockedType == TypeOK /\ HandleBlocked => TypeOK'
<1> SUFFICES ASSUME TypeOK, HandleBlocked PROVE TypeOK'
  OBVIOUS
<1> DEFINE r == Reconciled(Unclaimed(cycles), unavailable, enabled, now)
<1>1. queue # <<>> /\ TasksOK
  BY DEF HandleBlocked, Holds, TypeOK
<1>2. Unclaimed(cycles) \in Cycles /\ now \in Int
  BY ChangedCycles DEF TypeOK, RuleOK, WorldOK
<1>3. OutcomeOK(r)
  BY <1>2, ReconciledType
<1>4. Install(r) /\ Save("blocked", FALSE, NoPlan, QueueFor(r.timer))
  BY DEF HandleBlocked
<1> HIDE DEF r
<1>5. RuleOK'
  BY <1>3, <1>4, InstallType DEF HandleBlocked, TypeOK, RuleOK
<1>6. ConfigOK' /\ PhaseOK' /\ UNCHANGED <<world, store>>
  BY FrameType DEF HandleBlocked, TypeOK
<1> QED
  BY <1>1, <1>4, <1>5, <1>6, QueueForType, SectionType

LEMMA FinishType == TypeOK /\ HandleFinish => TypeOK'
<1> SUFFICES ASSUME TypeOK, HandleFinish PROVE TypeOK'
  OBVIOUS
<1> DEFINE un == Unreadable(entState, allowed)
           cs == Rearmed(Sync(cycles), run.at, retry)
           st == IF run.failed THEN "error" ELSE "completed"
           again == Active(cs) # {} /\ retry > 0 /\ ~unloaded
           r == IF again THEN Reconciled(cs, un, enabled, run.at)
                ELSE Outcome(cs, timer, st, NoPlan)
           q == IF again THEN QueueFor(r.timer) ELSE queue
<1>1. queue # <<>> /\ queue \in Seq(Jobs) /\ TasksOK
  BY DEF HandleFinish, Holds, TypeOK, TasksOK
<1>2. run.at \in Int
  BY NoneType DEF TypeOK, TasksOK, Runs, NoRun
<1>3. cs \in Cycles
  <2>1. Sync(cycles) \in Cycles /\ retry \in Nat
    BY SyncType DEF TypeOK, RuleOK, ConfigOK
  <2> QED
    BY <1>2, <2>1, ChangedCycles
<1>4. /\ Install(r) /\ unavailable' = un /\ lastExec' = run.at
      /\ Save("finish", TRUE, r.plan, q)
  BY DEF HandleFinish
<1> HIDE DEF cs
<1>5. OutcomeOK(r) /\ un \subseteq Entities
  <2>1. OutcomeOK(Reconciled(cs, un, enabled, run.at))
    BY <1>2, <1>3, ReconciledType
  <2>2. OutcomeOK(Outcome(cs, timer, st, NoPlan))
    BY <1>3 DEF OutcomeOK, Outcome, Statuses, TypeOK, RuleOK
  <2> QED
    BY <2>1, <2>2, UnreadableType
<1>6. q \in Seq(Jobs) /\ q # <<>>
  BY <1>1, QueueForType
<1> HIDE DEF r, un, q
<1>7. RuleOK'
  BY <1>2, <1>4, <1>5, InstallType DEF HandleFinish, TypeOK, RuleOK
<1>8. r.plan \in Plans \cup {NoPlan} /\ ConfigOK' /\ PhaseOK' /\ UNCHANGED <<world, store>>
  BY <1>5, FrameType DEF HandleFinish, OutcomeOK, TypeOK
<1> QED
  BY <1>4, <1>6, <1>7, <1>8, SectionType

LEMMA CancelledType == TypeOK /\ HandleCancelled => TypeOK'
<1> SUFFICES ASSUME TypeOK, HandleCancelled PROVE TypeOK'
  OBVIOUS
<1> DEFINE un == Unreadable(entState, allowed)
           synced == Sync(cycles)
           rearmed == Rearmed(synced, now, retry)
           r == Reconciled(rearmed, un, enabled, now)
           idle == rearmed = synced \/ unloaded
           r2 == IF idle THEN Outcome(rearmed, timer, status, NoPlan)
                 ELSE IF r.plan # NoPlan
                      THEN Outcome(Unclaimed(r.cycles), now, r.status, NoPlan)
                 ELSE r
           q == IF idle THEN queue
                ELSE IF r.plan # NoPlan THEN Outdated(queue)
                ELSE QueueFor(r.timer)
<1>1. queue # <<>> /\ queue \in Seq(Jobs) /\ TasksOK
  BY DEF HandleCancelled, Recovery, Holds, TypeOK, TasksOK
<1>2. rearmed \in Cycles /\ now \in Int /\ timer \in Int /\ status \in Statuses
  BY SyncType, RearmedType DEF TypeOK, RuleOK, WorldOK
<1>3. /\ Install(r2) /\ unavailable' = un
      /\ Save("cancelled", TRUE, NoPlan, q)
  BY DEF HandleCancelled, Recovery
<1> HIDE DEF synced, rearmed
<1>4. OutcomeOK(r) /\ un \subseteq Entities
  BY <1>2, ReconciledType, UnreadableType
<1> HIDE DEF r
<1>5. OutcomeOK(r2)
  <2>1. OutcomeOK(Outcome(rearmed, timer, status, NoPlan))
    BY <1>2 DEF OutcomeOK, Outcome
  <2>2. OutcomeOK(Outcome(Unclaimed(r.cycles), now, r.status, NoPlan))
    BY <1>2, <1>4, ChangedCycles DEF OutcomeOK, Outcome
  <2> QED
    BY <1>4, <2>1, <2>2
<1>6. q \in Seq(Jobs) /\ q # <<>>
  BY <1>1, QueueForType, OutdatedType
<1> HIDE DEF r2, un, q
<1>7. RuleOK'
  BY <1>3, <1>4, <1>5, InstallType DEF HandleCancelled, Recovery, TypeOK, RuleOK
<1>8. ConfigOK' /\ PhaseOK' /\ UNCHANGED <<world, store>>
  BY FrameType DEF HandleCancelled, Recovery, TypeOK
<1> QED
  BY <1>3, <1>6, <1>7, <1>8, SectionType

LEMMA SectionsType == TypeOK /\ Section => TypeOK'
BY SkipType, EventType, DeadlineType, EnableType, DisableType, StartedType,
   SetUpWhileStartingType, SetUpType, ResumeWhileStartingType, ResumeType,
   BlockedType, FinishType, CancelledType
   DEF Section

LEMMA TypeStutter == TypeOK /\ UNCHANGED vars => TypeOK'
BY FrameType DEF TypeOK, vars

LEMMA TypeNext == TypeOK /\ [Next]_vars => TypeOK'
BY TickType, FireType, EnvironmentType, LifeCycleType, SectionsType, SaveEndsType,
   ExecutionType, TypeStutter
   DEF Next

\* Every reachable state is well typed: whatever order reports, deadlines,
\* switch calls, saves, service answers, cancellations, crashes and unloads
\* come in, the controller's fields and its queues hold what the code can
\* store in them, and a save is under way only with the lock held.
THEOREM TypeCorrect == Spec => []TypeOK
<1>1. Init => TypeOK
  BY TypeInit
<1>2. TypeOK /\ [Next]_vars => TypeOK'
  BY TypeNext
<1> QED
  BY <1>1, <1>2, PTL DEF Spec

-----------------------------------------------------------------------------
(* What is known to be saved *)

\* The payload a later save is compared with is the one on disk, or none, even
\* when saves fail and the program dies between them: a save is never skipped
\* for a payload that the disk does not have.
THEOREM SavedIsOnDisk == Spec => []SkippedSaveIsOnDisk
<1>1. Init => SkippedSaveIsOnDisk
  BY DEF Init, SkippedSaveIsOnDisk
<1>2. SkippedSaveIsOnDisk /\ [Next]_vars => SkippedSaveIsOnDisk'
  <2> SUFFICES ASSUME SkippedSaveIsOnDisk, [Next]_vars PROVE SkippedSaveIsOnDisk'
    OBVIOUS
  <2>1. CASE UNCHANGED store
    BY <2>1 DEF store, SkippedSaveIsOnDisk
  <2>2. CASE SaveSucceeds
    BY <2>2 DEF SaveSucceeds, SkippedSaveIsOnDisk
  <2>3. CASE Load \/ Crash
    BY <2>3 DEF Load, Crash, SkippedSaveIsOnDisk
  <2>4. Tick \/ Fire \/ Environment => UNCHANGED store \/ Crash
    BY DEF Tick, Fire, Environment, Report, ChangeRegistry, MoveGate, HaStarts,
           RequestEnable, RequestDisable
  <2>5. LifeCycle => UNCHANGED store \/ Load
    BY DEF LifeCycle, ReadStore, LoadFails, RollBack, BeginSetup, BeginStop,
           FinishUnload, RejectUnload
  <2>6. Section => UNCHANGED store
    BY DEF Section, Skip, EventWhileStarting, HandleEvent, HandleDeadline, HandleEnable,
           HandleDisable, HandleStarted, SetUpWhileStarting, HandleSetup, HandleStop,
           ResumeWhileStarting, HandleResume, HandleBlocked, HandleFinish, HandleCancelled,
           Recovery
  <2>7. SaveEnds => UNCHANGED store \/ SaveSucceeds
    BY DEF SaveEnds, SaveFails, SetupSaveFails, ResumeSaveFails, RollBack
  <2>8. Execution => UNCHANGED store
    BY DEF Execution, ServiceReturns, ServiceFails, ConfirmEnds, StartNext, Cancel,
           CancelWaiting, Proceed
  <2> QED
    BY <2>1, <2>2, <2>3, <2>4, <2>5, <2>6, <2>7, <2>8 DEF Next, vars
<1> QED
  BY <1>1, <1>2, PTL DEF Spec
=============================================================================
