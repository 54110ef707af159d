------------------------- MODULE ConfirmationProofs -------------------------
(***************************************************************************)
(* The waiter of a confirmation does nothing but what RuntimeController    *)
(* allows, so that what is proved of the controller holds with it. And no  *)
(* wake-up is lost: NoLostWakeup, for every set of entities, delay, policy *)
(* and bound.                                                              *)
(*                                                                         *)
(* What makes NoLostWakeup true is that a waiter whose event is not set    *)
(* saw a target that is on, an open gate and a rule in service, and that   *)
(* whatever changes one of these sets the event (WakeOK). The steps that   *)
(* take a rule out of service without waking anyone, the rollbacks and the *)
(* resumptions, find no execution to wake: that is QuietOK.                *)
(***************************************************************************)
EXTENDS Confirmation, RefinementProofs

LEMMA ConfirmStep == ConfirmNext => [Next]_vars
<1> USE DEF Next, Environment, LifeCycle, Section, SaveEnds, Execution
<1>1. Wake \/ Second \/ Expire => [Next]_vars
  BY DEF Wake, Second, Expire
<1>2. Reported => Next
  BY DEF Reported, StateChanged, Signal, NoSignal
<1>3. Woken => Next
  BY DEF Woken
<1> QED
  BY <1>1, <1>2, <1>3 DEF ConfirmNext, Unheard

\* A controller whose confirmations are woken and time out as in the code
\* (controller.py, _async_confirm_turn_off) takes only steps of the
\* controller whose confirmations just end.
THEOREM WaiterImplements == ConfirmSpec => Spec
<1>1. ConfirmInit => Init
  BY DEF ConfirmInit
<1>2. [ConfirmNext]_cvars => [Next]_vars
  BY ConfirmStep DEF cvars, Next
<1> QED
  BY <1>1, <1>2, PTL DEF ConfirmSpec, Spec

\* So the deadline timer of the controller with its waiter is right as well.
THEOREM TimerIsArmedWithWaiter ==
  ASSUME 0 \notin RetryIntervals,
         "cancel" \notin Moves \/ ("registry" \notin Moves /\ "earlytoggle" \notin Moves)
  PROVE  ConfirmSpec => []TimerArmed
BY WaiterImplements, TimerIsArmed, PTL

-----------------------------------------------------------------------------
(* Waking *)

AimOK == Running("call") \/ Confirming => run.target \in Entities

WakeOK ==
  Confirming /\ ~changed =>
    entState[run.target] = "on" /\ gate = "off" /\ ~unloaded /\ ~inhibited

WakeInv == QuietInv /\ AimOK /\ WakeOK

\* A confirmation goes on, or has begun with what it waits for.
LEMMA ConfirmingAfter ==
  ASSUME TypeOK, TaskOK, [Next]_vars, Confirming'
  PROVE  \/ Confirming /\ run' = run
         \/ /\ Running("call") /\ run'.target = run.target
            /\ Unsettled(run.target) /\ UNCHANGED <<world, rule, phase>>
<1>1. run' # NoRun /\ run'.stage = "confirm"
  BY DEF Confirming, Running
<1>2. CASE run' = run
  BY <1>1, <1>2 DEF Confirming, Running
<1>3. CASE /\ Running("call") /\ run' = [run EXCEPT !.stage = "confirm"]
           /\ Unsettled(run.target) /\ UNCHANGED <<world, rule, phase>>
  <2>1. run \in Runs
    BY <1>3 DEF TypeOK, TasksOK, Running
  <2>2. run'.target = run.target
    BY <1>3, <2>1 DEF Runs
  <2> QED
    BY <1>3, <2>2
<1> QED
  BY <1>1, <1>2, <1>3, NextRun DEF RunAfter

LEMMA AimNext ==
  ASSUME TypeOK, TaskOK, AimOK, [Next]_vars
  PROVE  AimOK'
<1>1. ASSUME Running("call")' PROVE run'.target \in Entities
  <2>1. run' # NoRun /\ run'.stage = "call"
    BY <1>1 DEF Running
  <2>2. ASSUME Running("call"), run' = [run EXCEPT !.stage = "confirm"] PROVE FALSE
    <3>1. run \in Runs
      BY <2>2 DEF TypeOK, TasksOK, Running
    <3> QED
      BY <2>1, <2>2, <3>1 DEF Runs
  <2>3. run' = run \/ run'.target \in Entities
    BY <2>1, <2>2, NextRun DEF RunAfter
  <2> QED
    BY <2>1, <2>3 DEF AimOK, Running
<1>2. ASSUME Confirming' PROVE run'.target \in Entities
  BY <1>2, ConfirmingAfter DEF AimOK
<1> QED
  BY <1>1, <1>2 DEF AimOK

\* No life-cycle section runs beside a confirmation.
LEMMA ConfirmingAwake ==
  ASSUME QuietInv, Confirming
  PROVE  /\ entry \in {"loaded", "stopping", "draining"} /\ run # NoRun
         /\ ~TakingOver
<1>1. run # NoRun
  BY DEF Confirming, Running
<1>2. entry \in {"loaded", "stopping", "draining"}
  BY <1>1 DEF QuietInv, QuietOK, DormantOK, Dormant
<1>3. ~TakingOver
  <2> SUFFICES ASSUME TakingOver PROVE FALSE
    OBVIOUS
  <2>1. queue # <<>> /\ queue \in Seq(Jobs)
    BY DEF TakingOver, QuietInv, LifeInv, TypeOK, TasksOK
  <2>2. Fits(Head(queue).kind, entry)
    BY <2>1, KindsTail DEF QuietInv, LifeInv, LifeOK, JobsOK
  <2> QED
    BY <1>2, <2>2 DEF TakingOver, Fits
<1> QED
  BY <1>1, <1>2, <1>3

\* The steps a waiter is not told of, a crash aside.
Silent ==
  \/ Tick \/ Fire \/ HaStarts \/ RequestEnable \/ \E e \in Entities : ChangeRegistry(e)
  \/ Load \/ ReadStore \/ LoadFails \/ BeginSetup \/ FinishUnload \/ RejectUnload
  \/ Section \/ SaveEnds \/ Execution

\* None of them settles the target of a confirmation.
LEMMA SilentStep ==
  ASSUME QuietInv, Confirming, Silent
  PROVE  /\ UNCHANGED <<entState, gate>>
         /\ ~unloaded => ~unloaded'
         /\ ~inhibited => ~inhibited'
<1>1. /\ entry \in {"loaded", "stopping", "draining"} /\ run # NoRun /\ ~TakingOver
  BY ConfirmingAwake
<1>2. CASE Tick \/ Fire \/ HaStarts \/ RequestEnable \/ \E e \in Entities : ChangeRegistry(e)
  BY <1>2 DEF Tick, Fire, ChangeRegistry, HaStarts, RequestEnable, world, rule, phase
<1>3. ~(Load \/ ReadStore \/ LoadFails \/ BeginSetup \/ FinishUnload \/ RejectUnload)
  BY <1>1 DEF Load, ReadStore, LoadFails, BeginSetup, FinishUnload, RejectUnload, Idle
<1>4. CASE Section
  <2>1. CASE Skip
    BY <2>1 DEF Skip, world, rule, phase
  <2>2. CASE ~Skip
    <3>1. PICK kind, p, q : SectionRuns(kind, p, q)
      BY <1>4, <2>2, SectionSummary DEF QuietInv, LifeInv
    <3>2. /\ queue # <<>> /\ ~saving /\ ~Stale(Head(queue)) /\ kind = Head(queue).kind
          /\ UNCHANGED world /\ unloaded' = (unloaded /\ kind \notin {"setup", "resume"})
          /\ kind = "enable" => ~inhibited'
          /\ kind \notin {"enable", "resume", "setup"} => inhibited' = inhibited
      BY <3>1 DEF SectionRuns
    <3>3. kind \notin {"setup", "resume"}
      BY <1>1, <3>2, SectionPhase
    <3>4. UNCHANGED <<entState, gate>>
      BY <3>2 DEF world
    <3>5. ~unloaded => ~unloaded'
      BY <3>2
    <3>6. ~inhibited => ~inhibited'
      BY <3>2, <3>3
    <3> QED
      BY <3>4, <3>5, <3>6
  <2> QED
    BY <2>1, <2>2
<1>5. CASE SaveEnds
  <2>1. saving /\ Head(queue).kind \notin {"setup", "resume"}
    BY <1>1, <1>5, SaveEndsSummary DEF TakingOver, QuietInv, LifeInv
  <2>2. ~SetupSaveFails /\ ~ResumeSaveFails
    BY <2>1 DEF SetupSaveFails, ResumeSaveFails
  <2>3. UNCHANGED <<world, phase>> /\ inhibited' = inhibited
    BY <1>5, <2>1, <2>2, SaveEndsSummary DEF QuietInv, LifeInv
  <2> QED
    BY <2>3 DEF world, phase
<1>6. CASE Execution
  <2>1. UNCHANGED <<world, rule, phase>>
    BY <1>6, ExecutionSummary DEF QuietInv, LifeInv
  <2> QED
    BY <2>1 DEF world, rule, phase
<1> QED
  BY <1>2, <1>3, <1>4, <1>5, <1>6 DEF Silent

\* A confirmation that ends does not go on.
LEMMA EndedConfirmation ==
  ASSUME ConfirmEnds
  PROVE  ~Confirming'
<1>1. run'.stage \in {"call", "finish"}
  BY AdvanceRun DEF ConfirmEnds, Proceed
<1> QED
  BY <1>1 DEF Confirming, Running

LEMMA WakeNext ==
  ASSUME WakeInv, [ConfirmNext]_cvars, Confirming', ~changed'
  PROVE  entState'[run'.target] = "on" /\ gate' = "off" /\ ~unloaded' /\ ~inhibited'
<1>1. [Next]_vars
  BY ConfirmStep DEF cvars, Next
<1>2. TypeOK /\ TaskOK /\ QuietInv /\ AimOK /\ WakeOK
  BY DEF WakeInv, QuietInv, LifeInv
<1>3. CASE ~(Confirming /\ run' = run)
  <2>1. run'.target = run.target /\ Unsettled(run.target) /\ UNCHANGED <<world, rule, phase>>
    BY <1>1, <1>2, <1>3, ConfirmingAfter
  <2> QED
    BY <2>1 DEF Unsettled, world, rule, phase
<1>4. CASE Confirming /\ run' = run
  <2> DEFINE Seen1 == entState[run.target] = "on" /\ gate = "off" /\ ~unloaded /\ ~inhibited
  <2>0. run.target \in Entities /\ (~changed => Seen1)
    BY <1>2, <1>4 DEF AimOK, WakeOK
  <2>1. CASE Wake \/ Second \/ Expire \/ UNCHANGED cvars
    <3>1. CASE ConfirmEnds
      BY <3>1, EndedConfirmation
    <3>2. CASE UNCHANGED vars /\ Seen1
      BY <3>2, <1>4 DEF vars, world, rule, phase
    <3> QED
      BY <1>4, <2>0, <2>1, <3>1, <3>2
         DEF Wake, Second, Expire, Unsettled, cvars, waiter
  <2>2. CASE Reported
    <3>1. ASSUME Signal PROVE FALSE
      BY <1>4, <3>1 DEF Signal
    <3>2. PICK e \in Entities, s \in Reports : Report(e, s) /\ StateChanged(e)
      BY <2>2, <3>1 DEF Reported, StateChanged, Tracked
    <3>3. NoSignal /\ e # run.target
      BY <3>1, <3>2 DEF StateChanged, Tracked
    <3>4. Seen1
      BY <1>4, <2>0, <3>3 DEF NoSignal
    <3>5. /\ entState' = [entState EXCEPT ![e] = s] /\ UNCHANGED <<gate, rule, phase>>
      BY <3>2 DEF Report
    <3>6. entState'[run.target] = entState[run.target]
      BY <1>2, <2>0, <3>3, <3>5 DEF TypeOK, WorldOK
    <3> QED
      BY <1>4, <3>4, <3>5, <3>6 DEF rule, phase
  <2>3. CASE Woken
    BY <1>4, <2>3 DEF Woken, Signal
  <2>4. CASE NoSignal /\ (Silent \/ Crash)
    <3>1. ~Crash
      BY <1>4 DEF Crash, Confirming, Running
    <3>2. /\ UNCHANGED <<entState, gate>>
          /\ ~unloaded => ~unloaded'
          /\ ~inhibited => ~inhibited'
      BY <1>2, <1>4, <2>4, <3>1, SilentStep
    <3>3. Seen1
      BY <1>4, <2>0, <2>4 DEF NoSignal
    <3> QED
      BY <1>4, <3>2, <3>3
  <2>5. \/ Wake \/ Second \/ Expire \/ Reported \/ Woken \/ UNCHANGED cvars
        \/ NoSignal /\ (Silent \/ Crash)
    BY DEF ConfirmNext, Unheard, Silent, Section, SaveEnds, Execution
  <2> QED
    BY <2>1, <2>2, <2>3, <2>4, <2>5
<1> QED
  BY <1>3, <1>4

\* No wake-up of a confirmation is lost (controller.py:743-776): while the
\* event is not set, what the coroutine waits for has not happened, although
\* it clears the event before it looks, and although it is told of a report, a
\* gate, a pause or a stop only by the listeners and by nobody else.
THEOREM NoWakeupIsLost ==
  ASSUME "earlytoggle" \notin Moves
  PROVE  ConfirmSpec => []NoLostWakeup
<1>1. ConfirmInit => WakeInv
  BY QuietInit DEF ConfirmInit, Init, WakeInv, AimOK, WakeOK, Confirming, Running
<1>2. WakeInv /\ [ConfirmNext]_cvars => WakeInv'
  <2> SUFFICES ASSUME WakeInv, [ConfirmNext]_cvars PROVE WakeInv'
    OBVIOUS
  <2>1. [Next]_vars
    BY ConfirmStep DEF cvars, Next
  <2>2. QuietInv' /\ AimOK'
    BY <2>1, QuietNext, AimNext DEF WakeInv, QuietInv, LifeInv
  <2> QED
    BY <2>2, WakeNext DEF WakeInv, WakeOK
<1>3. WakeInv => NoLostWakeup
  BY DEF WakeInv, WakeOK, NoLostWakeup, Unsettled
<1> QED
  BY <1>1, <1>2, <1>3, PTL DEF ConfirmSpec

\* The controller with the waiter of the code keeps the promises of the rule,
\* as RuleIsImplemented says of the controller whose confirmations just end
\* (controller.py:743-776 in the place of the end of a confirmation).
THEOREM WaiterImplementsRule ==
  ASSUME 0 \notin RetryIntervals, "gate" \notin Moves, "savefail" \notin Moves,
         "earlytoggle" \notin Moves
  PROVE  ConfirmSpec => ImplementsRule
BY WaiterImplements, RuleIsImplemented
=============================================================================
