------------------------------ MODULE Confirmation ------------------------------
(***************************************************************************)
(* How the controller waits for a target to report that it is off          *)
(* (controller.py, _async_confirm_turn_off). RuntimeController lets such a *)
(* wait end at any time, by ConfirmEnds. Here it ends as in the code: a    *)
(* coroutine waits for an asyncio.Event that listeners set, looks at the   *)
(* target when it wakes, and gives up after some seconds.                  *)
(*                                                                         *)
(* The seconds of a confirmation are counted on their own: they are short  *)
(* against the delays and retry intervals that `now` counts.               *)
(***************************************************************************)
EXTENDS RuntimeController

CONSTANT Seconds   \* _TARGET_STATE_CONFIRMATION_TIMEOUT_SECONDS

ASSUME ConfirmationAssumption == Seconds \in Nat

VARIABLES
  changed,         \* the asyncio.Event is set
  left             \* seconds until asyncio.timeout interrupts the wait

waiter == <<changed, left>>
cvars == <<vars, waiter>>

-----------------------------------------------------------------------------
(* The waiter *)

Confirming == Running("confirm")

\* The gate is not tracked.
TrackedTarget_Mutant == {run.target}

\* The target's and the gate's state changes reach the listener, whatever
\* the entry's own subscription.
Tracked == {run.target, Gate}

\* A step that the waiter is told of: its Event is set.
Signal ==
  /\ changed' = (Confirming /\ Confirming')
  /\ left' = IF Confirming' THEN left ELSE 0

\* A step it is not told of. A wait that begins has its whole time; one that
\* ends leaves no waiter behind.
NoSignal ==
  /\ changed' = (changed /\ Confirming')
  /\ left' = IF ~Confirming' THEN 0 ELSE IF Confirming THEN left ELSE Seconds

StateChanged(e) == IF e \in Tracked THEN Signal ELSE NoSignal

\* The timeout is one for every wake-up.
WakeRestarts_Mutant ==
  /\ Confirming /\ changed
  /\ IF Unsettled(run.target)
     THEN changed' = FALSE /\ left' = Seconds /\ UNCHANGED vars
     ELSE ConfirmEnds /\ NoSignal

\* The coroutine runs again: it clears the event, then looks at the target.
Wake ==
  /\ Confirming /\ changed
  /\ IF Unsettled(run.target)
     THEN changed' = FALSE /\ UNCHANGED <<vars, left>>
     ELSE ConfirmEnds /\ NoSignal

\* The loop runs what is ready before another second has passed.
Second ==
  /\ Confirming /\ ~changed /\ left > 0
  /\ left' = left - 1
  /\ UNCHANGED <<vars, changed>>

\* asyncio.timeout cancels the wait, even one whose event has just been set.
Expire ==
  /\ Confirming /\ left = 0
  /\ ConfirmEnds /\ NoSignal

-----------------------------------------------------------------------------
(* The controller's steps, and what the waiter hears of them *)

Reported ==
  \/ \E e \in Entities, s \in Reports : Report(e, s) /\ StateChanged(e)
  \/ \E g \in {"off", "on", "bad"} : MoveGate(g) /\ StateChanged(Gate)

\* Nobody tells the waiters.
Woken_Mutant == (BeginStop \/ RequestDisable) /\ NoSignal

\* async_stop and async_set_enabled(False) wake every waiter.
Woken == (BeginStop \/ RequestDisable) /\ Signal

Unheard(A) == A /\ NoSignal

ConfirmInit == Init /\ changed = FALSE /\ left = 0

ConfirmNext ==
  \/ Wake \/ Second \/ Expire
  \/ Reported \/ Woken
  \/ Unheard(Tick) \/ Unheard(Fire) \/ Unheard(HaStarts)
  \/ Unheard(RequestEnable) \/ Unheard(Crash)
  \/ Unheard(\E e \in Entities : ChangeRegistry(e))
  \/ Unheard(Load) \/ Unheard(ReadStore) \/ Unheard(LoadFails)
  \/ Unheard(BeginSetup) \/ Unheard(FinishUnload) \/ Unheard(RejectUnload)
  \/ Unheard(Skip) \/ Unheard(EventWhileStarting) \/ Unheard(HandleEvent)
  \/ Unheard(HandleDeadline) \/ Unheard(HandleEnable) \/ Unheard(HandleDisable)
  \/ Unheard(HandleStarted) \/ Unheard(SetUpWhileStarting) \/ Unheard(HandleSetup)
  \/ Unheard(HandleStop) \/ Unheard(ResumeWhileStarting) \/ Unheard(HandleResume)
  \/ Unheard(HandleBlocked) \/ Unheard(HandleFinish) \/ Unheard(HandleCancelled)
  \/ Unheard(SaveSucceeds) \/ Unheard(SaveFails)
  \/ Unheard(SetupSaveFails) \/ Unheard(ResumeSaveFails)
  \/ Unheard(ServiceReturns) \/ Unheard(ServiceFails) \/ Unheard(StartNext)
  \/ Unheard(Cancel) \/ Unheard(CancelWaiting)

ConfirmSpec == ConfirmInit /\ [][ConfirmNext]_cvars

\* The event loop runs a woken coroutine, time passes and the timeout fires.
\* The rest is the fairness of RuntimeController, but for ConfirmEnds.
ConfirmFairness ==
  /\ WF_cvars(Wake) /\ SF_cvars(Second) /\ WF_cvars(Expire)
  /\ WF_vars(Tick) /\ WF_vars(Fire)
  /\ WF_vars(Section) /\ WF_vars(SaveEnds)
  /\ WF_vars(ServiceReturns \/ ServiceFails)
  /\ WF_vars(StartNext)
  /\ WF_vars(ReadStore) /\ WF_vars(BeginSetup)
  /\ WF_vars(FinishUnload \/ RejectUnload)

FairConfirmSpec == ConfirmSpec /\ ConfirmFairness

-----------------------------------------------------------------------------
(* Properties *)

\* No wake-up is lost: a waiter whose event is not set has nothing to find,
\* unless it is the registries that changed, of which nobody is told. So a
\* report of off, a closing gate, a stop and a pause end the wait at once.
NoLostWakeup ==
  Confirming /\ ~changed /\ allowed[run.target] => Unsettled(run.target)

\* What RuntimeController assumes of a confirmation is what the waiter does:
\* it ends, and its result is that of the moment it ends at.
ImplementsController == Spec /\ WF_vars(ConfirmEnds)
=============================================================================
