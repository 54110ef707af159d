----------------------------- MODULE CancelledSetUp -----------------------------
(***************************************************************************)
(* A plan that is due at once is executed by async_setup or async_resume   *)
(* itself, and Home Assistant awaits them. When such an execution is       *)
(* cancelled, its recovery runs as for any other (RuntimeController,       *)
(* HandleCancelled), but the cancellation then goes on through the set-up  *)
(* or the resume, which gives the controller up (controller.py,            *)
(* async_setup, async_resume, _rollback_failed_setup). async_setup_entry   *)
(* unloads what it has set up after an Exception, which a cancellation is  *)
(* not: the entry stays as it is then, with a controller that does nothing.*)
(***************************************************************************)
EXTENDS Confirmation

UnwindingOf == [setup |-> "setupcancelled", resume |-> "resumecancelled"]

\* The set-up, or the resume, is cancelled in a service call or a confirmation
\* of its own execution.
CancelHost ==
  /\ "cancel" \in Moves
  /\ Running("call") \/ Running("confirm")
  /\ run.host # "task"
  /\ run' = NoRun
  /\ Post(Call(UnwindingOf[run.host], NoTime))
  /\ UNCHANGED <<world, entry, config, rule, store, phase, saving, claim, waiting>>

\* The execution's recovery.
HandleUnwinding == \E kind \in Unwinding : Recovery(kind)

\* The controller is left as it is.
GiveUpAwake_Mutant(kind) ==
  /\ entry' = "failed"
  /\ UNCHANGED <<subscribed, startedSub, unloaded, inhibited, timer, setupComplete, cycles>>
  /\ queue' = Tail(queue)

\* _rollback_failed_setup, or the end of async_resume, which keeps the cycles.
GiveUp(kind) ==
  /\ entry' = "failed"
  /\ subscribed' = FALSE /\ startedSub' = FALSE
  /\ unloaded' = TRUE /\ inhibited' = TRUE
  /\ timer' = NoTime /\ queue' = Outdated(Tail(queue))
  /\ setupComplete' = (setupComplete /\ kind # "setupcancelled")
  /\ cycles' = IF kind = "setupcancelled" THEN NoCycles ELSE cycles

\* The recovery has saved, or could not, which is swallowed, and the
\* cancellation goes on.
UnwindingEnds ==
  LET kind == Head(queue).kind IN
  /\ saving /\ kind \in Unwinding
  /\ \/ disk' = Payload /\ lastSaved' = Payload
     \/ "savefail" \in Moves /\ UNCHANGED store
  /\ saving' = FALSE /\ claim' = NoPlan
  /\ UNCHANGED <<world, config, enabled, status, unavailable, lastExec, starting,
                 waiting, run>>
  /\ GiveUp(kind)

CancelledNext ==
  \/ ConfirmNext
  \/ Unheard(CancelHost) \/ Unheard(HandleUnwinding) \/ Unheard(UnwindingEnds)

CancelledSpec == ConfirmInit /\ [][CancelledNext]_cvars
=============================================================================
