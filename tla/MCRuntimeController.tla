-------------------------- MODULE MCRuntimeController --------------------------
(***************************************************************************)
(* The environments in which TLC checks the controller with its waiter     *)
(* (Confirmation), as such and against the abstract rule (RuleRefinement). *)
(* Each names what the home, the user and Home Assistant may do beyond an  *)
(* entity's on and off reports; the configurations give the sizes.         *)
(***************************************************************************)
EXTENDS CancelledSetUp, RuleRefinement

\* Services that fail, and executions that are cancelled.
PlainHome == {"servicefail", "cancel"}

\* A Shabbat sensor that blocks, and that may be unusable.
GatedHome == {"gate"}

\* Home Assistant starts, dies and reloads the entry; entities are lost.
RestartingHome == {"boot", "crash", "reload", "lost"}

\* Saves fail and executions are cancelled in every phase of the entry; the
\* registries change.
FailingStore == {"boot", "crash", "reload", "savefail", "registry", "cancel"}

\* The rule is paused and resumed while it executes, and the gate moves.
SwitchedRule == {"toggle", "gate"}

\* Everything an unload may have to wait for.
ReloadedRule == {"reload", "servicefail", "cancel"}

\* The switch alone.
SwitchOnly == {"toggle"}

\* Services that fail.
FailingHome == {"servicefail"}

\* Nothing but reports.
QuietHome == {}

\* The switch is used while the rule is being set up after a restart.
EarlySwitch == {"boot", "crash", "earlytoggle"}
=============================================================================
