----------------------------- MODULE RuleRefinement -----------------------------
(***************************************************************************)
(* The controller implements the abstract rule of RuleSpec: the mapping    *)
(* from what the controller keeps to what the rule promises.               *)
(***************************************************************************)
EXTENDS RuntimeController

\* A cycle as a clock. Its retry time was computed with the interval `ri`.
Clock(c, ri) ==
  [since |-> c.started,
   tried |-> IF c.retryAt # NoTime /\ ~c.handled THEN c.retryAt - ri ELSE NoTime,
   claimed |-> c.handled]

Clocks(cs, ri) == [e \in Entities |-> Clock(cs[e], ri)]

Phase == IF ~setupComplete THEN "down" ELSE IF starting THEN "starting" ELSE "up"

\* A plan has been settled when its finishing section has run and is saving.
Settled == saving /\ Head(queue).kind = "finish"

Run ==
  IF run = NoRun THEN [stage |-> "none", target |-> 0, ended |-> NoTime]
  ELSE [stage |-> IF run.stage # "finish" THEN "attempt"
                  ELSE IF Settled THEN "settled" ELSE "ended",
        target |-> run.target, ended |-> run.at]

\* Interrupted plans whose section has not run.
Broken ==
  Cardinality({i \in 1..Len(queue) :
                 queue[i].kind = "cancelled" /\ ~(saving /\ i = 1)})

Rule == INSTANCE RuleSpec WITH
          clocks <- Clocks(cycles, retry),
          saved <- Clocks(disk.cycles, disk.retry),
          phase <- Phase,
          claim <- claim # NoPlan,
          line <- Len(waiting),
          run <- Run,
          broken <- Broken

\* The controller keeps the promises of RuleSpec: what is claimed was due by
\* the policy and the retries, a claim is durable before its plan begins, a
\* plan attempts each entity once and in turn, the next attempt is counted
\* from the end of the last, and a restart finds every clock and attempt.
ImplementsRule == Rule!Spec
=============================================================================
