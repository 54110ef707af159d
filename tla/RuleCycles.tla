------------------------------ MODULE RuleCycles ------------------------------
(***************************************************************************)
(* The runtime cycles of one rule: what the controller remembers about     *)
(* every selected entity that is on, and the pure part of the code that    *)
(* works on them (models.py, RuntimeCycle; controller.py, the helpers that *)
(* run with the controller lock held).                                     *)
(*                                                                         *)
(* An entity is a number: its stable key and its place in config.entities. *)
(* A time is an integer; NoTime stands for None.                           *)
(*                                                                         *)
(* A definition whose name ends in _Mutant is the definition after it with *)
(* a slip a programmer could make; no other definition uses it. It shows   *)
(* that a property of the system can tell the slip from the code.          *)
(***************************************************************************)
EXTENDS Integers, FiniteSets

CONSTANTS
  Entities,      \* config.entities, by stable key
  Delay,         \* config.delay_seconds
  Policy         \* config.trigger_policy: "first" or "last"

ASSUME RuleAssumption ==
  /\ Entities \subseteq Nat \ {0}
  /\ Entities # {}
  /\ IsFiniteSet(Entities)
  /\ Delay \in Nat
  /\ Policy \in {"first", "last"}

-----------------------------------------------------------------------------
(* Types *)

NoTime == -1

\* An entity with no cycle is absent from _cycles.
NoCycle == [started |-> NoTime, handled |-> FALSE, retryAt |-> NoTime]
NoCycles == [e \in Entities |-> NoCycle]

Cycle == [started : Int, handled : BOOLEAN, retryAt : Int]
Cycles == [Entities -> Cycle]

\* What an entity reports: "on" is any state that is not off, unknown or
\* unavailable; "lost" is unknown, unavailable or no state at all.
Reports == {"on", "off", "lost"}

-----------------------------------------------------------------------------
(* Reading cycles *)

Deadline(c) == IF c.retryAt # NoTime THEN c.retryAt ELSE c.started + Delay

Active(cs) == {e \in Entities : cs[e] # NoCycle}
Handled(cs) == {e \in Active(cs) : cs[e].handled}
Pending(cs) == Active(cs) \ Handled(cs)
Retrying(cs) == {e \in Pending(cs) : cs[e].retryAt # NoTime}

\* The order of (deadline, stable key) pairs.
NotLater(cs, e, f) ==
  \/ Deadline(cs[e]) < Deadline(cs[f])
  \/ Deadline(cs[e]) = Deadline(cs[f]) /\ e <= f

Earliest(cs, S) == CHOOSE e \in S : \A f \in S : NotLater(cs, e, f)
Latest(cs, S) == CHOOSE e \in S : \A f \in S : NotLater(cs, f, e)

\* A retry waits for its turn among the first attempts.
TriggerUnranked_Mutant(cs) ==
  IF Policy = "last" THEN Latest(cs, Pending(cs)) ELSE Earliest(cs, Pending(cs))

\* The cycle the rule acts on next: a retry before any first attempt, and
\* otherwise the first or the last deadline, as the policy says.
Trigger(cs) ==
  IF Retrying(cs) # {} THEN Earliest(cs, Retrying(cs))
  ELSE IF Policy = "last" THEN Latest(cs, Pending(cs))
  ELSE Earliest(cs, Pending(cs))

TriggerDeadline(cs) == Deadline(cs[Trigger(cs)])

\* The deadline itself is not yet due.
DueLate_Mutant(cs, t) == t > TriggerDeadline(cs)

Due(cs, t) == t >= TriggerDeadline(cs)

-----------------------------------------------------------------------------
(* Changing cycles *)

\* An outage ends the cycle.
SyncedOutage_Mutant(cs, seen, since, ok) ==
  [e \in Entities |->
     IF ~ok[e] \/ seen[e] # "on" THEN NoCycle
     ELSE IF cs[e] = NoCycle THEN [NoCycle EXCEPT !.started = since[e]]
     ELSE cs[e]]

\* Match the cycles to what the entities report. An entity that reports off,
\* or that the registries no longer allow in the rule, loses its cycle; one
\* that reports nothing usable keeps what it has; one that is on gets a cycle
\* that starts when it last changed.
Synced(cs, seen, since, ok) ==
  [e \in Entities |->
     IF ~ok[e] \/ seen[e] = "off" THEN NoCycle
     ELSE IF seen[e] = "on" /\ cs[e] = NoCycle
          THEN [NoCycle EXCEPT !.started = since[e]]
          ELSE cs[e]]

\* The gate is counted among the entities.
UnreadableGate_Mutant(seen, ok) == {0} \cup {e \in Entities : ~ok[e] \/ seen[e] = "lost"}

Unreadable(seen, ok) == {e \in Entities : ~ok[e] \/ seen[e] = "lost"}

\* A due batch takes every active cycle, not only the one that is due.
Claimed(cs) ==
  [e \in Entities |-> IF cs[e] = NoCycle THEN NoCycle
                      ELSE [cs[e] EXCEPT !.handled = TRUE]]

Unclaimed(cs) == [e \in Entities |-> [cs[e] EXCEPT !.handled = FALSE]]

\* The claim is kept when the retry time is set.
RearmedHandled_Mutant(cs, at, retry) ==
  [e \in Entities |->
     IF retry > 0 /\ cs[e].handled THEN [cs[e] EXCEPT !.retryAt = at + retry]
     ELSE cs[e]]

\* The clock restarts with the attempt.
RearmedClock_Mutant(cs, at, retry) ==
  [e \in Entities |->
     IF retry > 0 /\ cs[e].handled
     THEN [started |-> at, handled |-> FALSE, retryAt |-> at + retry]
     ELSE cs[e]]

\* After an attempt, whatever is still claimed gets a retry time.
Rearmed(cs, at, retry) ==
  [e \in Entities |->
     IF retry > 0 /\ cs[e].handled
     THEN [cs[e] EXCEPT !.handled = FALSE, !.retryAt = at + retry]
     ELSE cs[e]]

\* The attempt is looked for with the new interval.
RescheduledNew_Mutant(cs, stored, retry, last, t) ==
  LET attempted(c) == IF stored > 0 THEN c.retryAt - retry
                      ELSE IF last # NoTime THEN last ELSE t
  IN  [e \in Entities |->
         IF stored # retry /\ e \in Retrying(cs)
         THEN [cs[e] EXCEPT !.retryAt = attempted(cs[e]) + retry]
         ELSE cs[e]]

\* Retry times that were computed with another interval are computed again,
\* from the attempt they followed when that is known.
Rescheduled(cs, stored, retry, last, t) ==
  LET attempted(c) == IF stored > 0 THEN c.retryAt - stored
                      ELSE IF last # NoTime THEN last ELSE t
  IN  [e \in Entities |->
         IF stored # retry /\ e \in Retrying(cs)
         THEN [cs[e] EXCEPT !.retryAt = attempted(cs[e]) + retry]
         ELSE cs[e]]
=============================================================================
