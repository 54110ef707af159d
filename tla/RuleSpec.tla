-------------------------------- MODULE RuleSpec --------------------------------
(***************************************************************************)
(* What one rule promises, without locks, timers, tasks or a store format. *)
(*                                                                         *)
(* Every entity that is on has a clock. A rule that finds a clock due      *)
(* claims all the clocks that run; the claim is made durable; then one     *)
(* plan at a time attempts to turn the entities off, each at most once and *)
(* one after the other. What is still on when the plan has ended counts    *)
(* again, from that end. A process that dies finds its clocks as saved.    *)
(*                                                                         *)
(* A clock remembers when its entity went on, and when it was last         *)
(* attempted; when it is due is computed from these, so a new retry        *)
(* interval moves the deadlines and not what they are counted from.        *)
(***************************************************************************)
EXTENDS Integers

CONSTANTS
  Entities,  \* the entities of the rule
  Delay,     \* how long an entity may be on
  Policy     \* "first": one entity that was on for so long; "last": all of them

VARIABLES
  now,
  retry,     \* how long after an attempt the next one is due
  clocks,    \* one per entity
  saved,     \* the clocks a new process would find
  phase,     \* "down", "starting" (restored, not yet acting) or "up"
  claim,     \* a claim was made whose plan has not been durable yet
  line,      \* durable plans that wait for their turn
  run,       \* the plan whose turn it is
  broken     \* interrupted plans whose claims are still to be taken back

vars == <<now, retry, clocks, saved, phase, claim, line, run, broken>>

NoTime == -1
Idle == [since |-> NoTime, tried |-> NoTime, claimed |-> FALSE]
NoRun == [stage |-> "none", target |-> 0, ended |-> NoTime]

-----------------------------------------------------------------------------
(* Clocks *)

DueAt(c) == IF c.tried # NoTime THEN c.tried + retry ELSE c.since + Delay

Counting(cs) == {e \in Entities : cs[e] # Idle /\ ~cs[e].claimed}
Tried(cs) == {e \in Counting(cs) : cs[e].tried # NoTime}
Passed(cs, S) == {e \in S : DueAt(cs[e]) <= now}

\* While something waits for another attempt, only such an attempt is due.
IsDue(cs) ==
  IF Tried(cs) # {} THEN Passed(cs, Tried(cs)) # {}
  ELSE IF Policy = "last"
       THEN Counting(cs) # {} /\ Passed(cs, Counting(cs)) = Counting(cs)
  ELSE Passed(cs, Counting(cs)) # {}

ClaimedClock(c) ==
  IF c = Idle THEN Idle ELSE [since |-> c.since, tried |-> NoTime, claimed |-> TRUE]

\* What a clock may become when its entity is looked at. When an attempt that
\* ended at the time `at` is settled, nothing stays claimed.
After(c, at) ==
  {Idle} \cup
  (IF c = Idle
   THEN {[since |-> t, tried |-> NoTime, claimed |-> FALSE] : t \in 0..now}
   ELSE IF c.claimed /\ at # NoTime
        THEN {[since |-> c.since, tried |-> at, claimed |-> FALSE]}
   ELSE {c})

\* The clocks are brought up to date, from those in `from`; if they are due,
\* they may all be claimed.
Update(from, at) ==
  \/ /\ DOMAIN clocks' = Entities
     /\ \A e \in Entities : clocks'[e] \in After(from[e], at)
     /\ claim' = FALSE
  \/ /\ claim' = TRUE
     /\ \E cs \in [Entities -> UNION {After(from[e], at) : e \in Entities}] :
          /\ \A e \in Entities : cs[e] \in After(from[e], at)
          /\ IsDue(cs)
          /\ clocks' = [e \in Entities |-> ClaimedClock(cs[e])]

-----------------------------------------------------------------------------
(* Plans *)

\* A plan begins: its first attempt, or its end when nothing is to be done.
Begins ==
  \/ \E e \in Entities : run' = [stage |-> "attempt", target |-> e, ended |-> NoTime]
  \/ run' = [stage |-> "ended", target |-> 0, ended |-> now]

\* A claim that is durable now.
Dispatched ==
  IF run.stage = "settled"
  THEN (IF claim THEN Begins ELSE run' = NoRun) /\ line' = line
  ELSE IF ~claim THEN UNCHANGED <<run, line>>
  ELSE IF run # NoRun \/ line > 0 THEN line' = line + 1 /\ run' = run
  ELSE Begins /\ line' = line

-----------------------------------------------------------------------------
(* Steps *)

Tick == now' = now + 1
        /\ UNCHANGED <<retry, clocks, saved, phase, claim, line, run, broken>>

\* The entities are looked at.
Look ==
  /\ ~claim /\ Update(clocks, NoTime)
  /\ UNCHANGED <<now, retry, saved, phase, line, run, broken>>

\* The plan has ended, and what it leaves counts again from its end.
Settle ==
  /\ ~claim /\ run.stage = "ended"
  /\ Update(clocks, run.ended)
  /\ run' = [run EXCEPT !.stage = "settled"]
  /\ UNCHANGED <<now, retry, saved, phase, line, broken>>

\* The claims of an interrupted plan are taken back.
Recover ==
  /\ ~claim /\ broken > 0 /\ broken' = broken - 1
  /\ Update(clocks, now) /\ claim' = FALSE
  /\ UNCHANGED <<now, retry, saved, phase, line, run>>

Save ==
  /\ saved' = clocks /\ claim' = FALSE
  /\ Dispatched
  /\ UNCHANGED <<now, retry, clocks, phase, broken>>

\* Plans take turns, and a plan goes through its targets in order.
NextTurn ==
  /\ run = NoRun /\ line > 0 /\ line' = line - 1 /\ Begins
  /\ UNCHANGED <<now, retry, clocks, saved, phase, claim, broken>>

NextTarget ==
  /\ run.stage = "attempt"
  /\ \/ \E e \in Entities : e > run.target /\ run' = [run EXCEPT !.target = e]
     \/ run' = [stage |-> "ended", target |-> 0, ended |-> now]
  /\ UNCHANGED <<now, retry, clocks, saved, phase, claim, line, broken>>

Interrupt ==
  /\ \/ run.stage = "attempt" /\ run' = NoRun /\ line' = line
     \/ line > 0 /\ line' = line - 1 /\ run' = run
  /\ broken' = broken + 1
  /\ UNCHANGED <<now, retry, clocks, saved, phase, claim>>

\* The process ends, in order or not; what it knew may be gone at once, and
\* the next one may have other options.
Down ==
  /\ phase' = "down" /\ retry' \in Nat \ {0}
  /\ \/ run = NoRun /\ line = 0 /\ ~claim /\ UNCHANGED clocks
     \/ clocks' = [e \in Entities |-> Idle]
  /\ claim' = FALSE /\ line' = 0 /\ run' = NoRun /\ broken' = 0
  /\ UNCHANGED <<now, saved>>

\* A process finds what was saved. Until it acts, nothing is claimed.
Restore ==
  /\ phase = "down"
  /\ phase' = "starting" /\ clocks' = saved
  /\ UNCHANGED <<now, retry, saved, claim, line, run, broken>>

\* It acts: no claim of the process before it is left.
Start ==
  /\ ~claim
  /\ \/ phase = "down" /\ Update(saved, now)
     \/ phase = "starting" /\ Update(clocks, now)
  /\ phase' = "up"
  /\ UNCHANGED <<now, retry, saved, line, run, broken>>

-----------------------------------------------------------------------------

Init ==
  /\ now = 0 /\ retry \in Nat \ {0}
  /\ clocks = [e \in Entities |-> Idle] /\ saved = clocks
  /\ phase = "down"
  /\ claim = FALSE /\ line = 0 /\ run = NoRun /\ broken = 0

Next ==
  \/ Tick \/ Look \/ Settle \/ Recover \/ Save
  \/ NextTurn \/ NextTarget \/ Interrupt
  \/ Down \/ Restore \/ Start

Spec == Init /\ [][Next]_vars
=============================================================================
