------------------------------ MODULE RuleOptions ------------------------------
(***************************************************************************)
(* The numbers of a rule: how they are read from stored options            *)
(* (models.py, RuleConfig.from_mapping) and how the forms show and read    *)
(* them (config_flow.py). A number that is missing, or that is not a       *)
(* finite number, is the empty set.                                        *)
(*                                                                         *)
(* Seconds are floats in the code. Here every number is a count of         *)
(* milliseconds, the finest field of a duration, so that a rule may have   *)
(* a fraction of a second.                                                 *)
(***************************************************************************)
EXTENDS Integers

CONSTANTS
  DefaultDelay,      \* DEFAULT_DELAY_SECONDS, in milliseconds, and so
  DefaultRetry,      \* DEFAULT_RETRY_INTERVAL_SECONDS
  MaxDelay           \* MAX_DELAY_SECONDS

ASSUME OptionAssumption ==
  /\ DefaultDelay \in Nat /\ DefaultRetry \in Nat /\ MaxDelay \in Nat
  /\ {DefaultDelay, DefaultRetry} \subseteq 1 .. MaxDelay

Optional(S) == {x \in SUBSET S : \A v, w \in x : v = w}

OrElse(value, default) == IF value = {} THEN default ELSE CHOOSE v \in value : TRUE

NotNegative(v) == IF v < 0 THEN 0 ELSE v

\* from_mapping: without a retry interval the delay is the interval.
FromMapping(o) ==
  LET delay == OrElse(o.delay, DefaultDelay)
  IN  [delay |-> NotNegative(delay),
       retry |-> NotNegative(OrElse(o.retry, delay))]

\* Old options are shown with the default interval.
EditedRetry_Mutant(o) == OrElse(o.retry, DefaultRetry)

\* The interval an options flow starts with.
EditedRetry(o) == OrElse(o.retry, OrElse(o.delay, DefaultRetry))

\* _accept_delay: what it refuses.
ValidDelay(s) == s >= 0 /\ s <= MaxDelay
ValidRetry(s) == s > 0 /\ s <= MaxDelay

-----------------------------------------------------------------------------
(* Durations, as the form shows and reads them *)

\* int(): the fraction of a second is cut off.
Whole(ms) == ms \div 1000

\* The form shows whole seconds, and has no field for less.
SecondsToDuration(ms) ==
  LET s == Whole(ms)
  IN  [days |-> s \div 86400, hours |-> (s % 86400) \div 3600,
       minutes |-> (s % 3600) \div 60, seconds |-> s % 60, milliseconds |-> 0]

\* What is read may have milliseconds.
DurationToSeconds(d) ==
  1000 * (86400 * d.days + 3600 * d.hours + 60 * d.minutes + d.seconds)
    + d.milliseconds
=============================================================================
