------------------------------ MODULE ReportProofs ------------------------------
(***************************************************************************)
(* What the reports of an entity leave in its cycle: CyclesFollowReports,  *)
(* for every set of entities, delay, policy, retry intervals and bound.    *)
(*                                                                         *)
(* The property speaks of a moment with the lock free. What makes it true  *)
(* relates the cycle of each entity to the reports of it that wait for the *)
(* lock: with none waiting, the cycle of an entity that is off or on is as *)
(* it should be (FollowOK), the last one waiting shows the state of the    *)
(* entity (LatestOK), and no clock is ahead of its entity, in memory, in   *)
(* the store or in a report (OldOK). Where no report can be missed, one    *)
(* that tells an old time is followed by an off (ExactOK), and the rule is *)
(* set up from an empty store (ColdOK).                                    *)
(*                                                                         *)
(* A set-up or a resumption looks at the states itself, and so overtakes   *)
(* the reports queued before it.                                           *)
(***************************************************************************)
EXTENDS CycleProofs

-----------------------------------------------------------------------------
(* Reports that wait *)

EventOf(j, e) == j.kind = "event" /\ j.ent = e
TakesOver(j) == j.kind \in {"setup", "resume"}

\* The jobs that have yet to run, where the reports of an entity are in them
\* that no later section overtakes, and all reports of the entity.
Rest == IF saving THEN Tail(queue) ELSE queue
Current(r, e) ==
  {i \in 1..Len(r) : EventOf(r[i], e) /\ \A k \in 1..Len(r) : k > i => ~TakesOver(r[k])}
ReportsOf(q, e) == {q[i] : i \in {k \in 1..Len(q) : EventOf(q[k], e)}}

\* After a step s has the reports that r had before, but for the first d jobs.
Carries(r, s, d, e) ==
  /\ \A i \in Nat : i > 0 => (i \in Current(s, e) <=> i + d \in Current(r, e))
  /\ \A i \in Current(s, e) : s[i] = r[i + d]

LEMMA CurrentIs ==
  ASSUME NEW r \in Seq(Jobs), NEW e
  PROVE  /\ Len(r) \in Nat
         /\ \A i \in Current(r, e) : i \in Nat /\ i > 0 /\ i \in 1..Len(r)
<1>1. Len(r) \in Nat
  OBVIOUS
<1> QED
  BY <1>1 DEF Current

LEMMA AppendCarries ==
  ASSUME NEW r \in Seq(Jobs), NEW j \in Jobs, NEW e, ~EventOf(j, e), ~TakesOver(j)
  PROVE  Carries(r, Append(r, j), 0, e) /\ ReportsOf(Append(r, j), e) = ReportsOf(r, e)
<1> DEFINE s == Append(r, j)
<1>1. /\ Len(s) = Len(r) + 1 /\ Len(r) \in Nat /\ s[Len(r) + 1] = j
      /\ \A i \in 1..Len(r) : s[i] = r[i]
  BY AppendElements
<1> HIDE DEF s
<1>2. \A i \in 1..Len(s) : i \in 1..Len(r) \/ s[i] = j
  BY <1>1
<1>3. \A i : i \in Current(s, e) <=> i \in Current(r, e)
  <2>1. ASSUME NEW i \in Current(s, e) PROVE i \in Current(r, e)
    BY <1>1, <1>2, <2>1 DEF Current
  <2>2. ASSUME NEW i \in Current(r, e) PROVE i \in Current(s, e)
    BY <1>1, <1>2, <2>2 DEF Current
  <2> QED
    BY <2>1, <2>2
<1>4. Carries(r, s, 0, e)
  <2>1. \A i \in Current(r, e) : i \in Nat /\ i \in 1..Len(r)
    BY CurrentIs
  <2> QED
    BY <1>1, <1>3, <2>1 DEF Carries
<1>5. ReportsOf(s, e) = ReportsOf(r, e)
  <2>1. \A k \in 1..Len(s) : EventOf(s[k], e) => k \in 1..Len(r) /\ s[k] = r[k]
    BY <1>1, <1>2
  <2>2. \A k \in 1..Len(r) : k \in 1..Len(s) /\ s[k] = r[k]
    BY <1>1
  <2> QED
    BY <2>1, <2>2 DEF ReportsOf
<1> QED
  BY <1>4, <1>5 DEF s

LEMMA TailCarries ==
  ASSUME NEW r \in Seq(Jobs), r # <<>>, NEW e
  PROVE  /\ Carries(r, Tail(r), 1, e) /\ ReportsOf(Tail(r), e) \subseteq ReportsOf(r, e)
         /\ r[1] = Head(r) /\ 1 \in 1..Len(r)
<1> DEFINE s == Tail(r)
<1>1. /\ s \in Seq(Jobs) /\ Len(r) \in Nat /\ Len(r) > 0 /\ Len(s) = Len(r) - 1
      /\ Head(r) = r[1] /\ \A i \in 1..Len(s) : i + 1 \in 1..Len(r) /\ s[i] = r[i + 1]
  BY TailElements
<1> HIDE DEF s
<1>2. ASSUME NEW i \in Nat, i > 0
      PROVE  i \in Current(s, e) <=> i + 1 \in Current(r, e)
  <2>1. ASSUME i \in Current(s, e) PROVE i + 1 \in Current(r, e)
    <3>1. i \in 1..Len(s) /\ EventOf(s[i], e) /\ \A k \in 1..Len(s) : k > i => ~TakesOver(s[k])
      BY <2>1 DEF Current
    <3>2. ASSUME NEW k \in 1..Len(r), k > i + 1 PROVE ~TakesOver(r[k])
      <4>1. k - 1 \in 1..Len(s) /\ k - 1 > i /\ (k - 1) + 1 = k
        BY <1>1, <1>2, <3>2
      <4> QED
        BY <1>1, <3>1, <4>1
    <3> QED
      BY <1>1, <3>1, <3>2 DEF Current
  <2>2. ASSUME i + 1 \in Current(r, e) PROVE i \in Current(s, e)
    <3>1. /\ i + 1 \in 1..Len(r) /\ EventOf(r[i + 1], e)
          /\ \A k \in 1..Len(r) : k > i + 1 => ~TakesOver(r[k])
      BY <2>2 DEF Current
    <3>2. i \in 1..Len(s)
      BY <1>1, <1>2, <3>1
    <3>3. ASSUME NEW k \in 1..Len(s), k > i PROVE ~TakesOver(s[k])
      <4>1. k + 1 > i + 1
        BY <1>1, <1>2, <3>3
      <4> QED
        BY <1>1, <3>1, <4>1
    <3> QED
      BY <1>1, <3>1, <3>2, <3>3 DEF Current
  <2> QED
    BY <2>1, <2>2
<1>3. \A i \in Current(s, e) : s[i] = r[i + 1]
  BY <1>1 DEF Current
<1>4. ReportsOf(s, e) \subseteq ReportsOf(r, e)
  BY <1>1 DEF ReportsOf
<1>5. Carries(r, s, 1, e)
  BY <1>2, <1>3 DEF Carries
<1> QED
  BY <1>1, <1>4, <1>5 DEF s

LEMMA OutdatedCarries ==
  ASSUME NEW r \in Seq(Jobs), NEW e
  PROVE  Carries(r, Outdated(r), 0, e) /\ ReportsOf(Outdated(r), e) = ReportsOf(r, e)
<1> DEFINE s == Outdated(r)
<1>1. Len(r) \in Nat /\ Len(s) = Len(r) /\ DOMAIN r = 1..Len(r)
      /\ \A i \in 1..Len(r) : r[i] \in Jobs
  BY OutdatedType
<1>2. \A i \in 1..Len(r) : \/ s[i] = r[i]
                           \/ r[i].kind = "deadline" /\ s[i].kind = "outdated"
  <2>1. \A j \in Jobs : [j EXCEPT !.kind = "outdated"].kind = "outdated"
    BY DEF Jobs
  <2> QED
    BY <1>1, <2>1 DEF Outdated
<1> HIDE DEF s
<1>3. \A i \in 1..Len(r) : /\ EventOf(s[i], e) <=> EventOf(r[i], e)
                           /\ TakesOver(s[i]) <=> TakesOver(r[i])
                           /\ EventOf(r[i], e) => s[i] = r[i]
  BY <1>2 DEF EventOf, TakesOver
<1>4. Current(s, e) = Current(r, e)
  BY <1>1, <1>3 DEF Current
<1>5. Carries(r, s, 0, e)
  <2>1. \A i \in Current(r, e) : i + 0 = i /\ s[i] = r[i]
    BY <1>1, <1>3 DEF Current
  <2>2. \A i \in Nat : i + 0 = i
    OBVIOUS
  <2> QED
    BY <1>4, <2>1, <2>2 DEF Carries
<1>6. ReportsOf(s, e) = ReportsOf(r, e)
  BY <1>1, <1>3 DEF ReportsOf
<1> QED
  BY <1>5, <1>6 DEF s

LEMMA CarriesOn ==
  ASSUME NEW r \in Seq(Jobs), NEW s \in Seq(Jobs), NEW t \in Seq(Jobs), NEW e,
         NEW d \in Nat, NEW f \in Nat, Carries(r, s, d, e), Carries(s, t, f, e)
  PROVE  Carries(r, t, f + d, e)
<1>1. ASSUME NEW i \in Nat, i > 0
      PROVE  i \in Current(t, e) <=> i + (f + d) \in Current(r, e)
  <2>1. i + f \in Nat /\ i + f > 0 /\ (i + f) + d = i + (f + d)
    BY <1>1
  <2> QED
    BY <1>1, <2>1 DEF Carries
<1>2. ASSUME NEW i \in Current(t, e) PROVE t[i] = r[i + (f + d)]
  <2>1. i \in Nat /\ i > 0
    BY CurrentIs
  <2>2. i + f \in Current(s, e) /\ t[i] = s[i + f]
    BY <2>1 DEF Carries
  <2>3. (i + f) + d = i + (f + d)
    BY <2>1
  <2> QED
    BY <2>2, <2>3 DEF Carries
<1> QED
  BY <1>1, <1>2 DEF Carries

\* The last report of an entity shows its state, in the queue before the step
\* and after it; a report of on that tells an old time is followed by an off.
LastReport(r, e, seen, at) ==
  \A i \in Current(r, e) :
    (\A k \in Current(r, e) : k <= i) => r[i].seen = seen /\ r[i].at = at
OffWaits(r, e) == \E k \in Current(r, e) : r[k].seen = "off"
Dated(r, e, seen, at) ==
  \A i \in Current(r, e) :
    r[i].seen = "on" => \/ seen = "on" /\ r[i].at = at
                        \/ \E k \in Current(r, e) : k > i /\ r[k].seen = "off"

LEMMA CarriedReports ==
  ASSUME NEW r \in Seq(Jobs), NEW s \in Seq(Jobs), NEW e, NEW d \in {0, 1}, Carries(r, s, d, e)
  PROVE  /\ \A i \in Current(s, e) : i + d \in Current(r, e) /\ s[i] = r[i + d]
         /\ \A k \in Current(r, e) : \/ d = 1 /\ k = 1
                                     \/ k - d \in Current(s, e) /\ r[k] = s[k - d]
<1>1. \A i \in Current(s, e) : i \in Nat /\ i > 0
  BY CurrentIs
<1>2. ASSUME NEW k \in Current(r, e)
      PROVE  (d = 1 /\ k = 1) \/ (k - d \in Current(s, e) /\ r[k] = s[k - d])
  <2>1. k \in Nat /\ k > 0
    BY CurrentIs
  <2>2. CASE k > d
    <3>1. k - d \in Nat /\ k - d > 0 /\ (k - d) + d = k
      BY <2>1, <2>2
    <3> QED
      BY <3>1 DEF Carries
  <2>3. CASE ~(k > d)
    BY <2>1, <2>3
  <2> QED
    BY <2>2, <2>3
<1> QED
  BY <1>1, <1>2 DEF Carries

LEMMA CarriedLast ==
  ASSUME NEW r \in Seq(Jobs), NEW s \in Seq(Jobs), NEW e, NEW d \in {0, 1}, Carries(r, s, d, e),
         NEW seen, NEW at
  PROVE  /\ LastReport(r, e, seen, at) => LastReport(s, e, seen, at)
         /\ Dated(r, e, seen, at) => Dated(s, e, seen, at)
         /\ OffWaits(r, e) => OffWaits(s, e) \/ (d = 1 /\ 1 \in Current(r, e) /\ r[1].seen = "off")
<1>1. /\ \A i \in Current(s, e) : i + d \in Current(r, e) /\ s[i] = r[i + d]
      /\ \A k \in Current(r, e) : \/ d = 1 /\ k = 1
                                  \/ k - d \in Current(s, e) /\ r[k] = s[k - d]
  BY CarriedReports
<1>2. /\ \A i \in Current(s, e) : i \in Nat /\ i > 0
      /\ \A i \in Current(r, e) : i \in Nat /\ i > 0
  BY CurrentIs
<1>3. ASSUME LastReport(r, e, seen, at), NEW i \in Current(s, e),
             \A k \in Current(s, e) : k <= i
      PROVE  s[i].seen = seen /\ s[i].at = at
  <2>1. ASSUME NEW k \in Current(r, e) PROVE k <= i + d
    <3>1. CASE d = 1 /\ k = 1
      BY <1>2, <3>1
    <3>2. CASE k - d \in Current(s, e)
      BY <1>2, <1>3, <3>2
    <3> QED
      BY <1>1, <3>1, <3>2
  <2> QED
    BY <1>1, <1>3, <2>1 DEF LastReport
<1>4. ASSUME Dated(r, e, seen, at), NEW i \in Current(s, e)
      PROVE  s[i].seen = "on" => \/ seen = "on" /\ s[i].at = at
                                 \/ \E k \in Current(s, e) : k > i /\ s[k].seen = "off"
  <2>1. i + d \in Current(r, e) /\ s[i] = r[i + d]
    BY <1>1
  <2>2. ASSUME NEW k \in Current(r, e), k > i + d, r[k].seen = "off"
        PROVE  \E n \in Current(s, e) : n > i /\ s[n].seen = "off"
    <3>1. k - d \in Current(s, e) /\ r[k] = s[k - d]
      BY <1>1, <1>2, <2>2
    <3>2. k - d > i
      BY <1>2, <2>2
    <3> QED
      BY <2>2, <3>1, <3>2
  <2> QED
    BY <1>4, <2>1, <2>2 DEF Dated
<1>5. OffWaits(r, e) => OffWaits(s, e) \/ (d = 1 /\ 1 \in Current(r, e) /\ r[1].seen = "off")
  BY <1>1 DEF OffWaits
<1> QED
  BY <1>3, <1>4, <1>5 DEF LastReport, Dated

\* A new report is the last; a section that looks at the states itself follows
\* them all.
LEMMA ReportAppended ==
  ASSUME NEW r \in Seq(Jobs), NEW j \in Jobs, NEW e, EventOf(j, e)
  PROVE  /\ Current(Append(r, j), e) = Current(r, e) \cup {Len(r) + 1}
         /\ Append(r, j)[Len(r) + 1] = j
         /\ \A i \in Current(r, e) : Append(r, j)[i] = r[i] /\ i < Len(r) + 1
         /\ ReportsOf(Append(r, j), e) = ReportsOf(r, e) \cup {j}
<1> DEFINE s == Append(r, j)
<1>1. /\ Len(s) = Len(r) + 1 /\ Len(r) \in Nat /\ s[Len(r) + 1] = j
      /\ \A i \in 1..Len(r) : s[i] = r[i]
  BY AppendElements
<1> HIDE DEF s
<1>2. ~TakesOver(j)
  BY DEF EventOf, TakesOver
<1>3. ASSUME NEW i \in Current(r, e) PROVE i \in Current(s, e) /\ s[i] = r[i] /\ i < Len(r) + 1
  <2>1. i \in 1..Len(r) /\ EventOf(s[i], e) /\ i \in 1..Len(s)
    BY <1>1 DEF Current
  <2>2. ASSUME NEW k \in 1..Len(s), k > i PROVE ~TakesOver(s[k])
    <3>1. CASE k \in 1..Len(r)
      BY <1>1, <2>2, <3>1 DEF Current
    <3>2. CASE k = Len(r) + 1
      BY <1>1, <1>2, <3>2
    <3> QED
      BY <1>1, <3>1, <3>2
  <2> QED
    BY <1>1, <2>1, <2>2 DEF Current
<1>4. Len(r) + 1 \in Current(s, e)
  BY <1>1 DEF Current
<1>5. ASSUME NEW i \in Current(s, e), i # Len(r) + 1 PROVE i \in Current(r, e)
  <2>1. i \in 1..Len(r) /\ EventOf(r[i], e)
    BY <1>1, <1>5 DEF Current
  <2>2. ASSUME NEW k \in 1..Len(r), k > i PROVE ~TakesOver(r[k])
    BY <1>1, <2>2 DEF Current
  <2> QED
    BY <2>1, <2>2 DEF Current
<1>6. ReportsOf(s, e) = ReportsOf(r, e) \cup {j}
  <2>1. \A k \in 1..Len(s) : k \in 1..Len(r) \/ k = Len(r) + 1
    BY <1>1
  <2>2. Len(r) + 1 \in 1..Len(s) /\ \A k \in 1..Len(r) : k \in 1..Len(s)
    BY <1>1
  <2> QED
    BY <1>1, <2>1, <2>2 DEF ReportsOf
<1>7. Current(s, e) = Current(r, e) \cup {Len(r) + 1}
  BY <1>3, <1>4, <1>5
<1> QED
  BY <1>1, <1>3, <1>6, <1>7 DEF s

LEMMA TakenOver ==
  ASSUME NEW r \in Seq(Jobs), NEW j \in Jobs, NEW e, TakesOver(j)
  PROVE  /\ Current(Append(r, j), e) = {}
         /\ ReportsOf(Append(r, j), e) = ReportsOf(r, e)
<1> DEFINE s == Append(r, j)
<1>1. /\ Len(s) = Len(r) + 1 /\ Len(r) \in Nat /\ s[Len(r) + 1] = j
      /\ \A i \in 1..Len(r) : s[i] = r[i]
  BY AppendElements
<1> HIDE DEF s
<1>2. ~EventOf(j, e)
  BY DEF EventOf, TakesOver
<1>3. ASSUME NEW i \in Current(s, e) PROVE FALSE
  <2>1. i \in 1..Len(r)
    BY <1>1, <1>2 DEF Current
  <2>2. Len(r) + 1 \in 1..Len(s) /\ Len(r) + 1 > i
    BY <1>1, <2>1
  <2> QED
    BY <1>1, <2>2 DEF Current
<1>4. ReportsOf(s, e) = ReportsOf(r, e)
  <2>1. \A k \in 1..Len(s) : EventOf(s[k], e) => k \in 1..Len(r) /\ s[k] = r[k]
    BY <1>1, <1>2
  <2>2. \A k \in 1..Len(r) : k \in 1..Len(s) /\ s[k] = r[k]
    BY <1>1
  <2> QED
    BY <2>1, <2>2 DEF ReportsOf
<1> QED
  BY <1>3, <1>4 DEF s

LEMMA SameCarries ==
  ASSUME NEW r \in Seq(Jobs), NEW e
  PROVE  Carries(r, r, 0, e)
<1>1. \A i \in Nat : i + 0 = i
  OBVIOUS
<1>2. \A i \in Current(r, e) : i + 0 = i
  BY CurrentIs
<1> QED
  BY <1>1, <1>2 DEF Carries

LEMMA RestIs ==
  ASSUME TypeOK
  PROVE  /\ Rest \in Seq(Jobs) /\ queue \in Seq(Jobs)
         /\ saving \in BOOLEAN /\ (saving => queue # <<>>)
<1>1. queue \in Seq(Jobs) /\ saving \in BOOLEAN /\ (saving => queue # <<>>)
  BY DEF TypeOK, TasksOK
<1>2. saving => Tail(queue) \in Seq(Jobs)
  BY <1>1, TailElements
<1> QED
  BY <1>1, <1>2 DEF Rest

LEMMA RestAppended ==
  ASSUME TypeOK, NEW j \in Jobs, saving' = saving, queue' = Append(queue, j)
  PROVE  Rest' = Append(Rest, j) /\ TakingOver' = TakingOver
<1>1. queue \in Seq(Jobs) /\ saving \in BOOLEAN /\ (saving => queue # <<>>)
  BY RestIs
<1>2. saving => Tail(Append(queue, j)) = Append(Tail(queue), j)
  BY <1>1
<1>3. saving => Head(queue') = Head(queue)
  BY <1>1, AppendElements
<1> QED
  BY <1>1, <1>2, <1>3 DEF Rest, TakingOver

\* A step that queues nothing about an entity and takes nothing from the queue.
LEMMA UnheardStep ==
  ASSUME TypeOK, NEW e, saving' = saving,
         \/ queue' = queue
         \/ \E j \in Jobs : queue' = Append(queue, j) /\ ~EventOf(j, e) /\ ~TakesOver(j)
  PROVE  /\ Carries(Rest, Rest', 0, e) /\ ReportsOf(queue', e) = ReportsOf(queue, e)
         /\ TakingOver' = TakingOver
<1>1. Rest \in Seq(Jobs) /\ queue \in Seq(Jobs)
  BY RestIs
<1>2. CASE queue' = queue
  <2>1. Rest' = Rest
    BY <1>2 DEF Rest
  <2> QED
    BY <1>1, <1>2, <2>1, SameCarries DEF TakingOver
<1>3. ASSUME NEW j \in Jobs, queue' = Append(queue, j), ~EventOf(j, e), ~TakesOver(j)
      PROVE  /\ Carries(Rest, Rest', 0, e) /\ ReportsOf(queue', e) = ReportsOf(queue, e)
             /\ TakingOver' = TakingOver
  <2>1. Rest' = Append(Rest, j) /\ TakingOver' = TakingOver
    BY <1>3, RestAppended
  <2>2. Carries(Rest, Rest', 0, e)
    BY <1>1, <1>3, <2>1, AppendCarries
  <2>3. ReportsOf(queue', e) = ReportsOf(queue, e)
    BY <1>1, <1>3, AppendCarries
  <2> QED
    BY <2>1, <2>2, <2>3
<1> QED
  BY <1>2, <1>3

-----------------------------------------------------------------------------
(* The steps, as the cycle of one entity sees them *)

\* No section runs, and the entity reports nothing.
Undisturbed(e) ==
  /\ Carries(Rest, Rest', 0, e) \/ (Current(Rest', e) = {} /\ ~InCharge')
  /\ ReportsOf(queue', e) \subseteq ReportsOf(queue, e)
  /\ entState'[e] = entState[e] /\ changedAt'[e] = changedAt[e]
  /\ now' \in {now, now + 1}
  /\ cycles' = cycles \/ (cycles' = NoCycles /\ ~InCharge')
  /\ InCharge' => InCharge /\ starting' = starting
  /\ subscribed' => subscribed \/ Current(Rest', e) = {}

LEMMA HomeUndisturbed ==
  ASSUME TypeOK, NEW e \in Entities, Tick \/ Fire \/ Environment, ~Crash,
         ~\E s \in Reports : Report(e, s)
  PROVE  Undisturbed(e)
<1>1. /\ UNCHANGED <<entry, starting, subscribed, cycles, saving>>
  BY HomeSummary
<1>2. \/ queue' = queue
      \/ \E j \in Jobs : queue' = Append(queue, j) /\ ~EventOf(j, e) /\ ~TakesOver(j)
  <2>1. CASE \E f \in Entities, s \in Reports : Report(f, s)
    <3>1. PICK f \in Entities, s \in Reports : Report(f, s)
      BY <2>1
    <3> DEFINE j == Job("event", f, s, ChangedAt(s))
    <3>2. f # e
      BY <3>1
    <3>3. j \in Jobs
      BY NoneType DEF Job, Jobs, JobKinds, ChangedAt, TypeOK, WorldOK
    <3>4. ~EventOf(j, e) /\ ~TakesOver(j)
      BY <3>2 DEF Job, EventOf, TakesOver
    <3>5. queue' = queue \/ queue' = Append(queue, j)
      BY <3>1 DEF Report, Notify, Post
    <3> QED
      BY <3>3, <3>4, <3>5
  <2>2. CASE \E g \in {"off", "on", "bad"} : MoveGate(g)
    <3>1. PICK g \in {"off", "on", "bad"} : MoveGate(g)
      BY <2>2
    <3> DEFINE j == Job("event", Gate, g, NoTime)
    <3>2. j \in Jobs
      BY NoneType DEF Job, Jobs, JobKinds
    <3>3. e # Gate
      BY RuleAssumption DEF Gate
    <3>4. ~EventOf(j, e) /\ ~TakesOver(j)
      BY <3>3 DEF Job, EventOf, TakesOver
    <3>5. queue' = queue \/ queue' = Append(queue, j)
      BY <3>1 DEF MoveGate, Notify, Post
    <3> QED
      BY <3>2, <3>4, <3>5
  <2>3. CASE ~(\E f \in Entities, s \in Reports : Report(f, s))
             /\ ~\E g \in {"off", "on", "bad"} : MoveGate(g)
    <3>1. \/ queue' = queue
          \/ \E k \in {"deadline", "started", "enable", "disable"}, t \in {NoTime, timer} :
               queue' = Append(queue, Call(k, t))
      BY <2>3 DEF Environment, Tick, Fire, ChangeRegistry, HaStarts, RequestEnable,
                  RequestDisable, Post, tasks
    <3>2. \A k \in {"deadline", "started", "enable", "disable"}, t \in {NoTime, timer} :
            Call(k, t) \in Jobs /\ ~EventOf(Call(k, t), e) /\ ~TakesOver(Call(k, t))
      <4>1. \A k \in {"deadline", "started", "enable", "disable"}, t \in {NoTime, timer} :
              Call(k, t) \in Jobs
        BY CallIsJob, NoneType DEF JobKinds, TypeOK, RuleOK
      <4> QED
        BY <4>1 DEF Call, Job, EventOf, TakesOver
    <3> QED
      BY <3>1, <3>2
  <2> QED
    BY <2>1, <2>2, <2>3
<1>3. entState'[e] = entState[e] /\ changedAt'[e] = changedAt[e]
  <2>1. CASE \E f \in Entities, s \in Reports : Report(f, s)
    BY <2>1 DEF Report, TypeOK, WorldOK
  <2>2. CASE ~\E f \in Entities, s \in Reports : Report(f, s)
    BY <2>2 DEF Environment, Tick, Fire, ChangeRegistry, MoveGate, HaStarts, RequestEnable,
                RequestDisable, world
  <2> QED
    BY <2>1, <2>2
<1>4. now' \in {now, now + 1}
  BY DEF Environment, Tick, Fire, Report, ChangeRegistry, MoveGate, HaStarts, RequestEnable,
         RequestDisable, world
<1>5. /\ Carries(Rest, Rest', 0, e) /\ ReportsOf(queue', e) = ReportsOf(queue, e)
      /\ TakingOver' = TakingOver
  BY <1>1, <1>2, UnheardStep
<1> QED
  BY <1>1, <1>3, <1>4, <1>5 DEF Undisturbed, InCharge

LEMMA ExecutionUndisturbed ==
  ASSUME LifeInv, NEW e \in Entities, Execution
  PROVE  Undisturbed(e)
<1>1. /\ UNCHANGED <<world, entry, rule, phase, saving>>
      /\ \/ queue' = queue
         \/ \E k \in RunKinds \cup {"cancelled"} : queue' = Append(queue, Call(k, NoTime))
  BY ExecutionSummary DEF LifeInv
<1>2. \A k \in RunKinds \cup {"cancelled"} :
        /\ Call(k, NoTime) \in Jobs
        /\ ~EventOf(Call(k, NoTime), e) /\ ~TakesOver(Call(k, NoTime))
  BY RunCalls DEF RunKinds, EventOf, TakesOver
<1>3. /\ Carries(Rest, Rest', 0, e) /\ ReportsOf(queue', e) = ReportsOf(queue, e)
      /\ TakingOver' = TakingOver
  BY <1>1, <1>2, UnheardStep DEF LifeInv
<1> QED
  BY <1>1, <1>3 DEF Undisturbed, InCharge, world, rule, phase

LEMMA LifeCycleUndisturbed ==
  ASSUME QuietInv, NEW e \in Entities, LifeCycle
  PROVE  Undisturbed(e)
<1>1. Rest \in Seq(Jobs) /\ queue \in Seq(Jobs) /\ TypeOK
  BY RestIs DEF QuietInv, LifeInv
<1>2. /\ entry' # "loaded" /\ UNCHANGED world
      /\ cycles' \in {cycles, NoCycles}
  BY DEF LifeCycle, Load, ReadStore, LoadFails, RollBack, BeginSetup, BeginStop, FinishUnload,
         RejectUnload, rule
<1>3. CASE LoadFails
  <2>1. ~saving
    BY <1>3, NoLifeJob DEF LoadFails, QuietInv, QuietOK, AwaitingOK, Awaiting
  <2>2. Rest = queue /\ Rest' = Outdated(queue) /\ queue' = Outdated(queue) /\ ~InCharge'
    BY <1>3, <2>1 DEF LoadFails, RollBack, Rest, InCharge, TakingOver
  <2> QED
    BY <1>1, <1>2, <1>3, <2>2, OutdatedCarries
       DEF Undisturbed, LoadFails, RollBack, world
<1>4. CASE ~LoadFails
  <2>1. /\ entry \notin {"setup", "stopping", "resuming"} /\ saving' = saving
        /\ \/ queue' = queue /\ (subscribed' => subscribed)
           \/ queue' = Append(queue, Call("stop", NoTime)) /\ (subscribed' => subscribed)
           \/ queue' = Append(queue, Call("setup", NoTime))
           \/ queue' = Append(queue, Call("resume", NoTime))
    BY <1>4 DEF LifeCycle, Load, ReadStore, BeginSetup, BeginStop, FinishUnload, RejectUnload,
                Post, tasks, phase
  <2>2. ~TakingOver
    BY <2>1, NoLifeJob DEF QuietInv
  <2>3. \A k \in LifeKinds : Call(k, NoTime) \in Jobs /\ Call(k, NoTime).kind = k
    BY CallIsJob, NoneType DEF JobKinds, LifeKinds, Call, Job
  <2>4. CASE queue' \in {queue, Append(queue, Call("stop", NoTime))} /\ (subscribed' => subscribed)
    <3>1. /\ Call("stop", NoTime) \in Jobs
          /\ ~EventOf(Call("stop", NoTime), e) /\ ~TakesOver(Call("stop", NoTime))
      BY <2>3 DEF LifeKinds, EventOf, TakesOver
    <3>2. /\ Carries(Rest, Rest', 0, e) /\ ReportsOf(queue', e) = ReportsOf(queue, e)
          /\ TakingOver' = TakingOver
      BY <1>1, <2>1, <2>4, <3>1, UnheardStep
    <3> QED
      BY <1>2, <2>2, <2>4, <3>2 DEF Undisturbed, InCharge, world
  <2>5. ASSUME NEW k \in {"setup", "resume"}, queue' = Append(queue, Call(k, NoTime))
        PROVE  Undisturbed(e)
    <3>1. Call(k, NoTime) \in Jobs /\ TakesOver(Call(k, NoTime))
      BY <2>3 DEF LifeKinds, TakesOver
    <3>2. Rest' = Append(Rest, Call(k, NoTime)) /\ TakingOver' = TakingOver
      BY <1>1, <2>1, <2>5, <3>1, RestAppended
    <3>3. Current(Rest', e) = {} /\ ReportsOf(queue', e) = ReportsOf(queue, e)
      BY <1>1, <2>5, <3>1, <3>2, TakenOver
    <3> QED
      BY <1>2, <2>2, <3>2, <3>3 DEF Undisturbed, InCharge, world
  <2> QED
    BY <2>1, <2>4, <2>5
<1> QED
  BY <1>3, <1>4

\* The lock is released: what follows queues no report and no such section.
LEMMA ReleasedReports ==
  ASSUME NEW r \in Seq(Jobs), NEW e, NEW kind, NEW p, Release(kind, p, r)
  PROVE  /\ saving' = FALSE /\ entry' = EntryAfter(kind)
         /\ Rest' = queue' /\ queue' \in Seq(Jobs) /\ Carries(r, queue', 0, e)
         /\ ReportsOf(queue', e) = ReportsOf(r, e)
<1>1. /\ saving' = FALSE /\ entry' = EntryAfter(kind)
      /\ \/ queue' = r
         \/ \E k \in RunKinds : queue' = Append(r, Call(k, NoTime))
  BY ReleaseRun
<1>2. Rest' = queue'
  BY <1>1 DEF Rest
<1>3. CASE queue' = r
  BY <1>1, <1>2, <1>3, SameCarries
<1>4. ASSUME NEW k \in RunKinds, queue' = Append(r, Call(k, NoTime))
      PROVE  /\ queue' \in Seq(Jobs) /\ Carries(r, queue', 0, e)
             /\ ReportsOf(queue', e) = ReportsOf(r, e)
  <2>1. /\ Call(k, NoTime) \in Jobs
        /\ ~EventOf(Call(k, NoTime), e) /\ ~TakesOver(Call(k, NoTime))
    BY RunCalls DEF RunKinds, EventOf, TakesOver
  <2> QED
    BY <1>4, <2>1, AppendCarries
<1> QED
  BY <1>1, <1>2, <1>3, <1>4

LEMMA SaveEndsUndisturbed ==
  ASSUME QuietInv, NEW e \in Entities, SaveEnds
  PROVE  Undisturbed(e)
<1>1. /\ Rest \in Seq(Jobs) /\ queue \in Seq(Jobs) /\ TypeOK
      /\ saving /\ queue # <<>> /\ Rest = Tail(queue)
  BY RestIs, SaveEndsSummary DEF QuietInv, LifeInv, Rest
<1>2. ReportsOf(Tail(queue), e) \subseteq ReportsOf(queue, e)
  BY <1>1, TailCarries
<1>3. CASE SetupSaveFails \/ ResumeSaveFails
  <2>1. Rest' = Outdated(Rest) /\ queue' = Outdated(Rest) /\ ~InCharge'
    BY <1>1, <1>3 DEF SetupSaveFails, ResumeSaveFails, RollBack, Rest, InCharge, TakingOver
  <2>2. Carries(Rest, Rest', 0, e) /\ ReportsOf(queue', e) \subseteq ReportsOf(queue, e)
    BY <1>1, <1>2, <2>1, OutdatedCarries
  <2>3. /\ UNCHANGED world /\ cycles' \in {cycles, NoCycles} /\ (subscribed' => subscribed)
    BY <1>3 DEF SetupSaveFails, ResumeSaveFails, RollBack
  <2> QED
    BY <2>1, <2>2, <2>3 DEF Undisturbed, world
<1>4. ASSUME NEW p, Release(Head(queue).kind, p, Tail(queue)),
             UNCHANGED <<world, config, phase, enabled, status, cycles, unavailable, timer,
                         lastExec>>
      PROVE  Undisturbed(e)
  <2>1. /\ saving' = FALSE /\ entry' = EntryAfter(Head(queue).kind)
        /\ Carries(Rest, Rest', 0, e) /\ ReportsOf(queue', e) = ReportsOf(Rest, e)
    BY <1>1, <1>4, ReleasedReports
  <2>2. InCharge' => InCharge
    BY <1>1, <2>1 DEF InCharge, TakingOver, EntryAfter
  <2> QED
    BY <1>1, <1>2, <1>4, <2>1, <2>2 DEF Undisturbed, world, phase
<1> QED
  BY <1>3, <1>4, SaveEndsSummary DEF QuietInv, LifeInv

\* The jobs that wait behind the holder of the lock are those of the queue
\* without its head.
LEMMA SkipReports ==
  ASSUME QuietInv, NEW e \in Entities, Skip
  PROVE  /\ ~saving /\ queue # <<>> /\ Rest = queue /\ Carries(Rest, Rest', 1, e)
         /\ ReportsOf(queue', e) \subseteq ReportsOf(queue, e)
         /\ UNCHANGED <<world, cycles, starting, subscribed, disk, snapshot>>
         /\ InCharge' => InCharge /\ 1 \notin Current(Rest, e)
<1>1. /\ queue # <<>> /\ ~saving /\ ~saving' /\ Stale(Head(queue)) /\ queue' = Tail(queue)
      /\ UNCHANGED <<world, cycles, starting, subscribed, entry, disk, snapshot>>
  BY DEF Skip, rule, phase, store, config
<1>2. queue \in Seq(Jobs)
  BY RestIs DEF QuietInv, LifeInv
<1>3. Rest = queue /\ Rest' = Tail(queue)
  BY <1>1 DEF Rest
<1>4. /\ Carries(Rest, Rest', 1, e) /\ ReportsOf(queue', e) \subseteq ReportsOf(queue, e)
      /\ queue[1] = Head(queue)
  BY <1>1, <1>2, <1>3, TailCarries
<1>5. ASSUME InCharge' PROVE InCharge /\ 1 \notin Current(Rest, e)
  <2>1. entry = "loaded"
    BY <1>1, <1>5 DEF InCharge, TakingOver
  <2>2. setupComplete /\ ~unloaded
    BY <2>1 DEF QuietInv, LifeInv, LifeOK, InCharge
  <2>3. Head(queue).kind # "event"
    BY <1>1, <2>2 DEF Stale
  <2> QED
    BY <1>3, <1>4, <2>1, <2>3 DEF InCharge, Current, EventOf
<1> QED
  BY <1>1, <1>3, <1>4, <1>5

LEMMA SectionReports ==
  ASSUME QuietInv, NEW e \in Entities, NEW kind, NEW p, NEW q, SectionRuns(kind, p, q),
         SectionSaves(kind, p, q) \/ SectionWaits(kind, p, q)
  PROVE  /\ ~saving /\ queue # <<>> /\ Rest = queue /\ kind = Head(queue).kind
         /\ Carries(Rest, Rest', 1, e)
         /\ ReportsOf(queue', e) \subseteq ReportsOf(queue, e)
         /\ UNCHANGED <<world, subscribed, disk>>
         /\ InCharge' => InCharge \/ TakesOver(Head(queue))
         /\ ~TakesOver(Head(queue)) /\ starting /\ ~starting' => kind = "started"
<1>1. /\ queue # <<>> /\ ~saving /\ kind = Head(queue).kind /\ q \in {queue, Outdated(queue)}
      /\ UNCHANGED <<world, subscribed, disk>>
  BY DEF SectionRuns, store
<1>2. queue \in Seq(Jobs) /\ TypeOK
  BY RestIs DEF QuietInv, LifeInv
<1>3. /\ q \in Seq(Jobs) /\ q # <<>> /\ Tail(q) \in Seq(Jobs)
      /\ TakesOver(Head(q)) => TakesOver(Head(queue))
  BY <1>1, <1>2, SectionQueue DEF TakesOver
<1>4. Carries(queue, q, 0, e) /\ ReportsOf(q, e) = ReportsOf(queue, e)
  BY <1>1, <1>2, SameCarries, OutdatedCarries
<1>5. Carries(queue, Tail(q), 1, e) /\ ReportsOf(Tail(q), e) \subseteq ReportsOf(queue, e)
  <2>1. Carries(q, Tail(q), 1, e) /\ ReportsOf(Tail(q), e) \subseteq ReportsOf(q, e)
    BY <1>3, TailCarries
  <2>2. Carries(queue, Tail(q), 1 + 0, e)
    BY <1>2, <1>3, <1>4, <2>1, CarriesOn
  <2> QED
    BY <1>4, <2>1, <2>2
<1>6. CASE saving' /\ queue' = q /\ entry' = entry
  <2>1. Rest' = Tail(q)
    BY <1>6 DEF Rest
  <2>2. InCharge' => InCharge \/ TakesOver(Head(queue))
    BY <1>3, <1>6 DEF InCharge, TakingOver, TakesOver
  <2>3. /\ Rest = queue /\ Carries(Rest, Rest', 1, e)
        /\ ReportsOf(queue', e) \subseteq ReportsOf(queue, e)
    BY <1>1, <1>4, <1>5, <1>6, <2>1 DEF Rest
  <2> QED
    BY <1>1, <2>2, <2>3 DEF SectionSaves, SectionWaits, TakesOver
<1>7. CASE Release(kind, p, Tail(q))
  <2>1. /\ saving' = FALSE /\ entry' = EntryAfter(kind)
        /\ Rest' = queue' /\ queue' \in Seq(Jobs) /\ Carries(Tail(q), queue', 0, e)
        /\ ReportsOf(queue', e) = ReportsOf(Tail(q), e)
    BY <1>3, <1>7, ReleasedReports
  <2>2. Carries(queue, queue', 0 + 1, e)
    BY <1>2, <1>3, <1>5, <2>1, CarriesOn
  <2>3. InCharge' => InCharge \/ TakesOver(Head(queue))
    BY <1>1, <2>1 DEF InCharge, TakingOver, EntryAfter, TakesOver
  <2>4. /\ Rest = queue /\ Carries(Rest, Rest', 1, e)
        /\ ReportsOf(queue', e) \subseteq ReportsOf(queue, e)
    BY <1>1, <1>5, <2>1, <2>2 DEF Rest
  <2> QED
    BY <1>1, <2>3, <2>4 DEF SectionSaves, SectionWaits, TakesOver
<1> QED
  BY <1>6, <1>7 DEF SectionSaves, SectionWaits, Save

\* The start of a cycle that is matched to a report.
NewStart(start, seen, at) ==
  IF seen = "off" THEN NoTime
  ELSE IF seen = "on" /\ start = NoTime THEN at ELSE start

LEMMA SyncedStart ==
  ASSUME NEW cs \in Cycles, Clocked(cs), NEW seen, NEW since, AllAllowed, NEW e \in Entities
  PROVE  Synced(cs, seen, since, allowed)[e].started
           = NewStart(cs[e].started, seen[e], since[e])
<1>1. cs[e].started = NoTime <=> cs[e] = NoCycle
  <2>1. NoCycle.started = NoTime
    BY DEF NoCycle
  <2> QED
    BY <2>1 DEF Clocked
<1>2. allowed[e]
  BY DEF AllAllowed
<1> QED
  BY <1>1, <1>2 DEF Synced, NewStart, NoCycle

\* What a section does to the cycle of an entity.
Kept(kind, e) ==
  /\ cycles'[e].started = Base(kind)[e].started
  /\ \/ kind \in {"enable", "disable", "stop", "blocked"}
     \/ kind \in {"setup", "resume"} /\ starting'
  /\ ~EventOf(Head(queue), e)
Looked(kind, e) ==
  /\ cycles'[e].started = NewStart(Base(kind)[e].started, entState[e], changedAt[e])
  /\ ~EventOf(Head(queue), e)
Told(e) ==
  /\ cycles'[e].started
       = NewStart(cycles[e].started, Head(queue).seen, Head(queue).at)
  /\ EventOf(Head(queue), e)

LEMMA SectionFollows ==
  ASSUME TypeOK, ClockedOK, AllAllowed, NEW kind, NEW p, NEW q, SectionRuns(kind, p, q),
         SectionCycles(kind, p), NEW e \in Entities
  PROVE  Clocked(cycles') /\ (Kept(kind, e) \/ Looked(kind, e) \/ Told(e))
<1>1. /\ cycles' \in Cycles /\ Clocked(cycles')
      /\ Base(kind) \in Cycles /\ Clocked(Base(kind))
  BY SectionSynced DEF ClockedOK
<1>2. PICK synced \in Cycles : SectionLooks(kind, synced) /\ SameClocks(synced, cycles')
  BY SectionSynced DEF ClockedOK
<1>3. cycles'[e].started = synced[e].started
  BY <1>2 DEF SameClocks
<1>4. kind = Head(queue).kind
  BY DEF SectionRuns
<1>5. CASE kind = "event"
  <2>1. synced = Synced(cycles, Seen(Head(queue)), Since(Head(queue)), allowed)
    BY <1>2, <1>5 DEF SectionLooks
  <2>2. Base(kind) = cycles
    BY <1>5 DEF Base
  <2>3. synced[e].started
          = NewStart(cycles[e].started, Seen(Head(queue))[e], Since(Head(queue))[e])
    BY <1>1, <2>1, <2>2, SyncedStart
  <2>4. CASE Head(queue).ent = e
    BY <1>1, <1>3, <1>4, <1>5, <2>3, <2>4 DEF Told, EventOf, Seen, Since
  <2>5. CASE Head(queue).ent # e
    BY <1>1, <1>3, <2>2, <2>3, <2>5 DEF Looked, EventOf, Seen, Since
  <2> QED
    BY <2>4, <2>5
<1>6. CASE kind # "event"
  <2>1. ~EventOf(Head(queue), e)
    BY <1>4, <1>6 DEF EventOf
  <2>2. CASE synced = Sync(Base(kind))
    <3>1. synced[e].started = NewStart(Base(kind)[e].started, entState[e], changedAt[e])
      BY <1>1, <2>2, SyncedStart DEF Sync
    <3> QED
      BY <1>1, <1>3, <2>1, <3>1 DEF Looked
  <2>3. CASE synced # Sync(Base(kind))
    <3>1. /\ synced = Base(kind)
          /\ \/ kind \in {"enable", "disable", "stop", "blocked"}
             \/ kind \in {"setup", "resume"} /\ starting'
      BY <1>2, <1>6, <2>3 DEF SectionLooks, Base
    <3> QED
      BY <1>1, <1>3, <2>1, <3>1 DEF Kept
  <2> QED
    BY <2>2, <2>3
<1> QED
  BY <1>5, <1>6

\* A report queues itself, if the rule listens.
LEMMA ReportStep ==
  ASSUME TypeOK, NEW e \in Entities, NEW s \in Reports, Report(e, s)
  PROVE  /\ s # entState[e] /\ (s = "lost" => "lost" \in Moves)
         /\ entState'[e] = s /\ changedAt'[e] = ChangedAt(s)
         /\ UNCHANGED <<now, entry, starting, subscribed, saving, cycles, disk, snapshot>>
         /\ TakingOver' = TakingOver
         /\ ~subscribed => queue' = queue
         /\ subscribed =>
              /\ Rest' = Append(Rest, Job("event", e, s, ChangedAt(s)))
              /\ ReportsOf(queue', e)
                   = ReportsOf(queue, e) \cup {Job("event", e, s, ChangedAt(s))}
         /\ Job("event", e, s, ChangedAt(s)) \in Jobs
         /\ EventOf(Job("event", e, s, ChangedAt(s)), e)
<1> DEFINE j == Job("event", e, s, ChangedAt(s))
<1>1. j \in Jobs
  BY NoneType DEF Job, Jobs, JobKinds, ChangedAt, TypeOK, WorldOK
<1>2. EventOf(j, e)
  BY DEF EventOf, Job
<1>3. /\ s # entState[e] /\ (s = "lost" => "lost" \in Moves)
      /\ entState'[e] = s /\ changedAt'[e] = ChangedAt(s)
      /\ UNCHANGED <<now, entry, starting, subscribed, saving, cycles, disk, snapshot>>
  BY DEF Report, TypeOK, WorldOK, config, rule, store, phase
<1>4. (subscribed => queue' = Append(queue, j)) /\ (~subscribed => queue' = queue)
  BY DEF Report, Notify, Post
<1> HIDE DEF j
<1>5. CASE subscribed
  <2>1. Rest' = Append(Rest, j) /\ TakingOver' = TakingOver
    BY <1>1, <1>3, <1>4, <1>5, RestAppended
  <2>2. queue \in Seq(Jobs)
    BY RestIs
  <2>3. ReportsOf(Append(queue, j), e) = ReportsOf(queue, e) \cup {j}
    BY <1>1, <1>2, <2>2, ReportAppended
  <2> QED
    BY <1>1, <1>2, <1>3, <1>4, <1>5, <2>1, <2>3 DEF j
<1>6. CASE ~subscribed
  BY <1>1, <1>2, <1>3, <1>4, <1>6 DEF TakingOver, j
<1> QED
  BY <1>5, <1>6

LEMMA StepOf ==
  ASSUME QuietInv, [Next]_vars, NEW e \in Entities
  PROVE  \/ Crash \/ (\E s \in Reports : Report(e, s)) \/ Undisturbed(e) \/ Skip
         \/ Section /\ ~Skip
<1>1. CASE Tick \/ Fire \/ Environment
  BY <1>1, HomeUndisturbed DEF QuietInv, LifeInv
<1>2. CASE LifeCycle
  BY <1>2, LifeCycleUndisturbed
<1>3. CASE SaveEnds
  BY <1>3, SaveEndsUndisturbed
<1>4. CASE Execution
  BY <1>4, ExecutionUndisturbed DEF QuietInv
<1>5. CASE UNCHANGED vars
  <2>1. /\ UNCHANGED <<world, cycles, starting, subscribed, saving, entry, queue>>
    BY <1>5 DEF vars, rule, phase, tasks
  <2>2. TypeOK
    BY DEF QuietInv, LifeInv
  <2>3. /\ Carries(Rest, Rest', 0, e) /\ ReportsOf(queue', e) = ReportsOf(queue, e)
        /\ TakingOver' = TakingOver
    BY <2>1, <2>2, UnheardStep
  <2> QED
    BY <2>1, <2>3 DEF Undisturbed, InCharge, world
<1> QED
  BY <1>1, <1>2, <1>3, <1>4, <1>5 DEF Next

\* Who is in charge listens.
LEMMA ChargePhase ==
  ASSUME LifeInv, InCharge
  PROVE  subscribed /\ setupComplete /\ ~unloaded
<1>1. CASE entry = "loaded"
  BY <1>1 DEF LifeInv, LifeOK, InCharge
<1>2. CASE TakingOver
  <2>1. queue # <<>> /\ queue \in Seq(Jobs)
    BY <1>2 DEF TakingOver, LifeInv, TypeOK, TasksOK
  <2>2. Fits(Head(queue).kind, entry)
    BY <2>1, KindsTail DEF LifeInv, LifeOK, JobsOK
  <2>3. entry \in {"setup", "resuming"}
    BY <1>2, <2>2 DEF TakingOver, Fits
  <2> QED
    BY <1>2, <2>3 DEF LifeInv, LifeOK, InCharge
<1> QED
  BY <1>1, <1>2 DEF InCharge

-----------------------------------------------------------------------------
(* The last report shows the state *)

LatestOK ==
  subscribed => \A e \in Entities : LastReport(Rest, e, entState[e], changedAt[e])

LEMMA LatestNext ==
  ASSUME QuietInv, QuietInv', LatestOK, [Next]_vars
  PROVE  LatestOK'
<1> SUFFICES ASSUME subscribed', NEW e \in Entities
             PROVE  LastReport(Rest', e, entState'[e], changedAt'[e])
  BY DEF LatestOK
<1>1. TypeOK /\ Rest \in Seq(Jobs) /\ Rest' \in Seq(Jobs)
  BY RestIs DEF QuietInv, LifeInv, Rest, TypeOK, TasksOK
<1>2. CASE Crash
  BY <1>2 DEF Crash
<1>3. ASSUME NEW s \in Reports, Report(e, s)
      PROVE  LastReport(Rest', e, entState'[e], changedAt'[e])
  <2> DEFINE j == Job("event", e, s, ChangedAt(s))
  <2>1. /\ entState'[e] = s /\ changedAt'[e] = ChangedAt(s) /\ Rest' = Append(Rest, j)
        /\ j \in Jobs /\ EventOf(j, e)
    BY <1>1, <1>3, ReportStep
  <2>2. j.seen = s /\ j.at = ChangedAt(s)
    BY DEF Job
  <2> HIDE DEF j
  <2>3. /\ Current(Rest', e) = Current(Rest, e) \cup {Len(Rest) + 1}
        /\ Rest'[Len(Rest) + 1] = j
        /\ \A i \in Current(Rest, e) : i < Len(Rest) + 1 /\ i \in Nat
        /\ Len(Rest) \in Nat
    BY <1>1, <2>1, ReportAppended, CurrentIs
  <2>4. ASSUME NEW i \in Current(Rest', e), \A k \in Current(Rest', e) : k <= i
        PROVE  i = Len(Rest) + 1
    <3>1. Len(Rest) + 1 <= i
      BY <2>3, <2>4
    <3>2. i \notin Current(Rest, e)
      BY <2>3, <3>1
    <3> QED
      BY <2>3, <2>4, <3>2
  <2> QED
    BY <2>1, <2>2, <2>3, <2>4 DEF LastReport
<1>4. CASE Undisturbed(e)
  <2>1. CASE Current(Rest', e) = {}
    BY <2>1 DEF LastReport
  <2>2. CASE Current(Rest', e) # {}
    <3>1. Carries(Rest, Rest', 0, e) /\ subscribed
          /\ entState'[e] = entState[e] /\ changedAt'[e] = changedAt[e]
      BY <1>4, <2>2 DEF Undisturbed
    <3> QED
      BY <1>1, <3>1, CarriedLast DEF LatestOK
  <2> QED
    BY <2>1, <2>2
<1>5. ASSUME Carries(Rest, Rest', 1, e), UNCHANGED <<world, subscribed>>
      PROVE  LastReport(Rest', e, entState'[e], changedAt'[e])
  BY <1>1, <1>5, CarriedLast DEF LatestOK, world
<1>6. CASE Skip
  BY <1>5, <1>6, SkipReports
<1>7. CASE Section /\ ~Skip
  <2>1. PICK kind, p, q : /\ SectionRuns(kind, p, q)
                          /\ SectionSaves(kind, p, q) \/ SectionWaits(kind, p, q)
    BY <1>1, <1>7, SectionSummary
  <2> QED
    BY <1>5, <2>1, SectionReports
<1> QED
  BY <1>2, <1>3, <1>4, <1>6, <1>7, StepOf

-----------------------------------------------------------------------------
(* No clock is ahead of its entity *)

\* The latest time a clock of an entity can have.
Bound(e) == IF entState[e] = "on" THEN changedAt[e] ELSE now

Behind(cs, e) == cs[e].started <= Bound(e)

OldFor(e) ==
  /\ changedAt[e] \in NoTime..now /\ (entState[e] = "on" => changedAt[e] # NoTime)
  /\ Behind(cycles, e) /\ Behind(disk.cycles, e) /\ Behind(snapshot.cycles, e)
  /\ \A j \in ReportsOf(queue, e) : j.at <= Bound(e)

OldOK == \A e \in Entities : OldFor(e)

LEMMA BoundsGrow ==
  ASSUME TypeOK, NEW e \in Entities, OldFor(e), now' \in Int, now' >= now,
         \/ entState'[e] = entState[e] /\ changedAt'[e] = changedAt[e]
         \/ Bound(e)' = now'
  PROVE  Bound(e) \in Int /\ Bound(e)' \in Int /\ Bound(e) <= Bound(e)'
<1>1. now \in Int /\ changedAt[e] \in Int
  BY DEF TypeOK, WorldOK
<1> QED
  BY <1>1 DEF Bound, OldFor

LEMMA StillBehind ==
  ASSUME NEW e \in Entities, NEW cs \in Cycles, Behind(cs, e),
         Bound(e) \in Int, Bound(e)' \in Int, Bound(e) <= Bound(e)'
  PROVE  cs[e].started <= Bound(e)'
<1>1. cs[e].started \in Int
  BY DEF Cycles, Cycle
<1> QED
  BY <1>1 DEF Behind

LEMMA SectionBehind ==
  ASSUME TypeOK, ClockedOK, AllAllowed, OldOK, NEW kind, NEW p, NEW q,
         SectionRuns(kind, p, q), SectionCycles(kind, p), NEW e \in Entities
  PROVE  cycles'[e].started <= Bound(e)
<1>1. /\ now \in Nat /\ changedAt[e] \in Int /\ cycles \in Cycles /\ snapshot.cycles \in Cycles
      /\ Bound(e) \in Int /\ NoTime <= Bound(e)
  BY DEF TypeOK, WorldOK, RuleOK, ConfigOK, Payloads, Bound, OldOK, OldFor, NoTime
<1>2. Base(kind)[e].started <= Bound(e)
  BY <1>1, RestoredClocks DEF Base, OldOK, OldFor, Behind, ClockedOK
<1>3. Kept(kind, e) \/ Looked(kind, e) \/ Told(e)
  BY SectionFollows
<1>4. CASE Kept(kind, e)
  BY <1>2, <1>4 DEF Kept
<1>5. CASE Looked(kind, e)
  BY <1>1, <1>2, <1>5 DEF Looked, NewStart, Bound
<1>6. CASE Told(e)
  <2>1. queue # <<>> /\ queue \in Seq(Jobs)
    BY RestIs DEF SectionRuns
  <2>2. Head(queue) = queue[1] /\ 1 \in 1..Len(queue)
    BY <2>1, TailCarries
  <2>3. Head(queue) \in ReportsOf(queue, e)
    BY <1>6, <2>2 DEF Told, ReportsOf
  <2>4. Head(queue).at <= Bound(e) /\ cycles[e].started <= Bound(e)
    BY <2>3 DEF OldOK, OldFor, Behind
  <2> QED
    BY <1>1, <1>6, <2>4 DEF Told, NewStart
<1> QED
  BY <1>3, <1>4, <1>5, <1>6

LEMMA OldNext ==
  ASSUME QuietInv, QuietInv', ClockedOK, AllAllowed, OldOK, [Next]_vars
  PROVE  OldOK'
<1> SUFFICES ASSUME NEW e \in Entities PROVE OldFor(e)'
  BY DEF OldOK
<1>1. /\ TypeOK /\ LifeInv /\ OldFor(e) /\ now \in Nat /\ now' \in Nat
      /\ cycles \in Cycles /\ disk.cycles \in Cycles /\ snapshot.cycles \in Cycles
      /\ changedAt[e] \in Int /\ changedAt'[e] \in Int
  BY DEF QuietInv, LifeInv, OldOK, TypeOK, WorldOK, RuleOK, ConfigOK, StoreOK, Payloads
<1>2. /\ disk' \in {disk, Payload} /\ snapshot' \in {snapshot, disk, NoData}
      /\ \/ cycles' = cycles
         \/ cycles' = NoCycles /\ entry' \in {"down", "loading", "failing"}
         \/ \E kind, p, q : SectionRuns(kind, p, q) /\ SectionCycles(kind, p)
  BY <1>1, CyclesStep
<1>3. Payload.cycles = cycles /\ NoData.cycles = NoCycles /\ NoCycles[e].started = NoTime
  BY DEF Payload, NoData, NoCycles, NoCycle
<1>4. ASSUME /\ Bound(e) \in Int /\ Bound(e)' \in Int /\ Bound(e) <= Bound(e)'
             /\ changedAt'[e] \in NoTime..now' /\ (entState'[e] = "on" => changedAt'[e] # NoTime)
             /\ \A j \in ReportsOf(queue', e) : j \in ReportsOf(queue, e) \/ j.at <= Bound(e)'
      PROVE  OldFor(e)'
  <2>1. NoTime <= Bound(e)'
    BY <1>1, <1>4 DEF Bound, NoTime
  <2>2. Behind(disk.cycles, e)' /\ Behind(snapshot.cycles, e)'
    <3>1. /\ cycles[e].started <= Bound(e)' /\ disk.cycles[e].started <= Bound(e)'
          /\ snapshot.cycles[e].started <= Bound(e)'
      BY <1>1, <1>4, StillBehind DEF OldFor
    <3> QED
      BY <1>2, <1>3, <2>1, <3>1 DEF Behind
  <2>3. Behind(cycles, e)'
    <3>1. CASE cycles' = cycles
      BY <1>1, <1>4, <3>1, StillBehind DEF OldFor, Behind
    <3>2. CASE cycles' = NoCycles
      BY <1>3, <2>1, <3>2 DEF Behind
    <3>3. ASSUME NEW kind, NEW p, NEW q, SectionRuns(kind, p, q), SectionCycles(kind, p)
          PROVE  Behind(cycles, e)'
      <4>1. cycles'[e].started <= Bound(e)
        BY <1>1, <3>3, SectionBehind
      <4>2. cycles'[e].started \in Int
        BY DEF QuietInv, LifeInv, TypeOK, RuleOK, Cycles, Cycle
      <4> QED
        BY <1>4, <4>1, <4>2 DEF Behind
    <3> QED
      BY <1>2, <3>1, <3>2, <3>3
  <2>4. \A j \in ReportsOf(queue', e) : j.at <= Bound(e)'
    <3>1. queue \in Seq(Jobs)
      BY <1>1, RestIs
    <3>2. \A j \in ReportsOf(queue, e) : j \in Jobs /\ j.at <= Bound(e)
      BY <1>1, <3>1 DEF ReportsOf, OldFor
    <3>3. \A j \in ReportsOf(queue, e) : j.at \in Int
      BY <3>2 DEF Jobs
    <3> QED
      BY <1>4, <3>2, <3>3
  <2> QED
    BY <1>4, <2>2, <2>3, <2>4 DEF OldFor
<1>5. CASE Crash
  <2>1. /\ now' = now /\ entState'[e] = "lost" /\ changedAt'[e] = NoTime /\ queue' = <<>>
    BY <1>5 DEF Crash
  <2>2. Bound(e)' = now'
    BY <2>1 DEF Bound
  <2>3. ReportsOf(queue', e) = {}
    BY <2>1 DEF ReportsOf
  <2> QED
    BY <1>1, <1>4, <2>1, <2>2, <2>3, BoundsGrow DEF NoTime
<1>6. ASSUME NEW s \in Reports, Report(e, s) PROVE OldFor(e)'
  <2> DEFINE j == Job("event", e, s, ChangedAt(s))
  <2>1. /\ entState'[e] = s /\ changedAt'[e] = ChangedAt(s) /\ now' = now
        /\ ~subscribed => queue' = queue
        /\ subscribed => ReportsOf(queue', e) = ReportsOf(queue, e) \cup {j}
    BY <1>1, <1>6, ReportStep
  <2>2. j.at = ChangedAt(s) /\ ChangedAt(s) \in NoTime..now' /\ (s = "on" => ChangedAt(s) # NoTime)
    BY <1>1, <2>1 DEF Job, ChangedAt, NoTime
  <2>3. Bound(e)' = now'
    BY <2>1 DEF Bound, ChangedAt
  <2>4. Bound(e) \in Int /\ Bound(e)' \in Int /\ Bound(e) <= Bound(e)'
    BY <1>1, <2>1, <2>3, BoundsGrow
  <2>5. \A k \in ReportsOf(queue', e) : k \in ReportsOf(queue, e) \/ k.at <= Bound(e)'
    BY <2>1, <2>2, <2>3
  <2> QED
    BY <1>4, <2>1, <2>2, <2>4, <2>5
<1>7. ASSUME /\ entState'[e] = entState[e] /\ changedAt'[e] = changedAt[e]
             /\ now' \in {now, now + 1}
             /\ ReportsOf(queue', e) \subseteq ReportsOf(queue, e)
      PROVE  OldFor(e)'
  <2>1. Bound(e) \in Int /\ Bound(e)' \in Int /\ Bound(e) <= Bound(e)'
    BY <1>1, <1>7, BoundsGrow
  <2>2. changedAt'[e] \in NoTime..now'
    BY <1>1, <1>7 DEF OldFor, NoTime
  <2> QED
    BY <1>1, <1>4, <1>7, <2>1, <2>2 DEF OldFor
<1>8. CASE Undisturbed(e)
  BY <1>7, <1>8 DEF Undisturbed
<1>9. CASE Skip
  BY <1>7, <1>9, SkipReports DEF world
<1>10. CASE Section /\ ~Skip
  <2>1. PICK kind, p, q : /\ SectionRuns(kind, p, q)
                          /\ SectionSaves(kind, p, q) \/ SectionWaits(kind, p, q)
    BY <1>1, <1>10, SectionSummary
  <2> QED
    BY <1>7, <2>1, SectionReports DEF world
<1> QED
  BY <1>5, <1>6, <1>8, <1>9, <1>10, StepOf

-----------------------------------------------------------------------------
(* A handled report leaves the cycles of those that are on *)

FollowOK ==
  InCharge /\ ~starting =>
    \A e \in Entities : Current(Rest, e) = {} =>
      /\ entState[e] = "off" => cycles[e].started = NoTime
      /\ entState[e] = "on" => cycles[e].started # NoTime

\* With the rule in charge, a report that is handled is one that no section
\* overtakes.
LEMMA ToldIsCurrent ==
  ASSUME QuietInv, ~saving, queue # <<>>, InCharge, NEW e, EventOf(Head(queue), e)
  PROVE  1 \in Current(Rest, e) /\ Rest[1] = Head(queue)
<1>1. queue \in Seq(Jobs) /\ entry = "loaded"
  BY RestIs DEF QuietInv, LifeInv, InCharge, TakingOver
<1>2. queue[1] = Head(queue) /\ 1 \in 1..Len(queue) /\ Rest = queue
  BY <1>1, TailCarries DEF Rest
<1>3. Kinds(queue) \cap LifeKinds = {}
  BY <1>1, NoLifeJob DEF QuietInv
<1>4. \A k \in 1..Len(queue) : ~TakesOver(queue[k])
  BY <1>3 DEF Kinds, LifeKinds, TakesOver
<1> QED
  BY <1>2, <1>4 DEF Current

LEMMA NoneCarried ==
  ASSUME NEW r \in Seq(Jobs), NEW s \in Seq(Jobs), NEW e, NEW d \in {0, 1}, Carries(r, s, d, e),
         Current(s, e) = {}
  PROVE  Current(r, e) = {} \/ (d = 1 /\ Current(r, e) = {1})
BY CarriedReports

\* In charge before and after a step that is not a section, with no report
\* waiting after it, none was before.
LEMMA HeardBefore ==
  ASSUME QuietInv, QuietInv', [Next]_vars, InCharge', NEW e \in Entities, Current(Rest', e) = {}
  PROVE  \/ /\ InCharge /\ UNCHANGED <<starting, cycles>> /\ entState'[e] = entState[e]
            /\ Current(Rest, e) = {}
         \/ Section /\ ~Skip
<1>1. TypeOK /\ LifeInv /\ Rest \in Seq(Jobs) /\ Rest' \in Seq(Jobs)
  BY RestIs DEF QuietInv, LifeInv, Rest, TypeOK, TasksOK
<1>2. CASE Crash
  BY <1>2 DEF Crash, InCharge, TakingOver
<1>3. ASSUME NEW s \in Reports, Report(e, s) PROVE FALSE
  <2> DEFINE j == Job("event", e, s, ChangedAt(s))
  <2>1. /\ entry' = entry /\ TakingOver' = TakingOver /\ j \in Jobs /\ EventOf(j, e)
        /\ subscribed => Rest' = Append(Rest, j)
    BY <1>1, <1>3, ReportStep
  <2> HIDE DEF j
  <2>2. subscribed
    BY <1>1, <2>1, ChargePhase DEF InCharge
  <2>3. Current(Append(Rest, j), e) = Current(Rest, e) \cup {Len(Rest) + 1}
    BY <1>1, <2>1, ReportAppended
  <2> QED
    BY <2>1, <2>2, <2>3
<1>4. CASE Undisturbed(e)
  <2>1. /\ Carries(Rest, Rest', 0, e) /\ entState'[e] = entState[e] /\ cycles' = cycles
        /\ InCharge /\ starting' = starting
    BY <1>4 DEF Undisturbed
  <2>2. Current(Rest, e) = {}
    BY <1>1, <2>1, NoneCarried
  <2> QED
    BY <2>1, <2>2
<1>5. CASE Skip
  <2>1. /\ Carries(Rest, Rest', 1, e) /\ UNCHANGED <<world, cycles, starting>>
        /\ InCharge /\ 1 \notin Current(Rest, e)
    BY <1>5, SkipReports
  <2>2. Current(Rest, e) = {}
    BY <1>1, <2>1, NoneCarried
  <2> QED
    BY <2>1, <2>2 DEF world
<1> QED
  BY <1>2, <1>3, <1>4, <1>5, StepOf

LEMMA FollowNext ==
  ASSUME QuietInv, QuietInv', ClockedOK, AllAllowed, OldOK, LatestOK, FollowOK, [Next]_vars
  PROVE  FollowOK'
<1> SUFFICES ASSUME InCharge', ~starting', NEW e \in Entities, Current(Rest', e) = {}
             PROVE  /\ entState'[e] = "off" => cycles'[e].started = NoTime
                    /\ entState'[e] = "on" => cycles'[e].started # NoTime
  BY DEF FollowOK
<1>1. TypeOK /\ LifeInv /\ Rest \in Seq(Jobs) /\ Rest' \in Seq(Jobs) /\ OldFor(e)
  BY RestIs DEF QuietInv, LifeInv, Rest, TypeOK, TasksOK, OldOK
<1>2. CASE /\ InCharge /\ UNCHANGED <<starting, cycles>> /\ entState'[e] = entState[e]
           /\ Current(Rest, e) = {}
  BY <1>2 DEF FollowOK
<1>3. CASE Section /\ ~Skip
  <2>1. PICK kind, p, q : /\ SectionRuns(kind, p, q) /\ SectionCycles(kind, p)
                          /\ SectionSaves(kind, p, q) \/ SectionWaits(kind, p, q)
    BY <1>1, <1>3, SectionSummary
  <2>2. /\ ~saving /\ queue # <<>> /\ kind = Head(queue).kind
        /\ Carries(Rest, Rest', 1, e) /\ UNCHANGED world
        /\ InCharge \/ TakesOver(Head(queue))
        /\ ~TakesOver(Head(queue)) /\ starting /\ ~starting' => kind = "started"
    BY <2>1, SectionReports
  <2>3. entState'[e] = entState[e] /\ changedAt[e] \in Int
    BY <1>1, <2>2 DEF world, TypeOK, WorldOK
  <2>4. Kept(kind, e) \/ Looked(kind, e) \/ Told(e)
    BY <1>1, <2>1, SectionFollows
  <2>5. Current(Rest, e) = {} \/ Current(Rest, e) = {1}
    BY <1>1, <2>2, NoneCarried
  <2>6. CASE Kept(kind, e)
    <3>1. /\ kind \in {"enable", "disable", "stop", "blocked"}
          /\ cycles'[e].started = cycles[e].started /\ ~EventOf(Head(queue), e)
      BY <2>6 DEF Kept, Base
    <3>2. ~TakesOver(Head(queue))
      BY <2>2, <3>1 DEF TakesOver
    <3>3. InCharge /\ ~starting
      BY <2>2, <3>1, <3>2
    <3>4. queue[1] = Head(queue) /\ Rest = queue
      BY <1>1, <2>2, TailCarries DEF Rest
    <3>5. Current(Rest, e) = {}
      BY <2>5, <3>1, <3>4 DEF Current
    <3> QED
      BY <2>3, <3>1, <3>3, <3>5 DEF FollowOK
  <2>7. CASE Looked(kind, e)
    BY <1>1, <2>3, <2>7 DEF Looked, NewStart, OldFor
  <2>8. CASE Told(e)
    <3>1. EventOf(Head(queue), e) /\ InCharge
      BY <2>2, <2>8 DEF Told, EventOf, TakesOver
    <3>2. 1 \in Current(Rest, e) /\ Rest[1] = Head(queue)
      BY <2>2, <3>1, ToldIsCurrent
    <3>3. Current(Rest, e) = {1} /\ subscribed
      BY <1>1, <2>5, <3>1, <3>2, ChargePhase
    <3>4. Head(queue).seen = entState[e] /\ Head(queue).at = changedAt[e]
      BY <3>2, <3>3 DEF LatestOK, LastReport
    <3> QED
      BY <1>1, <2>3, <2>8, <3>4 DEF Told, NewStart, OldFor
  <2> QED
    BY <2>4, <2>6, <2>7, <2>8
<1> QED
  BY <1>2, <1>3, HeardBefore

-----------------------------------------------------------------------------
(* Where no report can be missed *)

NoMisses == {"lost", "reload", "crash"} \cap Moves = {}

\* The rule is set up once, from an empty store.
ColdOK ==
  /\ entry \in {"down", "loading", "read", "setup", "loaded", "failing"}
  /\ entry # "loaded" =>
       /\ disk = NoData /\ snapshot = NoData
       /\ saving => Head(queue).kind = "setup"
       /\ setupComplete => TakingOver

LEMMA ColdNext ==
  ASSUME NoMisses, QuietInv, QuietInv', ColdOK, [Next]_vars
  PROVE  ColdOK'
<1>1. /\ TypeOK /\ LifeInv /\ queue \in Seq(Jobs) /\ (saving => queue # <<>>)
      /\ {"reload", "crash"} \cap Moves = {}
  BY RestIs DEF QuietInv, LifeInv, NoMisses
<1>2. ASSUME UNCHANGED <<entry, disk, snapshot, saving, setupComplete>>,
             saving => Head(queue') = Head(queue)
      PROVE  ColdOK'
  BY <1>2 DEF ColdOK, TakingOver
<1>3. CASE Tick \/ Fire \/ Environment
  <2>1. ~Crash
    BY <1>1 DEF Crash
  <2>2. /\ UNCHANGED <<entry, config, store, setupComplete, saving>>
        /\ queue' = queue \/ \E j \in Jobs : queue' = Append(queue, j)
    BY <1>1, <1>3, <2>1, HomeSummary
  <2>3. saving => Head(queue') = Head(queue)
    BY <1>1, <2>2, AppendElements
  <2> QED
    BY <1>2, <2>2, <2>3 DEF config, store
<1>4. CASE Execution
  <2>1. /\ UNCHANGED <<entry, config, store, phase, saving>>
        /\ \/ queue' = queue
           \/ \E k \in RunKinds \cup {"cancelled"} : queue' = Append(queue, Call(k, NoTime))
    BY <1>1, <1>4, ExecutionSummary DEF LifeInv
  <2>2. saving => Head(queue') = Head(queue)
    BY <1>1, <2>1, AppendElements, RunCalls
  <2> QED
    BY <1>2, <2>1, <2>2 DEF config, store, phase
<1>5. CASE UNCHANGED vars
  BY <1>2, <1>5 DEF vars, config, store, phase, tasks
<1>6. CASE LifeCycle
  <2>1. ASSUME Load \/ ReadStore \/ BeginSetup \/ FinishUnload PROVE ~saving
    <3>1. entry \in {"down", "loading", "read", "failing"}
      BY <2>1 DEF Load, ReadStore, BeginSetup, FinishUnload, ColdOK
    <3>2. ~TakingOver
      BY <1>1, <3>1, NoLifeJob
    <3> QED
      BY <3>1, <3>2 DEF QuietInv, QuietOK, SavingOK
  <2>2. ~(BeginStop \/ RejectUnload)
    BY <1>1 DEF BeginStop, RejectUnload
  <2>3. CASE LoadFails
    BY <2>3 DEF LoadFails, RollBack, ColdOK, store, config
  <2>4. CASE Load \/ ReadStore \/ BeginSetup \/ FinishUnload
    <3>1. entry # "loaded" /\ ~TakingOver /\ ~saving
      BY <2>1, <2>4 DEF Load, ReadStore, BeginSetup, FinishUnload, TakingOver, ColdOK
    <3>2. disk = NoData /\ snapshot = NoData /\ ~setupComplete
      BY <3>1 DEF ColdOK
    <3>3. /\ entry' \in {"down", "loading", "read", "setup"} /\ disk' = NoData /\ snapshot' = NoData
          /\ saving' = saving /\ ~setupComplete'
      BY <2>4, <3>2 DEF Load, ReadStore, BeginSetup, FinishUnload, ColdOK, store, config, phase,
                        tasks
    <3> QED
      BY <3>1, <3>3 DEF ColdOK
  <2> QED
    BY <1>6, <2>2, <2>3, <2>4 DEF LifeCycle
<1>7. CASE Skip
  <2>1. /\ UNCHANGED <<entry, disk, snapshot, saving, setupComplete>> /\ ~saving
    BY <1>7 DEF Skip, store, config, phase
  <2> QED
    BY <1>2, <2>1
<1>8. CASE Section /\ ~Skip
  <2>1. PICK kind, p, q : /\ SectionRuns(kind, p, q)
                          /\ SectionSaves(kind, p, q) \/ SectionWaits(kind, p, q)
    BY <1>1, <1>8, SectionSummary
  <2>2. /\ queue # <<>> /\ ~saving /\ ~Stale(Head(queue)) /\ kind = Head(queue).kind
        /\ q \in {queue, Outdated(queue)} /\ disk' = disk
    BY <2>1 DEF SectionRuns, store
  <2>3. entry = "loaded" \/ kind = "setup"
    BY <2>1, SectionEntry DEF ColdOK, TakingOver
  <2>4. snapshot' \in {snapshot, disk, NoData}
    BY <1>1, CyclesStep
  <2>5. \/ saving' /\ queue' = q /\ entry' = entry
        \/ entry' = EntryAfter(kind)
    BY <2>1, ReleaseRun DEF SectionSaves, SectionWaits, Save
  <2>6. EntryAfter(kind) = "loaded"
    <3>1. kind # "stop"
      BY <2>2, <2>3, SectionPhase
    <3> QED
      BY <2>3, <3>1 DEF EntryAfter
  <2>7. CASE entry' = "loaded"
    BY <2>7 DEF ColdOK
  <2>8. CASE entry' # "loaded"
    <3>1. saving' /\ queue' = q /\ entry' = entry /\ kind = "setup" /\ entry # "loaded"
      BY <2>3, <2>5, <2>6, <2>8
    <3>2. Head(q) = Head(queue)
      BY <1>1, <2>2, <3>1, SectionQueue
    <3>3. TakingOver' /\ Head(queue').kind = "setup"
      BY <2>2, <3>1, <3>2 DEF TakingOver
    <3>4. disk' = NoData /\ snapshot' = NoData
      BY <2>2, <2>4, <3>1 DEF ColdOK
    <3> QED
      BY <3>1, <3>3, <3>4 DEF ColdOK
  <2> QED
    BY <2>7, <2>8
<1>9. CASE SaveEnds
  <2>1. saving /\ queue # <<>>
    BY <1>1, <1>9, SaveEndsSummary
  <2>2. entry = "loaded" \/ Head(queue).kind = "setup"
    BY <2>1 DEF ColdOK
  <2>3. CASE SetupSaveFails
    <3>1. entry # "loaded"
      BY <1>1, <2>3, NoLifeJob DEF SetupSaveFails, TakingOver, QuietInv
    <3> QED
      BY <2>3, <3>1 DEF SetupSaveFails, RollBack, ColdOK, store, config
  <2>4. ~ResumeSaveFails
    <3>1. ASSUME ResumeSaveFails PROVE FALSE
      <4>1. TakingOver /\ Head(queue).kind = "resume"
        BY <3>1 DEF ResumeSaveFails, TakingOver
      <4> QED
        BY <1>1, <2>2, <4>1, NoLifeJob DEF QuietInv
    <3> QED
      BY <3>1
  <2>5. ASSUME NEW p, Release(Head(queue).kind, p, Tail(queue)) PROVE ColdOK'
    <3>1. entry' = EntryAfter(Head(queue).kind)
      BY <2>5, ReleaseRun
    <3>2. Head(queue).kind # "stop"
      <4>1. Head(queue).kind \in Kinds(queue)
        BY <1>1, <2>1, KindsTail
      <4>2. entry = "loaded" => Kinds(queue) \cap LifeKinds = {}
        BY <1>1, NoLifeJob
      <4> QED
        BY <2>2, <4>1, <4>2 DEF LifeKinds
    <3>3. entry' = "loaded"
      BY <2>2, <3>1, <3>2 DEF EntryAfter
    <3> QED
      BY <3>3 DEF ColdOK
  <2> QED
    BY <1>1, <1>9, <2>3, <2>4, <2>5, SaveEndsSummary
<1> QED
  BY <1>3, <1>4, <1>5, <1>6, <1>7, <1>8, <1>9 DEF Next

\* A report that tells an old time, and a clock that shows one, are ended by an
\* off that waits.
Exact(e) ==
  \/ OffWaits(Rest, e) \/ cycles[e].started = NoTime
  \/ entState[e] = "on" /\ cycles[e].started = changedAt[e]

ExactOK ==
  \A e \in Entities : /\ subscribed => Dated(Rest, e, entState[e], changedAt[e])
                      /\ InCharge => Exact(e)

LEMMA ReportExact ==
  ASSUME TypeOK, NEW e \in Entities, NEW s \in Reports, Report(e, s), s # "lost", subscribed,
         Dated(Rest, e, entState[e], changedAt[e])
  PROVE  /\ Dated(Rest', e, entState'[e], changedAt'[e])
         /\ Exact(e) => Exact(e)'
<1> DEFINE j == Job("event", e, s, ChangedAt(s))
           n == Len(Rest) + 1
<1>1. /\ s # entState[e] /\ entState'[e] = s /\ changedAt'[e] = ChangedAt(s)
      /\ Rest' = Append(Rest, j) /\ cycles' = cycles
      /\ j \in Jobs /\ EventOf(j, e) /\ Rest \in Seq(Jobs)
  BY ReportStep, RestIs
<1>2. j.seen = s /\ j.at = ChangedAt(s)
  BY DEF Job
<1> HIDE DEF j
<1>3. /\ Current(Rest', e) = Current(Rest, e) \cup {n} /\ Rest'[n] = j
      /\ \A i \in Current(Rest, e) : Rest'[i] = Rest[i] /\ i < n
  <2>1. Rest \in Seq(Jobs) /\ j \in Jobs /\ EventOf(j, e)
    BY <1>1
  <2>2. Current(Append(Rest, j), e) = Current(Rest, e) \cup {n} /\ Append(Rest, j)[n] = j
    BY <2>1, ReportAppended
  <2>3. \A i \in Current(Rest, e) : Append(Rest, j)[i] = Rest[i] /\ i < n
    BY <2>1, ReportAppended
  <2> QED
    BY <1>1, <2>2, <2>3
<1>4. s \in {"on", "off"} /\ (entState[e] = "on" => s = "off")
  BY <1>1 DEF Reports
<1> HIDE DEF n
<1>5. ASSUME NEW i \in Current(Rest', e), Rest'[i].seen = "on"
      PROVE  \/ s = "on" /\ Rest'[i].at = ChangedAt(s)
             \/ \E k \in Current(Rest', e) : k > i /\ Rest'[k].seen = "off"
  <2>1. CASE i = n
    BY <1>2, <1>3, <1>5, <2>1
  <2>2. CASE i # n
    <3>1. i \in Current(Rest, e) /\ Rest[i].seen = "on" /\ n > i
      BY <1>3, <1>5, <2>2
    <3>2. CASE entState[e] = "on"
      BY <1>2, <1>3, <1>4, <3>1, <3>2
    <3>3. CASE entState[e] # "on"
      <4>1. PICK k \in Current(Rest, e) : k > i /\ Rest[k].seen = "off"
        BY <3>1, <3>3 DEF Dated
      <4> QED
        BY <1>3, <4>1
    <3> QED
      BY <3>2, <3>3
  <2> QED
    BY <2>1, <2>2
<1>6. Dated(Rest', e, entState'[e], changedAt'[e])
  BY <1>1, <1>5 DEF Dated
<1>7. ASSUME Exact(e) PROVE Exact(e)'
  <2>1. CASE s = "off"
    <3>1. n \in Current(Rest', e) /\ Rest'[n].seen = "off"
      BY <1>2, <1>3, <2>1
    <3> QED
      BY <3>1 DEF Exact, OffWaits
  <2>2. CASE s = "on"
    <3>1. OffWaits(Rest, e) => OffWaits(Rest', e)
      BY <1>3 DEF OffWaits
    <3> QED
      BY <1>1, <1>4, <1>7, <2>2, <3>1 DEF Exact
  <2> QED
    BY <1>4, <2>1, <2>2
<1> QED
  BY <1>6, <1>7

LEMMA SectionExact ==
  ASSUME NoMisses, QuietInv, QuietInv', ClockedOK, AllAllowed, FreshOK, ColdOK, ExactOK,
         NEW kind, NEW p, NEW q, SectionRuns(kind, p, q), SectionCycles(kind, p),
         SectionSaves(kind, p, q) \/ SectionWaits(kind, p, q),
         NEW e \in Entities, InCharge'
  PROVE  Exact(e)'
<1>1. /\ TypeOK /\ LifeInv /\ Rest \in Seq(Jobs) /\ Rest' \in Seq(Jobs) /\ queue \in Seq(Jobs)
  BY RestIs DEF QuietInv, LifeInv, Rest, TypeOK, TasksOK
<1>2. /\ ~saving /\ queue # <<>> /\ kind = Head(queue).kind /\ Rest = queue
      /\ Carries(Rest, Rest', 1, e) /\ UNCHANGED <<world, subscribed>>
      /\ InCharge \/ TakesOver(Head(queue))
  BY SectionReports
<1>3. Rest[1] = Head(queue) /\ entState' = entState /\ changedAt' = changedAt
  BY <1>1, <1>2, TailCarries DEF world
<1>4. /\ \A k \in Current(Rest, e) : k = 1 \/ (k - 1 \in Current(Rest', e) /\ Rest[k] = Rest'[k - 1])
      /\ OffWaits(Rest, e) => OffWaits(Rest', e) \/ (1 \in Current(Rest, e) /\ Rest[1].seen = "off")
  <2>1. \A k \in Current(Rest, e) :
          k = 1 \/ (k - 1 \in Current(Rest', e) /\ Rest[k] = Rest'[k - 1])
    BY <1>1, <1>2, CarriedReports
  <2>2. OffWaits(Rest, e) => OffWaits(Rest', e) \/ (1 \in Current(Rest, e) /\ Rest[1].seen = "off")
    BY <1>1, <1>2, CarriedLast
  <2> QED
    BY <2>1, <2>2
<1>5. kind # "resume"
  BY <1>2, SectionPhase DEF ColdOK, SectionRuns
<1>6. \/ kind = "setup" /\ Base(kind)[e].started = NoTime
      \/ kind # "setup" /\ Base(kind) = cycles /\ InCharge
  <2>1. CASE kind = "setup"
    <3>1. Awaiting /\ entry = "setup"
      BY <2>1, SectionEntry
    <3>2. cycles = NoCycles /\ snapshot = NoData
      BY <3>1 DEF FreshOK, ColdOK
    <3>3. NoCycles[e].started = NoTime /\ NoData.retry = NoTime
      BY DEF NoCycles, NoCycle, NoData
    <3>4. Restored.cycles[e].started = NoTime
      BY <1>1, <3>2, <3>3, RestoredClocks DEF ClockedOK
    <3> QED
      BY <2>1, <3>4 DEF Base
  <2>2. CASE kind # "setup"
    BY <1>2, <1>5, <2>2 DEF Base, TakesOver
  <2> QED
    BY <2>1, <2>2
<1>7. Kept(kind, e) \/ Looked(kind, e) \/ Told(e)
  BY <1>1, SectionFollows
<1>8. CASE ~EventOf(Head(queue), e)
  <2>1. OffWaits(Rest, e) => OffWaits(Rest', e)
    BY <1>3, <1>4, <1>8 DEF Current
  <2>2. CASE Kept(kind, e)
    BY <1>3, <1>6, <2>1, <2>2 DEF Kept, Exact, ExactOK
  <2>3. CASE Looked(kind, e)
    <3>1. cycles'[e].started = NewStart(Base(kind)[e].started, entState[e], changedAt[e])
      BY <2>3 DEF Looked
    <3>2. CASE kind = "setup"
      BY <1>3, <1>6, <3>1, <3>2 DEF NewStart, Exact
    <3>3. CASE kind # "setup"
      BY <1>3, <1>6, <2>1, <3>1, <3>3 DEF NewStart, Exact, ExactOK
    <3> QED
      BY <3>2, <3>3
  <2> QED
    BY <1>7, <1>8, <2>2, <2>3 DEF Told
<1>9. CASE EventOf(Head(queue), e)
  <2>1. InCharge /\ kind = "event"
    BY <1>2, <1>9 DEF EventOf, TakesOver
  <2>2. 1 \in Current(Rest, e) /\ subscribed
    BY <1>1, <1>2, <1>9, <2>1, ToldIsCurrent, ChargePhase
  <2>3. cycles'[e].started = NewStart(cycles[e].started, Rest[1].seen, Rest[1].at)
    BY <1>3, <1>7, <1>9 DEF Kept, Looked, Told
  <2>4. \A k \in Current(Rest, e) : k \in Nat /\ k > 0
    BY <1>1, CurrentIs
  <2>5. ASSUME NEW k \in Current(Rest, e), k # 1, Rest[k].seen = "off" PROVE Exact(e)'
    BY <1>4, <2>5 DEF OffWaits, Exact
  <2>6. CASE Rest[1].seen = "off"
    BY <2>3, <2>6 DEF NewStart, Exact
  <2>7. CASE Rest[1].seen = "on"
    <3>1. CASE \E k \in Current(Rest, e) : k > 1 /\ Rest[k].seen = "off"
      BY <2>5, <3>1
    <3>2. CASE entState[e] = "on" /\ Rest[1].at = changedAt[e]
      <4>1. CASE OffWaits(Rest, e)
        BY <2>5, <2>7, <4>1 DEF OffWaits
      <4>2. CASE ~OffWaits(Rest, e)
        <5>1. cycles[e].started = NoTime \/ cycles[e].started = changedAt[e]
          BY <2>1, <4>2 DEF ExactOK, Exact
        <5> QED
          BY <1>3, <2>3, <2>7, <3>2, <5>1 DEF NewStart, Exact
      <4> QED
        BY <4>1, <4>2
    <3> QED
      BY <2>2, <2>7, <3>1, <3>2 DEF ExactOK, Dated
  <2>8. CASE Rest[1].seen \notin {"off", "on"}
    <3>1. cycles'[e].started = cycles[e].started
      BY <2>3, <2>8 DEF NewStart
    <3>2. CASE OffWaits(Rest, e)
      BY <2>5, <2>8, <3>2 DEF OffWaits
    <3>3. CASE ~OffWaits(Rest, e)
      BY <1>3, <2>1, <3>1, <3>3 DEF ExactOK, Exact
    <3> QED
      BY <3>2, <3>3
  <2> QED
    BY <2>6, <2>7, <2>8
<1> QED
  BY <1>8, <1>9

LEMMA ExactNext ==
  ASSUME NoMisses, QuietInv, QuietInv', ClockedOK, AllAllowed, FreshOK, ColdOK, ExactOK,
         [Next]_vars
  PROVE  ExactOK'
<1> SUFFICES ASSUME NEW e \in Entities
             PROVE  /\ subscribed' => Dated(Rest', e, entState'[e], changedAt'[e])
                    /\ InCharge' => Exact(e)'
  BY DEF ExactOK
<1>1. TypeOK /\ LifeInv /\ Rest \in Seq(Jobs) /\ Rest' \in Seq(Jobs)
  BY RestIs DEF QuietInv, LifeInv, Rest, TypeOK, TasksOK
<1>2. ~Crash
  BY DEF Crash, NoMisses
<1>3. InCharge => subscribed
  BY <1>1, ChargePhase
<1>4. ASSUME NEW s \in Reports, Report(e, s)
      PROVE  /\ subscribed' => Dated(Rest', e, entState'[e], changedAt'[e])
             /\ InCharge' => Exact(e)'
  <2>1. /\ subscribed' = subscribed /\ entry' = entry /\ TakingOver' = TakingOver
        /\ s = "lost" => "lost" \in Moves
    BY <1>1, <1>4, ReportStep
  <2>2. s # "lost"
    BY <2>1 DEF NoMisses
  <2>3. CASE subscribed
    BY <1>1, <1>4, <2>1, <2>2, <2>3, ReportExact DEF ExactOK, InCharge
  <2>4. CASE ~subscribed
    BY <1>3, <2>1, <2>4 DEF InCharge
  <2> QED
    BY <2>3, <2>4
<1>5. CASE Undisturbed(e)
  <2>1. /\ entState'[e] = entState[e] /\ changedAt'[e] = changedAt[e]
        /\ subscribed' => subscribed \/ Current(Rest', e) = {}
        /\ InCharge' => InCharge /\ cycles' = cycles /\ Carries(Rest, Rest', 0, e)
        /\ Carries(Rest, Rest', 0, e) \/ Current(Rest', e) = {}
    BY <1>5 DEF Undisturbed
  <2>2. CASE Current(Rest', e) = {} /\ ~InCharge'
    BY <2>2 DEF Dated
  <2>3. CASE Carries(Rest, Rest', 0, e)
    <3>1. /\ Dated(Rest, e, entState[e], changedAt[e]) => Dated(Rest', e, entState[e], changedAt[e])
          /\ OffWaits(Rest, e) => OffWaits(Rest', e)
      BY <1>1, <2>3, CarriedLast
    <3>2. subscribed' => Dated(Rest', e, entState'[e], changedAt'[e])
      BY <2>1, <3>1 DEF ExactOK, Dated
    <3>3. InCharge' => Exact(e)'
      BY <2>1, <3>1 DEF ExactOK, Exact
    <3> QED
      BY <3>2, <3>3
  <2> QED
    BY <2>1, <2>2, <2>3
<1>6. ASSUME Carries(Rest, Rest', 1, e), UNCHANGED <<world, subscribed>>
      PROVE  /\ subscribed' => Dated(Rest', e, entState'[e], changedAt'[e])
             /\ OffWaits(Rest, e) => OffWaits(Rest', e) \/ 1 \in Current(Rest, e)
  BY <1>1, <1>6, CarriedLast DEF ExactOK, world
<1>7. CASE Skip
  <2>1. /\ Carries(Rest, Rest', 1, e) /\ UNCHANGED <<world, cycles, subscribed>>
        /\ InCharge' => InCharge /\ 1 \notin Current(Rest, e)
    BY <1>7, SkipReports
  <2>2. entState' = entState /\ changedAt' = changedAt
    BY <2>1 DEF world
  <2> QED
    BY <1>6, <2>1, <2>2 DEF ExactOK, Exact
<1>8. CASE Section /\ ~Skip
  <2>1. PICK kind, p, q : /\ SectionRuns(kind, p, q) /\ SectionCycles(kind, p)
                          /\ SectionSaves(kind, p, q) \/ SectionWaits(kind, p, q)
    BY <1>1, <1>8, SectionSummary
  <2>2. Carries(Rest, Rest', 1, e) /\ UNCHANGED <<world, subscribed>>
    BY <2>1, SectionReports
  <2>3. InCharge' => Exact(e)'
    BY <2>1, SectionExact
  <2> QED
    BY <1>6, <2>2, <2>3
<1> QED
  BY <1>2, <1>4, <1>5, <1>7, <1>8, StepOf

-----------------------------------------------------------------------------
(* The theorem *)

FollowInv ==
  /\ QuietInv /\ ClockedOK /\ FreshOK /\ AllAllowed
  /\ OldOK /\ LatestOK /\ FollowOK
  /\ NoMisses => ColdOK /\ ExactOK

LEMMA FollowInit == Init => FollowInv
<1> SUFFICES ASSUME Init PROVE FollowInv
  OBVIOUS
<1>1. QuietInv /\ ClockedOK /\ FreshOK /\ AllAllowed
  BY QuietInit, ClockedInit, FreshInit DEF Init, AllAllowed
<1>2. /\ Rest = <<>> /\ ~subscribed /\ ~InCharge /\ queue = <<>>
      /\ cycles = NoCycles /\ disk.cycles = NoCycles /\ snapshot.cycles = NoCycles
      /\ changedAt = [e \in Entities |-> NoTime] /\ now = 0
  BY NoCyclesClocked DEF Init, Rest, InCharge, TakingOver
<1>3. OldOK
  <2> SUFFICES ASSUME NEW e \in Entities PROVE OldFor(e)
    BY DEF OldOK
  <2>1. changedAt[e] = NoTime /\ entState[e] # "on"
    BY <1>2 DEF Init
  <2>2. NoCycles[e].started = NoTime /\ ReportsOf(queue, e) = {}
    BY <1>2 DEF NoCycles, NoCycle, ReportsOf
  <2> QED
    BY <1>2, <2>1, <2>2 DEF OldFor, Behind, Bound, NoTime
<1>4. LatestOK /\ FollowOK /\ ExactOK
  BY <1>2 DEF LatestOK, FollowOK, ExactOK
<1>5. ColdOK
  BY DEF Init, ColdOK
<1> QED
  BY <1>1, <1>3, <1>4, <1>5 DEF FollowInv

LEMMA FollowInvNext ==
  ASSUME "registry" \notin Moves, "earlytoggle" \notin Moves, FollowInv, [Next]_vars
  PROVE  FollowInv'
<1>1. QuietInv' /\ FreshOK' /\ LifeInv
  BY QuietNext, FreshNext DEF FollowInv, QuietInv
<1>2. ClockedOK' /\ AllAllowed'
  BY <1>1, ClockedNext, AllowedNext DEF FollowInv
<1>3. OldOK' /\ LatestOK' /\ FollowOK'
  BY <1>1, OldNext, LatestNext, FollowNext DEF FollowInv
<1>4. NoMisses => ColdOK' /\ ExactOK'
  BY <1>1, ColdNext, ExactNext DEF FollowInv
<1>5. NoMisses' = NoMisses
  BY DEF NoMisses
<1> QED
  BY <1>1, <1>2, <1>3, <1>4, <1>5 DEF FollowInv

\* With every report handled, the cycles of a live rule are those of the
\* entities that are on (controller.py, _async_state_changed, which works with
\* the state and the time of its event, and _sync_cycles_locked, which works
\* with the states at the moment): none is there for an entity that is off, none
\* started after its entity last went on, and each started exactly then where
\* no outage, reload or restart can hide a report. Assumed are that no entity
\* leaves the rule's area, for one that comes back gets no cycle before its
\* next report, and a switch that is not used before the set-up.
THEOREM ReportsAreFollowed ==
  ASSUME "registry" \notin Moves, "earlytoggle" \notin Moves
  PROVE  Spec => []CyclesFollowReports
<1>1. FollowInv => CyclesFollowReports
  <2> SUFFICES ASSUME FollowInv, Live, LockFree, NEW e \in Entities
               PROVE  /\ entState[e] = "off" => cycles[e] = NoCycle
                      /\ entState[e] = "on" =>
                           /\ cycles[e] # NoCycle
                           /\ cycles[e].started <= changedAt[e]
                           /\ NoMisses => cycles[e].started = changedAt[e]
    BY DEF CyclesFollowReports, NoMisses
  <2>1. queue = <<>> /\ ~saving /\ InCharge /\ ~starting
    BY DEF Live, LockFree, InCharge, FollowInv, QuietInv, LifeInv, TypeOK, TasksOK
  <2>2. Rest = <<>> /\ Current(Rest, e) = {}
    BY <2>1 DEF Rest, Current
  <2>3. /\ entState[e] = "off" => cycles[e].started = NoTime
        /\ entState[e] = "on" => cycles[e].started # NoTime
    BY <2>1, <2>2 DEF FollowInv, FollowOK
  <2>4. cycles[e].started = NoTime <=> cycles[e] = NoCycle
    <3>1. NoCycle.started = NoTime
      BY DEF NoCycle
    <3> QED
      BY <3>1 DEF FollowInv, ClockedOK, Clocked
  <2>5. entState[e] = "on" => cycles[e].started <= changedAt[e]
    BY DEF FollowInv, OldOK, OldFor, Behind, Bound
  <2>6. NoMisses /\ entState[e] = "on" => cycles[e].started = changedAt[e]
    BY <2>1, <2>2, <2>3 DEF FollowInv, ExactOK, Exact, OffWaits
  <2> QED
    BY <2>3, <2>4, <2>5, <2>6
<1> QED
  BY <1>1, FollowInit, FollowInvNext, PTL DEF Spec
=============================================================================
