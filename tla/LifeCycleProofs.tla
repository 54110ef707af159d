---------------------------- MODULE LifeCycleProofs ----------------------------
(***************************************************************************)
(* What holds of a rule in each phase of its entry, and what follows: no   *)
(* service call starts in a rule that is not in charge, a stopped rule     *)
(* leaves nothing behind that could act, and every target of a plan has    *)
(* its turn whatever the others answered.                                  *)
(*                                                                         *)
(* LifeOK holds in every environment. It says who is subscribed, set up or *)
(* unloaded in which phase, that the sections that change the phase are    *)
(* queued one at a time and by the phase they belong to, and that the job  *)
(* that ends an execution is there only while that execution waits for it. *)
(* QuietOK needs a switch that is not used before the set-up is over: it   *)
(* says that while the rule is dormant there is no execution, and nothing  *)
(* in the queue that could start one.                                      *)
(***************************************************************************)
EXTENDS RuntimeControllerProofs

\* The kinds of the jobs of a queue, and that at most one is of a kind in K.
Kinds(q) == {q[i].kind : i \in 1..Len(q)}
Single(q, K) ==
  \A i, j \in 1..Len(q) : q[i].kind \in K /\ q[j].kind \in K => i = j

LifeKinds == {"setup", "stop", "resume"}
RunKinds == {"finish", "blocked"}

\* A life-cycle section waits only in the phase it ends.
Fits(kind, en) ==
  /\ kind = "setup" => en = "setup"
  /\ kind = "stop" => en = "stopping"
  /\ kind = "resume" => en = "resuming"
  /\ kind \notin Unwinding

JobsOK(q, en) == Single(q, LifeKinds) /\ \A k \in Kinds(q) : Fits(k, en)
RunOK(q, r) == Single(q, RunKinds) /\ \A k \in Kinds(q) \cap RunKinds : r.stage = k

TakingOver == saving /\ Head(queue).kind \in {"setup", "resume"}
InCharge == entry = "loaded" \/ TakingOver

\* The stop, or a failure, has taken the rule out of service.
Retired ==
  \/ entry \in {"stopping", "draining", "failing", "failed"}
  \/ entry = "resuming" /\ ~TakingOver

LifeOK ==
  /\ JobsOK(queue, entry)
  /\ entry \in {"setup", "resuming", "loaded"} => subscribed
  /\ entry \in {"loaded", "stopping", "draining", "resuming"} => setupComplete
  /\ TakingOver => setupComplete
  /\ InCharge => ~unloaded
  /\ Retired => unloaded /\ ~startedSub
  /\ Retired /\ entry # "resuming" => ~subscribed

\* The tasks of the executions.
TaskOK == RunOK(queue, run) /\ (~saving => claim = NoPlan)

-----------------------------------------------------------------------------
(* The queue *)

LEMMA AppendElements ==
  ASSUME NEW q \in Seq(Jobs), NEW j \in Jobs
  PROVE  /\ Len(Append(q, j)) = Len(q) + 1 /\ Len(q) \in Nat
         /\ Append(q, j)[Len(q) + 1] = j
         /\ \A i \in 1..Len(q) : Append(q, j)[i] = q[i]
         /\ q # <<>> => Head(Append(q, j)) = Head(q)
<1>1. /\ Len(Append(q, j)) = Len(q) + 1 /\ Len(q) \in Nat
      /\ Append(q, j)[Len(q) + 1] = j
      /\ \A i \in 1..Len(q) : Append(q, j)[i] = q[i]
  OBVIOUS
<1>2. ASSUME q # <<>> PROVE Head(Append(q, j)) = Head(q)
  <2>1. Len(q) > 0 /\ Append(q, j) \in Seq(Jobs) /\ Append(q, j) # <<>>
    BY <1>2, AppendType
  <2>2. Head(Append(q, j)) = Append(q, j)[1] /\ Head(q) = q[1]
    BY <1>2, <2>1
  <2> QED
    BY <1>1, <2>1, <2>2
<1> QED
  BY <1>1, <1>2

LEMMA TailElements ==
  ASSUME NEW q \in Seq(Jobs), q # <<>>
  PROVE  /\ Tail(q) \in Seq(Jobs) /\ Len(q) \in Nat /\ Len(q) > 0
         /\ Len(Tail(q)) = Len(q) - 1 /\ Head(q) = q[1]
         /\ \A i \in 1..Len(Tail(q)) : i + 1 \in 1..Len(q) /\ Tail(q)[i] = q[i + 1]
<1>1. /\ Tail(q) \in Seq(Jobs) /\ Len(q) \in Nat /\ Len(q) > 0
      /\ Len(Tail(q)) = Len(q) - 1 /\ Head(q) = q[1]
  OBVIOUS
<1>2. ASSUME NEW i \in 1..Len(Tail(q))
      PROVE  i + 1 \in 1..Len(q) /\ Tail(q)[i] = q[i + 1]
  BY <1>1
<1> QED
  BY <1>1, <1>2

LEMMA KindsEmpty == Kinds(<<>>) = {} /\ \A K : Single(<<>>, K)
BY DEF Kinds, Single

LEMMA KindsAppend ==
  ASSUME NEW q \in Seq(Jobs), NEW j \in Jobs
  PROVE  /\ Kinds(Append(q, j)) = Kinds(q) \cup {j.kind}
         /\ \A K : Single(q, K) /\ (j.kind \notin K \/ Kinds(q) \cap K = {})
                     => Single(Append(q, j), K)
<1> DEFINE p == Append(q, j)
<1>1. /\ Len(p) = Len(q) + 1 /\ Len(q) \in Nat /\ p[Len(q) + 1] = j
      /\ \A i \in 1..Len(q) : p[i] = q[i]
  BY AppendElements
<1> HIDE DEF p
<1>2. \A i \in 1..Len(p) : i \in 1..Len(q) \/ i = Len(q) + 1
  BY <1>1
<1>3. \A i \in 1..Len(q) : i \in 1..Len(p)
  BY <1>1
<1>4. Len(q) + 1 \in 1..Len(p)
  BY <1>1
<1>5. Kinds(p) = Kinds(q) \cup {j.kind}
  BY <1>1, <1>2, <1>3, <1>4 DEF Kinds
<1>6. ASSUME NEW K, Single(q, K), j.kind \notin K \/ Kinds(q) \cap K = {}
      PROVE  Single(p, K)
  <2>1. SUFFICES ASSUME NEW i \in 1..Len(p), NEW k \in 1..Len(p),
                        p[i].kind \in K, p[k].kind \in K
                 PROVE  i = k
    BY DEF Single
  <2>2. ASSUME NEW n \in 1..Len(q), q[n].kind \in K PROVE j.kind \notin K
    <3>1. q[n].kind \in Kinds(q)
      BY DEF Kinds
    <3> QED
      BY <1>6, <2>2, <3>1
  <2>3. CASE j.kind \in K
    <3>1. i = Len(q) + 1
      BY <1>1, <1>2, <2>1, <2>2, <2>3
    <3>2. k = Len(q) + 1
      BY <1>1, <1>2, <2>1, <2>2, <2>3
    <3> QED
      BY <3>1, <3>2
  <2>4. CASE j.kind \notin K
    <3>1. i \in 1..Len(q) /\ p[i] = q[i] /\ k \in 1..Len(q) /\ p[k] = q[k]
      BY <1>1, <1>2, <2>1, <2>4
    <3> QED
      BY <1>6, <2>1, <3>1 DEF Single
  <2> QED
    BY <2>3, <2>4
<1> QED
  BY <1>5, <1>6 DEF p

LEMMA KindsTail ==
  ASSUME NEW q \in Seq(Jobs), q # <<>>
  PROVE  /\ Kinds(q) = Kinds(Tail(q)) \cup {Head(q).kind}
         /\ \A K : Single(q, K) => /\ Single(Tail(q), K)
                                   /\ Head(q).kind \in K => Kinds(Tail(q)) \cap K = {}
<1> DEFINE t == Tail(q)
<1>1. /\ Len(q) \in Nat /\ Len(q) > 0 /\ Len(t) = Len(q) - 1 /\ Head(q) = q[1]
      /\ \A i \in 1..Len(t) : i + 1 \in 1..Len(q) /\ t[i] = q[i + 1]
  BY TailElements
<1> HIDE DEF t
<1>2. 1 \in 1..Len(q)
  BY <1>1
<1>3. ASSUME NEW i \in 1..Len(q), i # 1 PROVE i - 1 \in 1..Len(t) /\ t[i - 1] = q[i]
  <2>1. i - 1 \in 1..Len(t) /\ (i - 1) + 1 = i
    BY <1>1, <1>3
  <2> QED
    BY <1>1, <2>1
<1>4. Kinds(q) = Kinds(t) \cup {q[1].kind}
  <2>1. ASSUME NEW k \in Kinds(q) PROVE k \in Kinds(t) \cup {q[1].kind}
    <3>1. PICK i \in 1..Len(q) : k = q[i].kind
      BY DEF Kinds
    <3>2. CASE i = 1
      BY <3>1, <3>2
    <3>3. CASE i # 1
      <4>1. i - 1 \in 1..Len(t) /\ t[i - 1].kind = k
        BY <1>3, <3>1, <3>3
      <4> QED
        BY <4>1 DEF Kinds
    <3> QED
      BY <3>2, <3>3
  <2>2. Kinds(t) \subseteq Kinds(q)
    BY <1>1 DEF Kinds
  <2>3. q[1].kind \in Kinds(q)
    BY <1>2 DEF Kinds
  <2> QED
    BY <2>1, <2>2, <2>3
<1>5. ASSUME NEW K, Single(q, K)
      PROVE  Single(t, K) /\ (q[1].kind \in K => Kinds(t) \cap K = {})
  <2>1. ASSUME NEW i \in 1..Len(t), NEW k \in 1..Len(t), t[i].kind \in K, t[k].kind \in K
        PROVE  i = k
    <3>1. i + 1 = k + 1
      BY <1>1, <1>5, <2>1 DEF Single
    <3> QED
      BY <1>1, <3>1
  <2>2. ASSUME q[1].kind \in K, NEW i \in 1..Len(t) PROVE t[i].kind \notin K
    <3>1. i + 1 \in 1..Len(q) /\ i + 1 # 1 /\ t[i] = q[i + 1]
      BY <1>1
    <3> QED
      BY <1>2, <1>5, <2>2, <3>1 DEF Single
  <2> QED
    BY <2>1, <2>2 DEF Single, Kinds
<1> QED
  BY <1>1, <1>4, <1>5 DEF t

LEMMA KindsOutdated ==
  ASSUME NEW q \in Seq(Jobs)
  PROVE  /\ Kinds(Outdated(q)) \subseteq (Kinds(q) \ {"deadline"}) \cup {"outdated"}
         /\ Kinds(q) \ {"deadline"} \subseteq Kinds(Outdated(q))
         /\ \A K : Single(q, K) /\ "outdated" \notin K => Single(Outdated(q), K)
         /\ q # <<>> => Head(Outdated(q)) = IF Head(q).kind = "deadline"
                                            THEN [Head(q) EXCEPT !.kind = "outdated"]
                                            ELSE Head(q)
<1> DEFINE o == Outdated(q)
<1>1. o \in Seq(Jobs) /\ Len(o) = Len(q) /\ (q # <<>> => o # <<>>)
  BY OutdatedType
<1>2. DOMAIN q = 1..Len(q) /\ \A i \in 1..Len(q) : q[i] \in Jobs
  OBVIOUS
<1>3. \A i \in 1..Len(q) : o[i] = IF q[i].kind = "deadline"
                                  THEN [q[i] EXCEPT !.kind = "outdated"] ELSE q[i]
  BY <1>2 DEF Outdated
<1>4. \A j \in Jobs : [j EXCEPT !.kind = "outdated"].kind = "outdated"
  BY DEF Jobs
<1> HIDE DEF o
<1>5. \A i \in 1..Len(q) : o[i].kind = IF q[i].kind = "deadline" THEN "outdated"
                                       ELSE q[i].kind
  BY <1>2, <1>3, <1>4
<1>6. Kinds(o) \subseteq (Kinds(q) \ {"deadline"}) \cup {"outdated"}
  BY <1>1, <1>5 DEF Kinds
<1>7. Kinds(q) \ {"deadline"} \subseteq Kinds(o)
  BY <1>1, <1>5 DEF Kinds
<1>8. ASSUME NEW K, Single(q, K), "outdated" \notin K PROVE Single(o, K)
  BY <1>1, <1>5, <1>8 DEF Single
<1>9. ASSUME q # <<>>
      PROVE  Head(o) = IF Head(q).kind = "deadline"
                       THEN [Head(q) EXCEPT !.kind = "outdated"] ELSE Head(q)
  <2>1. 1 \in 1..Len(q) /\ Head(q) = q[1] /\ Head(o) = o[1]
    BY <1>1, <1>9, TailElements
  <2> QED
    BY <1>3, <2>1
<1> QED
  BY <1>6, <1>7, <1>8, <1>9 DEF o

\* What a section leaves of the queue: the jobs it found, with fired deadlines
\* voided or not.
LEMMA SectionQueue ==
  ASSUME TypeOK, queue # <<>>, NEW q, q = queue \/ q = Outdated(queue)
  PROVE  /\ q \in Seq(Jobs) /\ q # <<>> /\ Tail(q) \in Seq(Jobs)
         /\ Kinds(q) \subseteq Kinds(queue) \cup {"outdated"}
         /\ Kinds(Tail(q)) \subseteq Kinds(q)
         /\ Kinds(queue) \ {"deadline"} \subseteq Kinds(q)
         /\ Head(queue).kind # "deadline" => Head(q) = Head(queue)
         /\ Head(queue).kind = "deadline" => Head(q).kind \in {"deadline", "outdated"}
         /\ \A K : Single(queue, K) /\ "outdated" \notin K =>
              /\ Single(q, K) /\ Single(Tail(q), K)
              /\ Head(q).kind \in K => Kinds(Tail(q)) \cap K = {}
<1>1. queue \in Seq(Jobs)
  BY DEF TypeOK, TasksOK
<1>2. q \in Seq(Jobs) /\ q # <<>>
  BY <1>1, OutdatedType
<1>3. /\ Kinds(q) \subseteq Kinds(queue) \cup {"outdated"}
      /\ Kinds(queue) \ {"deadline"} \subseteq Kinds(q)
      /\ \A K : Single(queue, K) /\ "outdated" \notin K => Single(q, K)
  BY <1>1, KindsOutdated
<1>4. /\ Head(queue).kind # "deadline" => Head(q) = Head(queue)
      /\ Head(queue).kind = "deadline" => Head(q).kind \in {"deadline", "outdated"}
  <2>1. Head(queue) \in Jobs
    BY <1>1, TailElements
  <2>2. [Head(queue) EXCEPT !.kind = "outdated"].kind = "outdated"
    BY <2>1 DEF Jobs
  <2> QED
    BY <1>1, <2>2, KindsOutdated
<1> QED
  BY <1>2, <1>3, <1>4, KindsTail, TailElements

-----------------------------------------------------------------------------
(* The executions *)

LEMMA RunCalls ==
  \A k \in RunKinds \cup {"cancelled"} :
    Call(k, NoTime) \in Jobs /\ Call(k, NoTime).kind = k
BY CallIsJob, NoneType DEF RunKinds, JobKinds, Call, Job

\* Going on with a plan, the execution calls a service or asks for the lock.
LEMMA AdvanceRun ==
  ASSUME NEW p, NEW todo, NEW failed, NEW host, NEW q,
         Advance(p, todo, failed, host, q)
  PROVE  \/ queue' = q /\ run'.stage = "call"
         \/ queue' = Append(q, Call("finish", NoTime)) /\ run'.stage = "finish"
BY DEF Advance

LEMMA BeginRun ==
  ASSUME NEW p, NEW host, NEW q, Begin(p, host, q)
  PROVE  \/ queue' = q /\ run'.stage = "call"
         \/ \E k \in RunKinds : queue' = Append(q, Call(k, NoTime)) /\ run'.stage = k
<1>1. CASE gate # "off"
  BY <1>1 DEF Begin, RunKinds
<1>2. CASE gate = "off"
  BY <1>2, AdvanceRun DEF Begin, RunKinds
<1> QED
  BY <1>1, <1>2

LEMMA StartedRun ==
  ASSUME NEW q \in Seq(Jobs), Kinds(q) \cap RunKinds = {},
         \/ queue' = q
         \/ \E k \in RunKinds : queue' = Append(q, Call(k, NoTime)) /\ run'.stage = k
  PROVE  RunOK(queue', run')
<1>1. Single(q, RunKinds)
  BY DEF Single, Kinds
<1>2. CASE queue' = q
  BY <1>1, <1>2 DEF RunOK
<1>3. ASSUME NEW k \in RunKinds, queue' = Append(q, Call(k, NoTime)), run'.stage = k
      PROVE  RunOK(queue', run')
  BY <1>1, <1>3, RunCalls, KindsAppend DEF RunOK
<1> QED
  BY <1>2, <1>3

\* What a coroutine does once it has released the lock.
LEMMA ReleaseRun ==
  ASSUME NEW kind, NEW p, NEW q, Release(kind, p, q)
  PROVE  /\ saving' = FALSE /\ claim' = NoPlan /\ entry' = EntryAfter(kind)
         /\ \/ queue' = q
            \/ \E k \in RunKinds : queue' = Append(q, Call(k, NoTime)) /\ run'.stage = k
         /\ kind \notin RunKinds /\ (p = NoPlan \/ run # NoRun)
              => queue' = q /\ run' = run
         /\ kind \notin RunKinds /\ p = NoPlan => waiting' = waiting
<1>1. CASE kind = "finish"
  BY <1>1, BeginRun DEF Release, EndRun, RunKinds
<1>2. CASE kind = "blocked"
  BY <1>2 DEF Release, EndRun, RunKinds
<1>3. CASE kind \notin RunKinds
  <2>1. saving' = FALSE /\ claim' = NoPlan /\ entry' = EntryAfter(kind)
        /\ Dispatch(p, HostOf(kind), q)
    BY <1>3 DEF Release, RunKinds
  <2> QED
    BY <1>3, <2>1, BeginRun DEF Dispatch
<1> QED
  BY <1>1, <1>2, <1>3 DEF RunKinds

LEMMA ReleaseTasks ==
  ASSUME NEW q \in Seq(Jobs), RunOK(q, run),
         NEW kind, kind \in RunKinds => Kinds(q) \cap RunKinds = {},
         NEW p, Release(kind, p, q)
  PROVE  TaskOK'
<1>1. CASE Kinds(q) \cap RunKinds = {}
  BY <1>1, ReleaseRun, StartedRun DEF TaskOK
<1>2. CASE Kinds(q) \cap RunKinds # {}
  <2>1. run # NoRun
    BY <1>2 DEF RunOK, NoRun, RunKinds
  <2>2. queue' = q /\ run' = run /\ claim' = NoPlan
    BY <1>2, <2>1, ReleaseRun
  <2> QED
    BY <2>2 DEF TaskOK
<1> QED
  BY <1>1, <1>2

-----------------------------------------------------------------------------
(* What each kind of step can do *)

\* Home Assistant and the timer queue at most one job, on their conditions.
LEMMA HomeSummary ==
  ASSUME TypeOK, Tick \/ Fire \/ Environment, ~Crash
  PROVE  /\ UNCHANGED <<entry, config, store, setupComplete, starting, unloaded,
                        subscribed, enabled, status, cycles, unavailable, timer,
                        lastExec, saving, claim, waiting, run>>
         /\ startedSub' => startedSub
         /\ inhibited' = inhibited \/ RequestDisable
         /\ \/ queue' = queue
            \/ \E j \in Jobs :
                 /\ queue' = Append(queue, j)
                 /\ j.kind \in {"event", "deadline", "enable", "disable", "started"}
                 /\ j.kind = "event" => subscribed
                 /\ j.kind = "deadline" => timer # NoTime /\ timer <= now /\ j.at = timer
                 /\ j.kind = "started" => startedSub
                 /\ j.kind \in {"enable", "disable"} => Switchable
                 /\ j.kind = "enable" => RequestEnable
                 /\ j.kind = "disable" => RequestDisable
<1> USE DEF config, store, rule, phase, tasks
<1>1. CASE Tick
  BY <1>1 DEF Tick
<1>2. CASE Fire
  <2>1. /\ Call("deadline", timer) \in Jobs /\ Call("deadline", timer).kind = "deadline"
        /\ Call("deadline", timer).at = timer
    BY CallIsJob DEF TypeOK, RuleOK, JobKinds, Call, Job
  <2> QED
    BY <1>2, <2>1 DEF Fire, Post
<1>3. ASSUME NEW e \in Entities, NEW s \in Reports, Report(e, s)
      PROVE  /\ UNCHANGED <<entry, config, rule, store, phase, saving, claim, waiting, run>>
             /\ \/ queue' = queue
                \/ \E j \in Jobs : queue' = Append(queue, j) /\ j.kind = "event" /\ subscribed
  <2>1. ChangedAt(s) \in Int
    BY NoneType DEF ChangedAt, TypeOK, WorldOK
  <2>2. /\ Job("event", e, s, ChangedAt(s)) \in Jobs
        /\ Job("event", e, s, ChangedAt(s)).kind = "event"
    BY <2>1 DEF Job, Jobs, JobKinds
  <2> QED
    BY <1>3, <2>2 DEF Report, Notify, Post
<1>4. ASSUME NEW g \in {"off", "on", "bad"}, MoveGate(g)
      PROVE  /\ UNCHANGED <<entry, config, rule, store, phase, saving, claim, waiting, run>>
             /\ \/ queue' = queue
                \/ \E j \in Jobs : queue' = Append(queue, j) /\ j.kind = "event" /\ subscribed
  <2>1. /\ Job("event", Gate, g, NoTime) \in Jobs
        /\ Job("event", Gate, g, NoTime).kind = "event"
    BY NoneType DEF Job, Jobs, JobKinds
  <2> QED
    BY <1>4, <2>1 DEF MoveGate, Notify, Post
<1>5. ASSUME NEW e \in Entities, ChangeRegistry(e)
      PROVE  UNCHANGED <<entry, config, rule, store, phase, tasks>>
  BY <1>5 DEF ChangeRegistry
<1>6. \A k \in {"started", "enable", "disable"} :
        Call(k, NoTime) \in Jobs /\ Call(k, NoTime).kind = k
  BY CallIsJob, NoneType DEF JobKinds, Call, Job
<1>7. CASE HaStarts
  BY <1>6, <1>7 DEF HaStarts, Post
<1>8. CASE RequestEnable
  BY <1>6, <1>8 DEF RequestEnable, Post
<1>9. CASE RequestDisable
  <2>1. queue' = Append(queue, Call("disable", NoTime)) /\ Switchable
    BY <1>9 DEF RequestDisable, Post
  <2>2. /\ UNCHANGED <<entry, config, store, setupComplete, starting, unloaded,
                        subscribed, enabled, status, cycles, unavailable, timer,
                        lastExec, saving, claim, waiting, run>>
        /\ startedSub' = startedSub
    BY <1>9 DEF RequestDisable
  <2> QED
    BY <1>6, <1>9, <2>1, <2>2
<1> QED
  BY <1>1, <1>2, <1>3, <1>4, <1>5, <1>7, <1>8, <1>9 DEF Environment

\* An execution leaves all but itself and the tail of the queue alone.
LEMMA ExecutionSummary ==
  ASSUME TypeOK, TaskOK, Execution
  PROVE  /\ UNCHANGED <<world, entry, config, rule, store, phase, saving, claim>>
         /\ run # NoRun \/ waiting # <<>>
         /\ \/ queue' = queue
            \/ \E k \in RunKinds \cup {"cancelled"} : queue' = Append(queue, Call(k, NoTime))
         /\ TaskOK'
<1> DEFINE Frame == UNCHANGED <<world, entry, config, rule, store, phase, saving, claim>>
<1>1. queue \in Seq(Jobs)
  BY DEF TypeOK, TasksOK
<1>2. ASSUME run.stage \notin RunKinds PROVE Kinds(queue) \cap RunKinds = {}
  BY <1>2 DEF TaskOK, RunOK
<1>3. ASSUME run.stage \notin RunKinds, Frame,
             \/ queue' = queue
             \/ \E k \in RunKinds : queue' = Append(queue, Call(k, NoTime)) /\ run'.stage = k
      PROVE  TaskOK'
  BY <1>1, <1>2, <1>3, StartedRun DEF TaskOK
<1>4. ASSUME run # NoRun, run.stage \notin RunKinds, NEW bad, Proceed(bad)
      PROVE  /\ Frame
             /\ \/ queue' = queue
                \/ \E k \in RunKinds : queue' = Append(queue, Call(k, NoTime)) /\ run'.stage = k
  BY <1>4, AdvanceRun DEF Proceed, RunKinds
<1>5. CASE ServiceReturns \/ ServiceFails \/ ConfirmEnds
  <2>1. run # NoRun /\ run.stage \notin RunKinds
    BY <1>5 DEF ServiceReturns, ServiceFails, ConfirmEnds, Running, RunKinds
  <2>2. \/ \E bad : Proceed(bad)
        \/ Frame /\ queue' = queue
    BY <1>5 DEF ServiceReturns, ServiceFails, ConfirmEnds
  <2> QED
    BY <1>3, <1>4, <2>1, <2>2
<1>6. CASE StartNext
  <2>1. Frame /\ run = NoRun /\ waiting # <<>> /\ \E p : Begin(p, "task", queue)
    BY <1>6 DEF StartNext
  <2>2. run.stage \notin RunKinds
    BY <2>1 DEF NoRun, RunKinds
  <2> QED
    BY <1>3, <2>1, <2>2, BeginRun
<1>7. CASE Cancel \/ CancelWaiting
  <2>1. /\ Frame /\ queue' = Append(queue, Call("cancelled", NoTime))
        /\ run' = run \/ (run # NoRun /\ run.stage \notin RunKinds)
    BY <1>7 DEF Cancel, CancelWaiting, Post, Running, RunKinds
  <2>2. run # NoRun \/ waiting # <<>>
    <3>1. Cancel => run # NoRun
      BY DEF Cancel, Running
    <3>2. CancelWaiting => \E i \in 1..Len(waiting) : TRUE
      BY DEF CancelWaiting
    <3>3. Len(<<>>) = 0 /\ ~ \E i \in 1..0 : TRUE
      OBVIOUS
    <3> QED
      BY <1>7, <3>1, <3>2, <3>3
  <2>3. Kinds(queue') = Kinds(queue) \cup {"cancelled"} /\ Single(queue', RunKinds)
    BY <1>1, <2>1, RunCalls, KindsAppend DEF TaskOK, RunOK, RunKinds
  <2>4. RunOK(queue', run')
    BY <1>2, <2>1, <2>3 DEF RunOK, TaskOK, RunKinds
  <2> QED
    BY <2>1, <2>2, <2>4 DEF TaskOK
<1> QED
  BY <1>5, <1>6, <1>7 DEF Execution

\* A locked section that has something to do. It works on the head of the
\* queue, and ends by a save, or by releasing the lock to wait for the start of
\* Home Assistant. What it may plan depends on its kind and on the phase.
SectionRuns(kind, p, q) ==
  /\ queue # <<>> /\ saving = FALSE /\ ~Stale(Head(queue)) /\ kind = Head(queue).kind
  /\ q = queue \/ q = Outdated(queue)
  /\ UNCHANGED <<world, store, retry, subscribed>>
  /\ setupComplete' = (setupComplete \/ kind = "setup")
  /\ unloaded' = (unloaded /\ kind \notin {"setup", "resume"})
  /\ p # NoPlan => kind \notin {"disable", "stop", "blocked", "cancelled"}
  /\ p # NoPlan /\ kind \in {"event", "enable"} => ~starting
  /\ p # NoPlan /\ kind = "finish" => ~unloaded
  /\ kind \notin {"enable", "disable", "setup"} => enabled' = enabled
  /\ kind = "enable" => enabled' /\ ~inhibited'
  /\ kind = "disable" => ~enabled'
  /\ kind = "resume" => inhibited' = ~enabled
  /\ kind \notin {"enable", "resume", "setup"} => inhibited' = inhibited

SectionSaves(kind, p, q) ==
  /\ \E force \in BOOLEAN : /\ Save(kind, force, p, q)
                            /\ kind \in {"setup", "started", "stop", "finish", "cancelled"} => force
  /\ startedSub' = startedSub
  /\ starting' = (starting /\ kind \notin {"started", "resume"})
  /\ starting /\ kind \in {"event", "enable", "disable", "stop"} => timer' \in {timer, NoTime}
  /\ kind = "disable" => timer' = NoTime
  /\ kind = "stop" => timer' = NoTime
  /\ unloaded /\ kind \in {"finish", "cancelled"} => timer' = timer

SectionWaits(kind, p, q) ==
  /\ kind \in {"setup", "resume"} /\ p = NoPlan /\ q = queue
  /\ Release(kind, p, Tail(q))
  /\ starting' /\ timer' = timer
  /\ kind = "resume" => starting
  /\ kind = "setup" => inhibited' = ~enabled'
  /\ cycles' = IF kind = "setup" THEN Restored.cycles ELSE cycles

\* What it does to the cycles: it matches them to what it knows of the reports,
SectionLooks(kind, synced) ==
  LET base == IF kind = "setup" THEN Restored.cycles ELSE cycles
  IN  \/ /\ synced = base
         /\ kind \in {"enable", "disable", "stop", "blocked"}
            \/ (kind \in {"setup", "resume"} /\ starting')
      \/ synced = Sync(base) /\ kind # "event"
      \/ /\ kind = "event"
         /\ synced = Synced(base, Seen(Head(queue)), Since(Head(queue)), allowed)

\* takes claims back when an attempt is over, blocked or lost,
MomentOf(kind) ==
  CASE kind = "finish" -> run.at
    [] kind = "deadline" -> Head(queue).at
    [] OTHER -> now

SectionRearms(kind, synced, cs) ==
  \/ /\ cs = synced /\ kind \notin {"started", "finish", "cancelled", "blocked"}
     /\ kind = "setup" \/ (kind = "resume" /\ starting) => starting'
  \/ cs = Unclaimed(synced) /\ kind = "blocked"
  \/ /\ kind \in {"setup", "started", "resume", "finish", "cancelled"}
     /\ kind = "resume" => starting
     /\ cs = Rearmed(synced, MomentOf(kind), retry)

\* and claims them all for the plan it makes, if one is due.
WasDue(cs, t) == Pending(cs) # {} /\ Due(cs, t)

SectionClaims(kind, p, cs) ==
  \/ p = NoPlan /\ cycles' = cs
  \/ p # NoPlan /\ cycles' = Claimed(cs) /\ WasDue(cs, MomentOf(kind))
  \/ kind = "blocked" /\ cycles' = Claimed(cs)
  \/ kind = "cancelled" /\ retry > 0 /\ cycles' = Unclaimed(Claimed(cs))

SectionCycles(kind, p) ==
  \E synced, cs \in Cycles :
    SectionLooks(kind, synced) /\ SectionRearms(kind, synced, cs) /\ SectionClaims(kind, p, cs)

LEMMA QueueForIs ==
  ASSUME NEW t
  PROVE  QueueFor(t) = queue \/ QueueFor(t) = Outdated(queue)
BY DEF QueueFor

\* Nothing is claimed without a plan, and nothing is planned that is not due.
Decided(cs, r, t) ==
  \/ r.plan = NoPlan /\ r.cycles = cs
  \/ r.plan # NoPlan /\ r.cycles = Claimed(cs) /\ WasDue(cs, t)

LEMMA ReconciledDecides ==
  ASSUME NEW cs \in Cycles, NEW un, NEW on, NEW t
  PROVE  Decided(cs, Reconciled(cs, un, on, t), t)
<1> DEFINE claims == /\ on /\ Active(cs) # {} /\ gate = "off" /\ Pending(cs) # {}
                     /\ Due(cs, t)
<1>1. CASE claims
  <2>1. Trigger(cs) # NoPlan
    BY <1>1, TriggerType, RuleAssumption DEF NoPlan
  <2>2. Reconciled(cs, un, on, t) = Outcome(Claimed(cs), NoTime, "executing", Trigger(cs))
    BY <1>1 DEF Reconciled
  <2>3. WasDue(cs, t)
    BY <1>1 DEF WasDue
  <2> QED
    BY <2>1, <2>2, <2>3 DEF Outcome, Decided
<1>2. CASE ~claims
  BY <1>2 DEF Reconciled, Outcome, Decided
<1> QED
  BY <1>1, <1>2

LEMMA SectionDecides ==
  ASSUME NEW kind, NEW r, cycles' = r.cycles, NEW synced \in Cycles, NEW cs \in Cycles,
         SectionLooks(kind, synced), SectionRearms(kind, synced, cs),
         Decided(cs, r, MomentOf(kind))
  PROVE  SectionCycles(kind, r.plan)
<1>1. SectionClaims(kind, r.plan, cs)
  BY DEF Decided, SectionClaims
<1> QED
  BY <1>1 DEF SectionCycles

\* Matched and rearmed cycles are cycles.
LEMMA SectionTypes ==
  ASSUME TypeOK
  PROVE  /\ cycles \in Cycles /\ Restored.cycles \in Cycles
         /\ \A cs \in Cycles : /\ Sync(cs) \in Cycles /\ Unclaimed(cs) \in Cycles
                               /\ \A at \in Int : Rearmed(cs, at, retry) \in Cycles
         /\ queue # <<>> =>
              Synced(cycles, Seen(Head(queue)), Since(Head(queue)), allowed) \in Cycles
         /\ now \in Int /\ retry \in Nat /\ (run # NoRun => run.at \in Int)
         /\ setupComplete \in BOOLEAN /\ starting \in BOOLEAN /\ unloaded \in BOOLEAN
         /\ saving \in BOOLEAN
<1>1. cycles \in Cycles /\ WorldOK /\ ConfigOK /\ RuleOK /\ TasksOK
  BY DEF TypeOK, RuleOK
<1>2. Restored.cycles \in Cycles
  BY <1>1, RestoredType
<1>3. queue # <<>> => Head(queue) \in Jobs
  BY <1>1, HeadType
<1>4. now \in Int /\ retry \in Nat /\ (run # NoRun => run.at \in Int)
  BY <1>1 DEF WorldOK, ConfigOK, TasksOK, Runs
<1>5. ASSUME NEW cs \in Cycles
      PROVE  /\ Sync(cs) \in Cycles /\ Unclaimed(cs) \in Cycles
             /\ \A at \in Int : Rearmed(cs, at, retry) \in Cycles
  BY <1>1, <1>4, SyncType, ChangedCycles
<1>6. queue # <<>> => Synced(cycles, Seen(Head(queue)), Since(Head(queue)), allowed) \in Cycles
  BY <1>1, <1>3, SyncType
<1> QED
  BY <1>1, <1>2, <1>4, <1>5, <1>6 DEF TypeOK, PhaseOK, TasksOK

LEMMA MomentType ==
  ASSUME TypeOK, NEW kind, kind = "deadline" => queue # <<>>
  PROVE  MomentOf(kind) \in Int
<1>1. now \in Int /\ run.at \in Int
  BY NoneType DEF TypeOK, WorldOK, TasksOK, Runs, NoRun
<1>2. kind = "deadline" => Head(queue).at \in Int
  BY HeadType DEF TypeOK, Jobs
<1> QED
  BY <1>1, <1>2 DEF MomentOf

LEMMA SectionSummary ==
  ASSUME TypeOK, Section, ~Skip
  PROVE  \E kind, p, q : /\ SectionRuns(kind, p, q) /\ SectionCycles(kind, p)
                         /\ SectionSaves(kind, p, q) \/ SectionWaits(kind, p, q)
<1> USE QueueForIs DEF config, store, phase, rule
<1>1. /\ cycles \in Cycles /\ Restored.cycles \in Cycles
      /\ \A cs \in Cycles : /\ Sync(cs) \in Cycles /\ Unclaimed(cs) \in Cycles
                            /\ \A at \in Int : Rearmed(cs, at, retry) \in Cycles
      /\ queue # <<>> =>
           Synced(cycles, Seen(Head(queue)), Since(Head(queue)), allowed) \in Cycles
      /\ now \in Int /\ retry \in Nat /\ (run # NoRun => run.at \in Int)
      /\ setupComplete \in BOOLEAN /\ starting \in BOOLEAN /\ unloaded \in BOOLEAN
      /\ saving \in BOOLEAN
  BY SectionTypes
<1>16. /\ \A kind \in {"event", "enable", "started", "setup", "resume"} : MomentOf(kind) = now
       /\ MomentOf("deadline") = Head(queue).at /\ MomentOf("finish") = run.at
  BY DEF MomentOf
<1>0. ASSUME NEW kind, NEW synced \in Cycles, SectionLooks(kind, synced),
             SectionRearms(kind, synced, synced), cycles' = synced
      PROVE  SectionCycles(kind, NoPlan)
  BY <1>0 DEF SectionCycles, SectionClaims
<1>2. CASE EventWhileStarting
  <2> DEFINE synced == Synced(cycles, Seen(Head(queue)), Since(Head(queue)), allowed)
  <2>1. SectionRuns("event", NoPlan, queue)
    BY <1>1, <1>2 DEF EventWhileStarting, Holds, SectionRuns
  <2>2. SectionSaves("event", NoPlan, queue)
    BY <1>1, <1>2 DEF EventWhileStarting, SectionSaves
  <2>3. synced \in Cycles /\ cycles' = synced
    BY <1>1, <1>2 DEF EventWhileStarting, Holds
  <2>4. SectionLooks("event", synced) /\ SectionRearms("event", synced, synced)
    BY DEF SectionLooks, SectionRearms
  <2> QED
    BY <1>0, <2>1, <2>2, <2>3, <2>4
<1>3. CASE HandleEvent
  <2> DEFINE synced == Synced(cycles, Seen(Head(queue)), Since(Head(queue)), allowed)
             r == Reconciled(synced, Unreadable(Seen(Head(queue)), allowed), enabled, now)
  <2>1. /\ Holds("event") /\ ~Stale(Head(queue)) /\ ~starting /\ Install(r)
        /\ UNCHANGED <<world, config, store, phase, enabled, inhibited, lastExec>>
        /\ Save("event", FALSE, r.plan, QueueFor(r.timer))
    BY <1>3 DEF HandleEvent
  <2>2. synced \in Cycles /\ Decided(synced, r, now) /\ cycles' = r.cycles
    BY <1>1, <2>1, ReconciledDecides DEF Holds, Install
  <2>3. SectionLooks("event", synced) /\ SectionRearms("event", synced, synced)
    BY DEF SectionLooks, SectionRearms
  <2> HIDE DEF r, synced
  <2>4. SectionRuns("event", r.plan, QueueFor(r.timer))
    BY <1>1, <2>1 DEF Holds, SectionRuns
  <2>5. SectionSaves("event", r.plan, QueueFor(r.timer))
    BY <1>1, <2>1 DEF SectionSaves
  <2> QED
    BY <2>2, <2>3, <2>4, <2>5, <1>16, SectionDecides
<1>4. CASE HandleDeadline
  <2> DEFINE synced == Sync(cycles)
             r == Reconciled(synced, Unreadable(entState, allowed), enabled, Head(queue).at)
  <2>1. /\ Holds("deadline") /\ ~Stale(Head(queue)) /\ Install(r)
        /\ UNCHANGED <<world, config, store, phase, enabled, inhibited, lastExec>>
        /\ Save("deadline", FALSE, r.plan, Outdated(queue))
    BY <1>4 DEF HandleDeadline
  <2>2. synced \in Cycles /\ Decided(synced, r, Head(queue).at) /\ cycles' = r.cycles
    BY <1>1, <2>1, ReconciledDecides DEF Install
  <2>3. SectionLooks("deadline", synced) /\ SectionRearms("deadline", synced, synced)
    BY DEF SectionLooks, SectionRearms
  <2> HIDE DEF r, synced
  <2>4. SectionRuns("deadline", r.plan, Outdated(queue))
    BY <1>1, <2>1 DEF Holds, SectionRuns
  <2>5. SectionSaves("deadline", r.plan, Outdated(queue))
    BY <1>1, <2>1 DEF SectionSaves
  <2> QED
    BY <2>2, <2>3, <2>4, <2>5, <1>16, SectionDecides
<1>5. CASE HandleEnable
  <2> DEFINE r == IF starting THEN Outcome(cycles, timer, "initializing", NoPlan)
                  ELSE Reconciled(Sync(cycles), Unreadable(entState, allowed), TRUE, now)
             q == IF starting THEN queue ELSE QueueFor(r.timer)
             synced == IF starting THEN cycles ELSE Sync(cycles)
  <2>1. /\ Holds("enable") /\ ~Stale(Head(queue)) /\ Install(r) /\ enabled' /\ ~inhibited'
        /\ UNCHANGED <<world, config, store, phase, lastExec>>
        /\ Save("enable", FALSE, r.plan, q)
    BY <1>5 DEF HandleEnable
  <2>2. starting => r.plan = NoPlan /\ r.timer = timer
    BY DEF Outcome
  <2>3. synced \in Cycles /\ Decided(synced, r, now) /\ cycles' = r.cycles
    <3>1. Decided(Sync(cycles), Reconciled(Sync(cycles), Unreadable(entState, allowed), TRUE, now),
                now)
      BY <1>1, ReconciledDecides
    <3> QED
      BY <1>1, <2>1, <3>1 DEF Install, Decided, Outcome
  <2>4. SectionLooks("enable", synced) /\ SectionRearms("enable", synced, synced)
    BY DEF SectionLooks, SectionRearms
  <2> HIDE DEF r, synced
  <2>5. SectionRuns("enable", r.plan, q)
    BY <1>1, <2>1, <2>2 DEF Holds, SectionRuns
  <2>6. SectionSaves("enable", r.plan, q)
    BY <1>1, <2>1, <2>2 DEF SectionSaves, Install
  <2> QED
    BY <2>3, <2>4, <2>5, <2>6, <1>16, SectionDecides
<1>6. CASE HandleDisable
  <2>1. SectionRuns("disable", NoPlan, Outdated(queue))
    BY <1>1, <1>6 DEF HandleDisable, Holds, SectionRuns
  <2>2. SectionSaves("disable", NoPlan, Outdated(queue))
    BY <1>1, <1>6 DEF HandleDisable, SectionSaves
  <2>3. SectionLooks("disable", cycles) /\ SectionRearms("disable", cycles, cycles)
    BY DEF SectionLooks, SectionRearms
  <2> QED
    BY <1>0, <1>1, <1>6, <2>1, <2>2, <2>3 DEF HandleDisable
<1>7. CASE HandleStarted
  <2> DEFINE synced == Sync(cycles)
             cs == Rearmed(synced, now, retry)
             r == Reconciled(cs, Unreadable(entState, allowed), enabled, now)
  <2>1. /\ Holds("started") /\ ~Stale(Head(queue)) /\ ~starting' /\ Install(r)
        /\ UNCHANGED <<world, config, store, setupComplete, unloaded, startedSub, subscribed,
                       enabled, inhibited>>
        /\ Save("started", TRUE, r.plan, QueueFor(r.timer))
    BY <1>7 DEF HandleStarted
  <2>2. synced \in Cycles /\ cs \in Cycles /\ Decided(cs, r, now) /\ cycles' = r.cycles
    BY <1>1, <2>1, ReconciledDecides DEF Install
  <2>3. SectionLooks("started", synced) /\ SectionRearms("started", synced, cs)
    BY <1>1 DEF SectionLooks, SectionRearms, MomentOf
  <2>4. starting' = FALSE
    BY <1>7 DEF HandleStarted
  <2> HIDE DEF r, synced, cs
  <2>5. SectionRuns("started", r.plan, QueueFor(r.timer))
    BY <1>1, <2>1 DEF Holds, SectionRuns
  <2>6. SectionSaves("started", r.plan, QueueFor(r.timer))
    BY <1>1, <2>1, <2>4 DEF SectionSaves
  <2> QED
    BY <2>2, <2>3, <2>5, <2>6, <1>16, SectionDecides
<1>8. CASE SetUpWhileStarting
  <2>1. SectionRuns("setup", NoPlan, queue)
    BY <1>1, <1>8 DEF SetUpWhileStarting, Holds, SectionRuns, Stale
  <2>2. SectionWaits("setup", NoPlan, queue)
    BY <1>8 DEF SetUpWhileStarting, SectionWaits
  <2>3. /\ SectionLooks("setup", Restored.cycles) /\ cycles' = Restored.cycles
        /\ SectionRearms("setup", Restored.cycles, Restored.cycles)
    BY <1>8 DEF SetUpWhileStarting, SectionLooks, SectionRearms
  <2> QED
    BY <1>0, <1>1, <2>1, <2>2, <2>3
<1>9. CASE HandleSetup
  <2> DEFINE m == Restored
             synced == Sync(m.cycles)
             cs == Rearmed(synced, now, retry)
             r == Reconciled(cs, Unreadable(entState, allowed), m.enabled, now)
  <2>1. /\ Holds("setup") /\ setupComplete' = TRUE /\ unloaded' = FALSE /\ Install(r)
        /\ UNCHANGED <<world, retry, store, starting, startedSub, subscribed>>
        /\ Save("setup", TRUE, r.plan, QueueFor(r.timer))
    BY <1>9 DEF HandleSetup
  <2>2. synced \in Cycles /\ cs \in Cycles /\ Decided(cs, r, now) /\ cycles' = r.cycles
    BY <1>1, <2>1, ReconciledDecides DEF Install
  <2>3. SectionLooks("setup", synced) /\ SectionRearms("setup", synced, cs)
    BY <1>1 DEF SectionLooks, SectionRearms, MomentOf
  <2> HIDE DEF r, synced, cs
  <2>4. SectionRuns("setup", r.plan, QueueFor(r.timer))
    BY <1>1, <2>1 DEF Holds, SectionRuns, Stale
  <2>5. SectionSaves("setup", r.plan, QueueFor(r.timer))
    BY <1>1, <2>1 DEF SectionSaves
  <2> QED
    BY <2>2, <2>3, <2>4, <2>5, <1>16, SectionDecides
<1>10. CASE HandleStop
  <2>1. SectionRuns("stop", NoPlan, Outdated(queue))
    BY <1>1, <1>10 DEF HandleStop, Holds, SectionRuns, Stale
  <2>2. SectionSaves("stop", NoPlan, Outdated(queue))
    BY <1>1, <1>10 DEF HandleStop, SectionSaves
  <2>3. SectionLooks("stop", cycles) /\ SectionRearms("stop", cycles, cycles)
    BY DEF SectionLooks, SectionRearms
  <2> QED
    BY <1>0, <1>1, <1>10, <2>1, <2>2, <2>3 DEF HandleStop
<1>11. CASE ResumeWhileStarting
  <2>1. SectionRuns("resume", NoPlan, queue)
    BY <1>1, <1>11 DEF ResumeWhileStarting, Holds, SectionRuns, Stale
  <2>2. SectionWaits("resume", NoPlan, queue)
    BY <1>11 DEF ResumeWhileStarting, SectionWaits
  <2>3. SectionLooks("resume", cycles) /\ SectionRearms("resume", cycles, cycles)
    BY <1>11 DEF ResumeWhileStarting, SectionLooks, SectionRearms
  <2> QED
    BY <1>0, <1>1, <1>11, <2>1, <2>2, <2>3 DEF ResumeWhileStarting
<1>12. CASE HandleResume
  <2> DEFINE synced == Sync(cycles)
             cs == IF starting THEN Rearmed(synced, now, retry) ELSE synced
             r == Reconciled(cs, Unreadable(entState, allowed), enabled, now)
  <2>1. /\ Holds("resume") /\ unloaded' = FALSE /\ starting' = FALSE /\ Install(r)
        /\ inhibited' = ~enabled
        /\ UNCHANGED <<world, config, store, setupComplete, startedSub, subscribed, enabled>>
        /\ Save("resume", FALSE, r.plan, QueueFor(r.timer))
    BY <1>12 DEF HandleResume
  <2>2. synced \in Cycles /\ cs \in Cycles /\ Decided(cs, r, now) /\ cycles' = r.cycles
    BY <1>1, <2>1, ReconciledDecides DEF Install
  <2>3. SectionLooks("resume", synced) /\ SectionRearms("resume", synced, cs)
    BY <1>1 DEF SectionLooks, SectionRearms, MomentOf
  <2> HIDE DEF r, synced, cs
  <2>4. SectionRuns("resume", r.plan, QueueFor(r.timer))
    BY <1>1, <2>1 DEF Holds, SectionRuns, Stale
  <2>5. SectionSaves("resume", r.plan, QueueFor(r.timer))
    BY <1>1, <2>1 DEF SectionSaves
  <2> QED
    BY <2>2, <2>3, <2>4, <2>5, <1>16, SectionDecides
<1>13. CASE HandleBlocked
  <2> DEFINE cs == Unclaimed(cycles)
             r == Reconciled(cs, unavailable, enabled, now)
  <2>1. /\ Holds("blocked") /\ Install(r)
        /\ UNCHANGED <<world, config, store, phase, enabled, inhibited>>
        /\ Save("blocked", FALSE, NoPlan, QueueFor(r.timer))
    BY <1>13 DEF HandleBlocked
  <2>2. cs \in Cycles /\ Decided(cs, r, now) /\ cycles' = r.cycles
    BY <1>1, <2>1, ReconciledDecides DEF Install
  <2>3. SectionLooks("blocked", cycles) /\ SectionRearms("blocked", cycles, cs)
    BY DEF SectionLooks, SectionRearms
  <2> HIDE DEF r, cs
  <2>4. SectionClaims("blocked", NoPlan, cs)
    BY <2>2 DEF SectionClaims, Decided
  <2>5. SectionRuns("blocked", NoPlan, QueueFor(r.timer))
    BY <1>1, <2>1 DEF Holds, SectionRuns, Stale
  <2>6. SectionSaves("blocked", NoPlan, QueueFor(r.timer))
    BY <1>1, <2>1 DEF SectionSaves
  <2> QED
    BY <1>1, <2>2, <2>3, <2>4, <2>5, <2>6 DEF SectionCycles
<1>14. CASE HandleFinish
  <2> DEFINE synced == Sync(cycles)
             cs == Rearmed(synced, run.at, retry)
             follows == Active(cs) # {} /\ retry > 0 /\ ~unloaded
             st == IF run.failed THEN "error" ELSE "completed"
             r == IF follows
                  THEN Reconciled(cs, Unreadable(entState, allowed), enabled, run.at)
                  ELSE Outcome(cs, timer, st, NoPlan)
             q == IF follows THEN QueueFor(r.timer) ELSE queue
  <2>1. /\ Holds("finish") /\ Install(r)
        /\ UNCHANGED <<world, config, store, phase, enabled, inhibited>>
        /\ Save("finish", TRUE, r.plan, q)
    BY <1>14 DEF HandleFinish
  <2>2. unloaded => r.plan = NoPlan /\ r.timer = timer
    BY DEF Outcome
  <2>3. run.at \in Int
    BY <1>1, NoneType DEF NoRun
  <2>4. synced \in Cycles /\ cs \in Cycles
    BY <1>1, <2>3
  <2>5. Decided(cs, r, run.at) /\ cycles' = r.cycles
    <3>1. Decided(cs, Reconciled(cs, Unreadable(entState, allowed), enabled, run.at), run.at)
      BY <2>4, ReconciledDecides
    <3>2. Decided(cs, Outcome(cs, timer, st, NoPlan), run.at)
      BY DEF Decided, Outcome
    <3> QED
      BY <2>1, <3>1, <3>2 DEF Install
  <2>6. SectionLooks("finish", synced) /\ SectionRearms("finish", synced, cs)
    BY DEF SectionLooks, SectionRearms, MomentOf
  <2> HIDE DEF r, follows, cs, synced
  <2>7. SectionRuns("finish", r.plan, q)
    BY <1>1, <2>1, <2>2 DEF Holds, SectionRuns, Stale
  <2>8. SectionSaves("finish", r.plan, q)
    BY <1>1, <2>1, <2>2 DEF SectionSaves, Install
  <2> QED
    BY <2>4, <2>5, <2>6, <2>7, <2>8, <1>16, SectionDecides
<1>15. CASE HandleCancelled
  <2> DEFINE synced == Sync(cycles)
             rearmed == Rearmed(synced, now, retry)
             r == Reconciled(rearmed, Unreadable(entState, allowed), enabled, now)
             idle == rearmed = synced \/ unloaded
             r2 == IF idle THEN Outcome(rearmed, timer, status, NoPlan)
                   ELSE IF r.plan # NoPlan
                        THEN Outcome(Unclaimed(r.cycles), now, r.status, NoPlan)
                   ELSE r
             q == IF idle THEN queue
                  ELSE IF r.plan # NoPlan THEN Outdated(queue)
                  ELSE QueueFor(r.timer)
  <2>1. /\ Holds("cancelled") /\ Install(r2)
        /\ UNCHANGED <<world, config, store, phase, enabled, inhibited>>
        /\ Save("cancelled", TRUE, NoPlan, q)
    BY <1>15 DEF HandleCancelled, Recovery
  <2>2. unloaded => r2.timer = timer
    BY DEF Outcome
  <2>3. q = queue \/ q = Outdated(queue)
    OBVIOUS
  <2>4. synced \in Cycles /\ rearmed \in Cycles /\ Decided(rearmed, r, now)
    BY <1>1, ReconciledDecides
  <2>5. rearmed # synced => retry > 0
    BY <1>1, <2>4 DEF Rearmed, Cycles
  <2>6. SectionLooks("cancelled", synced) /\ SectionRearms("cancelled", synced, rearmed)
    BY DEF SectionLooks, SectionRearms, MomentOf
  <2>7. SectionClaims("cancelled", NoPlan, rearmed)
    <3>1. cycles' = r2.cycles
      BY <2>1 DEF Install
    <3> HIDE DEF synced, rearmed, r
    <3> QED
      BY <2>4, <2>5, <3>1 DEF SectionClaims, Decided, Outcome
  <2> HIDE DEF r2, q, synced, rearmed
  <2>8. SectionRuns("cancelled", NoPlan, q)
    BY <1>1, <2>1, <2>3 DEF Holds, SectionRuns, Stale
  <2>9. SectionSaves("cancelled", NoPlan, q)
    BY <1>1, <2>1, <2>2 DEF SectionSaves, Install
  <2> QED
    BY <2>4, <2>6, <2>7, <2>8, <2>9 DEF SectionCycles
<1> QED
  BY <1>2, <1>3, <1>4, <1>5, <1>6, <1>7, <1>8, <1>9, <1>10, <1>11, <1>12, <1>13, <1>14,
     <1>15 DEF Section

\* The end of a save: the coroutine goes on, or the set-up or the resumption
\* has failed.
LEMMA SaveEndsSummary ==
  ASSUME TypeOK, SaveEnds
  PROVE  /\ saving /\ queue # <<>>
         /\ \/ \E p \in {claim, NoPlan} :
                 /\ Release(Head(queue).kind, p, Tail(queue))
                 /\ UNCHANGED <<world, config, phase, enabled, status, cycles, unavailable,
                                timer, lastExec>>
                 /\ inhibited' = IF Head(queue).kind = "setup" THEN ~enabled ELSE inhibited
            \/ SetupSaveFails \/ ResumeSaveFails
<1>1. saving /\ queue # <<>>
  BY DEF SaveEnds, SaveSucceeds, SaveFails, SetupSaveFails, ResumeSaveFails, TypeOK, TasksOK
<1>2. CASE SaveSucceeds
  BY <1>1, <1>2 DEF SaveSucceeds
<1>3. CASE SaveFails
  BY <1>1, <1>3 DEF SaveFails, rule
<1> QED
  BY <1>1, <1>2, <1>3 DEF SaveEnds

-----------------------------------------------------------------------------
(* The phases of the entry *)

LifeInv == TypeOK /\ LifeOK /\ TaskOK

\* A step that leaves the phases alone and queues no life-cycle section.
LEMMA AppendLife ==
  ASSUME LifeInv, saving' = saving,
         UNCHANGED <<entry, subscribed, setupComplete, unloaded>>, startedSub' => startedSub,
         \/ queue' = queue
         \/ \E j \in Jobs : queue' = Append(queue, j) /\ j.kind \notin LifeKinds \cup Unwinding
  PROVE  LifeOK' /\ TakingOver' = TakingOver
<1>1. queue \in Seq(Jobs) /\ saving \in BOOLEAN /\ (saving => queue # <<>>)
  BY DEF LifeInv, TypeOK, TasksOK
<1>2. saving => Head(queue') = Head(queue)
  BY <1>1, AppendElements
<1>3. TakingOver' = TakingOver
  BY <1>1, <1>2 DEF TakingOver
<1>4. JobsOK(queue', entry')
  <2>1. CASE queue' = queue
    BY <2>1 DEF LifeInv, LifeOK
  <2>2. ASSUME NEW j \in Jobs, queue' = Append(queue, j), j.kind \notin LifeKinds \cup Unwinding
        PROVE  JobsOK(queue', entry')
    <3>1. Fits(j.kind, entry)
      BY <2>2 DEF Fits, LifeKinds, Unwinding
    <3> QED
      BY <1>1, <2>2, <3>1, KindsAppend DEF LifeInv, LifeOK, JobsOK
  <2> QED
    BY <2>1, <2>2
<1> QED
  BY <1>3, <1>4 DEF LifeInv, LifeOK, InCharge, Retired

LEMMA AppendTasks ==
  ASSUME LifeInv, UNCHANGED <<saving, claim, run>>,
         \/ queue' = queue
         \/ \E j \in Jobs : queue' = Append(queue, j) /\ j.kind \notin RunKinds
  PROVE  TaskOK'
<1>1. queue \in Seq(Jobs)
  BY DEF LifeInv, TypeOK, TasksOK
<1>2. RunOK(queue', run')
  <2>1. CASE queue' = queue
    BY <2>1 DEF LifeInv, TaskOK
  <2>2. ASSUME NEW j \in Jobs, queue' = Append(queue, j), j.kind \notin RunKinds
        PROVE  RunOK(queue', run')
    BY <1>1, <2>2, KindsAppend DEF LifeInv, TaskOK, RunOK
  <2> QED
    BY <2>1, <2>2
<1> QED
  BY <1>2 DEF LifeInv, TaskOK

LEMMA CrashedLife ==
  ASSUME Crash
  PROVE  LifeOK' /\ TaskOK'
BY KindsEmpty DEF Crash, LifeOK, TaskOK, JobsOK, RunOK, TakingOver, InCharge, Retired

LEMMA HomeLife ==
  ASSUME LifeInv, Tick \/ Fire \/ Environment
  PROVE  LifeOK' /\ TaskOK'
<1>1. CASE Crash
  BY <1>1, CrashedLife
<1>2. CASE ~Crash
  <2>1. /\ UNCHANGED <<entry, subscribed, setupComplete, unloaded, saving, claim, run>>
        /\ startedSub' => startedSub
        /\ \/ queue' = queue
           \/ \E j \in Jobs : /\ queue' = Append(queue, j)
                             /\ j.kind \notin LifeKinds \cup Unwinding /\ j.kind \notin RunKinds
    BY <1>2, HomeSummary DEF LifeInv, LifeKinds, RunKinds, Unwinding
  <2> QED
    BY <2>1, AppendLife, AppendTasks
<1> QED
  BY <1>1, <1>2

LEMMA ExecutionLife ==
  ASSUME LifeInv, Execution
  PROVE  LifeOK' /\ TaskOK'
<1>1. /\ UNCHANGED <<entry, phase, saving>> /\ TaskOK'
      /\ \/ queue' = queue
         \/ \E k \in RunKinds \cup {"cancelled"} : queue' = Append(queue, Call(k, NoTime))
  BY ExecutionSummary DEF LifeInv
<1>2. \/ queue' = queue
      \/ \E j \in Jobs : queue' = Append(queue, j) /\ j.kind \notin LifeKinds \cup Unwinding
  BY <1>1, RunCalls DEF RunKinds, LifeKinds, Unwinding
<1> QED
  BY <1>1, <1>2, AppendLife DEF phase

\* The holder of the lock releases it.
LEMMA ReleaseLife ==
  ASSUME LifeInv, queue # <<>>, NEW q, q = queue \/ q = Outdated(queue),
         NEW kind, kind = Head(queue).kind, NEW p, Release(kind, p, Tail(q)),
         subscribed' = subscribed,
         setupComplete \/ kind = "setup" => setupComplete',
         kind \in {"setup", "resume"} => ~unloaded',
         kind \notin {"setup", "resume"} => unloaded' = unloaded /\ (startedSub' => startedSub),
         saving = FALSE \/ kind \notin {"setup", "resume"} \/ UNCHANGED phase
  PROVE  LifeOK' /\ TaskOK'
<1>1. /\ queue \in Seq(Jobs) /\ Tail(q) \in Seq(Jobs) /\ kind \in Kinds(queue)
      /\ Kinds(Tail(q)) \subseteq Kinds(queue) \cup {"outdated"}
      /\ Single(Tail(q), LifeKinds) /\ Single(Tail(q), RunKinds)
      /\ kind \in LifeKinds => Kinds(Tail(q)) \cap LifeKinds = {}
      /\ kind \in RunKinds => Kinds(Tail(q)) \cap RunKinds = {}
  <2>1. "outdated" \notin LifeKinds /\ "outdated" \notin RunKinds
        /\ "deadline" \notin LifeKinds /\ "deadline" \notin RunKinds
    BY DEF LifeKinds, RunKinds
  <2>2. Single(queue, LifeKinds) /\ Single(queue, RunKinds)
    BY DEF LifeInv, LifeOK, TaskOK, JobsOK, RunOK
  <2>3. queue \in Seq(Jobs) /\ TypeOK
    BY DEF LifeInv, TypeOK, TasksOK
  <2>4. kind \in Kinds(queue)
    BY <2>3, KindsTail
  <2>5. /\ Tail(q) \in Seq(Jobs)
        /\ Kinds(Tail(q)) \subseteq Kinds(queue) \cup {"outdated"}
        /\ kind # "deadline" => Head(q).kind = kind
        /\ Single(Tail(q), LifeKinds) /\ Single(Tail(q), RunKinds)
        /\ Head(q).kind \in LifeKinds => Kinds(Tail(q)) \cap LifeKinds = {}
        /\ Head(q).kind \in RunKinds => Kinds(Tail(q)) \cap RunKinds = {}
    BY <2>1, <2>2, <2>3, SectionQueue
  <2> QED
    BY <2>1, <2>3, <2>4, <2>5
<1>2. TaskOK'
  <2>1. RunOK(Tail(q), run)
    BY <1>1 DEF LifeInv, TaskOK, RunOK, RunKinds
  <2> QED
    BY <1>1, <2>1, ReleaseTasks
<1>3. /\ saving' = FALSE /\ entry' = EntryAfter(kind)
      /\ queue' = Tail(q) \/ \E k \in RunKinds : queue' = Append(Tail(q), Call(k, NoTime))
  BY ReleaseRun
<1>4. Fits(kind, entry)
  BY <1>1 DEF LifeInv, LifeOK, JobsOK
<1>5. JobsOK(queue', entry')
  <2>1. \A k \in Kinds(Tail(q)) : Fits(k, entry')
    <3>1. CASE kind \in LifeKinds
      BY <1>1, <3>1 DEF LifeInv, LifeOK, JobsOK, Fits, LifeKinds, Unwinding
    <3>2. CASE kind \notin LifeKinds
      <4>1. entry' = entry
        BY <1>3, <3>2 DEF EntryAfter, LifeKinds
      <4> QED
        BY <1>1, <4>1 DEF LifeInv, LifeOK, JobsOK, Fits, Unwinding
    <3> QED
      BY <3>1, <3>2
  <2>2. ASSUME NEW k \in RunKinds
        PROVE  JobsOK(Append(Tail(q), Call(k, NoTime)), entry')
    <3>1. k \notin LifeKinds /\ Fits(k, entry')
      BY <2>2 DEF Fits, LifeKinds, RunKinds, Unwinding
    <3>2. Call(k, NoTime) \in Jobs /\ Call(k, NoTime).kind = k
      BY <2>2, RunCalls
    <3>3. Kinds(Append(Tail(q), Call(k, NoTime))) = Kinds(Tail(q)) \cup {k}
      BY <1>1, <3>2, KindsAppend
    <3>4. Single(Append(Tail(q), Call(k, NoTime)), LifeKinds)
      BY <1>1, <3>1, <3>2, KindsAppend DEF LifeInv, LifeOK, JobsOK
    <3> QED
      BY <2>1, <3>1, <3>3, <3>4 DEF JobsOK
  <2>3. JobsOK(Tail(q), entry')
    BY <1>1, <2>1 DEF JobsOK
  <2> QED
    BY <1>3, <2>2, <2>3
<1>6. CASE kind \in {"setup", "resume"}
  <2>1. entry' = "loaded" /\ ~unloaded'
    BY <1>3, <1>6 DEF EntryAfter
  <2>2. subscribed' /\ setupComplete'
    BY <1>4, <1>6 DEF Fits, LifeInv, LifeOK, Unwinding
  <2> QED
    BY <1>2, <1>3, <1>5, <2>1, <2>2 DEF LifeOK, TakingOver, InCharge, Retired
<1>7. CASE kind = "stop"
  <2>1. entry = "stopping" /\ entry' = "draining" /\ setupComplete' /\ unloaded'
        /\ ~startedSub' /\ ~subscribed'
    BY <1>3, <1>4, <1>7 DEF EntryAfter, Fits, LifeInv, LifeOK, Retired, Unwinding
  <2> QED
    BY <1>2, <1>3, <1>5, <2>1 DEF LifeOK, TakingOver, InCharge, Retired
<1>8. CASE kind \notin LifeKinds
  <2>1. entry' = entry /\ unloaded' = unloaded /\ (startedSub' => startedSub)
    BY <1>3, <1>8 DEF EntryAfter, LifeKinds
  <2>2. ~TakingOver
    BY <1>8 DEF TakingOver, LifeKinds
  <2> QED
    BY <1>2, <1>3, <1>5, <2>1, <2>2 DEF LifeInv, LifeOK, TakingOver, InCharge, Retired
<1> QED
  BY <1>6, <1>7, <1>8 DEF LifeKinds

\* It keeps the lock while it saves.
LEMMA KeptLife ==
  ASSUME LifeInv, queue # <<>>, ~saving, NEW q, q = queue \/ q = Outdated(queue),
         NEW kind, kind = Head(queue).kind,
         saving', queue' = q, entry' = entry, run' = run,
         subscribed' = subscribed, startedSub' = startedSub,
         setupComplete \/ kind = "setup" => setupComplete',
         kind \in {"setup", "resume"} => ~unloaded',
         kind \notin {"setup", "resume"} => unloaded' = unloaded
  PROVE  LifeOK' /\ TaskOK'
<1>1. /\ queue \in Seq(Jobs) /\ kind \in Kinds(queue)
      /\ Kinds(q) \subseteq Kinds(queue) \cup {"outdated"}
      /\ Single(q, LifeKinds) /\ Single(q, RunKinds)
      /\ kind # "deadline" => Head(q).kind = kind
      /\ kind = "deadline" => Head(q).kind \in {"deadline", "outdated"}
  <2>1. queue \in Seq(Jobs) /\ TypeOK
    BY DEF LifeInv, TypeOK, TasksOK
  <2>2. Single(queue, LifeKinds) /\ Single(queue, RunKinds)
    BY DEF LifeInv, LifeOK, TaskOK, JobsOK, RunOK
  <2>3. "outdated" \notin LifeKinds /\ "outdated" \notin RunKinds
    BY DEF LifeKinds, RunKinds
  <2> QED
    BY <2>1, <2>2, <2>3, SectionQueue, KindsTail
<1>2. TakingOver' <=> kind \in {"setup", "resume"}
  BY <1>1 DEF TakingOver
<1>3. Fits(kind, entry)
  BY <1>1 DEF LifeInv, LifeOK, JobsOK
<1>4. JobsOK(queue', entry')
  BY <1>1 DEF LifeInv, LifeOK, JobsOK, Fits, Unwinding
<1>5. TaskOK'
  BY <1>1 DEF LifeInv, TaskOK, RunOK, RunKinds
<1>6. ~TakingOver
  BY DEF TakingOver
<1>7. LifeOK'
  <2>1. /\ entry' = entry /\ subscribed' = subscribed /\ startedSub' = startedSub
        /\ entry \in {"setup", "resuming", "loaded"} => subscribed
        /\ entry \in {"loaded", "stopping", "draining", "resuming"} => setupComplete
        /\ entry = "loaded" => ~unloaded
        /\ Retired => unloaded /\ ~startedSub
        /\ Retired /\ entry # "resuming" => ~subscribed
    BY DEF LifeInv, LifeOK, InCharge
  <2>2. TakingOver' => setupComplete'
    BY <1>2, <1>3, <2>1 DEF Fits, Unwinding
  <2>3. InCharge' => ~unloaded'
    BY <1>2, <2>1 DEF InCharge
  <2>4. Retired' => Retired /\ kind \notin {"setup", "resume"}
    BY <1>2, <1>3, <1>6, <2>1 DEF Retired, Fits, Unwinding
  <2> QED
    BY <1>4, <2>1, <2>2, <2>3, <2>4 DEF LifeOK
<1> QED
  BY <1>5, <1>7

LEMMA SkipLife ==
  ASSUME LifeInv, Skip
  PROVE  LifeOK' /\ TaskOK'
<1>1. /\ queue # <<>> /\ saving = FALSE /\ saving' = FALSE /\ queue' = Tail(queue)
      /\ queue \in Seq(Jobs) /\ UNCHANGED <<entry, phase, claim, run>>
  BY DEF Skip, LifeInv, TypeOK, TasksOK
<1>2. JobsOK(queue', entry') /\ RunOK(queue', run')
  BY <1>1, KindsTail DEF LifeInv, LifeOK, TaskOK, JobsOK, RunOK
<1> QED
  BY <1>1, <1>2 DEF LifeInv, LifeOK, TaskOK, TakingOver, InCharge, Retired, phase

LEMMA SectionLife ==
  ASSUME LifeInv, Section
  PROVE  LifeOK' /\ TaskOK'
<1>1. CASE Skip
  BY <1>1, SkipLife
<1>2. CASE ~Skip
  <2>1. PICK kind, p, q : /\ SectionRuns(kind, p, q)
                          /\ SectionSaves(kind, p, q) \/ SectionWaits(kind, p, q)
    BY <1>2, SectionSummary DEF LifeInv
  <2>2. /\ queue # <<>> /\ saving = FALSE /\ subscribed' = subscribed
        /\ kind = Head(queue).kind /\ (q = queue \/ q = Outdated(queue))
    BY <2>1 DEF SectionRuns
  <2>3. setupComplete \/ kind = "setup" => setupComplete'
    BY <2>1 DEF SectionRuns
  <2>4. kind \in {"setup", "resume"} => ~unloaded'
    BY <2>1 DEF SectionRuns
  <2>5. kind \notin {"setup", "resume"} => unloaded' = unloaded
    BY <2>1 DEF SectionRuns, LifeInv, TypeOK, PhaseOK
  <2>6. ASSUME Release(kind, p, Tail(q)),
               kind \notin {"setup", "resume"} => startedSub' = startedSub
        PROVE  LifeOK' /\ TaskOK'
    <3>1. kind \notin {"setup", "resume"} => unloaded' = unloaded /\ (startedSub' => startedSub)
      BY <2>5, <2>6
    <3> QED
      BY <2>2, <2>3, <2>4, <2>6, <3>1, ReleaseLife
  <2>7. ASSUME saving', queue' = q, entry' = entry, run' = run, startedSub' = startedSub
        PROVE  LifeOK' /\ TaskOK'
    BY <2>2, <2>3, <2>4, <2>5, <2>7, KeptLife
  <2> QED
    BY <2>1, <2>6, <2>7 DEF SectionSaves, SectionWaits, Save
<1> QED
  BY <1>1, <1>2

LEMMA SaveEndsLife ==
  ASSUME LifeInv, SaveEnds
  PROVE  LifeOK' /\ TaskOK'
<1> DEFINE kind == Head(queue).kind
<1>1. saving /\ queue # <<>> /\ queue \in Seq(Jobs)
  BY SaveEndsSummary DEF LifeInv, TypeOK, TasksOK
<1>2. CASE SetupSaveFails \/ ResumeSaveFails
  <2>1. /\ kind \in LifeKinds /\ entry' \in {"failing", "failed"} /\ saving' = FALSE
        /\ queue' = Outdated(Tail(queue)) /\ claim' = NoPlan /\ run' = run
        /\ unloaded' /\ ~startedSub' /\ ~subscribed'
    BY <1>2 DEF SetupSaveFails, ResumeSaveFails, RollBack, LifeKinds
  <2>2. /\ Tail(queue) \in Seq(Jobs) /\ Kinds(Tail(queue)) \cap LifeKinds = {}
        /\ Kinds(Tail(queue)) \subseteq Kinds(queue)
        /\ Single(Tail(queue), LifeKinds) /\ Single(Tail(queue), RunKinds)
    BY <1>1, <2>1, KindsTail, TailElements DEF LifeInv, LifeOK, TaskOK, JobsOK, RunOK
  <2>3. /\ Kinds(queue') \subseteq Kinds(Tail(queue)) \cup {"outdated"}
        /\ Single(queue', LifeKinds) /\ Single(queue', RunKinds)
    BY <2>1, <2>2, KindsOutdated DEF LifeKinds, RunKinds
  <2>4. JobsOK(queue', entry')
    <3>1. \A k \in Kinds(queue) \cup {"outdated"} : k \notin Unwinding
      BY DEF LifeInv, LifeOK, JobsOK, Fits, Unwinding
    <3> QED
      BY <2>2, <2>3, <3>1 DEF JobsOK, Fits, LifeKinds
  <2>5. RunOK(queue', run')
    BY <2>1, <2>2, <2>3 DEF RunOK, RunKinds, LifeInv, TaskOK
  <2> QED
    BY <2>1, <2>4, <2>5 DEF LifeOK, TaskOK, TakingOver, InCharge, Retired
<1>3. ASSUME NEW p, Release(kind, p, Tail(queue)), UNCHANGED phase
      PROVE  LifeOK' /\ TaskOK'
  <2>1. kind \in {"setup", "resume"} => setupComplete /\ ~unloaded
    BY <1>1 DEF LifeInv, LifeOK, TakingOver, InCharge
  <2>2. /\ setupComplete' = setupComplete /\ unloaded' = unloaded
        /\ startedSub' = startedSub /\ subscribed' = subscribed
    BY <1>3 DEF phase
  <2> QED
    BY <1>1, <1>3, <2>1, <2>2, ReleaseLife
<1> QED
  BY <1>2, <1>3, SaveEndsSummary DEF LifeInv

\* Between two life-cycle sections the queue suits any phase.
LEMMA NoLifeJob ==
  ASSUME LifeInv, entry \notin {"setup", "stopping", "resuming"}
  PROVE  /\ Kinds(queue) \cap LifeKinds = {} /\ ~TakingOver
         /\ \A en : JobsOK(queue, en) /\ JobsOK(Outdated(queue), en)
         /\ \A en : \A j \in Jobs : Fits(j.kind, en) => JobsOK(Append(queue, j), en)
<1>1. queue \in Seq(Jobs) /\ (saving => queue # <<>>)
  BY DEF LifeInv, TypeOK, TasksOK
<1>2. Kinds(queue) \cap LifeKinds = {} /\ Single(queue, LifeKinds)
  BY DEF LifeInv, LifeOK, JobsOK, Fits, LifeKinds, Unwinding
<1>3. ~TakingOver
  BY <1>1, <1>2, KindsTail DEF TakingOver, LifeKinds
<1>4. ASSUME NEW en PROVE JobsOK(queue, en) /\ JobsOK(Outdated(queue), en)
  <2>1. \A k \in Kinds(queue) \cup {"outdated"} : Fits(k, en)
    BY <1>2 DEF LifeInv, LifeOK, JobsOK, Fits, LifeKinds, Unwinding
  <2>2. Kinds(Outdated(queue)) \subseteq Kinds(queue) \cup {"outdated"}
    BY <1>1, KindsOutdated
  <2>3. Single(Outdated(queue), LifeKinds)
    BY <1>1, <1>2, KindsOutdated DEF LifeKinds
  <2> QED
    BY <1>2, <2>1, <2>2, <2>3 DEF JobsOK
<1>5. ASSUME NEW en, NEW j \in Jobs, Fits(j.kind, en) PROVE JobsOK(Append(queue, j), en)
  BY <1>1, <1>2, <1>4, <1>5, KindsAppend DEF JobsOK
<1> QED
  BY <1>2, <1>3, <1>4, <1>5

LEMMA RunOutdated ==
  ASSUME LifeInv
  PROVE  RunOK(Outdated(queue), run)
<1>1. queue \in Seq(Jobs)
  BY DEF LifeInv, TypeOK, TasksOK
<1> QED
  BY <1>1, KindsOutdated DEF LifeInv, TaskOK, RunOK, RunKinds

LEMMA LifeCycleLife ==
  ASSUME LifeInv, LifeCycle
  PROVE  LifeOK' /\ TaskOK'
<1>1. queue \in Seq(Jobs) /\ (saving => queue # <<>>) /\ saving \in BOOLEAN
  BY DEF LifeInv, TypeOK, TasksOK
<1>2. entry \notin {"setup", "stopping", "resuming"}
  BY DEF LifeCycle, Load, ReadStore, LoadFails, BeginSetup, BeginStop, FinishUnload,
         RejectUnload
<1>3. ~TakingOver /\ \A en : JobsOK(queue, en) /\ JobsOK(Outdated(queue), en)
  BY <1>2, NoLifeJob
<1>4. \A kind \in LifeKinds : Call(kind, NoTime) \in Jobs /\ Call(kind, NoTime).kind = kind
  BY CallIsJob, NoneType DEF JobKinds, Call, Job, LifeKinds
<1>5. ASSUME NEW kind \in LifeKinds, Post(Call(kind, NoTime)), Fits(kind, entry'),
             UNCHANGED <<saving, claim, run>>
      PROVE  JobsOK(queue', entry') /\ ~TakingOver' /\ TaskOK'
  <2>1. queue' = Append(queue, Call(kind, NoTime))
    BY <1>5 DEF Post
  <2>2. JobsOK(queue', entry')
    BY <1>2, <1>4, <1>5, <2>1, NoLifeJob
  <2>3. ~TakingOver'
    BY <1>1, <1>3, <1>4, <1>5, <2>1, AppendElements DEF TakingOver
  <2>4. TaskOK'
    BY <1>4, <1>5, <2>1, AppendTasks DEF LifeKinds, RunKinds
  <2> QED
    BY <2>2, <2>3, <2>4
<1>6. ASSUME UNCHANGED <<queue, saving, claim, run>>
      PROVE  JobsOK(queue', entry') /\ ~TakingOver' /\ TaskOK'
  BY <1>3, <1>6 DEF TakingOver, TaskOK, LifeInv
<1>7. CASE Load
  <2>1. entry' = "loading" /\ UNCHANGED <<queue, saving, claim, run>>
    BY <1>7 DEF Load, tasks
  <2> QED
    BY <1>6, <2>1 DEF LifeOK, InCharge, Retired
<1>8. CASE ReadStore
  <2>1. entry' = "read" /\ UNCHANGED <<queue, saving, claim, run>>
    BY <1>8 DEF ReadStore, tasks
  <2> QED
    BY <1>6, <2>1 DEF LifeOK, InCharge, Retired
<1>9. CASE LoadFails
  <2>1. /\ entry' = "failing" /\ queue' = Outdated(queue) /\ saving' = FALSE
        /\ claim' = NoPlan /\ run' = run /\ unloaded' /\ ~startedSub' /\ ~subscribed'
    BY <1>9 DEF LoadFails, RollBack
  <2>2. JobsOK(queue', entry') /\ RunOK(queue', run')
    BY <1>3, <2>1, RunOutdated
  <2> QED
    BY <2>1, <2>2 DEF LifeOK, TaskOK, TakingOver, InCharge, Retired
<1>10. CASE BeginSetup
  <2>1. /\ entry' = "setup" /\ subscribed' /\ Post(Call("setup", NoTime))
        /\ UNCHANGED <<saving, claim, run>>
    BY <1>10 DEF BeginSetup
  <2>2. JobsOK(queue', entry') /\ ~TakingOver' /\ TaskOK'
    BY <1>5, <2>1 DEF Fits, LifeKinds, Unwinding
  <2> QED
    BY <2>1, <2>2 DEF LifeOK, InCharge, Retired
<1>11. CASE BeginStop
  <2>1. /\ entry' = "stopping" /\ Post(Call("stop", NoTime)) /\ UNCHANGED <<saving, claim, run>>
        /\ unloaded' /\ ~subscribed' /\ ~startedSub' /\ setupComplete'
    BY <1>11 DEF BeginStop, LifeInv, LifeOK
  <2>2. JobsOK(queue', entry') /\ ~TakingOver' /\ TaskOK'
    BY <1>5, <2>1 DEF Fits, LifeKinds, Unwinding
  <2> QED
    BY <2>1, <2>2 DEF LifeOK, InCharge, Retired
<1>12. CASE RejectUnload
  <2>1. /\ entry' = "resuming" /\ Post(Call("resume", NoTime)) /\ UNCHANGED <<saving, claim, run>>
        /\ unloaded' /\ subscribed' /\ ~startedSub' /\ setupComplete'
    BY <1>12 DEF RejectUnload, LifeInv, LifeOK, Retired
  <2>2. JobsOK(queue', entry') /\ ~TakingOver' /\ TaskOK'
    BY <1>5, <2>1 DEF Fits, LifeKinds, Unwinding
  <2> QED
    BY <2>1, <2>2 DEF LifeOK, InCharge, Retired
<1>13. CASE FinishUnload
  <2>1. entry' = "down" /\ UNCHANGED <<queue, saving, claim, run>>
    BY <1>13 DEF FinishUnload, tasks
  <2> QED
    BY <1>6, <2>1 DEF LifeOK, InCharge, Retired
<1> QED
  BY <1>7, <1>8, <1>9, <1>10, <1>11, <1>12, <1>13 DEF LifeCycle

LEMMA LifeInit == Init => LifeInv
<1> SUFFICES ASSUME Init PROVE LifeInv
  OBVIOUS
<1>1. LifeOK /\ TaskOK
  BY KindsEmpty DEF Init, LifeOK, TaskOK, JobsOK, RunOK, TakingOver, InCharge, Retired
<1> QED
  BY <1>1, TypeInit DEF LifeInv

LEMMA LifeNext == LifeInv /\ [Next]_vars => LifeInv'
<1> SUFFICES ASSUME LifeInv, [Next]_vars PROVE LifeInv'
  OBVIOUS
<1>1. TypeOK'
  BY TypeNext DEF LifeInv
<1>2. CASE UNCHANGED vars
  BY <1>1, <1>2 DEF LifeInv, LifeOK, TaskOK, TakingOver, InCharge, Retired, vars, phase, tasks
<1>3. CASE Next
  BY <1>1, <1>3, HomeLife, LifeCycleLife, SectionLife, SaveEndsLife, ExecutionLife
     DEF Next, LifeInv
<1> QED
  BY <1>2, <1>3

-----------------------------------------------------------------------------
(* A dormant rule does nothing *)

\* Nothing executes before the rule is in charge, nor after it stopped being.
Dormant == entry \notin {"loaded", "stopping", "draining"} \/ starting

\* The set-up has not run yet.
Awaiting == entry \in {"loading", "read", "setup"} /\ ~TakingOver

DormantOK ==
  Dormant => run = NoRun /\ waiting = <<>> /\ "cancelled" \notin Kinds(queue)
StartingOK ==
  starting => timer = NoTime /\ "deadline" \notin Kinds(queue) /\ claim = NoPlan
AwaitingOK ==
  Awaiting => /\ ~setupComplete /\ ~starting /\ ~startedSub /\ ~saving
              /\ timer = NoTime /\ Kinds(queue) \subseteq {"event", "setup"}
DownOK ==
  entry = "down" => /\ ~subscribed /\ ~startedSub
                    /\ unloaded \/ (queue = <<>> /\ timer = NoTime)
FailedOK == entry = "failed" => ~subscribed
SavingOK ==
  saving => \/ entry \in {"loaded", "stopping"} \/ TakingOver
            \/ /\ entry = "draining" /\ claim = NoPlan
               /\ Head(queue).kind \in RunKinds \cup {"cancelled"}

QuietOK ==
  /\ DormantOK /\ StartingOK /\ AwaitingOK /\ DownOK /\ FailedOK
  /\ SavingOK
  /\ TakingOver => ~starting

QuietInv == LifeInv /\ QuietOK

LEMMA HomeQuiet ==
  ASSUME "earlytoggle" \notin Moves, QuietInv, Tick \/ Fire \/ Environment
  PROVE  QuietOK'
<1>1. queue \in Seq(Jobs) /\ (saving => queue # <<>>)
  BY DEF QuietInv, LifeInv, TypeOK, TasksOK
<1>2. CASE Crash
  BY <1>2, KindsEmpty
     DEF Crash, QuietOK, DormantOK, StartingOK, AwaitingOK, DownOK, FailedOK, SavingOK,
         Awaiting, TakingOver
<1>3. CASE ~Crash
  <2>1. /\ UNCHANGED <<entry, setupComplete, starting, unloaded, subscribed, timer, saving,
                        claim, waiting, run>>
        /\ startedSub' => startedSub
    BY <1>3, HomeSummary DEF QuietInv, LifeInv
  <2>2. \/ queue' = queue
        \/ \E j \in Jobs :
             /\ queue' = Append(queue, j)
             /\ j.kind \in {"event", "deadline", "enable", "disable", "started"}
             /\ j.kind = "event" => subscribed
             /\ j.kind = "deadline" => timer # NoTime
             /\ j.kind = "started" => startedSub
             /\ j.kind \in {"enable", "disable"} => Switchable
    BY <1>3, HomeSummary DEF QuietInv, LifeInv
  <2>3. CASE queue' = queue
    BY <2>1, <2>3
       DEF QuietInv, QuietOK, DormantOK, StartingOK, AwaitingOK, DownOK, FailedOK, SavingOK,
           Dormant, Awaiting, TakingOver
  <2>4. ASSUME NEW j \in Jobs, queue' = Append(queue, j),
               j.kind \in {"event", "deadline", "enable", "disable", "started"},
               j.kind = "event" => subscribed,
               j.kind = "deadline" => timer # NoTime,
               j.kind = "started" => startedSub,
               j.kind \in {"enable", "disable"} => Switchable
        PROVE  QuietOK'
    <3>1. Kinds(queue') = Kinds(queue) \cup {j.kind}
      BY <1>1, <2>4, KindsAppend
    <3>2. saving => Head(queue') = Head(queue)
      BY <1>1, <2>4, AppendElements
    <3>3. (TakingOver' <=> TakingOver) /\ (Dormant' <=> Dormant) /\ (Awaiting' <=> Awaiting)
      BY <2>1, <3>2 DEF TakingOver, Dormant, Awaiting
    <3>4. DormantOK'
      BY <2>1, <2>4, <3>1, <3>3 DEF QuietInv, QuietOK, DormantOK
    <3>5. StartingOK'
      BY <2>1, <2>4, <3>1 DEF QuietInv, QuietOK, StartingOK
    <3>6. AwaitingOK'
      <4>1. Awaiting => j.kind = "event"
        BY <2>4 DEF QuietInv, QuietOK, AwaitingOK, Awaiting, Switchable
      <4> QED
        BY <2>1, <3>1, <3>3, <4>1 DEF QuietInv, QuietOK, AwaitingOK
    <3>7. DownOK'
      <4>1. entry = "down" => unloaded
        BY <2>4 DEF QuietInv, QuietOK, DownOK, Switchable
      <4> QED
        BY <2>1, <4>1 DEF QuietInv, QuietOK, DownOK
    <3>8. SavingOK' /\ (TakingOver' => ~starting')
      BY <2>1, <3>2, <3>3 DEF QuietInv, QuietOK, SavingOK
    <3>9. FailedOK'
      BY <2>1 DEF QuietInv, QuietOK, FailedOK
    <3> QED
      BY <3>4, <3>5, <3>6, <3>7, <3>8, <3>9 DEF QuietOK
  <2> QED
    BY <2>2, <2>3, <2>4
<1> QED
  BY <1>2, <1>3

LEMMA ExecutionQuiet ==
  ASSUME QuietInv, Execution
  PROVE  QuietOK'
<1>1. /\ UNCHANGED <<entry, phase, saving, claim>>
      /\ run # NoRun \/ waiting # <<>>
      /\ \/ queue' = queue
         \/ \E k \in RunKinds \cup {"cancelled"} : queue' = Append(queue, Call(k, NoTime))
  BY ExecutionSummary DEF QuietInv, LifeInv
<1>2. starting' = starting
  BY <1>1 DEF phase
<1>3. ~Dormant /\ ~starting /\ entry \in {"loaded", "stopping", "draining"}
  BY <1>1 DEF QuietInv, QuietOK, DormantOK, Dormant
<1>4. saving => Head(queue') = Head(queue)
  <2>1. queue \in Seq(Jobs) /\ (saving => queue # <<>>)
    BY DEF QuietInv, LifeInv, TypeOK, TasksOK
  <2>2. \/ queue' = queue
        \/ \E j \in Jobs : queue' = Append(queue, j)
    BY <1>1, RunCalls
  <2> QED
    BY <2>1, <2>2, AppendElements
<1>5. TakingOver' <=> TakingOver
  BY <1>1, <1>4 DEF TakingOver
<1>6. DormantOK' /\ StartingOK' /\ AwaitingOK' /\ DownOK' /\ FailedOK'
  BY <1>1, <1>2, <1>3
     DEF DormantOK, StartingOK, AwaitingOK, DownOK, FailedOK, Dormant, Awaiting
<1>7. SavingOK' /\ (TakingOver' => ~starting')
  BY <1>1, <1>2, <1>3, <1>4, <1>5 DEF QuietInv, QuietOK, SavingOK
<1> QED
  BY <1>6, <1>7 DEF QuietOK

\* A rule that releases the lock is in charge or on its way out; one that waits
\* for Home Assistant to start has no plan.
LEMMA ReleasedQuiet ==
  ASSUME QuietInv, NEW q \in Seq(Jobs), Kinds(q) \subseteq Kinds(queue) \cup {"outdated"},
         NEW kind, NEW p, Release(kind, p, q),
         EntryAfter(kind) \in {"loaded", "stopping", "draining"},
         starting' => Dormant /\ kind \notin RunKinds /\ p = NoPlan,
         starting' => timer' = NoTime /\ "deadline" \notin Kinds(queue)
  PROVE  QuietOK'
<1>1. /\ ~saving' /\ claim' = NoPlan /\ entry' = EntryAfter(kind)
      /\ starting' => queue' = q /\ run' = run /\ waiting' = waiting
  BY ReleaseRun
<1>2. entry' \in {"loaded", "stopping", "draining"} /\ ~TakingOver' /\ ~Awaiting'
  BY <1>1 DEF TakingOver, Awaiting
<1>3. DormantOK'
  BY <1>1, <1>2 DEF DormantOK, Dormant, QuietInv, QuietOK
<1>4. StartingOK'
  BY <1>1 DEF StartingOK
<1> QED
  BY <1>1, <1>2, <1>3, <1>4 DEF QuietOK, AwaitingOK, DownOK, FailedOK, SavingOK

\* In which phases a section that finds something to do can run.
LEMMA SectionPhase ==
  ASSUME QuietInv, queue # <<>>, ~saving, ~Stale(Head(queue)),
         NEW kind, kind = Head(queue).kind
  PROVE  /\ kind \in {"event", "deadline", "enable", "disable", "started"}
              => entry = "loaded" /\ ~unloaded
         /\ kind = "setup" => entry = "setup" /\ Awaiting
         /\ kind = "stop" => entry = "stopping"
         /\ kind = "resume" => entry = "resuming"
         /\ kind \in RunKinds \cup {"cancelled"} => ~Dormant
         /\ kind \in JobKinds \ Unwinding /\ kind # "outdated"
<1>1. /\ queue \in Seq(Jobs) /\ Head(queue) \in Jobs /\ kind \in Kinds(queue)
      /\ entry \in Entries /\ setupComplete \in BOOLEAN /\ unloaded \in BOOLEAN
  BY KindsTail, TailElements DEF QuietInv, LifeInv, TypeOK, TasksOK, PhaseOK
<1>2. Fits(kind, entry) /\ ~TakingOver
  BY <1>1 DEF QuietInv, LifeInv, LifeOK, JobsOK, TakingOver
<1>3. kind \in JobKinds \ Unwinding /\ kind # "outdated"
  BY <1>1, <1>2 DEF Jobs, Stale, Fits
<1>4. ASSUME kind \in {"event", "deadline", "enable", "disable", "started"}
      PROVE  entry = "loaded" /\ ~unloaded
  <2>1. ~unloaded /\ (kind = "event" => setupComplete)
    BY <1>4 DEF Stale
  <2>2. entry \in {"down", "loading", "read", "setup", "loaded"}
    BY <1>1, <1>2, <2>1 DEF QuietInv, LifeInv, LifeOK, Retired, Entries
  <2>3. entry # "down"
    BY <2>1 DEF QuietInv, QuietOK, DownOK
  <2>4. entry \notin {"loading", "read", "setup"}
    BY <1>1, <1>2, <1>4, <2>1 DEF QuietInv, QuietOK, AwaitingOK, Awaiting
  <2> QED
    BY <2>1, <2>2, <2>3, <2>4
<1>5. ASSUME kind \in RunKinds \cup {"cancelled"} PROVE ~Dormant
  <2>1. kind \in RunKinds => run # NoRun
    BY <1>1 DEF QuietInv, LifeInv, TaskOK, RunOK, NoRun, RunKinds
  <2> QED
    BY <1>1, <1>5, <2>1 DEF QuietInv, QuietOK, DormantOK
<1> QED
  BY <1>2, <1>3, <1>4, <1>5 DEF Fits, Awaiting

LEMMA SavedQuiet ==
  ASSUME QuietInv, NEW kind, NEW p, NEW q, SectionRuns(kind, p, q),
         saving', claim' = p, queue' = q, UNCHANGED <<entry, waiting, run>>,
         starting' = (starting /\ kind \notin {"started", "resume"}),
         starting /\ kind \in {"event", "enable", "disable", "stop"} => timer' \in {timer, NoTime}
  PROVE  QuietOK'
<1>1. /\ queue # <<>> /\ ~saving /\ ~Stale(Head(queue)) /\ kind = Head(queue).kind
      /\ q = queue \/ q = Outdated(queue)
      /\ p # NoPlan => kind \notin {"disable", "stop", "blocked", "cancelled"}
      /\ p # NoPlan /\ kind \in {"event", "enable"} => ~starting
      /\ p # NoPlan /\ kind = "finish" => ~unloaded
  BY DEF SectionRuns
<1>2. /\ queue \in Seq(Jobs) /\ kind \in Kinds(queue)
      /\ Kinds(q) \subseteq Kinds(queue) \cup {"outdated"}
      /\ kind # "deadline" => Head(q).kind = kind
      /\ kind = "deadline" => Head(q).kind \in {"deadline", "outdated"}
  <2>1. TypeOK /\ queue \in Seq(Jobs)
    BY DEF QuietInv, LifeInv, TypeOK, TasksOK
  <2>2. kind \in Kinds(queue)
    BY <1>1, <2>1, KindsTail
  <2> QED
    BY <1>1, <2>1, <2>2, SectionQueue
<1>3. /\ kind \in {"event", "deadline", "enable", "disable", "started"} => entry = "loaded"
      /\ kind = "setup" => entry = "setup" /\ Awaiting
      /\ kind = "stop" => entry = "stopping"
      /\ kind = "resume" => entry = "resuming"
      /\ kind \in RunKinds \cup {"cancelled"} => ~Dormant
      /\ kind \in JobKinds \ Unwinding /\ kind # "outdated"
  BY <1>1, SectionPhase
<1>4. starting' => starting
  OBVIOUS
<1>5. DormantOK'
  <2>1. Dormant' => Dormant
    BY <1>4 DEF Dormant
  <2> QED
    BY <1>2, <2>1 DEF DormantOK, QuietInv, QuietOK
<1>6. StartingOK'
  <2>1. SUFFICES ASSUME starting' PROVE StartingOK'
    BY DEF StartingOK
  <2>2. starting /\ kind \notin {"started", "resume", "deadline", "setup"}
    BY <1>2, <1>3, <1>4, <2>1 DEF QuietInv, QuietOK, StartingOK, AwaitingOK
  <2>3. kind \in {"event", "enable", "disable", "stop"}
    BY <1>3, <2>2 DEF Dormant, JobKinds, RunKinds
  <2> QED
    BY <1>1, <1>2, <2>2, <2>3 DEF QuietInv, QuietOK, StartingOK
<1>7. TakingOver' <=> kind \in {"setup", "resume"}
  BY <1>2 DEF TakingOver
<1>8. TakingOver' => ~starting'
  BY <1>3, <1>7 DEF QuietInv, QuietOK, AwaitingOK
<1>9. SavingOK'
  <2>1. kind \in RunKinds \cup {"cancelled"} => entry \in {"loaded", "stopping", "draining"}
    BY <1>3 DEF Dormant
  <2>2. kind \in RunKinds \cup {"cancelled"} /\ entry = "draining" => p = NoPlan
    BY <1>1 DEF QuietInv, LifeInv, LifeOK, Retired, RunKinds
  <2>3. kind \in RunKinds \cup {"cancelled"} => Head(queue').kind = kind
    BY <1>2 DEF RunKinds
  <2> QED
    BY <1>3, <1>7, <2>1, <2>2, <2>3 DEF SavingOK, JobKinds, RunKinds
<1>10. AwaitingOK' /\ DownOK' /\ FailedOK'
  <2>1. ~Awaiting' /\ entry' \notin {"down", "failed"}
    BY <1>3, <1>7 DEF Awaiting, Dormant, JobKinds, RunKinds
  <2> QED
    BY <2>1 DEF AwaitingOK, DownOK, FailedOK
<1> QED
  BY <1>5, <1>6, <1>8, <1>9, <1>10 DEF QuietOK

LEMMA SectionQuiet ==
  ASSUME QuietInv, Section
  PROVE  QuietOK'
<1>1. CASE Skip
  <2>1. /\ queue # <<>> /\ ~saving /\ ~saving' /\ queue' = Tail(queue)
        /\ UNCHANGED <<entry, rule, phase, claim, waiting, run>>
    BY <1>1 DEF Skip
  <2>2. queue \in Seq(Jobs)
    BY DEF QuietInv, LifeInv, TypeOK, TasksOK
  <2>3. Kinds(queue') \subseteq Kinds(queue)
    BY <2>1, <2>2, KindsTail
  <2>4. ~TakingOver /\ ~TakingOver'
    BY <2>1 DEF TakingOver
  <2> QED
    BY <2>1, <2>3, <2>4
       DEF QuietInv, QuietOK, DormantOK, StartingOK, AwaitingOK, DownOK, FailedOK, SavingOK,
           Dormant, Awaiting, rule, phase
<1>2. CASE ~Skip
  <2>1. PICK kind, p, q : /\ SectionRuns(kind, p, q)
                          /\ SectionSaves(kind, p, q) \/ SectionWaits(kind, p, q)
    BY <1>2, SectionSummary DEF QuietInv, LifeInv
  <2>2. /\ queue # <<>> /\ ~saving /\ ~Stale(Head(queue)) /\ kind = Head(queue).kind
        /\ q = queue \/ q = Outdated(queue)
        /\ p # NoPlan => kind \notin {"disable", "stop", "blocked", "cancelled"}
        /\ p # NoPlan /\ kind \in {"event", "enable"} => ~starting
    BY <2>1 DEF SectionRuns
  <2>3. /\ Tail(q) \in Seq(Jobs) /\ kind \in Kinds(queue)
        /\ Kinds(Tail(q)) \subseteq Kinds(queue) \cup {"outdated"}
    <3>1. TypeOK /\ queue \in Seq(Jobs)
      BY DEF QuietInv, LifeInv, TypeOK, TasksOK
    <3>2. kind \in Kinds(queue)
      BY <2>2, <3>1, KindsTail
    <3> QED
      BY <2>2, <3>1, <3>2, SectionQueue
  <2>4. /\ kind \in {"event", "deadline", "enable", "disable", "started"} => entry = "loaded"
        /\ kind = "setup" => entry = "setup" /\ Awaiting
        /\ kind = "stop" => entry = "stopping"
        /\ kind = "resume" => entry = "resuming"
        /\ kind \in RunKinds \cup {"cancelled"} => ~Dormant
        /\ kind \in JobKinds \ Unwinding /\ kind # "outdated"
    BY <2>2, SectionPhase
  <2>5. EntryAfter(kind) \in {"loaded", "stopping", "draining"}
    BY <2>4 DEF EntryAfter, Dormant, JobKinds, RunKinds
  <2>6. CASE SectionWaits(kind, p, q)
    <3>1. /\ kind \in {"setup", "resume"} /\ p = NoPlan /\ Release(kind, p, Tail(q))
          /\ timer' = timer /\ (kind = "resume" => starting)
      BY <2>6 DEF SectionWaits
    <3>2. Dormant /\ kind \notin RunKinds
      BY <2>4, <3>1 DEF Dormant, RunKinds
    <3>3. timer' = NoTime /\ "deadline" \notin Kinds(queue)
      BY <2>4, <3>1 DEF QuietInv, QuietOK, StartingOK, AwaitingOK
    <3> QED
      BY <2>3, <2>5, <3>1, <3>2, <3>3, ReleasedQuiet
  <2>7. CASE SectionSaves(kind, p, q)
    <3>1. /\ starting' = (starting /\ kind \notin {"started", "resume"})
          /\ starting /\ kind \in {"event", "enable", "disable", "stop"}
               => timer' \in {timer, NoTime}
      BY <2>7 DEF SectionSaves
    <3>2. CASE saving' /\ claim' = p /\ queue' = q /\ UNCHANGED <<entry, waiting, run>>
      BY <2>1, <3>1, <3>2, SavedQuiet
    <3>3. CASE Release(kind, p, Tail(q)) /\ kind \notin {"setup", "stop", "finish", "cancelled"}
      <4>1. ASSUME starting'
            PROVE  /\ Dormant /\ kind \notin RunKinds /\ p = NoPlan /\ timer' = NoTime
                   /\ "deadline" \notin Kinds(queue)
        <5>1. /\ starting /\ kind \notin {"started", "resume"} /\ Dormant
              /\ timer = NoTime /\ "deadline" \notin Kinds(queue)
          BY <3>1, <4>1 DEF Dormant, QuietInv, QuietOK, StartingOK
        <5>2. kind \in {"event", "enable", "disable"}
          BY <2>3, <2>4, <3>3, <5>1 DEF JobKinds, RunKinds
        <5> QED
          BY <2>2, <3>1, <5>1, <5>2 DEF RunKinds
      <4> QED
        BY <2>3, <2>5, <3>3, <4>1, ReleasedQuiet
    <3> QED
      BY <2>7, <3>2, <3>3 DEF SectionSaves, Save
  <2> QED
    BY <2>1, <2>6, <2>7
<1> QED
  BY <1>1, <1>2

LEMMA SaveEndsQuiet ==
  ASSUME QuietInv, SaveEnds
  PROVE  QuietOK'
<1> DEFINE kind == Head(queue).kind
<1>1. saving /\ queue # <<>> /\ queue \in Seq(Jobs) /\ Tail(queue) \in Seq(Jobs)
  BY SaveEndsSummary, TailElements DEF QuietInv, LifeInv, TypeOK, TasksOK
<1>2. /\ kind \in Kinds(queue) /\ Kinds(Tail(queue)) \subseteq Kinds(queue)
      /\ Fits(kind, entry)
  BY <1>1, KindsTail DEF QuietInv, LifeInv, LifeOK, JobsOK
<1>3. CASE SetupSaveFails \/ ResumeSaveFails
  <2>1. /\ kind \in {"setup", "resume"} /\ entry' \in {"failing", "failed"} /\ ~saving'
        /\ queue' = Outdated(Tail(queue)) /\ claim' = NoPlan /\ timer' = NoTime
        /\ UNCHANGED <<starting, run, waiting>>
    BY <1>3 DEF SetupSaveFails, ResumeSaveFails, RollBack
  <2>4. ~subscribed'
    BY <1>3 DEF SetupSaveFails, ResumeSaveFails, RollBack
  <2>2. Dormant /\ ~starting
    BY <1>1, <1>2, <2>1 DEF Fits, Dormant, QuietInv, QuietOK, TakingOver
  <2>3. Kinds(queue') \subseteq Kinds(queue) \cup {"outdated"}
    BY <1>1, <1>2, <2>1, KindsOutdated
  <2> QED
    BY <2>1, <2>2, <2>3, <2>4
       DEF QuietInv, QuietOK, DormantOK, StartingOK, AwaitingOK, DownOK, FailedOK, SavingOK,
           Awaiting, TakingOver
<1>4. ASSUME NEW p \in {claim, NoPlan}, Release(kind, p, Tail(queue)),
             UNCHANGED <<starting, timer>>
      PROVE  QuietOK'
  <2>1. EntryAfter(kind) \in {"loaded", "stopping", "draining"}
    BY <1>1, <1>2 DEF EntryAfter, Fits, QuietInv, QuietOK, SavingOK, TakingOver
  <2>2. ASSUME starting'
        PROVE  /\ Dormant /\ kind \notin RunKinds /\ p = NoPlan /\ timer' = NoTime
               /\ "deadline" \notin Kinds(queue)
    <3>1. /\ Dormant /\ run = NoRun /\ claim = NoPlan /\ timer = NoTime
          /\ "deadline" \notin Kinds(queue)
      BY <1>4, <2>2 DEF Dormant, QuietInv, QuietOK, DormantOK, StartingOK
    <3>2. kind \notin RunKinds
      BY <1>2, <3>1 DEF QuietInv, LifeInv, TaskOK, RunOK, NoRun, RunKinds
    <3> QED
      BY <1>4, <3>1, <3>2
  <2> QED
    BY <1>1, <1>2, <1>4, <2>1, <2>2, ReleasedQuiet
<1> QED
  BY <1>3, <1>4, SaveEndsSummary DEF QuietInv, LifeInv, phase

\* While nothing executes and the stop is over, nobody saves.
LEMMA IdleFree ==
  ASSUME QuietInv, Idle, entry \in {"draining", "failing"}
  PROVE  ~saving /\ run = NoRun /\ waiting = <<>> /\ "cancelled" \notin Kinds(queue)
<1>1. run = NoRun /\ waiting = <<>> /\ "cancelled" \notin Kinds(queue)
  BY DEF Idle, Kinds
<1>2. SUFFICES ASSUME saving PROVE FALSE
  BY <1>1
<1>3. queue \in Seq(Jobs) /\ queue # <<>>
  BY <1>2 DEF QuietInv, LifeInv, TypeOK, TasksOK
<1>4. Head(queue).kind \in Kinds(queue) /\ ~TakingOver
  BY <1>3, KindsTail, NoLifeJob DEF QuietInv
<1>5. Head(queue).kind \in RunKinds \cup {"cancelled"}
  BY <1>2, <1>4 DEF QuietInv, QuietOK, SavingOK
<1> QED
  BY <1>1, <1>4, <1>5 DEF QuietInv, LifeInv, TaskOK, RunOK, NoRun, RunKinds

LEMMA LifeCycleQuiet ==
  ASSUME QuietInv, LifeCycle
  PROVE  QuietOK'
<1>1. queue \in Seq(Jobs) /\ (saving => queue # <<>>)
  BY DEF QuietInv, LifeInv, TypeOK, TasksOK
<1>2. entry \notin {"setup", "stopping", "resuming"}
  BY DEF LifeCycle, Load, ReadStore, LoadFails, BeginSetup, BeginStop, FinishUnload,
         RejectUnload
<1>3. ~TakingOver
  BY <1>2, NoLifeJob DEF QuietInv
<1>4. ASSUME NEW kind \in LifeKinds, Post(Call(kind, NoTime))
      PROVE  /\ Kinds(queue') = Kinds(queue) \cup {kind}
             /\ saving => Head(queue') = Head(queue)
  <2>1. Call(kind, NoTime) \in Jobs /\ Call(kind, NoTime).kind = kind
    BY CallIsJob, NoneType DEF JobKinds, Call, Job, LifeKinds
  <2> QED
    BY <1>1, <1>4, <2>1, KindsAppend, AppendElements DEF Post
<1> USE DEF QuietOK, DormantOK, StartingOK, AwaitingOK, DownOK, FailedOK, SavingOK, Dormant,
        Awaiting
<1>5. CASE Load
  <2>1. /\ entry = "down" /\ entry' = "loading" /\ queue = <<>> /\ timer' = NoTime
        /\ ~setupComplete' /\ ~starting' /\ ~startedSub' /\ UNCHANGED tasks
    BY <1>5 DEF Load
  <2>2. ~saving' /\ Kinds(queue') = {} /\ run' = NoRun /\ waiting' = <<>>
    BY <1>1, <2>1, KindsEmpty DEF tasks, QuietInv
  <2> QED
    BY <2>1, <2>2 DEF TakingOver
<1>6. CASE ReadStore
  <2>1. /\ entry = "loading" /\ entry' = "read"
        /\ UNCHANGED <<setupComplete, starting, startedSub, timer, queue, saving, claim, waiting,
                        run>>
    BY <1>6 DEF ReadStore, rule, phase, tasks
  <2> QED
    BY <1>3, <2>1 DEF QuietInv, TakingOver
<1>7. CASE LoadFails
  <2>1. /\ entry = "loading" /\ entry' = "failing" /\ ~saving' /\ queue' = Outdated(queue)
        /\ UNCHANGED <<starting, waiting, run>>
    BY <1>7 DEF LoadFails, RollBack
  <2>2. Kinds(queue') \subseteq Kinds(queue) \cup {"outdated"}
    BY <1>1, <2>1, KindsOutdated
  <2> QED
    BY <1>3, <2>1, <2>2 DEF QuietInv, TakingOver
<1>8. CASE BeginSetup
  <2>1. /\ entry = "read" /\ entry' = "setup" /\ Post(Call("setup", NoTime))
        /\ UNCHANGED <<setupComplete, starting, startedSub, timer, saving, claim, waiting, run>>
    BY <1>8 DEF BeginSetup, rule
  <2>2. Kinds(queue') = Kinds(queue) \cup {"setup"}
    BY <1>4, <2>1 DEF LifeKinds
  <2> QED
    BY <1>3, <2>1, <2>2 DEF QuietInv, TakingOver
<1>9. CASE BeginStop
  <2>1. /\ entry = "loaded" /\ entry' = "stopping" /\ Post(Call("stop", NoTime))
        /\ UNCHANGED <<starting, timer, saving, claim, waiting, run>>
    BY <1>9 DEF BeginStop
  <2>2. Kinds(queue') = Kinds(queue) \cup {"stop"} /\ (saving => Head(queue') = Head(queue))
    BY <1>4, <2>1 DEF LifeKinds
  <2> QED
    BY <1>3, <2>1, <2>2 DEF QuietInv, TakingOver
<1>10. CASE FinishUnload
  <2>1. /\ entry \in {"draining", "failing"} /\ Idle /\ entry' = "down"
        /\ UNCHANGED <<starting, unloaded, startedSub, subscribed, timer, queue, saving, claim,
                        waiting, run>>
    BY <1>10 DEF FinishUnload, rule, tasks
  <2>2. ~saving /\ run = NoRun /\ waiting = <<>> /\ "cancelled" \notin Kinds(queue)
    BY <2>1, IdleFree
  <2>3. unloaded /\ ~startedSub /\ ~subscribed
    BY <2>1 DEF QuietInv, LifeInv, LifeOK, Retired
  <2> QED
    BY <2>1, <2>2, <2>3 DEF QuietInv, TakingOver
<1>11. CASE RejectUnload
  <2>1. /\ entry = "draining" /\ Idle /\ entry' = "resuming" /\ Post(Call("resume", NoTime))
        /\ UNCHANGED <<starting, timer, saving, claim, waiting, run>>
    BY <1>11 DEF RejectUnload, rule
  <2>2. ~saving /\ run = NoRun /\ waiting = <<>> /\ "cancelled" \notin Kinds(queue)
    BY <2>1, IdleFree
  <2>3. Kinds(queue') = Kinds(queue) \cup {"resume"}
    BY <1>4, <2>1 DEF LifeKinds
  <2> QED
    BY <2>1, <2>2, <2>3 DEF QuietInv, TakingOver
<1> QED
  BY <1>5, <1>6, <1>7, <1>8, <1>9, <1>10, <1>11 DEF LifeCycle

LEMMA QuietInit == Init => QuietInv
<1> SUFFICES ASSUME Init PROVE QuietInv
  OBVIOUS
<1>1. QuietOK
  BY KindsEmpty
     DEF Init, QuietOK, DormantOK, StartingOK, AwaitingOK, DownOK, FailedOK, SavingOK,
         Awaiting, TakingOver
<1> QED
  BY <1>1, LifeInit DEF QuietInv

LEMMA QuietNext ==
  ASSUME "earlytoggle" \notin Moves, QuietInv, [Next]_vars
  PROVE  QuietInv'
<1>1. LifeInv'
  BY LifeNext DEF QuietInv
<1>2. CASE UNCHANGED vars
  BY <1>1, <1>2
     DEF QuietInv, QuietOK, DormantOK, StartingOK, AwaitingOK, DownOK, FailedOK, SavingOK, Dormant,
         Awaiting, TakingOver, vars, phase, rule, tasks
<1>3. CASE Next
  BY <1>1, <1>3, HomeQuiet, LifeCycleQuiet, SectionQuiet, SaveEndsQuiet, ExecutionQuiet
     DEF Next, QuietInv
<1> QED
  BY <1>2, <1>3

-----------------------------------------------------------------------------
(* Service calls *)

\* Where an execution can be after a step, and what the step saw that brought
\* it there.
Tried == \A e \in YetToTry : e \in run'.todo \/ e = run'.target \/ Excused(e)

RunAfter ==
  \/ run' = run
  \/ run' = NoRun
  \/ /\ Running("call") /\ run' = [run EXCEPT !.stage = "confirm"]
     /\ Unsettled(run.target) /\ UNCHANGED <<world, rule, phase>>
  \/ run'.stage = "blocked" /\ gate # "off"
  \/ run'.stage = "finish" /\ run'.at = now /\ Tried
  \/ /\ run'.stage = "call" /\ run'.target \in Entities /\ run'.at = NoTime
     /\ \A e \in run'.todo : e > run'.target
     /\ Tried
     /\ gate = "off" /\ ~unloaded' /\ ~inhibited'

LEMMA AdvanceAfter ==
  ASSUME NEW p, NEW todo \in SUBSET Entities, NEW failed, NEW host, NEW q,
         Advance(p, todo, failed, host, q), YetToTry \subseteq todo
  PROVE  RunAfter
<1> DEFINE callable == IF gate # "off" \/ unloaded' \/ inhibited' THEN {}
                       ELSE {e \in todo : allowed[e] /\ entState[e] = "on"}
           target == CHOOSE e \in callable : \A f \in callable : e <= f
<1>1. \A e \in todo : e \in callable \/ Excused(e)
  BY DEF Excused
<1>2. CASE callable = {}
  <2>1. run'.stage = "finish" /\ run'.at = now
    BY <1>2 DEF Advance
  <2>2. Tried
    BY <1>1, <1>2 DEF Tried
  <2> QED
    BY <2>1, <2>2 DEF RunAfter
<1>3. CASE callable # {}
  <2>1. /\ run'.stage = "call" /\ run'.target = target /\ run'.at = NoTime
        /\ run'.todo = {e \in todo : e > target}
    BY <1>3 DEF Advance
  <2>2. /\ gate = "off" /\ ~unloaded' /\ ~inhibited'
        /\ callable \in SUBSET Entities /\ callable \subseteq todo
    BY <1>3
  <2> HIDE DEF callable
  <2>3. target \in callable /\ \A e \in callable : target <= e
    BY <1>3, <2>2, LeastEntity
  <2> HIDE DEF target
  <2>4. Tried
    <3> SUFFICES ASSUME NEW e \in YetToTry, ~Excused(e)
                 PROVE  e \in run'.todo \/ e = run'.target
      BY DEF Tried
    <3>1. e \in callable /\ e \in todo
      BY <1>1
    <3>2. e \in Nat /\ target \in Nat /\ target <= e
      BY <2>2, <2>3, <3>1, RuleAssumption
    <3> QED
      BY <2>1, <3>1, <3>2
  <2> QED
    BY <2>1, <2>2, <2>3, <2>4 DEF RunAfter
<1> QED
  BY <1>2, <1>3

LEMMA RestTyped ==
  ASSUME TypeOK
  PROVE  YetToTry \subseteq Entities
BY DEF YetToTry, TypeOK, TasksOK, Runs, NoRun

LEMMA BeginAfter ==
  ASSUME TypeOK, NEW p, NEW host, NEW q, Begin(p, host, q)
  PROVE  RunAfter
<1>1. CASE gate # "off"
  <2>1. run'.stage = "blocked"
    BY <1>1 DEF Begin
  <2> QED
    BY <1>1, <2>1 DEF RunAfter
<1>2. CASE gate = "off"
  BY <1>2, AdvanceAfter, RestTyped DEF Begin
<1> QED
  BY <1>1, <1>2

LEMMA ReleaseAfter ==
  ASSUME TypeOK, NEW kind, NEW p, NEW q, Release(kind, p, q)
  PROVE  RunAfter
BY BeginAfter DEF Release, EndRun, Dispatch, RunAfter

LEMMA NextRun ==
  ASSUME TypeOK, TaskOK, [Next]_vars
  PROVE  RunAfter
<1>1. CASE Tick \/ Fire \/ Environment
  <2>1. CASE Crash
    BY <2>1 DEF Crash, RunAfter
  <2>2. CASE ~Crash
    BY <1>1, <2>2, HomeSummary DEF RunAfter
  <2> QED
    BY <2>1, <2>2
<1>2. CASE LifeCycle \/ Skip \/ UNCHANGED vars
  <2>1. run' = run
    BY <1>2 DEF LifeCycle, Load, ReadStore, LoadFails, RollBack, BeginSetup, BeginStop,
                FinishUnload, RejectUnload, Skip, vars, tasks
  <2> QED
    BY <2>1 DEF RunAfter
<1>3. CASE Section /\ ~Skip
  <2>1. \E kind, p, q : Save(kind, TRUE, p, q) \/ Save(kind, FALSE, p, q) \/ Release(kind, p, q)
    BY <1>3, SectionSummary DEF SectionSaves, SectionWaits
  <2>2. run' = run \/ \E kind, p, q : Release(kind, p, q)
    BY <2>1 DEF Save
  <2> QED
    BY <2>2, ReleaseAfter DEF RunAfter
<1>4. CASE SaveEnds
  <2>1. run' = run \/ \E kind, p, q : Release(kind, p, q)
    BY <1>4, SaveEndsSummary DEF SetupSaveFails, ResumeSaveFails, RollBack
  <2> QED
    BY <2>1, ReleaseAfter DEF RunAfter
<1>5. CASE Execution
  <2>1. \/ \E bad : Proceed(bad) /\ (Running("call") \/ Running("confirm"))
        \/ /\ Running("call") /\ run' = [run EXCEPT !.stage = "confirm"]
           /\ Unsettled(run.target) /\ UNCHANGED <<world, rule, phase>>
        \/ \E p : Begin(p, "task", queue)
        \/ run' = NoRun \/ run' = run
    BY <1>5 DEF Execution, ServiceReturns, ServiceFails, ConfirmEnds, StartNext, Cancel,
                CancelWaiting
  <2>2. ASSUME NEW bad, Proceed(bad), Running("call") \/ Running("confirm") PROVE RunAfter
    <3>1. run.todo \in SUBSET Entities /\ YetToTry = run.todo
      BY <2>2 DEF TypeOK, TasksOK, Runs, NoRun, Running, YetToTry
    <3> QED
      BY <2>2, <3>1, AdvanceAfter DEF Proceed
  <2> QED
    BY <2>1, <2>2, BeginAfter DEF RunAfter
<1> QED
  BY <1>1, <1>2, <1>3, <1>4, <1>5 DEF Next

\* A step that starts a call saw the gate open and a rule that may act.
LEMMA CallStarts ==
  ASSUME TypeOK, TaskOK, [Next]_vars, NewCall
  PROVE  gate = "off" /\ ~unloaded' /\ ~inhibited' /\ run' # NoRun
<1>1. run'.stage = "call" /\ run' # run
  BY DEF NewCall
<1>2. run' # NoRun
  BY <1>1 DEF NoRun
<1>3. ~(run # NoRun /\ run' = [run EXCEPT !.stage = "confirm"])
  <2> SUFFICES ASSUME run # NoRun, run' = [run EXCEPT !.stage = "confirm"] PROVE FALSE
    OBVIOUS
  <2>1. run \in Runs
    BY DEF TypeOK, TasksOK
  <2>2. run'.stage = "confirm"
    BY <2>1 DEF Runs
  <2> QED
    BY <1>1, <2>2
<1> QED
  BY <1>1, <1>2, <1>3, NextRun DEF RunAfter, Running

LEMMA CallWhileLive ==
  ASSUME QuietInv, QuietInv', [Next]_vars, NewCall
  PROVE  entry' = "loaded" /\ ~starting'
<1>1. ~unloaded' /\ run' # NoRun
  BY CallStarts DEF QuietInv, LifeInv
<1>2. ~Dormant'
  BY <1>1 DEF QuietInv, QuietOK, DormantOK
<1>3. ~Retired'
  BY <1>1 DEF QuietInv, LifeInv, LifeOK
<1> QED
  BY <1>2, <1>3 DEF Dormant, Retired

\* No service call starts once an unload has been asked for (__init__.py,
\* async_unload_entry; controller.py, async_stop), although the stop still
\* waits for the lock, plans wait for their turn and executions go on; nor
\* before a set-up, a refused unload or the start of Home Assistant is over.
THEOREM NoCallInStoppedRule ==
  ASSUME "earlytoggle" \notin Moves
  PROVE  Spec => NoCallWhileStopping
<1>1. Init => QuietInv
  BY QuietInit
<1>2. QuietInv /\ [Next]_vars => QuietInv'
  BY QuietNext
<1>3. QuietInv /\ QuietInv' /\ [Next]_vars => [NewCall => entry' = "loaded" /\ ~starting']_vars
  BY CallWhileLive
<1> QED
  BY <1>1, <1>2, <1>3, PTL DEF Spec, NoCallWhileStopping

\* Every target of a plan has its turn (controller.py,
\* _async_execute_serialized): whatever the services of the others answer, an
\* execution leaves a target out only if at that moment it is not on, is no
\* target of the rule, or the gate, the switch or a stop forbids the call.
THEOREM EveryTargetIsTried == Spec => RestIsTried
<1>1. Init => LifeInv
  BY LifeInit
<1>2. LifeInv /\ [Next]_vars => LifeInv'
  BY LifeNext
<1>3. LifeInv /\ [Next]_vars
        => [run' # run /\ run'.stage \in {"call", "finish"} =>
              \A e \in YetToTry : e \in run'.todo \/ e = run'.target \/ Excused(e)]_vars
  <2> SUFFICES ASSUME LifeInv, [Next]_vars, run' # run, run'.stage \in {"call", "finish"}
               PROVE  Tried
    BY DEF Tried
  <2>1. run' # NoRun
    BY DEF NoRun
  <2>2. ~(Running("call") /\ run' = [run EXCEPT !.stage = "confirm"])
    <3>1. run \in Runs \cup {NoRun}
      BY DEF LifeInv, TypeOK, TasksOK
    <3> QED
      BY <3>1 DEF Running, Runs
  <2>3. RunAfter
    BY NextRun DEF LifeInv
  <2> QED
    BY <2>1, <2>2, <2>3 DEF RunAfter
<1> QED
  BY <1>1, <1>2, <1>3, PTL DEF Spec, RestIsTried

-----------------------------------------------------------------------------
(* What a stop leaves behind *)

\* With the gate open no execution is blocked, and a rule that was stopped
\* has no timer.
StoppedOK ==
  /\ gate = "off" /\ run.stage # "blocked"
  /\ entry \in {"draining", "down", "failing", "failed"} => timer = NoTime
  /\ saving /\ Head(queue).kind = "stop" => timer = NoTime

LEMMA GateStays ==
  ASSUME TypeOK, "gate" \notin Moves, [Next]_vars
  PROVE  gate' = gate
<1>1. CASE Section /\ ~Skip
  BY <1>1, SectionSummary DEF SectionRuns, world
<1>2. CASE SaveEnds
  BY <1>2, SaveEndsSummary DEF SetupSaveFails, ResumeSaveFails, RollBack, world
<1>3. CASE Execution
  BY <1>3 DEF Execution, ServiceReturns, ServiceFails, ConfirmEnds, Proceed, StartNext,
              Cancel, CancelWaiting, world
<1>4. CASE LifeCycle \/ Skip
  BY <1>4 DEF LifeCycle, Load, ReadStore, LoadFails, RollBack, BeginSetup, BeginStop,
              FinishUnload, RejectUnload, Skip, world
<1>5. CASE Tick \/ Fire \/ Environment
  BY <1>5 DEF Tick, Fire, Environment, Report, ChangeRegistry, MoveGate, HaStarts,
              RequestEnable, RequestDisable, Crash, world
<1> QED
  BY <1>1, <1>2, <1>3, <1>4, <1>5 DEF Next, vars, world

LEMMA StoppedNext ==
  ASSUME "gate" \notin Moves, "earlytoggle" \notin Moves, QuietInv, StoppedOK, [Next]_vars
  PROVE  StoppedOK'
<1>1. gate' = "off"
  BY GateStays DEF StoppedOK, QuietInv, LifeInv
<1>2. run'.stage # "blocked"
  <2>1. run' = [run EXCEPT !.stage = "confirm"] /\ run # NoRun => run'.stage = "confirm"
    BY DEF QuietInv, LifeInv, TypeOK, TasksOK, Runs
  <2>2. RunAfter
    BY NextRun DEF QuietInv, LifeInv
  <2> QED
    BY <2>1, <2>2 DEF RunAfter, StoppedOK, NoRun
<1>3. queue \in Seq(Jobs) /\ (saving => queue # <<>>) /\ "blocked" \notin Kinds(queue)
  BY DEF QuietInv, LifeInv, TypeOK, TasksOK, TaskOK, RunOK, RunKinds, StoppedOK
<1> DEFINE Goal == /\ entry' \in {"draining", "down", "failing", "failed"} => timer' = NoTime
                   /\ saving' /\ Head(queue').kind = "stop" => timer' = NoTime
<1> SUFFICES Goal
  BY <1>1, <1>2 DEF StoppedOK
<1>4. ASSUME UNCHANGED <<entry, saving, timer>>, saving => Head(queue') = Head(queue)
      PROVE  Goal
  BY <1>4 DEF StoppedOK
<1>5. CASE Tick \/ Fire \/ Environment
  <2>1. CASE Crash
    BY <2>1 DEF Crash
  <2>2. CASE ~Crash
    <3>1. /\ UNCHANGED <<entry, saving, timer>>
          /\ queue' = queue \/ \E j \in Jobs : queue' = Append(queue, j)
      BY <1>5, <2>2, HomeSummary DEF QuietInv, LifeInv
    <3> QED
      BY <1>3, <1>4, <3>1, AppendElements
  <2> QED
    BY <2>1, <2>2
<1>6. CASE Execution
  <2>1. /\ UNCHANGED <<entry, saving, timer>>
        /\ queue' = queue \/ \E j \in Jobs : queue' = Append(queue, j)
    BY <1>6, ExecutionSummary, RunCalls DEF QuietInv, LifeInv, rule
  <2> QED
    BY <1>3, <1>4, <2>1, AppendElements
<1>7. CASE Skip
  BY <1>7 DEF Skip, StoppedOK, rule
<1>8. CASE Section /\ ~Skip
  <2>1. PICK kind, p, q : /\ SectionRuns(kind, p, q)
                          /\ SectionSaves(kind, p, q) \/ SectionWaits(kind, p, q)
    BY <1>8, SectionSummary DEF QuietInv, LifeInv
  <2>2. /\ queue # <<>> /\ ~saving /\ ~Stale(Head(queue)) /\ kind = Head(queue).kind
        /\ q = queue \/ q = Outdated(queue)
    BY <2>1 DEF SectionRuns
  <2>3. kind \in Kinds(queue) /\ kind # "blocked"
    BY <1>3, <2>2, KindsTail
  <2>4. /\ kind \in {"event", "deadline", "enable", "disable", "started"} => entry = "loaded"
        /\ kind = "setup" => entry = "setup"
        /\ kind = "stop" => entry = "stopping"
        /\ kind = "resume" => entry = "resuming"
        /\ kind \in {"finish", "cancelled"} => ~Dormant
        /\ kind \in JobKinds \ Unwinding /\ kind # "outdated"
    BY <2>2, SectionPhase DEF RunKinds
  <2>5. Head(q).kind = "stop" => kind = "stop"
    BY <2>2, SectionQueue DEF QuietInv, LifeInv
  <2>6. CASE SectionWaits(kind, p, q)
    <3>1. kind \in {"setup", "resume"} /\ ~saving' /\ entry' = EntryAfter(kind)
      BY <2>6, ReleaseRun DEF SectionWaits
    <3> QED
      BY <3>1 DEF EntryAfter
  <2>7. CASE SectionSaves(kind, p, q)
    <3>1. /\ kind = "stop" => timer' = NoTime
          /\ unloaded /\ kind \in {"finish", "cancelled"} => timer' = timer
      BY <2>7 DEF SectionSaves
    <3>2. CASE saving' /\ queue' = q /\ entry' = entry
      <4>1. entry' \in {"draining", "down", "failing", "failed"} => timer' = NoTime
        <5>1. SUFFICES ASSUME entry \in {"draining", "down", "failing", "failed"}
                       PROVE  timer' = NoTime
          BY <3>2
        <5>2. unloaded \/ entry = "down"
          BY <5>1 DEF QuietInv, LifeInv, LifeOK, Retired
        <5>3. kind \in {"finish", "cancelled"} /\ entry # "down"
          BY <2>3, <2>4, <5>1 DEF JobKinds, Dormant
        <5> QED
          BY <3>1, <5>1, <5>2, <5>3 DEF StoppedOK
      <4> QED
        BY <2>5, <3>1, <3>2, <4>1
    <3>3. CASE Release(kind, p, Tail(q)) /\ kind \notin {"setup", "stop", "finish", "cancelled"}
      <4>1. ~saving' /\ entry' = EntryAfter(kind)
        BY <3>3, ReleaseRun
      <4> QED
        BY <2>3, <2>4, <3>3, <4>1 DEF EntryAfter, JobKinds
    <3> QED
      BY <2>7, <3>2, <3>3 DEF SectionSaves, Save
  <2> QED
    BY <2>1, <2>6, <2>7
<1>9. CASE SaveEnds
  <2>1. CASE SetupSaveFails \/ ResumeSaveFails
    BY <2>1 DEF SetupSaveFails, ResumeSaveFails, RollBack
  <2>2. ASSUME NEW p, Release(Head(queue).kind, p, Tail(queue)), timer' = timer, saving
        PROVE  Goal
    <3>1. ~saving' /\ entry' = EntryAfter(Head(queue).kind)
      BY <2>2, ReleaseRun
    <3> QED
      BY <2>2, <3>1 DEF EntryAfter, StoppedOK
  <2> QED
    BY <1>9, <2>1, <2>2, SaveEndsSummary DEF QuietInv, LifeInv
<1>10. CASE LifeCycle
  <2>1. CASE Load \/ LoadFails
    <3>1. timer' = NoTime
      BY <2>1 DEF Load, LoadFails, RollBack
    <3> QED
      BY <3>1
  <2>2. CASE ReadStore \/ BeginSetup \/ BeginStop \/ RejectUnload
    <3>1. /\ entry' \in {"read", "setup", "stopping", "resuming"} /\ saving' = saving
          /\ entry \notin {"setup", "stopping", "resuming"}
          /\ queue' = queue \/ \E k \in LifeKinds : queue' = Append(queue, Call(k, NoTime))
      BY <2>2 DEF ReadStore, BeginSetup, BeginStop, RejectUnload, Post, tasks, LifeKinds
    <3>2. \A k \in LifeKinds : Call(k, NoTime) \in Jobs
      BY CallIsJob, NoneType DEF JobKinds, LifeKinds
    <3>3. saving => Head(queue') = Head(queue)
      BY <1>3, <3>1, <3>2, AppendElements
    <3>4. saving => Head(queue).kind # "stop"
      <4>1. Kinds(queue) \cap LifeKinds = {}
        BY <3>1, NoLifeJob DEF QuietInv
      <4>2. saving => Head(queue).kind \in Kinds(queue)
        BY <1>3, KindsTail
      <4> QED
        BY <4>1, <4>2 DEF LifeKinds
    <3> QED
      BY <3>1, <3>3, <3>4
  <2>3. CASE FinishUnload
    <3>1. entry \in {"draining", "failing"} /\ UNCHANGED <<saving, timer, queue>>
      BY <2>3 DEF FinishUnload, rule, tasks
    <3> QED
      BY <3>1 DEF StoppedOK
  <2> QED
    BY <1>10, <2>1, <2>2, <2>3 DEF LifeCycle
<1>11. CASE UNCHANGED vars
  BY <1>11 DEF StoppedOK, vars, rule, tasks
<1> QED
  BY <1>5, <1>6, <1>7, <1>8, <1>9, <1>10, <1>11 DEF Next

\* Once async_stop has waited, nothing of the rule runs (controller.py,
\* async_stop): no execution, no timer, no subscription; nor does a rule whose
\* refused unload could not be taken back hear or time anything. Assumed is a
\* gate that stays open: the section that gives a blocked plan's claims back
\* does not look at _unloaded, and behind a stop it may set a timer again.
THEOREM StoppedRuleIsQuiet ==
  ASSUME "gate" \notin Moves, "earlytoggle" \notin Moves
  PROVE  Spec => []StoppedIsQuiet
<1>1. Init => QuietInv /\ StoppedOK
  BY QuietInit DEF Init, StoppedOK, NoRun
<1>2. QuietInv /\ StoppedOK /\ [Next]_vars => QuietInv' /\ StoppedOK'
  BY QuietNext, StoppedNext
<1>3. QuietInv /\ StoppedOK => StoppedIsQuiet
  BY DEF QuietInv, QuietOK, DormantOK, DownOK, FailedOK, Dormant, StoppedOK, StoppedIsQuiet
<1> QED
  BY <1>1, <1>2, <1>3, PTL DEF Spec
=============================================================================
