------------------------------ MODULE Cadence ------------------------------
(***************************************************************************)
(* The persistent rhythm of a bot.  One consumer reads the stream of the   *)
(* world one commit at a time, counts what is external as pressure, asks   *)
(* a policy whether to deliberate, and fixes the answer, its own state and *)
(* the cognition to launch in one commit.  The process may end at every    *)
(* await; a new one starts from the commits and reconciles the plans that  *)
(* have no result.                                                         *)
(***************************************************************************)
EXTENDS Naturals, Sequences, FiniteSets

CONSTANTS Foreign,    \* bound: the kinds of the foreign commits, in order, of
                      \*   "event", "reactive" (an event that a rule matches), "noise"
          Delays,     \* bound: how far ahead the policy sets its next check
          MaxPlans,   \* bound: answers of the policy in favour of deliberating
          MaxTime,    \* bound: readings of the clock
          MaxFaults  \* bound: ends of the process and failing launches

\* What is assumed of them.
CadenceAssumption ==
  /\ Foreign \in Seq({"event", "reactive", "noise"})
  /\ Delays \subseteq Nat \ {0}
  /\ {MaxPlans, MaxTime, MaxFaults} \subseteq Nat

VARIABLES
  log,         \* the world: [kind, ref, state, status], without the records of
               \*   runs, which the consumer skips like any other noise
  begun,       \* plans whose run has a run:started record
  ended,       \* [plan, status] of the run:finished records
  at,          \* where the consumer is, see Places
  mem,         \* CadenceState: [cursor, pending, next, reactive]
  hasDecision, \* _has_decision
  cause,       \* index of the commit that is being judged
  todo,        \* plans initialize has still to reconcile
  recoverable, \* _recoverable
  plan,        \* the plan being launched or finished
  result,      \* the status about to be recorded
  now,         \* wall clock
  events,      \* number of foreign commits
  faults      \* number of faults

runs == <<begun, ended>>
job == <<cause, todo, recoverable, plan, result>>
env == <<now, events, faults>>
vars == <<log, runs, at, mem, hasDecision, job, env>>

Places == {"down", "reconcile", "idle", "tick", "evaluate", "launch", "running",
           "finish"}

NoState == [cursor |-> 0, pending |-> 0, next |-> 0, reactive |-> 0]
Commit(kind, ref, state, status) ==
  [kind |-> kind, ref |-> ref, state |-> state, status |-> status]
Write(kind, ref, state, status) ==
  log' = Append(log, Commit(kind, ref, state, status))

Init ==
  /\ log = <<>>
  /\ begun = {}
  /\ ended = {}
  /\ at = "down"
  /\ mem = NoState
  /\ hasDecision = FALSE
  /\ cause = 0
  /\ todo = {}
  /\ recoverable = {}
  /\ plan = 0
  /\ result = "none"
  /\ now = 0
  /\ events = 0
  /\ faults = 0

\* Operators named Bug_... are one-slip variants of the operator that follows
\* them.  No action uses them; substituted for it, each breaks a property below.

-----------------------------------------------------------------------------
\* The world and the clock.

WorldCommits ==
  /\ events < Len(Foreign)
  /\ events' = events + 1
  /\ Write(Foreign[events'], 0, NoState, "none")
  /\ UNCHANGED <<runs, at, mem, hasDecision, job, now, faults>>

TimePasses ==
  /\ now < MaxTime
  /\ now' = now + 1
  /\ UNCHANGED <<log, runs, at, mem, hasDecision, job, events, faults>>

-----------------------------------------------------------------------------
\* initialize(): the last state in the scope, and the plans without a result.
\* Nobody else writes to the scope, so its pages are one reading.

Decisions == {"decided", "planned"}
Records == {i \in DOMAIN log : log[i].kind \in Decisions \cup {"result"}}
LastState ==
  IF Records = {} THEN NoState
  ELSE log[CHOOSE i \in Records : \A j \in Records : j <= i].state

Results(p) == {i \in DOMAIN log : log[i].kind = "result" /\ log[i].ref = p}
End(p, status) == [plan |-> p, status |-> status]
Ended(p) == \E e \in ended : e.plan = p
Plans == {i \in DOMAIN log : log[i].kind = "planned"}

Start ==
  /\ at = "down"
  /\ at' = "reconcile"
  /\ mem' = LastState
  /\ hasDecision' = (Records # {})
  /\ todo' = {p \in Plans : Results(p) = {}}
  /\ UNCHANGED <<log, runs, cause, recoverable, plan, result, env>>

\* _reconcile: only a plan whose run has no start record is launched again.
Bug_Verdict(p) ==
  CASE Ended(p) -> "completed"
    [] ~Ended(p) /\ p \in begun -> "interrupted"
    [] OTHER -> "none"
Verdict(p) ==
  CASE End(p, "completed") \in ended -> "completed"
    [] Ended(p) /\ End(p, "completed") \notin ended -> "failed"
    [] ~Ended(p) /\ p \in begun -> "interrupted"
    [] OTHER -> "none"

Bug_Kept(p) == {}
Kept(p) == {p}

Reconcile(p) ==
  /\ at = "reconcile"
  /\ p \in todo
  /\ todo' = todo \ {p}
  /\ IF Verdict(p) = "none"
     THEN /\ recoverable' = recoverable \cup Kept(p)
          /\ UNCHANGED <<runs, at, plan, result>>
     ELSE /\ at' = "finish"
          /\ plan' = p
          /\ result' = Verdict(p)
          /\ UNCHANGED recoverable
  /\ UNCHANGED <<log, runs, mem, hasDecision, cause, env>>

Initialized ==
  /\ at = "reconcile"
  /\ todo = {}
  /\ at' = "idle"
  /\ UNCHANGED <<log, runs, mem, hasDecision, job, env>>

-----------------------------------------------------------------------------
\* evaluate_once(): a recovered plan first, then the stream.

Recover(p) ==
  /\ at = "idle"
  /\ p \in recoverable
  /\ \A q \in recoverable : p <= q
  /\ recoverable' = recoverable \ {p}
  /\ plan' = p
  /\ at' = "launch"
  /\ UNCHANGED <<log, runs, mem, hasDecision, cause, todo, result, env>>

Scanning == at = "idle" /\ recoverable = {}
Counts(i) == log[i].kind \in {"event", "reactive"}
TimerDue == ~hasDecision \/ now >= mem.next

\* Nothing to read: the time may be up.
CheckTime ==
  /\ Scanning
  /\ mem.cursor = Len(log)
  /\ TimerDue
  /\ at' = "tick"
  /\ UNCHANGED <<log, runs, mem, hasDecision, job, env>>

\* The cursor moves in memory; it is persisted with the next decision.
Skip ==
  /\ Scanning
  /\ mem.cursor < Len(log)
  /\ ~Counts(mem.cursor + 1)
  /\ mem' = [mem EXCEPT !.cursor = @ + 1]
  /\ at' = IF TimerDue THEN "tick" ELSE "idle"
  /\ UNCHANGED <<log, runs, hasDecision, job, env>>

Count ==
  /\ Scanning
  /\ mem.cursor < Len(log)
  /\ Counts(mem.cursor + 1)
  /\ mem' = [mem EXCEPT !.cursor = @ + 1,
                        !.pending = @ + 1,
                        !.reactive = IF log[mem.cursor + 1].kind = "reactive"
                                     THEN mem.cursor + 1 ELSE @]
  /\ cause' = mem.cursor + 1
  /\ at' = "evaluate"
  /\ UNCHANGED <<log, runs, hasDecision, todo, recoverable, plan, result, env>>

SubmitTick ==
  /\ at = "tick"
  /\ Write("tick", 0, NoState, "none")
  /\ cause' = Len(log')
  /\ at' = "evaluate"
  /\ UNCHANGED <<runs, mem, hasDecision, todo, recoverable, plan, result, env>>

\* The state the decision leaves.  A reactive plan answers one event only.
Bug_Left(deliberating) == IF deliberating THEN 0 ELSE mem.pending
Left(deliberating) ==
  IF ~deliberating THEN mem.pending
  ELSE IF mem.reactive = 0 THEN 0
  ELSE IF mem.pending > 0 THEN mem.pending - 1 ELSE 0

Decided(deliberating, next) ==
  [mem EXCEPT !.pending = Left(deliberating),
              !.next = next,
              !.reactive = IF deliberating THEN 0 ELSE @]

\* The policy is asked and its answer committed.  Any answer with a later
\* check is possible; "status" tells what a plan is for.
Decide(deliberating, delay) ==
  /\ at = "evaluate"
  /\ deliberating => Cardinality(Plans) < MaxPlans
  /\ mem' = Decided(deliberating, now + delay)
  /\ IF deliberating
     THEN /\ Write("planned", cause, mem',
                   IF mem.reactive # 0 THEN "reactive" ELSE "open")
          /\ plan' = Len(log')
          /\ at' = "launch"
     ELSE /\ Write("decided", cause, mem', "none")
          /\ at' = "idle"
          /\ UNCHANGED plan
  /\ hasDecision' = TRUE
  /\ UNCHANGED <<runs, cause, todo, recoverable, result, env>>

-----------------------------------------------------------------------------
\* _launch() and _finish().

\* The runtime refuses a run id that has started; anything else that keeps the
\* cognition from starting is an error too.
Launch ==
  /\ at = "launch"
  /\ plan \notin begun
  /\ begun' = begun \cup {plan}
  /\ at' = "running"
  /\ UNCHANGED <<log, ended, mem, hasDecision, job, env>>

Fault == faults < MaxFaults /\ faults' = faults + 1

LaunchFails ==
  /\ at = "launch"
  /\ plan \in begun \/ faults < MaxFaults
  /\ faults' = IF plan \in begun THEN faults ELSE faults + 1
  /\ at' = "finish"
  /\ result' = "failed"
  /\ UNCHANGED <<log, runs, mem, hasDecision, cause, todo, recoverable, plan, now, events>>

\* The engine records the end and the launch returns, "failed" standing for any
\* status but "completed"; a hook or a settlement
\* that fails raises, with or without the record.
RunReturns(status) ==
  /\ at = "running"
  /\ ended' = ended \cup {End(plan, status)}
  /\ at' = "finish"
  /\ result' = status
  /\ UNCHANGED <<log, begun, mem, hasDecision, cause, todo, recoverable, plan, env>>

RunRaises(recorded) ==
  /\ at = "running"
  /\ Fault
  /\ ended' = ended \cup {End(plan, status) : status \in recorded}
  /\ at' = "finish"
  /\ result' = "failed"
  /\ UNCHANGED <<log, begun, mem, hasDecision, cause, todo, recoverable, plan, now, events>>

\* The result record of a plan has the plan's own commit id.
Finish ==
  /\ at = "finish"
  /\ Write("result", plan, mem, result)
  /\ at' = IF todo # {} THEN "reconcile" ELSE "idle"
  /\ UNCHANGED <<runs, mem, hasDecision, job, env>>

-----------------------------------------------------------------------------
\* The process ends: an error of the policy or of the journal ends it as well.
\* An append under way may have landed: that is its step followed by this one.
Forget ==
  /\ at' = "down"
  /\ mem' = NoState
  /\ hasDecision' = FALSE
  /\ cause' = 0
  /\ todo' = {}
  /\ recoverable' = {}
  /\ plan' = 0
  /\ result' = "none"
  /\ Fault
  /\ UNCHANGED <<now, events>>

Crash == at # "down" /\ Forget /\ UNCHANGED <<log, runs>>

\* An orderly stop cancels the run, which the engine still records.
StopRun ==
  /\ at = "running"
  /\ Forget
  /\ ended' = ended \cup {End(plan, "cancelled")}
  /\ UNCHANGED <<log, begun>>

-----------------------------------------------------------------------------
Consumer ==
  \/ Start
  \/ \E p \in todo : Reconcile(p)
  \/ Initialized
  \/ \E p \in recoverable : Recover(p)
  \/ CheckTime
  \/ Skip
  \/ Count
  \/ SubmitTick
  \/ \E deliberating \in BOOLEAN, delay \in Delays : Decide(deliberating, delay)
  \/ Launch
  \/ LaunchFails
  \/ \E status \in {"completed", "failed"} : RunReturns(status)
  \/ \E recorded \in {{}, {"completed"}, {"failed"}} : RunRaises(recorded)
  \/ Finish

Next ==
  \/ Consumer
  \/ WorldCommits
  \/ TimePasses
  \/ Crash
  \/ StopRun

Spec == Init /\ [][Next]_vars

\* The consumer goes on: its awaits answer or raise.  Nobody owes an event.
FairSpec == Spec /\ WF_vars(Consumer)

-----------------------------------------------------------------------------
\* Properties.

State == [cursor : Nat, pending : Nat, next : Nat, reactive : Nat]
LogKinds == {"event", "reactive", "noise", "tick", "result"} \cup Decisions

\* Types.
TypeOK ==
  /\ \A i \in DOMAIN log : log[i].kind \in LogKinds /\ log[i].state \in State
  /\ begun \subseteq Plans
  /\ ended \subseteq [plan : begun, status : {"completed", "failed", "cancelled"}]
  /\ at \in Places
  /\ mem \in State
  /\ mem.cursor <= Len(log)
  /\ hasDecision \in BOOLEAN
  /\ cause \in 0..Len(log)
  /\ todo \subseteq Plans
  /\ recoverable \subseteq Plans
  /\ plan \in {0} \cup Plans
  /\ result \in {"none", "completed", "failed", "interrupted"}
  /\ now \in 0..MaxTime
  /\ events \in 0..Len(Foreign)
  /\ faults \in 0..MaxFaults

Judgements(i) == {d \in DOMAIN log : log[d].kind \in Decisions /\ log[d].ref = i}

\* Each external event is judged exactly once: the cursor that passes it is
\* persisted only together with its decision, and never without it, although
\* it moves in memory long before and the process may end in between.
JudgedOnce ==
  \A i \in DOMAIN log : Counts(i) =>
    /\ Cardinality(Judgements(i)) <= 1
    /\ i <= LastState.cursor \/ (at = "idle" /\ i <= mem.cursor) =>
         Judgements(i) # {}

\* The pressure is what was judged since the last open plan, less one for each
\* reactive plan: no event is counted twice and no restart forgets one.
PressureExact ==
  LET open == {p \in Plans : log[p].status = "open"}
      since == {d \in DOMAIN log : \A p \in open : d > p}
      judged == {d \in since : log[d].kind \in Decisions /\ Counts(log[d].ref)}
      answered == {p \in since : p \in Plans /\ log[p].status = "reactive"}
  IN  LastState.pending + Cardinality(answered) = Cardinality(judged)

\* A reactive event that was judged is answered by a plan made then or later,
\* remembered, or overtaken by a later one.
ReactiveKept ==
  \A i \in DOMAIN log :
    log[i].kind = "reactive" /\ i <= LastState.cursor =>
      \/ LastState.reactive >= i
      \/ \E d \in Judgements(i), p \in Plans : p >= d

\* What is counted and what it leads to is never lost or doubled.
PressureSound == TypeOK /\ JudgedOnce /\ PressureExact /\ ReactiveKept

\* A plan has at most one result, which agrees with the record of its run, and
\* plans are carried out one after the other: a run that may have begun is
\* never begun again, and none begins before the last one is accounted for.
PlansRunOnce ==
  /\ \A p \in Plans :
       /\ Cardinality(Results(p)) <= 1
       /\ \A i \in Results(p) :
            /\ log[i].status = "completed" => End(p, "completed") \in ended
            /\ log[i].status = "interrupted" => p \in begun /\ ~Ended(p)
  /\ \A p, q \in Plans : p < q => Results(p) # {} /\ \A i \in Results(p) : i < q
  /\ at = "running" => Results(plan) = {} /\ ~Ended(plan)

\* The records of the cadence, over every crash: the pressure they add up to
\* and the plans they lead to are exactly those of the events.
CadenceSound == PressureSound /\ PlansRunOnce

\* Every plan gets a result and every external event a judgement, in spite of
\* crashes and failures.
EventsAndPlansSettle ==
  []<>( /\ \A p \in Plans : Results(p) # {}
        /\ \A i \in DOMAIN log : Counts(i) => Judgements(i) # {} )
=============================================================================
