----------------------------- MODULE WakeClock -----------------------------
(***************************************************************************)
(* PersistentBotClock over the subject of a bot.  The clock looks for the  *)
(* earliest wake that is due or was begun, claims it, has the runtime run  *)
(* the cognition whose run id the wake determines, and records the result. *)
(* Tools and operators change the subject at any await; the process may    *)
(* end anywhere and start again, when the clock compares the wakes that    *)
(* were begun with the records of their runs.                              *)
(***************************************************************************)
EXTENDS BotSubject, FiniteSets

CONSTANTS GoalOf,      \* wake -> its goal or NoGoal
          Due,         \* wake -> due_at
          MaxTime,     \* bound: readings of the wall clock
          MaxVersion,  \* bound: changes of the subject by others
          MaxCrashes   \* bound: times the process ends

ASSUME ClockAssumption ==
  /\ GoalOf \in [Wakes -> Goals \cup {NoGoal}]
  /\ Due \in [Wakes -> 0..MaxTime]
  /\ \A v, w \in Wakes : Due[v] = Due[w] => v = w  \* ties are broken by wake id
  /\ "none" \notin Wakes
  /\ {MaxTime, MaxVersion, MaxCrashes} \subseteq Nat

VARIABLES
  at,        \* where the clock is, see Places
  wake,      \* the wake it deals with
  seen,      \* the version of the snapshot it acts on
  verdict,   \* the status it is about to record
  todo,      \* wakes initialize has still to compare
  now,       \* wall clock
  begun,     \* wakes whose run has a run:started record
  result,    \* wake -> status of its run:finished record, or "none"
  edits,     \* number of changes by others
  crashes,   \* number of times the process ended
  starts     \* history: wake -> times its run was started

runs == <<begun, result, starts>>
place == <<at, wake, seen, verdict, todo>>
vars == <<subject, place, now, runs, edits, crashes>>

Places == {"down", "init", "idle", "claim", "launch", "running", "finished",
           "settle", "record"}

WakeIds == Wakes \cup {"none"}
Status(w) == subject.wakes[w].status

Init ==
  /\ SubjectInit
  /\ at = "down"
  /\ wake = "none"
  /\ seen = 0
  /\ verdict = "none"
  /\ todo = {}
  /\ now = 0
  /\ begun = {}
  /\ result = [w \in Wakes |-> "none"]
  /\ edits = 0
  /\ crashes = 0
  /\ starts = [w \in Wakes |-> 0]

\* Operators named Bug_... are one-slip variants of the operator that follows
\* them.  No action uses them; substituted for it, each breaks a property below.

-----------------------------------------------------------------------------
\* Everybody else.

Tick ==
  /\ now < MaxTime
  /\ now' = now + 1
  /\ UNCHANGED <<subject, place, runs, edits, crashes>>

None == [x \in {} |-> "none"]
One(x, value) == [y \in {x} |-> value]
SetGoal(g, status) == [goals |-> One(g, status), wakes |-> None]
SetWake(w, status) == [goals |-> None, wakes |-> One(w, Wake(GoalOf[w], status))]

\* goal_set, wake_schedule and wake_cancel.
Edits ==
  {SetGoal(g, status) : g \in Goals, status \in {"ACTIVE", "PAUSED"}}
  \cup {SetWake(w, status) : w \in Wakes, status \in {"PENDING", "CANCELLED"}}

Edit(change) ==
  /\ edits < MaxVersion
  /\ Change(change, subject.version)
  /\ edits' = edits + 1
  /\ UNCHANGED <<place, now, runs, crashes>>

-----------------------------------------------------------------------------
\* Start of the process.

Begun == {w \in Wakes : Status(w) = "RUNNING"}

\* initialize(): the wakes to compare come from one snapshot.
Start ==
  /\ at = "down"
  /\ at' = "init"
  /\ todo' = Begun
  /\ UNCHANGED <<subject, wake, seen, verdict, now, runs, edits, crashes>>

\* What the records of a run say of its wake: an end, a start without an end,
\* or nothing, in which case the wake is launched again.
Bug_Verdict(w) ==
  CASE result[w] # "none" -> "COMPLETED"
    [] result[w] = "none" /\ w \in begun -> "INTERRUPTED"
    [] OTHER -> "none"
Verdict(w) ==
  CASE result[w] = "completed" -> "COMPLETED"
    [] result[w] \notin {"completed", "none"} -> "FAILED"
    [] result[w] = "none" /\ w \in begun -> "INTERRUPTED"
    [] OTHER -> "none"

Compare(w) ==
  /\ at = "init"
  /\ w \in todo
  /\ todo' = todo \ {w}
  /\ IF Verdict(w) = "none"
     THEN UNCHANGED <<at, wake, verdict>>
     ELSE /\ at' = "settle"
          /\ wake' = w
          /\ verdict' = Verdict(w)
  /\ UNCHANGED <<subject, seen, now, runs, edits, crashes>>

Initialized ==
  /\ at = "init"
  /\ todo = {}
  /\ at' = "idle"
  /\ UNCHANGED <<subject, wake, seen, verdict, todo, now, runs, edits, crashes>>

-----------------------------------------------------------------------------
\* evaluate_once().

Bug_IsDueOnce(w) == Status(w) = "PENDING" /\ Due[w] <= now
IsDue(w) == Status(w) = "RUNNING" \/ (Status(w) = "PENDING" /\ Due[w] <= now)
DueWakes == {w \in Wakes : IsDue(w)}
First(set) == CHOOSE w \in set : \A v \in set : Due[w] <= Due[v]

Evaluate ==
  /\ at = "idle"
  /\ DueWakes # {}
  /\ wake' = First(DueWakes)
  /\ seen' = subject.version
  /\ at' = IF Status(First(DueWakes)) = "PENDING" THEN "claim" ELSE "launch"
  /\ UNCHANGED <<subject, verdict, todo, now, runs, edits, crashes>>

\* The claim holds against the version that was looked at, or the round is over.
Claims == seen = subject.version

Claim ==
  /\ at = "claim"
  /\ IF Claims
     THEN /\ subject' = Project(subject, SetWake(wake, "RUNNING"))
          /\ at' = "launch"
     ELSE at' = "idle" /\ UNCHANGED subject
  /\ UNCHANGED <<wake, seen, verdict, todo, now, runs, edits, crashes>>

Settle(status) ==
  /\ at' = "settle"
  /\ verdict' = status
  /\ UNCHANGED <<wake, seen, todo>>

\* A run id with a start record is taken, whoever used it; anything else that
\* keeps the cognition from starting is an error too.
IsNewRun(w) == w \notin begun

Launch ==
  /\ at = "launch"
  /\ \/ /\ IsNewRun(wake)
        /\ begun' = begun \cup {wake}
        /\ starts' = [starts EXCEPT ![wake] = @ + 1]
        /\ at' = "running"
        /\ UNCHANGED <<result, wake, seen, verdict, todo>>
     \/ Settle("FAILED") /\ UNCHANGED runs
  /\ UNCHANGED <<subject, now, edits, crashes>>

\* The engine records the end of the run; the launch then returns or, when a
\* hook failed, raises.  A failed settlement raises without a record.
RunFinishes(status) ==
  /\ at = "running"
  /\ result' = [result EXCEPT ![wake] = status]
  /\ at' = "finished"
  /\ UNCHANGED <<subject, wake, seen, verdict, todo, now, begun, starts, edits, crashes>>

LaunchReturns ==
  /\ at = "finished"
  /\ Settle(IF result[wake] = "completed" THEN "COMPLETED" ELSE "FAILED")
  /\ UNCHANGED <<subject, now, runs, edits, crashes>>

LaunchRaises ==
  /\ at \in {"running", "finished"}
  /\ Settle("FAILED")
  /\ UNCHANGED <<subject, now, runs, edits, crashes>>

-----------------------------------------------------------------------------
\* _settle(): read, and try to record until the version holds.

AfterSettle == at' = IF todo # {} THEN "init" ELSE "idle"

ReadForResult ==
  /\ at = "settle"
  /\ seen' = subject.version
  /\ IF Status(wake) = "RUNNING" THEN at' = "record" ELSE AfterSettle
  /\ UNCHANGED <<subject, wake, verdict, todo, now, runs, edits, crashes>>

AfterConflict == "settle"

RecordResult ==
  /\ at = "record"
  /\ IF seen = subject.version
     THEN /\ subject' = Project(subject, SetWake(wake, verdict))
          /\ AfterSettle
     ELSE at' = AfterConflict /\ UNCHANGED subject
  /\ UNCHANGED <<wake, seen, verdict, todo, now, runs, edits, crashes>>

-----------------------------------------------------------------------------
\* The process ends.  A claim or a result under way may have been committed:
\* that is the step before it followed by this one.
Crash ==
  /\ at # "down"
  /\ crashes < MaxCrashes
  /\ crashes' = crashes + 1
  /\ at' = "down"
  /\ wake' = "none"
  /\ seen' = 0
  /\ verdict' = "none"
  /\ todo' = {}
  /\ UNCHANGED <<subject, now, runs, edits>>

\* An orderly stop cancels the run, which the engine still records.
StopRun ==
  /\ at = "running"
  /\ crashes < MaxCrashes
  /\ crashes' = crashes + 1
  /\ result' = [result EXCEPT ![wake] = "cancelled"]
  /\ at' = "down"
  /\ wake' = "none"
  /\ seen' = 0
  /\ verdict' = "none"
  /\ todo' = {}
  /\ UNCHANGED <<subject, now, begun, starts, edits>>

-----------------------------------------------------------------------------
Clock ==
  \/ Start
  \/ \E w \in Wakes : Compare(w)
  \/ Initialized
  \/ Evaluate
  \/ Claim
  \/ Launch
  \/ \E status \in {"completed", "failed"} : RunFinishes(status)
  \/ LaunchReturns
  \/ LaunchRaises
  \/ ReadForResult
  \/ RecordResult

Next ==
  \/ Clock
  \/ Tick
  \/ \E change \in Edits : Edit(change)
  \/ Crash
  \/ StopRun

Spec == Init /\ [][Next]_vars

\* Time passes and the clock goes on; nobody owes a change, and the process
\* ends finitely often.
FairSpec == Spec /\ WF_vars(Clock) /\ WF_vars(Tick)

-----------------------------------------------------------------------------
\* Properties.

\* Types.
TypeOK ==
  /\ subject \in Snapshot
  /\ at \in Places
  /\ wake \in WakeIds
  /\ at \in {"claim", "launch", "running", "finished", "settle", "record"} => wake # "none"
  /\ seen \in 0..subject.version
  /\ verdict \in WakeEnd \cup {"none"}
  /\ todo \in SUBSET Wakes
  /\ now \in 0..MaxTime
  /\ begun \in SUBSET Wakes
  /\ result \in [Wakes -> {"none", "completed", "failed", "cancelled"}]
  /\ edits \in 0..MaxVersion
  /\ crashes \in 0..MaxCrashes
  /\ starts \in [Wakes -> Nat]

\* The cognition of a wake starts at most once over all restarts, and only of
\* a wake that was claimed when it was due: one that was cancelled before, by
\* a tool or with its goal, never runs.
RunsWhenClaimed ==
  \A w \in Wakes : w \in begun =>
    /\ starts[w] = 1
    /\ Due[w] <= now
    /\ Status(w) \in {"RUNNING", "COMPLETED", "FAILED", "INTERRUPTED"}

\* The end of a wake agrees with the record of its run: completed only what was
\* recorded as completed, interrupted only what began and was never ended, and
\* nothing goes on running once its wake has ended.
EndsAreTrue ==
  \A w \in Wakes :
    /\ Status(w) = "COMPLETED" => result[w] = "completed"
    /\ Status(w) = "INTERRUPTED" => w \in begun /\ result[w] = "none"
    /\ Status(w) \in WakeEnd => ~(wake = w /\ at \in {"running", "finished"})
    /\ wake = w /\ at \in {"running", "finished"} => Status(w) = "RUNNING"

\* The clock's own changes are always acceptable to the subject: a claim or a
\* result is never refused for another reason than its version.
ClockChangesAccepted ==
  /\ at = "claim" /\ Claims => Acceptable(subject, SetWake(wake, "RUNNING"))
  /\ at = "record" /\ seen = subject.version =>
       Acceptable(subject, SetWake(wake, verdict))

\* What is launched was claimed, what the clock records is accepted and true.
WakesSound == TypeOK /\ RunsWhenClaimed /\ ClockChangesAccepted /\ EndsAreTrue

\* Every wake that is due is delivered or called off, and what was begun is
\* brought to an end, in spite of crashes, conflicts and failures.
EveryWakeEnds ==
  \A w \in Wakes :
    (Status(w) = "RUNNING" \/ (Status(w) = "PENDING" /\ Due[w] <= now))
      ~> Status(w) \in WakeEnd
=============================================================================
