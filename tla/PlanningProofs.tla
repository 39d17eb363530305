--------------------------- MODULE PlanningProofs ---------------------------
(***************************************************************************)
(* Theorems of WakeClock for every set of goals and wakes, every plan and  *)
(* every bound, with the lemmas about the subject of a bot they rest on,   *)
(* and of Cadence for every sequence of foreign commits, over what its log *)
(* tells.                                                                  *)
(***************************************************************************)
EXTENDS MCPlanning, ProofLemmas, FiniteSetTheorems

-----------------------------------------------------------------------------
\* The subject.

\* What goal_set, wake_schedule, wake_cancel and the clock declare.
IsChange(c) ==
  /\ DOMAIN c.goals \subseteq Goals
  /\ \A g \in DOMAIN c.goals : c.goals[g] \in GoalStatus
  /\ DOMAIN c.wakes \subseteq Wakes
  /\ \A w \in DOMAIN c.wakes : c.wakes[w] \in [goal : Goals \cup {NoGoal}, status : WakeStatus]

Goes(old, new) ==
  /\ new.status \in Transitions(old.status)
  /\ old.status # "absent" => new.goal = old.goal

\* A change that is accepted moves each wake along its transitions or not at
\* all, and pending wakes of a goal that stops are cancelled.
LEMMA ProjectFacts ==
  ASSUME NEW s \in Snapshot, NEW c, IsChange(c), Acceptable(s, c)
  PROVE  /\ Project(s, c) \in Snapshot
         /\ Project(s, c).version = s.version + 1
         /\ \A w \in Wakes :
              LET old == s.wakes[w]
                  new == Project(s, c).wakes[w]
              IN  /\ w \in DOMAIN c.wakes => new = c.wakes[w] /\ Goes(old, new)
                  /\ w \notin DOMAIN c.wakes => new = old \/ (Goes(old, new) /\ old.status = "PENDING"
                                                              /\ new = [old EXCEPT !.status = "CANCELLED"])
                  /\ new.status = "PENDING" /\ new.goal # NoGoal => Project(s, c).goals[new.goal] = "ACTIVE"
                  /\ (old.status # "absent" /\ old.goal # NoGoal => s.goals[old.goal] # "absent")
                     => (new.status # "absent" /\ new.goal # NoGoal => Project(s, c).goals[new.goal] # "absent")
<1> DEFINE goals == Over(s.goals, c.goals)
           wakes == Over(s.wakes, c.wakes)
           p == Project(s, c)
<1>1. /\ s.version \in Nat
      /\ s.goals \in [Goals -> GoalStatus \cup {"absent"}]
      /\ s.wakes \in [Wakes -> [goal : Goals \cup {NoGoal}, status : WakeStatus \cup {"absent"}]]
  BY DEF Snapshot
<1>2. /\ goals \in [Goals -> GoalStatus \cup {"absent"}]
      /\ \A g \in Goals : goals[g] = s.goals[g] \/ goals[g] # "absent"
  BY <1>1 DEF Over, IsChange, GoalStatus
<1>3. \A w \in Wakes : wakes[w] = IF w \in DOMAIN c.wakes THEN c.wakes[w] ELSE s.wakes[w]
  BY <1>1 DEF Over
<1>4. wakes \in [Wakes -> [goal : Goals \cup {NoGoal}, status : WakeStatus \cup {"absent"}]]
  <2>1. \A w \in DOMAIN c.wakes : c.wakes[w] \in [goal : Goals \cup {NoGoal}, status : WakeStatus \cup {"absent"}]
    BY DEF IsChange
  <2>2. QED
    BY <1>1, <2>1 DEF Over
<1>5. /\ p.version = s.version + 1 /\ p.goals = goals
      /\ \A w \in Wakes : p.wakes[w] = IF Stopped(goals, wakes[w])
                                       THEN [wakes[w] EXCEPT !.status = "CANCELLED"] ELSE wakes[w]
      /\ p = [version |-> p.version, goals |-> p.goals, wakes |-> p.wakes]
      /\ p.wakes = [w \in Wakes |-> IF Stopped(goals, wakes[w])
                                       THEN [wakes[w] EXCEPT !.status = "CANCELLED"] ELSE wakes[w]]
  BY DEF Project
<1> HIDE DEF goals, wakes, p
<1>6. p \in Snapshot
  <2>1. p.wakes \in [Wakes -> [goal : Goals \cup {NoGoal}, status : WakeStatus \cup {"absent"}]]
    BY <1>4, <1>5 DEF WakeStatus, WakeEnd
  <2>2. p.version \in Nat /\ p.goals \in [Goals -> GoalStatus \cup {"absent"}]
    BY <1>1, <1>2, <1>5
  <2>3. [version |-> p.version, goals |-> p.goals, wakes |-> p.wakes] \in Snapshot
    BY <2>1, <2>2 DEF Snapshot
  <2>4. QED
    BY <1>5, <2>3
<1>7. ASSUME NEW w \in Wakes
      PROVE  /\ w \in DOMAIN c.wakes => p.wakes[w] = c.wakes[w] /\ Goes(s.wakes[w], p.wakes[w])
             /\ w \notin DOMAIN c.wakes =>
                  p.wakes[w] = s.wakes[w] \/ (Goes(s.wakes[w], p.wakes[w]) /\ s.wakes[w].status = "PENDING"
                                             /\ p.wakes[w] = [s.wakes[w] EXCEPT !.status = "CANCELLED"])
             /\ p.wakes[w].status = "PENDING" /\ p.wakes[w].goal # NoGoal => p.goals[p.wakes[w].goal] = "ACTIVE"
             /\ (s.wakes[w].status # "absent" /\ s.wakes[w].goal # NoGoal => s.goals[s.wakes[w].goal] # "absent")
                => (p.wakes[w].status # "absent" /\ p.wakes[w].goal # NoGoal => p.goals[p.wakes[w].goal] # "absent")
  <2>1. CASE w \in DOMAIN c.wakes
    <3>1. wakes[w] = c.wakes[w]
      BY <1>3, <2>1
    <3>2. /\ c.wakes[w].status \in Transitions(s.wakes[w].status)
          /\ s.wakes[w] # NoWake => c.wakes[w].goal = s.wakes[w].goal
          /\ c.wakes[w].goal # NoGoal =>
               /\ goals[c.wakes[w].goal] # "absent"
               /\ c.wakes[w].status \in {"PENDING", "RUNNING"} => goals[c.wakes[w].goal] = "ACTIVE"
      BY <2>1 DEF Acceptable, goals
    <3>3. ~Stopped(goals, wakes[w])
      BY <3>1, <3>2 DEF Stopped
    <3>4. p.wakes[w] = c.wakes[w] /\ p.goals = goals
      BY <1>5, <3>1, <3>3
    <3>5. s.wakes[w].status # "absent" => s.wakes[w] # NoWake
      BY DEF NoWake, Wake
    <3>6. QED
      BY <2>1, <3>2, <3>4, <3>5 DEF Goes
  <2>2. CASE w \notin DOMAIN c.wakes
    <3>1. wakes[w] = s.wakes[w] /\ s.wakes[w] \in [goal : Goals \cup {NoGoal}, status : WakeStatus \cup {"absent"}]
      BY <1>1, <1>3, <2>2
    <3>2. CASE Stopped(goals, wakes[w])
      <4>1. p.wakes[w] = [s.wakes[w] EXCEPT !.status = "CANCELLED"] /\ s.wakes[w].status = "PENDING"
            /\ s.wakes[w].goal # NoGoal
        BY <1>5, <3>1, <3>2 DEF Stopped
      <4>2. p.wakes[w].status = "CANCELLED" /\ p.wakes[w].goal = s.wakes[w].goal
        BY <3>1, <4>1
      <4>3. "CANCELLED" \in Transitions("PENDING")
        BY DEF Transitions
      <4>4. s.goals[s.wakes[w].goal] # "absent" => p.goals[p.wakes[w].goal] # "absent"
        BY <1>2, <1>5, <3>1, <4>1, <4>2
      <4>5. QED
        BY <2>2, <4>1, <4>2, <4>3, <4>4 DEF Goes
    <3>3. CASE ~Stopped(goals, wakes[w])
      <4>1. p.wakes[w] = s.wakes[w] /\ p.goals = goals
        BY <1>5, <3>1, <3>3
      <4>2. s.wakes[w].status = "PENDING" /\ s.wakes[w].goal # NoGoal => goals[s.wakes[w].goal] = "ACTIVE"
        BY <3>1, <3>3 DEF Stopped
      <4>3. s.wakes[w].goal # NoGoal /\ s.goals[s.wakes[w].goal] # "absent" => goals[s.wakes[w].goal] # "absent"
        BY <1>2, <3>1
      <4>4. QED
        BY <2>2, <4>1, <4>2, <4>3
    <3>4. QED
      BY <3>2, <3>3
  <2>3. QED
    BY <2>1, <2>2
<1>8. QED
  BY <1>5, <1>6, <1>7 DEF p

-----------------------------------------------------------------------------
\* The inductive invariant.

\* A wake that was planned keeps its plan, and no plan outlives its goal.
Plans ==
  /\ \A w \in Wakes : Status(w) # "absent" => subject.wakes[w].goal = GoalOf[w]
  /\ PlansJustified

Began == {"RUNNING", "COMPLETED", "FAILED", "INTERRUPTED"}

\* Records of runs come from starts, and nothing begins before it is due.
Records ==
  \A w \in Wakes :
    /\ w \notin begun => starts[w] = 0 /\ result[w] = "none"
    /\ Status(w) \in Began => Due[w] <= now

\* What the clock knows of the wake it deals with, place by place.
Knows ==
  /\ at = "claim" => /\ Due[wake] <= now
                     /\ seen = subject.version => Status(wake) = "PENDING"
  /\ at \in {"launch", "running", "finished"} => Status(wake) = "RUNNING"
  /\ at = "running" => wake \in begun /\ result[wake] = "none"
  /\ at = "finished" => wake \in begun
  /\ at \in {"settle", "record"} =>
       /\ verdict \in {"COMPLETED", "FAILED", "INTERRUPTED"}
       /\ verdict = "COMPLETED" => result[wake] = "completed"
       /\ verdict = "INTERRUPTED" => wake \in begun /\ result[wake] = "none"
  /\ at = "record" /\ seen = subject.version => Status(wake) = "RUNNING"

IInv == TypeOK /\ Plans /\ Records /\ Knows /\ RunsWhenClaimed /\ EndsAreTrue

-----------------------------------------------------------------------------
\* A change of the subject.

LEMMA SubjectChanges ==
  ASSUME subject \in Snapshot, Plans, NEW c, IsChange(c), Acceptable(subject, c),
         \A w \in DOMAIN c.wakes : c.wakes[w].goal = GoalOf[w],
         subject' = Project(subject, c)
  PROVE  /\ subject' \in Snapshot /\ subject'.version = subject.version + 1
         /\ Plans'
         /\ \A w \in Wakes :
              /\ w \in DOMAIN c.wakes => Status(w)' = c.wakes[w].status
                                         /\ Status(w)' \in Transitions(Status(w))
              /\ w \notin DOMAIN c.wakes => Status(w)' = Status(w)
                                            \/ (Status(w) = "PENDING" /\ Status(w)' = "CANCELLED")
<1>1. subject.wakes \in [Wakes -> [goal : Goals \cup {NoGoal}, status : WakeStatus \cup {"absent"}]]
  BY DEF Snapshot
<1>2. subject' \in Snapshot /\ subject'.version = subject.version + 1
  BY ProjectFacts
<1>3. ASSUME NEW w \in Wakes
      PROVE  /\ w \in DOMAIN c.wakes => Status(w)' = c.wakes[w].status
                                         /\ Status(w)' \in Transitions(Status(w))
             /\ w \notin DOMAIN c.wakes => Status(w)' = Status(w)
                                            \/ (Status(w) = "PENDING" /\ Status(w)' = "CANCELLED")
             /\ Status(w)' # "absent" => subject'.wakes[w].goal = GoalOf[w]
             /\ Status(w)' = "PENDING" /\ subject'.wakes[w].goal # NoGoal =>
                  subject'.goals[subject'.wakes[w].goal] = "ACTIVE"
             /\ Status(w)' # "absent" /\ subject'.wakes[w].goal # NoGoal =>
                  subject'.goals[subject'.wakes[w].goal] # "absent"
  <2> DEFINE old == subject.wakes[w]
             new == subject'.wakes[w]
  <2>1. /\ w \in DOMAIN c.wakes => new = c.wakes[w] /\ Goes(old, new)
        /\ w \notin DOMAIN c.wakes => new = old \/ (Goes(old, new) /\ old.status = "PENDING"
                                                    /\ new = [old EXCEPT !.status = "CANCELLED"])
        /\ new.status = "PENDING" /\ new.goal # NoGoal => subject'.goals[new.goal] = "ACTIVE"
        /\ (old.status # "absent" /\ old.goal # NoGoal => subject.goals[old.goal] # "absent")
           => (new.status # "absent" /\ new.goal # NoGoal => subject'.goals[new.goal] # "absent")
    BY ProjectFacts
  <2>2. Status(w) = old.status /\ Status(w)' = new.status
    BY DEF Status
  <2>3. old \in [goal : Goals \cup {NoGoal}, status : WakeStatus \cup {"absent"}]
    BY <1>1
  <2> HIDE DEF old, new
  <2>4. old.status # "absent" => old.goal = GoalOf[w]
    BY <2>2 DEF Plans, old
  <2>5. old.status # "absent" /\ old.goal # NoGoal => subject.goals[old.goal] # "absent"
    BY DEF Plans, PlansJustified, old
  <2>6. w \notin DOMAIN c.wakes => new = old \/ (old.status = "PENDING" /\ new.status = "CANCELLED"
                                                /\ new.goal = old.goal)
    BY <2>1, <2>3
  <2>7. /\ w \in DOMAIN c.wakes => new.status = c.wakes[w].status /\ new.status \in Transitions(old.status)
                                   /\ new.goal = GoalOf[w]
    BY <2>1 DEF Goes
  <2>8. new.status # "absent" => new.goal = GoalOf[w]
    BY <2>4, <2>6, <2>7
  <2>9. QED
    BY <2>1, <2>2, <2>5, <2>6, <2>7, <2>8 DEF new
<1>4. Plans'
  BY <1>3 DEF Plans, PlansJustified, Status
<1>5. QED
  BY <1>2, <1>3, <1>4

\* One goal or one wake is declared at a time.
LEMMA SetWakeFacts ==
  ASSUME NEW w \in Wakes, NEW status \in WakeStatus
  PROVE  LET c == SetWake(w, status)
         IN  /\ IsChange(c)
             /\ DOMAIN c.goals = {} /\ DOMAIN c.wakes = {w}
             /\ c.wakes[w] = Wake(GoalOf[w], status)
             /\ c.wakes[w].goal = GoalOf[w] /\ c.wakes[w].status = status
<1>1. GoalOf[w] \in Goals \cup {NoGoal}
  BY ClockAssumption
<1>2. QED
  BY <1>1 DEF SetWake, One, None, Wake, IsChange

LEMMA SetGoalFacts ==
  ASSUME NEW g \in Goals, NEW status \in GoalStatus
  PROVE  LET c == SetGoal(g, status) IN IsChange(c) /\ DOMAIN c.wakes = {}
BY DEF SetGoal, One, None, IsChange

\* The clock's changes of a wake are accepted as long as it is where they need
\* it.
LEMMA ClaimAccepted ==
  ASSUME subject \in Snapshot, Plans, NEW w \in Wakes, Status(w) = "PENDING"
  PROVE  Acceptable(subject, SetWake(w, "RUNNING"))
<1>1. GoalOf[w] \in Goals \cup {NoGoal} /\ subject.wakes[w].goal = GoalOf[w]
      /\ (GoalOf[w] # NoGoal => subject.goals[GoalOf[w]] = "ACTIVE")
  BY ClockAssumption DEF Plans, PlansJustified, Status
<1>2. \A g \in Goals : Over(subject.goals, None)[g] = subject.goals[g]
  BY DEF Over, None, Snapshot
<1>3. "RUNNING" \in Transitions("PENDING")
  BY DEF Transitions
<1>4. QED
  BY <1>1, <1>2, <1>3 DEF Acceptable, SetWake, One, Wake, Status

LEMMA ResultAccepted ==
  ASSUME subject \in Snapshot, Plans, NEW w \in Wakes, Status(w) = "RUNNING",
         NEW status \in {"COMPLETED", "FAILED", "INTERRUPTED"}
  PROVE  Acceptable(subject, SetWake(w, status))
<1>1. GoalOf[w] \in Goals \cup {NoGoal} /\ subject.wakes[w].goal = GoalOf[w]
      /\ (GoalOf[w] # NoGoal => subject.goals[GoalOf[w]] # "absent")
  BY ClockAssumption DEF Plans, PlansJustified, Status
<1>2. \A g \in Goals : Over(subject.goals, None)[g] = subject.goals[g]
  BY DEF Over, None, Snapshot
<1>3. status \in Transitions("RUNNING")
  BY DEF Transitions, WakeEnd
<1>4. QED
  BY <1>1, <1>2, <1>3 DEF Acceptable, SetWake, One, Wake, Status

\* The earliest of the wakes that are due.
LEMMA FirstDue ==
  ASSUME DueWakes # {}
  PROVE  First(DueWakes) \in DueWakes
<1> DEFINE times == {Due[w] : w \in DueWakes}
<1>1. times \in SUBSET Nat /\ times # {}
  BY ClockAssumption DEF DueWakes
<1>2. PICK x \in times : \A y \in times : x <= y
  BY <1>1, LeastNatural
<1>3. \E w \in DueWakes : \A v \in DueWakes : Due[w] <= Due[v]
  BY <1>2
<1>4. QED
  BY <1>3 DEF First

-----------------------------------------------------------------------------
\* The steps.

LEMMA InitIInv == Init => IInv
<1> SUFFICES ASSUME Init PROVE IInv
  OBVIOUS
<1>1. subject = Empty /\ \A w \in Wakes : subject.wakes[w] = NoWake /\ Status(w) = "absent"
  BY DEF Init, SubjectInit, Empty, NoWake, Wake, Status
<1>2. subject \in Snapshot /\ subject.version = 0
  BY <1>1 DEF Empty, Snapshot, NoWake, Wake
<1>3. TypeOK
  BY <1>2, ClockAssumption DEF Init, TypeOK, Places, WakeIds
<1>4. Plans
  BY <1>1 DEF Plans, PlansJustified, Status
<1>5. QED
  BY <1>1, <1>3, <1>4 DEF Init, IInv, Records, Knows, RunsWhenClaimed, EndsAreTrue, Began, WakeEnd

\* Counters of the bounds are in range.
LEMMA BoundsStep ==
  ASSUME TypeOK, Next
  PROVE  now' \in 0..MaxTime /\ edits' \in 0..MaxVersion /\ crashes' \in 0..MaxCrashes
<1>1. now \in 0..MaxTime /\ edits \in 0..MaxVersion /\ crashes \in 0..MaxCrashes
      /\ {MaxTime, MaxVersion, MaxCrashes} \subseteq Nat
  BY ClockAssumption DEF TypeOK
<1>2. now' = now \/ (now < MaxTime /\ now' = now + 1)
  BY DEF Next, Clock, Tick, Edit, Start, Compare, Initialized, Evaluate, Claim, Launch, RunFinishes,
         LaunchReturns, LaunchRaises, ReadForResult, RecordResult, Crash, StopRun
<1>3. edits' = edits \/ (edits < MaxVersion /\ edits' = edits + 1)
  BY DEF Next, Clock, Tick, Edit, Start, Compare, Initialized, Evaluate, Claim, Launch, RunFinishes,
         LaunchReturns, LaunchRaises, ReadForResult, RecordResult, Crash, StopRun
<1>4. crashes' = crashes \/ (crashes < MaxCrashes /\ crashes' = crashes + 1)
  BY DEF Next, Clock, Tick, Edit, Start, Compare, Initialized, Evaluate, Claim, Launch, RunFinishes,
         LaunchReturns, LaunchRaises, ReadForResult, RecordResult, Crash, StopRun
<1>5. QED
  BY <1>1, <1>2, <1>3, <1>4

\* Tools and operators change the subject under the clock: a wake that began is
\* out of their reach.
LEMMA EditStep ==
  ASSUME IInv, Next, NEW change \in Edits, Edit(change)
  PROVE  IInv'
<1>1. TypeOK /\ Plans /\ Records /\ Knows /\ RunsWhenClaimed /\ EndsAreTrue
  BY DEF IInv
<1>2. UNCHANGED <<at, wake, seen, verdict, todo, now, begun, result, starts>>
      /\ Acceptable(subject, change) /\ subject' = Project(subject, change)
  BY DEF Edit, Change, place, runs
<1>3. IsChange(change) /\ \A w \in DOMAIN change.wakes :
        change.wakes[w].goal = GoalOf[w] /\ change.wakes[w].status \in {"PENDING", "CANCELLED"}
  <2>1. CASE change \in {SetGoal(g, status) : g \in Goals, status \in {"ACTIVE", "PAUSED"}}
    BY <2>1, SetGoalFacts DEF GoalStatus
  <2>2. CASE change \in {SetWake(w, status) : w \in Wakes, status \in {"PENDING", "CANCELLED"}}
    BY <2>2, SetWakeFacts DEF WakeStatus, WakeEnd
  <2>3. QED
    BY <2>1, <2>2 DEF Edits
<1>4. /\ subject' \in Snapshot /\ subject'.version = subject.version + 1
      /\ Plans'
      /\ \A w \in Wakes :
           /\ w \in DOMAIN change.wakes => Status(w)' = change.wakes[w].status
                                      /\ Status(w)' \in Transitions(Status(w))
           /\ w \notin DOMAIN change.wakes => Status(w)' = Status(w)
                                         \/ (Status(w) = "PENDING" /\ Status(w)' = "CANCELLED")
  BY <1>1, <1>2, <1>3, SubjectChanges DEF TypeOK
<1>5. \A w \in Wakes : \/ Status(w)' = Status(w)
                       \/ Status(w) \in {"absent", "PENDING"} /\ Status(w)' \in {"PENDING", "CANCELLED"}
  <2> TAKE w \in Wakes
  <2>1. CASE w \in DOMAIN change.wakes
    BY <1>3, <1>4, <2>1 DEF Transitions, WakeEnd
  <2>2. CASE w \notin DOMAIN change.wakes
    BY <1>4, <2>2
  <2>3. QED
    BY <2>1, <2>2
<1>6. subject.version \in Nat
  BY <1>1 DEF TypeOK, Snapshot
<1>7. TypeOK'
  BY <1>1, <1>2, <1>4, <1>6, BoundsStep DEF TypeOK
<1>8. Records'
  BY <1>1, <1>2, <1>5 DEF Records, Began
<1>9. Knows'
  <2>1. seen' # subject'.version
    BY <1>1, <1>2, <1>4, <1>6 DEF TypeOK
  <2>2. at \in {"launch", "running", "finished"} => wake \in Wakes
    BY <1>1 DEF TypeOK, WakeIds
  <2>3. at \in {"launch", "running", "finished"} => Status(wake)' = "RUNNING"
    BY <1>1, <1>2, <1>5, <2>2 DEF Knows
  <2>4. QED
    BY <1>1, <1>2, <2>1, <2>3 DEF Knows
<1>10. RunsWhenClaimed'
  BY <1>1, <1>2, <1>5 DEF RunsWhenClaimed
<1>11. EndsAreTrue'
  BY <1>1, <1>2, <1>5, <1>9 DEF EndsAreTrue, Knows, WakeEnd
<1>12. QED
  BY <1>4, <1>7, <1>8, <1>9, <1>10, <1>11 DEF IInv

\* Steps that leave the subject and the records alone keep all but what they
\* say of the clock's place.
LEMMA PlaceStep ==
  ASSUME IInv, Next, UNCHANGED <<subject, begun, result, starts>>,
         now' \in Nat, now' >= now,
         at' \in Places, wake' \in WakeIds,
         at' \in {"claim", "launch", "running", "finished", "settle", "record"} => wake' # "none",
         seen' \in 0..subject.version, verdict' \in WakeEnd \cup {"none"}, todo' \in SUBSET Wakes,
         Knows'
  PROVE  IInv'
<1>1. TypeOK /\ Plans /\ Records /\ RunsWhenClaimed /\ EndsAreTrue /\ \A w \in Wakes : Status(w)' = Status(w)
  BY DEF IInv, Status
<1>2. TypeOK'
  BY <1>1, BoundsStep DEF TypeOK
<1>3. Plans'
  BY <1>1 DEF Plans, PlansJustified, Status
<1>4. \A w \in Wakes : Due[w] \in Nat /\ now \in Nat
  BY <1>1, ClockAssumption DEF TypeOK
<1>5. Records' /\ RunsWhenClaimed'
  BY <1>1, <1>4 DEF Records, RunsWhenClaimed
<1>6. EndsAreTrue'
  BY <1>1 DEF EndsAreTrue, Knows, WakeEnd
<1>7. QED
  BY <1>2, <1>3, <1>5, <1>6 DEF IInv

LEMMA TypesAtHand ==
  ASSUME IInv
  PROVE  /\ subject \in Snapshot /\ subject.version \in Nat
         /\ at \in Places /\ wake \in WakeIds
         /\ at \in {"claim", "launch", "running", "finished", "settle", "record"} => wake \in Wakes
         /\ seen \in 0..subject.version /\ verdict \in WakeEnd \cup {"none"} /\ todo \in SUBSET Wakes
         /\ now \in Nat /\ begun \subseteq Wakes
         /\ result \in [Wakes -> {"none", "completed", "failed", "cancelled"}]
         /\ starts \in [Wakes -> Nat]
         /\ \A w \in Wakes : Status(w) \in WakeStatus \cup {"absent"} /\ Due[w] \in Nat
BY ClockAssumption DEF IInv, TypeOK, Snapshot, WakeIds, Status

\* Time passes, the process ends or starts, and wakes are compared with the
\* records of their runs.
LEMMA TickStep ==
  ASSUME IInv, Next, Tick
  PROVE  IInv'
<1>1. UNCHANGED <<subject, begun, result, starts, at, wake, seen, verdict, todo>> /\ now' = now + 1
  BY DEF Tick, place, runs
<1>2. Knows'
  BY <1>1, TypesAtHand DEF IInv, Knows, Status
<1>3. QED
  BY <1>1, <1>2, TypesAtHand, PlaceStep DEF IInv, TypeOK

LEMMA StartStep ==
  ASSUME IInv, Next, Start \/ Initialized \/ Crash
  PROVE  IInv'
<1>1. UNCHANGED <<subject, begun, result, starts, now>> /\ at' \in {"init", "idle", "down"}
  BY DEF Start, Initialized, Crash, runs
<1>2. wake' \in {wake, "none"} /\ seen' \in {seen, 0} /\ verdict' \in {verdict, "none"} /\ todo' \in SUBSET Wakes
  BY TypesAtHand DEF Start, Initialized, Crash, Begun
<1>3. Knows'
  BY <1>1 DEF Knows
<1>4. seen' \in 0..subject.version /\ wake' \in WakeIds
  BY <1>2, TypesAtHand DEF WakeIds
<1>5. QED
  BY <1>1, <1>2, <1>3, <1>4, TypesAtHand, PlaceStep DEF Places

LEMMA CompareStep ==
  ASSUME IInv, Next, NEW w \in Wakes, Compare(w)
  PROVE  IInv'
<1>1. UNCHANGED <<subject, begun, result, starts, now, seen>> /\ at = "init" /\ todo' = todo \ {w}
  BY DEF Compare, runs
<1>2. CASE Verdict(w) = "none"
  <2>1. UNCHANGED <<at, wake, verdict>>
    BY <1>2 DEF Compare
  <2>2. Knows'
    BY <1>1, <2>1 DEF Knows
  <2>3. QED
    BY <1>1, <2>1, <2>2, TypesAtHand, PlaceStep
<1>3. CASE Verdict(w) # "none"
  <2>1. at' = "settle" /\ wake' = w /\ verdict' = Verdict(w)
    BY <1>3 DEF Compare
  <2>2. /\ Verdict(w) \in {"COMPLETED", "FAILED", "INTERRUPTED"}
        /\ Verdict(w) = "COMPLETED" => result[w] = "completed"
        /\ Verdict(w) = "INTERRUPTED" => w \in begun /\ result[w] = "none"
    BY <1>3, TypesAtHand DEF Verdict
  <2>3. Knows'
    BY <1>1, <2>1, <2>2 DEF Knows
  <2>4. w # "none" /\ w \in WakeIds /\ at' \in Places /\ verdict' \in WakeEnd
    BY <2>1, <2>2, ClockAssumption DEF WakeIds, Places, WakeEnd
  <2>5. QED
    BY <1>1, <2>1, <2>3, <2>4, TypesAtHand, PlaceStep
<1>4. QED
  BY <1>2, <1>3

\* The earliest wake is taken up from the snapshot of the moment.
LEMMA EvaluateStep ==
  ASSUME IInv, Next, Evaluate
  PROVE  IInv'
<1> DEFINE w == First(DueWakes)
<1>1. /\ UNCHANGED <<subject, begun, result, starts, now, verdict, todo>>
      /\ wake' = w /\ seen' = subject.version
      /\ at' = IF Status(w) = "PENDING" THEN "claim" ELSE "launch"
  BY DEF Evaluate, runs
<1>2. w \in Wakes /\ IsDue(w)
  BY FirstDue DEF Evaluate, DueWakes
<1>3. Due[w] <= now /\ (Status(w) = "PENDING" \/ Status(w) = "RUNNING")
  BY <1>2 DEF IsDue, IInv, Records, Began
<1> HIDE DEF w
<1>5. Knows'
  BY <1>1, <1>3 DEF Knows, Status
<1>6. w # "none" /\ w \in WakeIds /\ at' \in Places
  BY <1>1, <1>2, ClockAssumption DEF WakeIds, Places
<1>7. QED
  BY <1>1, <1>5, <1>6, TypesAtHand, PlaceStep

\* A claim and a result are changes of the subject like any other, accepted on
\* the version they were read for.
LEMMA ClaimStep ==
  ASSUME IInv, Next, Claim
  PROVE  IInv'
<1>1. UNCHANGED <<wake, seen, verdict, todo, now, begun, result, starts>> /\ at = "claim" /\ wake \in Wakes
  BY TypesAtHand DEF Claim, runs
<1>2. CASE Claims
  <2>1. subject' = Project(subject, SetWake(wake, "RUNNING")) /\ at' = "launch"
    BY <1>2 DEF Claim
  <2>2. Status(wake) = "PENDING" /\ Due[wake] <= now
    BY <1>1, <1>2 DEF IInv, Knows, Claims
  <2>3. Plans /\ Acceptable(subject, SetWake(wake, "RUNNING"))
    BY <1>1, <2>2, TypesAtHand, ClaimAccepted DEF IInv
  <2>4. IsChange(SetWake(wake, "RUNNING")) /\ DOMAIN SetWake(wake, "RUNNING").wakes = {wake}
        /\ SetWake(wake, "RUNNING").wakes[wake].goal = GoalOf[wake]
        /\ SetWake(wake, "RUNNING").wakes[wake].status = "RUNNING"
    BY <1>1, SetWakeFacts DEF WakeStatus
  <2>5. /\ subject' \in Snapshot /\ subject'.version = subject.version + 1
        /\ Plans'
        /\ Status(wake)' = "RUNNING"
        /\ \A v \in Wakes \ {wake} : Status(v)' = Status(v) \/ (Status(v) = "PENDING" /\ Status(v)' = "CANCELLED")
    <3> HIDE DEF Status
    <3>1. QED
      BY <1>1, <2>1, <2>3, <2>4, TypesAtHand, SubjectChanges
  <2>6. TypeOK'
    BY <1>1, <2>1, <2>5, BoundsStep, TypesAtHand DEF IInv, TypeOK, Places
  <2>7. Records'
    BY <1>1, <2>2, <2>5 DEF IInv, Records, Began
  <2>8. Knows'
    BY <1>1, <2>1, <2>5 DEF Knows
  <2>9. RunsWhenClaimed'
    BY <1>1, <2>2, <2>5 DEF IInv, RunsWhenClaimed
  <2>10. EndsAreTrue'
    BY <1>1, <2>1, <2>5 DEF IInv, EndsAreTrue, WakeEnd
  <2>11. QED
    BY <2>5, <2>6, <2>7, <2>8, <2>9, <2>10 DEF IInv
<1>3. CASE ~Claims
  <2>1. UNCHANGED subject /\ at' = "idle"
    BY <1>3 DEF Claim
  <2>2. Knows'
    BY <1>1, <2>1 DEF Knows
  <2>3. QED
    BY <1>1, <2>1, <2>2, TypesAtHand, PlaceStep DEF Places
<1>4. QED
  BY <1>2, <1>3

LEMMA RecordResultStep ==
  ASSUME IInv, Next, RecordResult
  PROVE  IInv'
<1>1. UNCHANGED <<wake, seen, verdict, todo, now, begun, result, starts>> /\ at = "record" /\ wake \in Wakes
  BY TypesAtHand DEF RecordResult, runs
<1>2. /\ verdict \in {"COMPLETED", "FAILED", "INTERRUPTED"}
      /\ verdict = "COMPLETED" => result[wake] = "completed"
      /\ verdict = "INTERRUPTED" => wake \in begun /\ result[wake] = "none"
  BY <1>1 DEF IInv, Knows
<1>3. CASE seen = subject.version
  <2> DEFINE c == SetWake(wake, verdict)
  <2>1. subject' = Project(subject, c) /\ at' \in {"init", "idle"}
    BY <1>3 DEF RecordResult, AfterSettle
  <2>2. Status(wake) = "RUNNING"
    BY <1>1, <1>3 DEF IInv, Knows
  <2>3. Plans /\ Acceptable(subject, c)
    BY <1>1, <1>2, <2>2, TypesAtHand, ResultAccepted DEF IInv
  <2>4. IsChange(c) /\ DOMAIN c.wakes = {wake} /\ c.wakes[wake].goal = GoalOf[wake]
        /\ c.wakes[wake].status = verdict
    BY <1>1, <1>2, SetWakeFacts DEF WakeStatus, WakeEnd
  <2> HIDE DEF c
  <2>5. /\ subject' \in Snapshot /\ subject'.version = subject.version + 1
        /\ Plans'
        /\ Status(wake)' = verdict
        /\ \A v \in Wakes \ {wake} : Status(v)' = Status(v) \/ (Status(v) = "PENDING" /\ Status(v)' = "CANCELLED")
    <3> HIDE DEF Status
    <3>1. QED
      BY <1>1, <2>1, <2>3, <2>4, TypesAtHand, SubjectChanges
  <2>6. TypeOK'
    BY <1>1, <2>1, <2>5, BoundsStep, TypesAtHand DEF IInv, TypeOK, Places
  <2>7. Records'
    BY <1>1, <1>2, <2>2, <2>5 DEF IInv, Records, Began
  <2>8. Knows'
    BY <2>1 DEF Knows
  <2>9. RunsWhenClaimed'
    BY <1>1, <1>2, <2>2, <2>5 DEF IInv, RunsWhenClaimed
  <2>10. EndsAreTrue'
    BY <1>1, <1>2, <2>1, <2>5 DEF IInv, EndsAreTrue, WakeEnd
  <2>11. QED
    BY <2>5, <2>6, <2>7, <2>8, <2>9, <2>10 DEF IInv
<1>4. CASE seen # subject.version
  <2>1. UNCHANGED subject /\ at' = "settle"
    BY <1>4 DEF RecordResult, AfterConflict
  <2>2. Knows'
    BY <1>1, <1>2, <2>1 DEF Knows
  <2>3. wake # "none"
    BY <1>1, ClockAssumption
  <2>4. QED
    BY <1>1, <2>1, <2>2, <2>3, TypesAtHand, PlaceStep DEF Places
<1>5. QED
  BY <1>3, <1>4

LEMMA ReadForResultStep ==
  ASSUME IInv, Next, ReadForResult
  PROVE  IInv'
<1>1. /\ UNCHANGED <<subject, wake, verdict, todo, now, begun, result, starts>> /\ at = "settle" /\ wake \in Wakes
      /\ seen' = subject.version
      /\ (at' = "record" /\ Status(wake) = "RUNNING") \/ at' \in {"init", "idle"}
  BY TypesAtHand DEF ReadForResult, AfterSettle, runs
<1>2. Status(wake)' = Status(wake)
  BY <1>1 DEF Status
<1>3. Knows'
  BY <1>1, <1>2 DEF IInv, Knows
<1>4. wake # "none" /\ at' \in Places
  BY <1>1, ClockAssumption DEF Places
<1>5. QED
  BY <1>1, <1>3, <1>4, TypesAtHand, PlaceStep

\* A launch starts the run of a wake whose run never started, or fails.
LEMMA LaunchStep ==
  ASSUME IInv, Next, Launch
  PROVE  IInv'
<1>1. UNCHANGED <<subject, wake, seen, todo, now, result>> /\ at = "launch" /\ wake \in Wakes
      /\ Status(wake) = "RUNNING" /\ wake # "none"
  BY TypesAtHand, ClockAssumption DEF Launch, Settle, runs, IInv, Knows
<1>2. CASE /\ IsNewRun(wake) /\ begun' = begun \cup {wake} /\ starts' = [starts EXCEPT ![wake] = @ + 1]
           /\ at' = "running" /\ UNCHANGED verdict
  <2>1. wake \notin begun /\ starts[wake] = 0 /\ result[wake] = "none" /\ Due[wake] <= now
    BY <1>1, <1>2 DEF IsNewRun, IInv, Records, Began
  <2>2. starts' \in [Wakes -> Nat] /\ starts'[wake] = 1 /\ \A v \in Wakes \ {wake} : starts'[v] = starts[v]
    BY <1>1, <1>2, <2>1, TypesAtHand
  <2>3. \A w \in Wakes : Status(w)' = Status(w)
    BY <1>1 DEF Status
  <2>4. TypeOK'
    BY <1>1, <1>2, <2>2, BoundsStep, TypesAtHand DEF IInv, TypeOK, Places
  <2>5. Plans'
    BY <1>1 DEF IInv, Plans, PlansJustified, Status
  <2>6. Records'
    BY <1>1, <1>2, <2>2, <2>3 DEF IInv, Records
  <2>7. Knows'
    BY <1>1, <1>2, <2>1, <2>3 DEF Knows
  <2>8. RunsWhenClaimed'
    BY <1>1, <1>2, <2>1, <2>2, <2>3 DEF IInv, RunsWhenClaimed
  <2>9. EndsAreTrue'
    BY <1>1, <1>2, <2>3 DEF IInv, EndsAreTrue, WakeEnd
  <2>10. QED
    BY <2>4, <2>5, <2>6, <2>7, <2>8, <2>9 DEF IInv
<1>3. CASE Settle("FAILED") /\ UNCHANGED runs
  <2>1. at' = "settle" /\ verdict' = "FAILED" /\ UNCHANGED <<begun, starts>>
    BY <1>3 DEF Settle, runs
  <2>2. Knows'
    BY <1>1, <2>1 DEF Knows
  <2>3. QED
    BY <1>1, <2>1, <2>2, TypesAtHand, PlaceStep DEF Places, WakeEnd
<1>4. QED
  BY <1>2, <1>3 DEF Launch

\* The record of a run's end, and what the clock makes of it.
LEMMA EndOfRun ==
  ASSUME IInv, Next, at = "running", NEW status \in {"completed", "failed", "cancelled"},
         result' = [result EXCEPT ![wake] = status],
         UNCHANGED <<subject, now, begun, starts>>,
         \/ at' = "finished" /\ UNCHANGED <<wake, seen, verdict, todo>>
         \/ at' = "down" /\ wake' = "none" /\ seen' = 0 /\ verdict' = "none" /\ todo' = {}
  PROVE  IInv'
<1>1. wake \in Wakes /\ Status(wake) = "RUNNING" /\ wake \in begun /\ result[wake] = "none"
      /\ \A w \in Wakes : Status(w)' = Status(w)
  BY TypesAtHand DEF IInv, Knows, Status
<1>2. result' \in [Wakes -> {"none", "completed", "failed", "cancelled"}]
      /\ \A w \in Wakes \ {wake} : result'[w] = result[w]
  BY <1>1, TypesAtHand
<1>3. TypeOK'
  BY <1>1, <1>2, BoundsStep, TypesAtHand, ClockAssumption DEF IInv, TypeOK, Places, WakeIds
<1>4. Plans'
  BY DEF IInv, Plans, PlansJustified, Status
<1>5. Records' /\ RunsWhenClaimed'
  BY <1>1, <1>2 DEF IInv, Records, RunsWhenClaimed
<1>6. Knows'
  BY <1>1 DEF Knows
<1>7. EndsAreTrue'
  BY <1>1, <1>2 DEF IInv, EndsAreTrue, WakeEnd
<1>8. QED
  BY <1>3, <1>4, <1>5, <1>6, <1>7 DEF IInv

LEMMA LaunchEndsStep ==
  ASSUME IInv, Next, LaunchReturns \/ LaunchRaises
  PROVE  IInv'
<1>1. /\ UNCHANGED <<subject, wake, seen, todo, now, begun, result, starts>> /\ at \in {"running", "finished"}
      /\ at' = "settle"
      /\ verdict' = "FAILED" \/ (verdict' = "COMPLETED" /\ result[wake] = "completed")
  BY DEF LaunchReturns, LaunchRaises, Settle, runs
<1>2. Knows'
  BY <1>1 DEF Knows
<1>3. wake # "none"
  BY <1>1, TypesAtHand, ClockAssumption
<1>4. QED
  BY <1>1, <1>2, <1>3, TypesAtHand, PlaceStep DEF Places, WakeEnd

LEMMA NextStep ==
  ASSUME IInv, Next
  PROVE  IInv'
<1>1. CASE Start \/ Initialized \/ Crash
  BY <1>1, StartStep
<1>2. CASE \E w \in Wakes : Compare(w)
  BY <1>2, CompareStep
<1>3. CASE Evaluate
  BY <1>3, EvaluateStep
<1>4. CASE Claim
  BY <1>4, ClaimStep
<1>5. CASE Launch
  BY <1>5, LaunchStep
<1>6. CASE \E status \in {"completed", "failed"} : RunFinishes(status)
  <2>1. PICK status \in {"completed", "failed"} : RunFinishes(status)
    BY <1>6
  <2>2. QED
    BY <2>1, EndOfRun DEF RunFinishes
<1>7. CASE LaunchReturns \/ LaunchRaises
  BY <1>7, LaunchEndsStep
<1>8. CASE ReadForResult
  BY <1>8, ReadForResultStep
<1>9. CASE RecordResult
  BY <1>9, RecordResultStep
<1>10. CASE Tick
  BY <1>10, TickStep
<1>11. CASE \E change \in Edits : Edit(change)
  BY <1>11, EditStep
<1>12. CASE StopRun
  BY <1>12, EndOfRun DEF StopRun
<1>13. QED
  BY <1>1, <1>2, <1>3, <1>4, <1>5, <1>6, <1>7, <1>8, <1>9, <1>10, <1>11, <1>12 DEF Next, Clock

-----------------------------------------------------------------------------
\* Theorems.

\* What the clock remembers of a wake under way agrees with the journal it was
\* read from, in every state (PersistentBotClock over JournalBotState).
THEOREM Invariance == Spec => []IInv
<1>1. IInv /\ UNCHANGED vars => IInv'
  <2> SUFFICES ASSUME IInv, UNCHANGED vars PROVE IInv'
    OBVIOUS
  <2>1. /\ UNCHANGED <<subject, at, wake, seen, verdict, todo>>
        /\ UNCHANGED <<now, begun, result, starts, edits, crashes>>
    BY DEF vars, place, runs
  <2>2. TypeOK' /\ Plans'
    BY <2>1 DEF IInv, TypeOK, Plans, PlansJustified, Status
  <2>3. Records' /\ Knows'
    BY <2>1 DEF IInv, Records, Knows, Status
  <2>4. RunsWhenClaimed' /\ EndsAreTrue'
    BY <2>1 DEF IInv, RunsWhenClaimed, EndsAreTrue, Status
  <2>5. QED
    BY <2>2, <2>3, <2>4 DEF IInv
<1>2. QED
  BY <1>1, InitIInv, NextStep, PTL DEF Spec

\* What is launched was claimed when it was due and at most once over all
\* restarts; the clock's claims and results are accepted by the subject, and
\* the end it records is what the run's records say (PersistentBotClock).
THEOREM DeliveriesAreSound == Spec => []WakesSound
<1>1. IInv => ClockChangesAccepted
  <2> SUFFICES ASSUME IInv PROVE ClockChangesAccepted
    OBVIOUS
  <2>1. ASSUME at = "claim", Claims PROVE Acceptable(subject, SetWake(wake, "RUNNING"))
    BY <2>1, TypesAtHand, ClaimAccepted DEF IInv, Knows, Claims
  <2>2. ASSUME at = "record", seen = subject.version PROVE Acceptable(subject, SetWake(wake, verdict))
    BY <2>2, TypesAtHand, ResultAccepted DEF IInv, Knows
  <2>3. QED
    BY <2>1, <2>2 DEF ClockChangesAccepted
<1>2. IInv => WakesSound
  BY <1>1 DEF IInv, WakesSound
<1>3. QED
  BY <1>2, Invariance, PTL

\* A pending wake has an active goal or none, whoever changes goals and wakes
\* and whatever the clock claims at the same time.
THEOREM PlansStayJustified == Spec => []PlansJustified
<1>1. IInv => PlansJustified
  BY DEF IInv, Plans
<1>2. QED
  BY <1>1, Invariance, PTL

\* Delivery is one-way in every step of the clock, of tools and of operators:
\* an end is kept, what began is never planned again, no plan is lost.
THEOREM DeliveryIsOneWay == Spec => DeliveryOneWay
<1> DEFINE OneWay ==
       \A w \in Wakes :
         LET old == subject.wakes[w]
             new == subject'.wakes[w]
         IN  /\ old.status \in WakeEnd => new = old
             /\ old.status = "RUNNING" => new.status \notin {"absent", "PENDING", "CANCELLED"}
             /\ old.status # "absent" => new.goal = old.goal
<1>1. ASSUME NEW c, IsChange(c), Acceptable(subject, c), subject' = Project(subject, c), subject \in Snapshot
      PROVE  OneWay
  <2> SUFFICES ASSUME NEW w \in Wakes
               PROVE  LET old == subject.wakes[w]
                          new == subject'.wakes[w]
                      IN  /\ old.status \in WakeEnd => new = old
                          /\ old.status = "RUNNING" => new.status \notin {"absent", "PENDING", "CANCELLED"}
                          /\ old.status # "absent" => new.goal = old.goal
    OBVIOUS
  <2>1. \/ subject'.wakes[w] = subject.wakes[w]
        \/ Goes(subject.wakes[w], subject'.wakes[w])
    BY <1>1, ProjectFacts
  <2>2. QED
    BY <2>1 DEF Goes, Transitions, WakeEnd
<1>2. IInv /\ [Next]_vars => [OneWay]_subject
  <2> SUFFICES ASSUME IInv, Next, subject' # subject PROVE OneWay
    BY DEF vars
  <2>1. CASE \E change \in Edits : Edit(change)
    <3>1. PICK change \in Edits : Edit(change)
      BY <2>1
    <3>2. IsChange(change)
      BY SetGoalFacts, SetWakeFacts DEF Edits, GoalStatus, WakeStatus, WakeEnd
    <3>3. QED
      BY <1>1, <3>1, <3>2, TypesAtHand DEF Edit, Change
  <2>2. CASE Claim
    <3>1. wake \in Wakes /\ Status(wake) = "PENDING" /\ subject' = Project(subject, SetWake(wake, "RUNNING"))
      BY <2>2, TypesAtHand DEF Claim, Claims, IInv, Knows
    <3>2. Acceptable(subject, SetWake(wake, "RUNNING")) /\ IsChange(SetWake(wake, "RUNNING"))
      BY <3>1, TypesAtHand, ClaimAccepted, SetWakeFacts DEF IInv, WakeStatus
    <3>3. QED
      BY <1>1, <3>1, <3>2, TypesAtHand
  <2>3. CASE RecordResult
    <3>1. wake \in Wakes /\ Status(wake) = "RUNNING" /\ verdict \in {"COMPLETED", "FAILED", "INTERRUPTED"}
          /\ subject' = Project(subject, SetWake(wake, verdict))
      BY <2>3, TypesAtHand DEF RecordResult, IInv, Knows
    <3>2. Acceptable(subject, SetWake(wake, verdict)) /\ IsChange(SetWake(wake, verdict))
      BY <3>1, TypesAtHand, ResultAccepted, SetWakeFacts DEF IInv, WakeStatus, WakeEnd
    <3>3. QED
      BY <1>1, <3>1, <3>2, TypesAtHand
  <2>4. QED
    BY <2>1, <2>2, <2>3 DEF Next, Clock, Tick, Start, Compare, Initialized, Evaluate, Launch, RunFinishes,
                            LaunchReturns, LaunchRaises, ReadForResult, Crash, StopRun
<1>3. QED
  BY <1>2, Invariance, PTL DEF Spec, DeliveryOneWay

-----------------------------------------------------------------------------
\* The rhythm: what its log tells.  A log is a parameter, so that what holds of
\* one is known of what is appended to it.

Rows == [kind : Pacing!LogKinds, ref : Nat, state : Pacing!State,
         status : {"none", "open", "reactive", "completed", "failed", "interrupted"}]

Told == Pacing!Decisions \cup {"result"}
ToldIn(l) == {i \in DOMAIN l : l[i].kind \in Told}
LastIn(l) ==
  IF ToldIn(l) = {} THEN Pacing!NoState
  ELSE l[CHOOSE i \in ToldIn(l) : \A j \in ToldIn(l) : j <= i].state
PlansIn(l) == {i \in DOMAIN l : l[i].kind = "planned"}
ResultsIn(l, p) == {i \in DOMAIN l : l[i].kind = "result" /\ l[i].ref = p}
JudgementsIn(l, i) == {d \in DOMAIN l : l[d].kind \in Pacing!Decisions /\ l[d].ref = i}
External(l, i) == l[i].kind \in {"event", "reactive"}
SinceOpen(l) == {d \in DOMAIN l : \A p \in PlansIn(l) : l[p].status = "open" => d > p}
JudgedIn(l) == {d \in SinceOpen(l) : l[d].kind \in Pacing!Decisions /\ External(l, l[d].ref)}
AnsweredIn(l) == {d \in SinceOpen(l) : l[d].kind = "planned" /\ l[d].status = "reactive"}

\* An external commit is judged once, and is judged if and only if the last cursor
\* has passed it.
JudgedTo(l, cursor) ==
  \A i \in DOMAIN l : External(l, i) =>
    /\ \A d, e \in JudgementsIn(l, i) : d = e
    /\ JudgementsIn(l, i) # {} <=> i <= cursor

Pressed(l, pending) == pending + Cardinality(AnsweredIn(l)) = Cardinality(JudgedIn(l))

Remembered(l, b) ==
  \A i \in DOMAIN l :
    l[i].kind = "reactive" /\ i <= b.cursor =>
      \/ b.reactive >= i
      \/ \E d \in JudgementsIn(l, i), p \in PlansIn(l) : p >= d

\* Plans are carried out one after the other.
InTurn(l) ==
  /\ \A p \in PlansIn(l) : \A i, j \in ResultsIn(l, p) : i = j
  /\ \A p, q \in PlansIn(l) : p < q => ResultsIn(l, p) # {} /\ \A i \in ResultsIn(l, p) : i < q

LogTypes(l) ==
  /\ l \in Seq(Rows)
  /\ \A i \in ToldIn(l) : l[i].ref \in DOMAIN l /\ l[i].ref < i
  /\ LastIn(l) \in Pacing!State
  /\ LastIn(l).cursor <= Len(l)
  /\ LastIn(l).reactive # 0 => LastIn(l).pending > 0

LogSound(l) ==
  /\ LogTypes(l)
  /\ JudgedTo(l, LastIn(l).cursor)
  /\ Pressed(l, LastIn(l).pending)
  /\ Remembered(l, LastIn(l))
  /\ InTurn(l)

-----------------------------------------------------------------------------
\* The last record of a log.

LEMMA LastIs ==
  ASSUME NEW l \in Seq(Rows), NEW i \in ToldIn(l), \A j \in ToldIn(l) : j <= i
  PROVE  LastIn(l) = l[i].state
<1> DEFINE D == ToldIn(l)
           c == CHOOSE k \in D : \A j \in D : j <= k
<1>1. D \subseteq Nat
  BY LenProperties DEF ToldIn
<1>2. c \in D /\ \A j \in D : j <= c
  BY Zenon
<1>3. c <= i /\ i <= c
  BY <1>2
<1> HIDE DEF c
<1>4. c = i
  BY <1>1, <1>2, <1>3
<1>5. D # {}
  OBVIOUS
<1>6. QED
  BY <1>4, <1>5, Zenon DEF LastIn, c

LEMMA LastExists ==
  ASSUME NEW l \in Seq(Rows), ToldIn(l) # {}
  PROVE  \E i \in ToldIn(l) : \A j \in ToldIn(l) : j <= i
<1>1. Len(l) \in Nat /\ ToldIn(l) \in SUBSET (1..Len(l))
  BY LenProperties DEF ToldIn
<1> DEFINE f == [i \in 1..Len(l) |-> i]
<1>2. \A i \in ToldIn(l) : f[i] = i /\ i \in Nat /\ 0 < i
  BY <1>1
<1>3. PICK m \in {0} \cup {f[i] : i \in ToldIn(l)} : m \in Nat /\ \A i \in ToldIn(l) : f[i] <= m
  <2>1. \A i \in ToldIn(l) : f[i] \in Nat
    BY <1>2
  <2> HIDE DEF f
  <2>2. QED
    BY <1>1, <2>1, MaxExists
<1>4. \A i \in ToldIn(l) : i <= m
  BY <1>2, <1>3
<1>5. m \in ToldIn(l)
  <2>1. PICK j \in ToldIn(l) : j <= m /\ j \in Nat /\ 0 < j
    BY <1>2, <1>4
  <2>2. m \in {f[i] : i \in ToldIn(l)}
    <3>1. m # 0
      BY <1>3, <2>1
    <3>2. QED
      BY <1>3, <3>1
  <2>3. PICK k \in ToldIn(l) : m = f[k]
    BY <2>2
  <2>4. QED
    BY <1>2, <2>3
<1>6. QED
  BY <1>4, <1>5

-----------------------------------------------------------------------------
\* One more row.

More(m, l, c) ==
  /\ m \in Seq(Rows) /\ Len(m) = Len(l) + 1 /\ Len(l) \in Nat
  /\ DOMAIN l = 1..Len(l) /\ DOMAIN m = 1..Len(l) + 1
  /\ \A i \in 1..Len(l) : m[i] = l[i]
  /\ m[Len(l) + 1] = c

LEMMA Appended ==
  ASSUME NEW l \in Seq(Rows), NEW c \in Rows
  PROVE  More(Append(l, c), l, c)
<1>1. /\ Append(l, c) \in Seq(Rows) /\ Len(Append(l, c)) = Len(l) + 1
      /\ \A i \in 1..Len(l) : Append(l, c)[i] = l[i]
      /\ Append(l, c)[Len(l) + 1] = c
  BY AppendProperties
<1>2. /\ Len(l) \in Nat /\ DOMAIN l = 1..Len(l)
      /\ DOMAIN Append(l, c) = 1..Len(Append(l, c))
  BY <1>1, LenProperties
<1>3. QED
  BY <1>1, <1>2 DEF More

LEMMA MoreSets ==
  ASSUME NEW l \in Seq(Rows), NEW c \in Rows, NEW m, More(m, l, c)
  PROVE  /\ ToldIn(m) = ToldIn(l) \cup (IF c.kind \in Told THEN {Len(l) + 1} ELSE {})
         /\ PlansIn(m) = PlansIn(l) \cup (IF c.kind = "planned" THEN {Len(l) + 1} ELSE {})
         /\ \A p : ResultsIn(m, p) =
              ResultsIn(l, p) \cup (IF c.kind = "result" /\ c.ref = p THEN {Len(l) + 1} ELSE {})
         /\ \A i : JudgementsIn(m, i) = JudgementsIn(l, i)
              \cup (IF c.kind \in Pacing!Decisions /\ c.ref = i THEN {Len(l) + 1} ELSE {})
         /\ \A i \in DOMAIN l : External(m, i) <=> External(l, i)
<1> USE DEF More
<1>0. \A i : i \in DOMAIN m <=> i \in DOMAIN l \/ i = Len(l) + 1
  OBVIOUS
<1>1. Len(l) + 1 \notin DOMAIN l
  OBVIOUS
<1>a. \A i \in DOMAIN l : m[i] = l[i]
  OBVIOUS
<1>b. m[Len(l) + 1] = c
  OBVIOUS
<1> DEFINE n == Len(l) + 1
<1> HIDE DEF More, n
<1>2. ToldIn(m) = ToldIn(l) \cup (IF c.kind \in Told THEN {n} ELSE {})
  BY <1>0, <1>1, <1>a, <1>b DEF ToldIn, n
<1>3. PlansIn(m) = PlansIn(l) \cup (IF c.kind = "planned" THEN {n} ELSE {})
  BY <1>0, <1>1, <1>a, <1>b DEF PlansIn, n
<1>4. \A p : ResultsIn(m, p) =
        ResultsIn(l, p) \cup (IF c.kind = "result" /\ c.ref = p THEN {n} ELSE {})
  BY <1>0, <1>1, <1>a, <1>b DEF ResultsIn, n
<1>5. \A i : JudgementsIn(m, i) = JudgementsIn(l, i)
        \cup (IF c.kind \in Pacing!Decisions /\ c.ref = i THEN {n} ELSE {})
  BY <1>0, <1>1, <1>a, <1>b DEF JudgementsIn, n
<1>6. \A i \in DOMAIN l : External(m, i) <=> External(l, i)
  BY <1>a DEF External
<1>7. QED
  BY <1>2, <1>3, <1>4, <1>5, <1>6 DEF n

LEMMA MoreLast ==
  ASSUME NEW l \in Seq(Rows), NEW c \in Rows, NEW m, More(m, l, c)
  PROVE  LastIn(m) = IF c.kind \in Told THEN c.state ELSE LastIn(l)
<1>1. \A i \in ToldIn(l) : i \in 1..Len(l) /\ m[i] = l[i]
  BY DEF ToldIn, More
<1>2. m \in Seq(Rows) /\ Len(l) \in Nat
  BY DEF More
<1>3. CASE c.kind \in Told
  <2>1. ToldIn(m) = ToldIn(l) \cup {Len(l) + 1}
    BY <1>3, MoreSets
  <2>2. \A j \in ToldIn(m) : j <= Len(l) + 1
    BY <1>1, <1>2, <2>1
  <2>3. LastIn(m) = m[Len(l) + 1].state
    BY <1>2, <2>1, <2>2, LastIs
  <2>4. QED
    BY <1>3, <2>3 DEF More
<1>4. CASE c.kind \notin Told
  <2>1. ToldIn(m) = ToldIn(l)
    <3>1. ToldIn(m) = ToldIn(l) \cup (IF c.kind \in Told THEN {Len(l) + 1} ELSE {})
      BY MoreSets
    <3>2. QED
      BY <1>4, <3>1
  <2>2. CASE ToldIn(l) = {}
    BY <1>4, <2>1, <2>2 DEF LastIn
  <2>3. CASE ToldIn(l) # {}
    <3>1. PICK i \in ToldIn(l) : \A j \in ToldIn(l) : j <= i
      BY <2>3, LastExists
    <3>2. LastIn(l) = l[i].state
      BY <3>1, LastIs
    <3>3. LastIn(m) = m[i].state
      BY <1>2, <2>1, <3>1, LastIs
    <3>4. QED
      BY <1>1, <1>4, <3>1, <3>2, <3>3
  <2>4. QED
    BY <2>2, <2>3
<1>5. QED
  BY <1>3, <1>4

-----------------------------------------------------------------------------
\* What a row leaves of what the log tells.

\* What is counted is finite.
LEMMA SmallSets ==
  ASSUME NEW l \in Seq(Rows)
  PROVE  /\ IsFiniteSet(JudgedIn(l)) /\ Cardinality(JudgedIn(l)) \in Nat
         /\ IsFiniteSet(AnsweredIn(l)) /\ Cardinality(AnsweredIn(l)) \in Nat
<1>1. Len(l) \in Nat /\ DOMAIN l = 1..Len(l)
  BY LenProperties
<1>2. IsFiniteSet(1..Len(l))
  BY <1>1, FS_Interval
<1>3. JudgedIn(l) \in SUBSET (1..Len(l)) /\ AnsweredIn(l) \in SUBSET (1..Len(l))
  BY <1>1 DEF JudgedIn, AnsweredIn, SinceOpen
<1>4. IsFiniteSet(JudgedIn(l)) /\ IsFiniteSet(AnsweredIn(l))
  BY <1>2, <1>3, FS_Subset
<1>5. QED
  BY <1>4, FS_CardinalityType

\* What is judged points back to what it judges.
LEMMA Unjudged ==
  ASSUME NEW l \in Seq(Rows), LogTypes(l)
  PROVE  JudgementsIn(l, Len(l) + 1) = {} /\ ResultsIn(l, Len(l) + 1) = {}
<1>1. Len(l) \in Nat /\ DOMAIN l = 1..Len(l)
  BY LenProperties
<1>2. \A d \in JudgementsIn(l, Len(l) + 1) \cup ResultsIn(l, Len(l) + 1) :
        d \in ToldIn(l) /\ l[d].ref = Len(l) + 1
  BY DEF JudgementsIn, ResultsIn, ToldIn, Told
<1>3. \A d \in ToldIn(l) : l[d].ref \in 1..Len(l)
  BY <1>1 DEF LogTypes
<1>4. \A d \in JudgementsIn(l, Len(l) + 1) \cup ResultsIn(l, Len(l) + 1) : FALSE
  BY <1>1, <1>2, <1>3
<1>5. QED
  BY <1>4

\* A row that is no decision adds nothing to what is counted.
LEMMA SameCounts ==
  ASSUME NEW l \in Seq(Rows), LogTypes(l), NEW c \in Rows, c.kind \notin Pacing!Decisions,
         NEW m, More(m, l, c)
  PROVE  JudgedIn(m) = JudgedIn(l) /\ AnsweredIn(m) = AnsweredIn(l)
<1>1. c.kind \notin Pacing!Decisions /\ c.kind # "planned"
  BY DEF Pacing!Decisions
<1>2. /\ PlansIn(m) = PlansIn(l)
      /\ \A i \in DOMAIN l : External(m, i) <=> External(l, i)
  <2>1. PlansIn(m) = PlansIn(l) \cup (IF c.kind = "planned" THEN {Len(l) + 1} ELSE {})
    BY MoreSets
  <2>2. \A i \in DOMAIN l : External(m, i) <=> External(l, i)
    BY MoreSets
  <2>3. QED
    BY <1>1, <2>1, <2>2
<1>3. /\ \A i \in DOMAIN l : i \in DOMAIN m /\ m[i] = l[i]
      /\ m[Len(l) + 1] = c
  BY DEF More
<1>4. \A i \in DOMAIN m : i \in DOMAIN l \/ i = Len(l) + 1
  BY DEF More
<1>5. \A p \in PlansIn(l) : m[p] = l[p]
  BY <1>3 DEF PlansIn
<1>6. \A d \in DOMAIN l : d \in SinceOpen(m) <=> d \in SinceOpen(l)
  BY <1>2, <1>3, <1>5 DEF SinceOpen
<1>7. \A d \in DOMAIN l : l[d].kind \in Pacing!Decisions => (External(m, l[d].ref) <=> External(l, l[d].ref))
  <2>1. \A d \in DOMAIN l : l[d].kind \in Pacing!Decisions => l[d].ref \in DOMAIN l
    BY DEF LogSound, LogTypes, ToldIn, Told
  <2>2. QED
    BY <1>2, <2>1
<1>8. \A d : d \in JudgedIn(m) => d \in DOMAIN l
  BY <1>1, <1>3, <1>4 DEF JudgedIn, SinceOpen
<1>9. \A d : d \in AnsweredIn(m) => d \in DOMAIN l
  BY <1>1, <1>3, <1>4 DEF AnsweredIn, SinceOpen
<1>10. \A d : d \in JudgedIn(m) <=> d \in JudgedIn(l)
  BY <1>3, <1>6, <1>7, <1>8 DEF JudgedIn, SinceOpen
<1>11. \A d : d \in AnsweredIn(m) <=> d \in AnsweredIn(l)
  BY <1>3, <1>6, <1>9 DEF AnsweredIn, SinceOpen
<1>12. QED
  BY <1>10, <1>11

\* Commits of the world and ticks leave what the log tells.
Outside == {"event", "reactive", "noise", "tick"}

LEMMA OutsideRow ==
  ASSUME NEW l \in Seq(Rows), LogSound(l), NEW c \in Rows, c.kind \in Outside,
         NEW m, More(m, l, c)
  PROVE  /\ LogSound(m) /\ LastIn(m) = LastIn(l) /\ PlansIn(m) = PlansIn(l)
         /\ \A p : ResultsIn(m, p) = ResultsIn(l, p)
<1>1. /\ c.kind \notin Told /\ c.kind # "planned" /\ c.kind # "result"
      /\ c.kind \notin Pacing!Decisions
  BY DEF Outside, Told, Pacing!Decisions
<1>2. /\ ToldIn(m) = ToldIn(l) /\ PlansIn(m) = PlansIn(l)
      /\ \A p : ResultsIn(m, p) = ResultsIn(l, p)
      /\ \A i : JudgementsIn(m, i) = JudgementsIn(l, i)
      /\ \A i \in DOMAIN l : External(m, i) <=> External(l, i)
  <2>1. ToldIn(m) = ToldIn(l) \cup (IF c.kind \in Told THEN {Len(l) + 1} ELSE {})
    BY MoreSets
  <2>2. PlansIn(m) = PlansIn(l) \cup (IF c.kind = "planned" THEN {Len(l) + 1} ELSE {})
    BY MoreSets
  <2>3. \A p : ResultsIn(m, p) =
          ResultsIn(l, p) \cup (IF c.kind = "result" /\ c.ref = p THEN {Len(l) + 1} ELSE {})
    BY MoreSets
  <2>4. \A i : JudgementsIn(m, i) = JudgementsIn(l, i)
          \cup (IF c.kind \in Pacing!Decisions /\ c.ref = i THEN {Len(l) + 1} ELSE {})
    BY MoreSets
  <2>5. \A i \in DOMAIN l : External(m, i) <=> External(l, i)
    BY MoreSets
  <2>6. \A p : ResultsIn(m, p) = ResultsIn(l, p)
    BY <1>1, <2>3
  <2>7. \A i : JudgementsIn(m, i) = JudgementsIn(l, i)
    BY <1>1, <2>4
  <2>8. QED
    BY <1>1, <2>1, <2>2, <2>5, <2>6, <2>7
<1>3. LastIn(m) = LastIn(l)
  BY <1>1, MoreLast
<1>4. /\ m \in Seq(Rows) /\ Len(m) = Len(l) + 1 /\ Len(l) \in Nat /\ DOMAIN l = 1..Len(l)
      /\ DOMAIN m = 1..Len(l) + 1 /\ \A i \in DOMAIN l : i \in DOMAIN m /\ m[i] = l[i]
      /\ m[Len(l) + 1] = c
  BY DEF More
<1>5. \A i \in DOMAIN m : i \in DOMAIN l \/ i = Len(l) + 1
  BY <1>4
<1>6. LogTypes(m)
  <2>1. \A i \in ToldIn(l) : i \in DOMAIN l /\ l[i].ref \in DOMAIN l /\ l[i].ref < i
    BY DEF LogSound, LogTypes, ToldIn
  <2>2. \A i \in ToldIn(m) : m[i].ref \in DOMAIN m /\ m[i].ref < i
    BY <1>2, <1>4, <2>1
  <2>3. LastIn(l) \in Pacing!State /\ LastIn(l).cursor <= Len(l) /\ LastIn(l).cursor \in Nat
    BY DEF LogSound, LogTypes, Pacing!State
  <2>4. LastIn(m).cursor <= Len(m)
    BY <1>3, <1>4, <2>3
  <2>5. QED
    BY <1>3, <1>4, <2>2, <2>3, <2>4 DEF LogSound, LogTypes
<1>7. /\ LastIn(l).cursor \in Nat /\ LastIn(l).cursor < Len(l) + 1
      /\ JudgementsIn(l, Len(l) + 1) = {}
  <2>1. LogTypes(l) /\ LastIn(l) \in Pacing!State /\ LastIn(l).cursor <= Len(l)
    BY DEF LogSound, LogTypes
  <2>2. JudgementsIn(l, Len(l) + 1) = {}
    BY <2>1, Unjudged
  <2>3. LastIn(l).cursor \in Nat
    BY <2>1 DEF Pacing!State
  <2>4. QED
    BY <1>4, <2>1, <2>2, <2>3
<1>8. JudgedTo(m, LastIn(m).cursor)
  <2> SUFFICES ASSUME NEW i \in DOMAIN m, External(m, i)
               PROVE  /\ \A d, e \in JudgementsIn(m, i) : d = e
                      /\ JudgementsIn(m, i) # {} <=> i <= LastIn(m).cursor
    BY DEF JudgedTo
  <2>1. CASE i \in DOMAIN l
    BY <1>2, <1>3, <2>1 DEF LogSound, JudgedTo
  <2>2. CASE i = Len(l) + 1
    BY <1>2, <1>3, <1>4, <1>7, <2>2
  <2>3. QED
    BY <1>5, <2>1, <2>2
<1>9. JudgedIn(m) = JudgedIn(l) /\ AnsweredIn(m) = AnsweredIn(l)
  BY <1>1, SameCounts DEF LogSound
<1>10. Pressed(m, LastIn(m).pending)
  BY <1>3, <1>9 DEF LogSound, Pressed
<1>11. Remembered(m, LastIn(m))
  <2>1. \A i \in DOMAIN m : i <= LastIn(m).cursor => i \in DOMAIN l
    BY <1>3, <1>4, <1>5, <1>7
  <2>2. QED
    BY <1>2, <1>3, <1>4, <2>1 DEF LogSound, Remembered
<1>12. InTurn(m)
  BY <1>2 DEF LogSound, InTurn
<1>13. QED
  BY <1>2, <1>3, <1>6, <1>8, <1>10, <1>11, <1>12 DEF LogSound

\* The result of a plan leaves what is counted; the cursor it carries may have
\* moved over what counts for nothing.
Passed(l, cursor) ==
  /\ LastIn(l).cursor <= cursor
  /\ \A i \in DOMAIN l : External(l, i) /\ i <= cursor => i <= LastIn(l).cursor

LEMMA ResultRow ==
  ASSUME NEW l \in Seq(Rows), LogSound(l), NEW c \in Rows, NEW m, More(m, l, c),
         c.kind = "result", c.ref \in PlansIn(l), ResultsIn(l, c.ref) = {},
         c.state.pending = LastIn(l).pending, c.state.reactive = LastIn(l).reactive,
         Passed(l, c.state.cursor), c.state.cursor <= Len(l)
  PROVE  /\ LogSound(m) /\ LastIn(m) = c.state /\ PlansIn(m) = PlansIn(l)
         /\ ResultsIn(m, c.ref) = {Len(l) + 1}
         /\ \A p : p # c.ref => ResultsIn(m, p) = ResultsIn(l, p)
<1>1. /\ c.kind \in Told /\ c.kind # "planned" /\ c.kind \notin Pacing!Decisions
  BY DEF Told, Pacing!Decisions
<1>2. /\ ToldIn(m) = ToldIn(l) \cup {Len(l) + 1} /\ PlansIn(m) = PlansIn(l)
      /\ ResultsIn(m, c.ref) = {Len(l) + 1}
      /\ \A p : p # c.ref => ResultsIn(m, p) = ResultsIn(l, p)
      /\ \A i : JudgementsIn(m, i) = JudgementsIn(l, i)
      /\ \A i \in DOMAIN l : External(m, i) <=> External(l, i)
  <2>1. ToldIn(m) = ToldIn(l) \cup (IF c.kind \in Told THEN {Len(l) + 1} ELSE {})
    BY MoreSets
  <2>2. PlansIn(m) = PlansIn(l) \cup (IF c.kind = "planned" THEN {Len(l) + 1} ELSE {})
    BY MoreSets
  <2>3. \A p : ResultsIn(m, p) =
          ResultsIn(l, p) \cup (IF c.kind = "result" /\ c.ref = p THEN {Len(l) + 1} ELSE {})
    BY MoreSets
  <2>4. \A i : JudgementsIn(m, i) = JudgementsIn(l, i)
          \cup (IF c.kind \in Pacing!Decisions /\ c.ref = i THEN {Len(l) + 1} ELSE {})
    BY MoreSets
  <2>5. \A i \in DOMAIN l : External(m, i) <=> External(l, i)
    BY MoreSets
  <2>6. \A i : JudgementsIn(m, i) = JudgementsIn(l, i)
    BY <1>1, <2>4
  <2>7. ResultsIn(m, c.ref) = {Len(l) + 1} /\ \A p : p # c.ref => ResultsIn(m, p) = ResultsIn(l, p)
    BY <2>3
  <2>8. QED
    BY <1>1, <2>1, <2>2, <2>5, <2>6, <2>7
<1>3. LastIn(m) = c.state
  BY <1>1, MoreLast
<1>4. /\ m \in Seq(Rows) /\ Len(m) = Len(l) + 1 /\ Len(l) \in Nat /\ DOMAIN l = 1..Len(l)
      /\ DOMAIN m = 1..Len(l) + 1 /\ \A i \in DOMAIN l : i \in DOMAIN m /\ m[i] = l[i]
      /\ m[Len(l) + 1] = c
  BY DEF More
<1>5. \A i \in DOMAIN m : i \in DOMAIN l \/ i = Len(l) + 1
  BY <1>4
<1>6. c.state \in Pacing!State /\ c.state.cursor \in Nat
  BY DEF Rows, Pacing!State
<1>7. LogTypes(m)
  <2>1. \A i \in ToldIn(l) : i \in DOMAIN l /\ l[i].ref \in DOMAIN l /\ l[i].ref < i
    BY DEF LogSound, LogTypes, ToldIn
  <2>2. c.ref \in 1..Len(l) /\ c.ref < Len(l) + 1
    BY <1>4 DEF PlansIn
  <2>3. \A i \in ToldIn(m) : m[i].ref \in DOMAIN m /\ m[i].ref < i
    BY <1>2, <1>4, <2>1, <2>2
  <2>4. LastIn(m).cursor <= Len(m)
    BY <1>3, <1>4, <1>6
  <2>5. QED
    BY <1>3, <1>4, <1>6, <2>3, <2>4 DEF LogSound, LogTypes
<1>8. JudgedTo(m, LastIn(m).cursor)
  <2> SUFFICES ASSUME NEW i \in DOMAIN m, External(m, i)
               PROVE  /\ \A d, e \in JudgementsIn(m, i) : d = e
                      /\ JudgementsIn(m, i) # {} <=> i <= LastIn(m).cursor
    BY DEF JudgedTo
  <2>1. i \in DOMAIN l /\ External(l, i)
    BY <1>1, <1>2, <1>4, <1>5 DEF External
  <2>2. /\ \A d, e \in JudgementsIn(l, i) : d = e
        /\ JudgementsIn(l, i) # {} <=> i <= LastIn(l).cursor
    BY <2>1 DEF LogSound, JudgedTo
  <2>3. LastIn(l).cursor \in Nat /\ i \in Nat
    BY <1>4, <2>1 DEF LogSound, LogTypes, Pacing!State
  <2>4. i <= LastIn(l).cursor <=> i <= c.state.cursor
    BY <1>6, <2>1, <2>3 DEF Passed
  <2>5. QED
    BY <1>2, <1>3, <2>2, <2>4
<1>9. JudgedIn(m) = JudgedIn(l) /\ AnsweredIn(m) = AnsweredIn(l)
  BY <1>1, SameCounts DEF LogSound
<1>10. Pressed(m, LastIn(m).pending)
  BY <1>3, <1>9 DEF LogSound, Pressed
<1>11. Remembered(m, LastIn(m))
  <2> SUFFICES ASSUME NEW i \in DOMAIN m, m[i].kind = "reactive", i <= c.state.cursor
               PROVE  \/ c.state.reactive >= i
                      \/ \E d \in JudgementsIn(m, i), p \in PlansIn(m) : p >= d
    BY <1>3 DEF Remembered
  <2>1. i \in DOMAIN l /\ External(l, i) /\ l[i].kind = "reactive"
    BY <1>1, <1>4, <1>5 DEF External
  <2>2. i <= LastIn(l).cursor
    BY <2>1 DEF Passed
  <2>3. QED
    BY <1>2, <2>1, <2>2 DEF LogSound, Remembered
<1>12. InTurn(m)
  <2>1. \A q \in PlansIn(l) : ~(c.ref < q)
    BY DEF LogSound, InTurn
  <2>2. \A p \in PlansIn(m) : \A i, j \in ResultsIn(m, p) : i = j
    BY <1>2 DEF LogSound, InTurn
  <2>3. ASSUME NEW p \in PlansIn(m), NEW q \in PlansIn(m), p < q
        PROVE  ResultsIn(m, p) # {} /\ \A i \in ResultsIn(m, p) : i < q
    <3>1. p # c.ref
      BY <1>2, <2>1, <2>3
    <3>2. QED
      BY <1>2, <2>3, <3>1 DEF LogSound, InTurn
  <2>4. QED
    BY <2>2, <2>3 DEF InTurn
<1>13. QED
  BY <1>2, <1>3, <1>7, <1>8, <1>10, <1>11, <1>12 DEF LogSound

\* A decision judges a tick, or the external commit that was counted into b.
Judging(l, i, b) ==
  /\ i \in DOMAIN l
  /\ b \in Pacing!State /\ b.cursor <= Len(l)
  /\ \/ /\ ~External(l, i)
        /\ b.pending = LastIn(l).pending /\ b.reactive = LastIn(l).reactive
        /\ Passed(l, b.cursor)
     \/ /\ External(l, i)
        /\ b.cursor = i /\ LastIn(l).cursor < i /\ Passed(l, i - 1)
        /\ b.pending = LastIn(l).pending + 1
        /\ b.reactive = IF l[i].kind = "reactive" THEN i ELSE LastIn(l).reactive

LEMMA JudgingFacts ==
  ASSUME NEW l \in Seq(Rows), LogSound(l), NEW i, NEW b, Judging(l, i, b)
  PROVE  /\ LastIn(l).cursor <= b.cursor
         /\ b.reactive # 0 => b.pending > 0
         /\ \A j \in DOMAIN l : External(l, j) /\ j # i => (j <= b.cursor <=> j <= LastIn(l).cursor)
         /\ External(l, i) => i <= b.cursor /\ LastIn(l).cursor < i
         /\ b.pending = LastIn(l).pending + (IF External(l, i) THEN 1 ELSE 0)
         /\ Remembered(l, b)
<1>1. /\ Len(l) \in Nat /\ DOMAIN l = 1..Len(l) /\ i \in 1..Len(l)
      /\ LastIn(l) \in Pacing!State /\ LastIn(l).cursor \in Nat /\ LastIn(l).pending \in Nat
      /\ LastIn(l).reactive \in Nat
      /\ b.cursor \in Nat /\ b.pending \in Nat /\ b.reactive \in Nat
      /\ (LastIn(l).reactive # 0 => LastIn(l).pending > 0)
  BY LenProperties DEF Judging, LogSound, LogTypes, Pacing!State
<1>2. \/ /\ ~External(l, i)
         /\ b.pending = LastIn(l).pending /\ b.reactive = LastIn(l).reactive
         /\ Passed(l, b.cursor)
      \/ /\ External(l, i)
         /\ b.cursor = i /\ LastIn(l).cursor < i /\ Passed(l, i - 1)
         /\ b.pending = LastIn(l).pending + 1
         /\ b.reactive = IF l[i].kind = "reactive" THEN i ELSE LastIn(l).reactive
  BY DEF Judging
<1>3. LastIn(l).cursor <= b.cursor
  BY <1>1, <1>2 DEF Passed
<1>4. b.reactive # 0 => b.pending > 0
  BY <1>1, <1>2
<1>5. \A j \in DOMAIN l : External(l, j) /\ j # i => (j <= b.cursor <=> j <= LastIn(l).cursor)
  BY <1>1, <1>2, <1>3 DEF Passed
<1>6. External(l, i) => i <= b.cursor /\ LastIn(l).cursor < i
  BY <1>1, <1>2
<1>7. b.pending = LastIn(l).pending + (IF External(l, i) THEN 1 ELSE 0)
  BY <1>1, <1>2
<1>8. Remembered(l, b)
  <2> SUFFICES ASSUME NEW j \in DOMAIN l, l[j].kind = "reactive", j <= b.cursor
               PROVE  b.reactive >= j \/ \E d \in JudgementsIn(l, j), p \in PlansIn(l) : p >= d
    BY DEF Remembered
  <2>0. External(l, j) /\ j \in Nat
    BY <1>1 DEF External
  <2>1. CASE j = i
    BY <1>1, <1>2, <2>0, <2>1
  <2>2. CASE j # i
    <3>1. j <= LastIn(l).cursor
      BY <1>5, <2>0, <2>2
    <3>2. LastIn(l).reactive >= j \/ \E d \in JudgementsIn(l, j), p \in PlansIn(l) : p >= d
      BY <3>1 DEF LogSound, Remembered
    <3>3. LastIn(l).reactive >= j => b.reactive >= j
      BY <1>1, <1>2, <2>0, <3>1
    <3>4. QED
      BY <3>2, <3>3
  <2>3. QED
    BY <2>1, <2>2
<1>9. QED
  BY <1>3, <1>4, <1>5, <1>6, <1>7, <1>8

LEMMA JudgedRow ==
  ASSUME NEW l \in Seq(Rows), LogSound(l), NEW b, NEW c \in Rows, NEW m, More(m, l, c),
         Judging(l, c.ref, b), c.kind \in Pacing!Decisions,
         c.state.cursor = b.cursor, c.state.reactive # 0 => c.state.pending > 0
  PROVE  /\ LogTypes(m) /\ LastIn(m) = c.state /\ JudgedTo(m, c.state.cursor)
         /\ \A p : ResultsIn(m, p) = ResultsIn(l, p)
         /\ \A i : JudgementsIn(l, i) \subseteq JudgementsIn(m, i)
         /\ \A i \in DOMAIN l : External(m, i) <=> External(l, i)
         /\ ~External(m, Len(l) + 1)
<1>1. c.kind \in Told /\ c.kind # "result" /\ c.kind \notin {"event", "reactive"}
  BY DEF Told, Pacing!Decisions
<1>2. /\ ToldIn(m) = ToldIn(l) \cup {Len(l) + 1}
      /\ \A p : ResultsIn(m, p) = ResultsIn(l, p)
      /\ \A i : JudgementsIn(m, i) = JudgementsIn(l, i) \cup (IF c.ref = i THEN {Len(l) + 1} ELSE {})
      /\ \A i \in DOMAIN l : External(m, i) <=> External(l, i)
  <2>1. ToldIn(m) = ToldIn(l) \cup (IF c.kind \in Told THEN {Len(l) + 1} ELSE {})
    BY MoreSets
  <2>2. \A p : ResultsIn(m, p) =
          ResultsIn(l, p) \cup (IF c.kind = "result" /\ c.ref = p THEN {Len(l) + 1} ELSE {})
    BY MoreSets
  <2>3. \A i : JudgementsIn(m, i) = JudgementsIn(l, i)
          \cup (IF c.kind \in Pacing!Decisions /\ c.ref = i THEN {Len(l) + 1} ELSE {})
    BY MoreSets
  <2>4. \A i \in DOMAIN l : External(m, i) <=> External(l, i)
    BY MoreSets
  <2>5. \A i : JudgementsIn(m, i) = JudgementsIn(l, i) \cup (IF c.ref = i THEN {Len(l) + 1} ELSE {})
    BY <2>3
  <2>6. \A p : ResultsIn(m, p) = ResultsIn(l, p)
    BY <1>1, <2>2
  <2>7. QED
    BY <1>1, <2>1, <2>4, <2>5, <2>6
<1>3. LastIn(m) = c.state
  BY <1>1, MoreLast
<1>4. /\ m \in Seq(Rows) /\ Len(m) = Len(l) + 1 /\ Len(l) \in Nat /\ DOMAIN l = 1..Len(l)
      /\ DOMAIN m = 1..Len(l) + 1 /\ \A i \in DOMAIN l : i \in DOMAIN m /\ m[i] = l[i]
      /\ m[Len(l) + 1] = c
  BY DEF More
<1>5. \A i \in DOMAIN m : i \in DOMAIN l \/ i = Len(l) + 1
  BY <1>4
<1>6. c.state \in Pacing!State /\ c.state.cursor \in Nat
  BY DEF Rows, Pacing!State
<1>7. c.ref \in 1..Len(l) /\ c.ref < Len(l) + 1 /\ b.cursor <= Len(l)
  BY <1>4 DEF Judging
<1>8. ~External(m, Len(l) + 1)
  BY <1>1, <1>4 DEF External
<1>9. LogTypes(m)
  <2>1. \A i \in ToldIn(l) : i \in DOMAIN l /\ l[i].ref \in DOMAIN l /\ l[i].ref < i
    BY DEF LogSound, LogTypes, ToldIn
  <2>2. \A i \in ToldIn(m) : m[i].ref \in DOMAIN m /\ m[i].ref < i
    BY <1>2, <1>4, <1>7, <2>1
  <2>3. LastIn(m).cursor <= Len(m)
    BY <1>3, <1>4, <1>6, <1>7
  <2>4. QED
    BY <1>3, <1>4, <1>6, <2>2, <2>3 DEF LogTypes
<1>10. JudgedTo(m, c.state.cursor)
  <2> SUFFICES ASSUME NEW i \in DOMAIN m, External(m, i)
               PROVE  /\ \A d, e \in JudgementsIn(m, i) : d = e
                      /\ JudgementsIn(m, i) # {} <=> i <= c.state.cursor
    BY DEF JudgedTo
  <2>1. i \in DOMAIN l /\ External(l, i)
    BY <1>2, <1>5, <1>8
  <2>2. /\ \A d, e \in JudgementsIn(l, i) : d = e
        /\ JudgementsIn(l, i) # {} <=> i <= LastIn(l).cursor
    BY <2>1 DEF LogSound, JudgedTo
  <2>3. LastIn(l).cursor \in Nat /\ i \in Nat
    BY <1>4, <2>1 DEF LogSound, LogTypes, Pacing!State
  <2>4. CASE i = c.ref
    <3>1. i <= b.cursor /\ LastIn(l).cursor < i
      BY <2>1, <2>4, JudgingFacts
    <3>2. JudgementsIn(l, i) = {}
      BY <2>2, <2>3, <3>1
    <3>3. JudgementsIn(m, i) = {Len(l) + 1}
      BY <1>2, <2>4, <3>2
    <3>4. QED
      BY <3>1, <3>3
  <2>5. CASE i # c.ref
    <3>1. i <= b.cursor <=> i <= LastIn(l).cursor
      BY <2>1, <2>5, JudgingFacts
    <3>2. JudgementsIn(m, i) = JudgementsIn(l, i)
      BY <1>2, <2>5
    <3>3. QED
      BY <2>2, <3>1, <3>2
  <2>6. QED
    BY <2>4, <2>5
<1>11. \A i : JudgementsIn(l, i) \subseteq JudgementsIn(m, i)
  BY <1>2
<1>12. QED
  BY <1>2, <1>3, <1>8, <1>9, <1>10, <1>11

\* What is counted after a decision that begins no new count.
LEMMA CountedRow ==
  ASSUME NEW l \in Seq(Rows), LogSound(l), NEW b, NEW c \in Rows, NEW m, More(m, l, c),
         Judging(l, c.ref, b), c.kind \in Pacing!Decisions, c.status # "open"
  PROVE  LET n == Len(l) + 1
         IN  /\ JudgedIn(m) = JudgedIn(l) \cup (IF External(l, c.ref) THEN {n} ELSE {})
             /\ AnsweredIn(m) = AnsweredIn(l)
                  \cup (IF c.kind = "planned" /\ c.status = "reactive" THEN {n} ELSE {})
             /\ n \notin JudgedIn(l) /\ n \notin AnsweredIn(l)
<1> DEFINE n == Len(l) + 1
<1>1. PlansIn(m) = PlansIn(l) \cup (IF c.kind = "planned" THEN {n} ELSE {})
  BY MoreSets
<1>2. \A i \in DOMAIN l : External(m, i) <=> External(l, i)
  BY MoreSets
<1>3. /\ DOMAIN l = 1..Len(l) /\ Len(l) \in Nat /\ \A i \in DOMAIN l : i \in DOMAIN m /\ m[i] = l[i] /\ i < n
      /\ m[n] = c /\ n \in DOMAIN m /\ n \notin DOMAIN l
  BY DEF More
<1>4. \A i \in DOMAIN m : i \in DOMAIN l \/ i = n
  BY DEF More
<1> HIDE DEF n
<1>5. \A p \in PlansIn(l) : m[p] = l[p] /\ p < n
  BY <1>3 DEF PlansIn
<1>6. \A p \in PlansIn(m) : m[p].status = "open" => p \in PlansIn(l)
  BY <1>1, <1>3
<1>7. \A d \in DOMAIN m : d \in SinceOpen(m) <=> \A p \in PlansIn(l) : l[p].status = "open" => d > p
  BY <1>1, <1>5, <1>6 DEF SinceOpen
<1>8. \A d \in DOMAIN l : d \in SinceOpen(m) <=> d \in SinceOpen(l)
  BY <1>3, <1>7 DEF SinceOpen
<1>9. n \in SinceOpen(m)
  <2>1. \A p \in PlansIn(l) : p \in Nat /\ n \in Nat
    BY <1>3 DEF PlansIn, n
  <2>2. QED
    BY <1>3, <1>5, <1>7, <2>1
<1>10. \A d \in DOMAIN l : l[d].kind \in Pacing!Decisions => (External(m, l[d].ref) <=> External(l, l[d].ref))
  <2>1. \A d \in DOMAIN l : l[d].kind \in Pacing!Decisions => l[d].ref \in DOMAIN l
    BY DEF LogSound, LogTypes, ToldIn, Told
  <2>2. QED
    BY <1>2, <2>1
<1>11. c.ref \in DOMAIN l /\ (External(m, c.ref) <=> External(l, c.ref))
  BY <1>2 DEF Judging
<1>12. JudgedIn(l) \subseteq DOMAIN l /\ AnsweredIn(l) \subseteq DOMAIN l
  BY DEF JudgedIn, AnsweredIn, SinceOpen
<1>13. JudgedIn(m) \subseteq DOMAIN m /\ AnsweredIn(m) \subseteq DOMAIN m
  BY DEF JudgedIn, AnsweredIn, SinceOpen
<1>14. \A d \in DOMAIN l : d \in JudgedIn(m) <=> d \in JudgedIn(l)
  BY <1>3, <1>8, <1>10 DEF JudgedIn
<1>15. \A d \in DOMAIN l : d \in AnsweredIn(m) <=> d \in AnsweredIn(l)
  BY <1>3, <1>8 DEF AnsweredIn
<1>16. n \in JudgedIn(m) <=> External(l, c.ref)
  BY <1>3, <1>9, <1>11 DEF JudgedIn
<1>17. n \in AnsweredIn(m) <=> c.kind = "planned" /\ c.status = "reactive"
  BY <1>3, <1>9 DEF AnsweredIn
<1>18. \A d : d \in JudgedIn(m) <=> d \in JudgedIn(l) \/ (External(l, c.ref) /\ d = n)
  BY <1>3, <1>4, <1>12, <1>13, <1>14, <1>16
<1>19. \A d : d \in AnsweredIn(m) <=> d \in AnsweredIn(l) \/ (c.kind = "planned" /\ c.status = "reactive" /\ d = n)
  BY <1>3, <1>4, <1>12, <1>13, <1>15, <1>17
<1>20. JudgedIn(m) = JudgedIn(l) \cup (IF External(l, c.ref) THEN {n} ELSE {})
  BY <1>18
<1>21. AnsweredIn(m) = AnsweredIn(l) \cup (IF c.kind = "planned" /\ c.status = "reactive" THEN {n} ELSE {})
  BY <1>19
<1>22. n \notin JudgedIn(l) /\ n \notin AnsweredIn(l)
  BY <1>3, <1>12
<1>23. QED
  BY <1>20, <1>21, <1>22 DEF n

\* The policy declines or agrees: what is counted grows by the row itself.
LEMMA OneMore ==
  ASSUME NEW S, IsFiniteSet(S), NEW x, x \notin S, NEW T, T = S \cup {x}
  PROVE  Cardinality(T) = Cardinality(S) + 1
BY FS_AddElement

\* The policy declines: the pressure is what it was, and one more if an external
\* commit was judged.
LEMMA DecidedRow ==
  ASSUME NEW l \in Seq(Rows), LogSound(l), NEW b, NEW c \in Rows, NEW m, More(m, l, c),
         Judging(l, c.ref, b), c.kind = "decided", c.status = "none",
         c.state.cursor = b.cursor, c.state.pending = b.pending, c.state.reactive = b.reactive
  PROVE  /\ LogSound(m) /\ LastIn(m) = c.state /\ PlansIn(m) = PlansIn(l)
         /\ \A p : ResultsIn(m, p) = ResultsIn(l, p)
<1>1. c.kind \in Pacing!Decisions /\ c.kind # "planned" /\ c.status # "open"
  BY DEF Pacing!Decisions
<1>2. PlansIn(m) = PlansIn(l)
  <2>1. PlansIn(m) = PlansIn(l) \cup (IF c.kind = "planned" THEN {Len(l) + 1} ELSE {})
    BY MoreSets
  <2>2. QED
    BY <1>1, <2>1
<1>3. /\ b.reactive # 0 => b.pending > 0
      /\ b.pending = LastIn(l).pending + (IF External(l, c.ref) THEN 1 ELSE 0)
      /\ Remembered(l, b)
      /\ \A j \in DOMAIN l : External(l, j) /\ j # c.ref => (j <= b.cursor <=> j <= LastIn(l).cursor)
  BY JudgingFacts
<1>4. c.state.reactive # 0 => c.state.pending > 0
  BY <1>3
<1>5. /\ LogTypes(m) /\ LastIn(m) = c.state /\ JudgedTo(m, c.state.cursor)
      /\ \A p : ResultsIn(m, p) = ResultsIn(l, p)
      /\ \A i : JudgementsIn(l, i) \subseteq JudgementsIn(m, i)
      /\ ~External(m, Len(l) + 1)
  BY <1>1, <1>4, JudgedRow
<1>6. /\ JudgedIn(m) = JudgedIn(l) \cup (IF External(l, c.ref) THEN {Len(l) + 1} ELSE {})
      /\ AnsweredIn(m) = AnsweredIn(l)
           \cup (IF c.kind = "planned" /\ c.status = "reactive" THEN {Len(l) + 1} ELSE {})
      /\ Len(l) + 1 \notin JudgedIn(l)
  BY <1>1, CountedRow
<1>7. Pressed(m, c.state.pending)
  <2>1. /\ IsFiniteSet(JudgedIn(l)) /\ Cardinality(JudgedIn(l)) \in Nat
        /\ Cardinality(AnsweredIn(l)) \in Nat
    BY SmallSets
  <2>2. Cardinality(JudgedIn(m)) = Cardinality(JudgedIn(l)) + (IF External(l, c.ref) THEN 1 ELSE 0)
    <3>1. CASE External(l, c.ref)
      <4>1. JudgedIn(m) = JudgedIn(l) \cup {Len(l) + 1}
        BY <1>6, <3>1
      <4>2. Cardinality(JudgedIn(m)) = Cardinality(JudgedIn(l)) + 1
        BY <1>6, <2>1, <4>1, OneMore
      <4>3. QED
        BY <3>1, <4>2
    <3>2. CASE ~External(l, c.ref)
      <4>1. JudgedIn(m) = JudgedIn(l)
        BY <1>6, <3>2
      <4>2. QED
        BY <2>1, <3>2, <4>1
    <3>3. QED
      BY <3>1, <3>2
  <2>3. AnsweredIn(m) = AnsweredIn(l)
    BY <1>1, <1>6
  <2>4. LastIn(l).pending + Cardinality(AnsweredIn(l)) = Cardinality(JudgedIn(l)) /\ LastIn(l).pending \in Nat
    BY DEF LogSound, Pressed, LogTypes, Pacing!State
  <2>5. c.state.pending + Cardinality(AnsweredIn(m)) = Cardinality(JudgedIn(m))
    BY <1>3, <2>1, <2>2, <2>3, <2>4
  <2>6. QED
    BY <2>5 DEF Pressed
<1>8. Remembered(m, c.state)
  <2> SUFFICES ASSUME NEW i \in DOMAIN m, m[i].kind = "reactive", i <= c.state.cursor
               PROVE  \/ c.state.reactive >= i
                      \/ \E d \in JudgementsIn(m, i), p \in PlansIn(m) : p >= d
    BY DEF Remembered
  <2>1. i \in DOMAIN l /\ l[i].kind = "reactive" /\ i <= b.cursor
    BY <1>1 DEF More
  <2>2. b.reactive >= i \/ \E d \in JudgementsIn(l, i), p \in PlansIn(l) : p >= d
    BY <1>3, <2>1 DEF Remembered
  <2>3. QED
    BY <1>2, <1>5, <2>2
<1>9. InTurn(m)
  BY <1>2, <1>5 DEF LogSound, InTurn
<1>10. QED
  BY <1>2, <1>5, <1>7, <1>8, <1>9 DEF LogSound

\* The policy agrees: an open plan answers all of the pressure, a reactive one its
\* event.
OpenPlans(l) == {p \in PlansIn(l) : ResultsIn(l, p) = {}}
Answers(c, b) ==
  \/ c.status = "open" /\ b.reactive = 0 /\ c.state.pending = 0
  \/ c.status = "reactive" /\ b.reactive # 0 /\ c.state.pending = b.pending - 1

LEMMA PlannedRow ==
  ASSUME NEW l \in Seq(Rows), LogSound(l), NEW b, NEW c \in Rows, NEW m, More(m, l, c),
         Judging(l, c.ref, b), c.kind = "planned",
         OpenPlans(l) = {}, c.state.cursor = b.cursor, c.state.reactive = 0, Answers(c, b)
  PROVE  /\ LogSound(m) /\ LastIn(m) = c.state
         /\ PlansIn(m) = PlansIn(l) \cup {Len(l) + 1}
         /\ ResultsIn(m, Len(l) + 1) = {}
         /\ \A p : ResultsIn(m, p) = ResultsIn(l, p)
<1> DEFINE n == Len(l) + 1
<1>1. c.kind \in Pacing!Decisions
  BY DEF Pacing!Decisions
<1>2. PlansIn(m) = PlansIn(l) \cup {n}
  <2>1. PlansIn(m) = PlansIn(l) \cup (IF c.kind = "planned" THEN {n} ELSE {})
    BY MoreSets
  <2>2. QED
    BY <2>1
<1>3. /\ b.reactive # 0 => b.pending > 0
      /\ b.pending = LastIn(l).pending + (IF External(l, c.ref) THEN 1 ELSE 0)
  BY JudgingFacts
<1>4. c.state.reactive # 0 => c.state.pending > 0
  OBVIOUS
<1>5. /\ LogTypes(m) /\ LastIn(m) = c.state /\ JudgedTo(m, c.state.cursor)
      /\ \A p : ResultsIn(m, p) = ResultsIn(l, p)
      /\ ~External(m, n)
  BY <1>1, <1>4, JudgedRow
<1>6. ResultsIn(m, n) = {}
  BY <1>5, Unjudged DEF LogSound
<1>7. /\ DOMAIN l = 1..Len(l) /\ Len(l) \in Nat /\ DOMAIN m = 1..n /\ m[n] = c
      /\ \A i \in DOMAIN l : i < n /\ m[i] = l[i]
  BY DEF More
<1>8. PlansIn(l) \subseteq DOMAIN l /\ \A p : ResultsIn(l, p) \subseteq DOMAIN l
  BY DEF PlansIn, ResultsIn
<1>9. Pressed(m, c.state.pending)
  <2>1. CASE c.status = "open"
    <3>1. \A d \in DOMAIN m : d \notin SinceOpen(m)
      <4>1. n \in PlansIn(m) /\ m[n].status = "open"
        BY <1>2, <1>7, <2>1
      <4>2. \A d \in DOMAIN m : ~(d > n)
        BY <1>7
      <4>3. QED
        BY <4>1, <4>2 DEF SinceOpen
    <3>2. JudgedIn(m) = {} /\ AnsweredIn(m) = {}
      BY <3>1 DEF JudgedIn, AnsweredIn, SinceOpen
    <3>3. Cardinality({}) = 0
      BY FS_EmptySet
    <3>4. c.state.pending = 0
      BY <2>1 DEF Answers
    <3>5. QED
      BY <3>2, <3>3, <3>4 DEF Pressed
  <2>2. CASE c.status = "reactive"
    <3>1. /\ JudgedIn(m) = JudgedIn(l) \cup (IF External(l, c.ref) THEN {n} ELSE {})
          /\ AnsweredIn(m) = AnsweredIn(l)
               \cup (IF c.kind = "planned" /\ c.status = "reactive" THEN {n} ELSE {})
          /\ n \notin JudgedIn(l) /\ n \notin AnsweredIn(l)
      BY <1>1, <2>2, CountedRow
    <3>2. /\ IsFiniteSet(JudgedIn(l)) /\ Cardinality(JudgedIn(l)) \in Nat
          /\ IsFiniteSet(AnsweredIn(l)) /\ Cardinality(AnsweredIn(l)) \in Nat
      BY SmallSets
    <3>3. Cardinality(JudgedIn(m)) = Cardinality(JudgedIn(l)) + (IF External(l, c.ref) THEN 1 ELSE 0)
      <4>1. CASE External(l, c.ref)
        <5>1. JudgedIn(m) = JudgedIn(l) \cup {n}
          BY <3>1, <4>1
        <5>2. n \notin JudgedIn(l) /\ IsFiniteSet(JudgedIn(l))
          BY <3>1, <3>2
        <5>3. Cardinality(JudgedIn(m)) = Cardinality(JudgedIn(l)) + 1
          BY <5>1, <5>2, OneMore
        <5>4. QED
          BY <4>1, <5>3
      <4>2. CASE ~External(l, c.ref)
        <5>1. JudgedIn(m) = JudgedIn(l)
          BY <3>1, <4>2
        <5>2. QED
          BY <3>2, <4>2, <5>1
      <4>3. QED
        BY <4>1, <4>2
    <3>4. Cardinality(AnsweredIn(m)) = Cardinality(AnsweredIn(l)) + 1
      <4>1. AnsweredIn(m) = AnsweredIn(l) \cup {n}
        BY <2>2, <3>1
      <4>2. n \notin AnsweredIn(l) /\ IsFiniteSet(AnsweredIn(l))
        BY <3>1, <3>2
      <4>3. QED
        BY <4>1, <4>2, OneMore
    <3>5. LastIn(l).pending + Cardinality(AnsweredIn(l)) = Cardinality(JudgedIn(l)) /\ LastIn(l).pending \in Nat
      BY DEF LogSound, Pressed, LogTypes, Pacing!State
    <3>6. c.state.pending = b.pending - 1
      BY <2>2 DEF Answers
    <3>7. c.state.pending + Cardinality(AnsweredIn(m)) = Cardinality(JudgedIn(m))
      BY <1>3, <3>2, <3>3, <3>4, <3>5, <3>6
    <3>8. QED
      BY <3>7 DEF Pressed
  <2>3. QED
    BY <2>1, <2>2 DEF Answers
<1>10. Remembered(m, c.state)
  <2> SUFFICES ASSUME NEW i \in DOMAIN m, m[i].kind = "reactive", i <= c.state.cursor
               PROVE  \E d \in JudgementsIn(m, i), p \in PlansIn(m) : p >= d
    BY DEF Remembered
  <2>1. JudgementsIn(m, i) # {}
    BY <1>5 DEF JudgedTo, External
  <2>2. PICK d \in JudgementsIn(m, i) : d \in 1..n
    BY <1>7, <2>1 DEF JudgementsIn
  <2>3. n >= d /\ n \in PlansIn(m)
    BY <1>2, <1>7, <2>2
  <2>4. QED
    BY <2>2, <2>3
<1>11. InTurn(m)
  <2>1. \A p \in PlansIn(m) : \A i, j \in ResultsIn(m, p) : i = j
    BY <1>2, <1>5, <1>6 DEF LogSound, InTurn
  <2>2. ASSUME NEW p \in PlansIn(m), NEW q \in PlansIn(m), p < q
        PROVE  ResultsIn(m, p) # {} /\ \A i \in ResultsIn(m, p) : i < q
    <3>0. n \in Nat /\ \A r \in PlansIn(l) : r \in Nat /\ r < n
      BY <1>7, <1>8
    <3>1. p # n
      BY <1>2, <2>2, <3>0
    <3>2. CASE q = n
      <4>1. p \in PlansIn(l) /\ ResultsIn(l, p) # {}
        BY <1>2, <3>1 DEF OpenPlans
      <4>2. \A i \in ResultsIn(l, p) : i < n
        BY <1>7, <1>8
      <4>3. QED
        BY <1>5, <3>2, <4>1, <4>2
    <3>3. CASE q # n
      BY <1>2, <1>5, <2>2, <3>1, <3>3 DEF LogSound, InTurn
    <3>4. QED
      BY <3>2, <3>3
  <2>3. QED
    BY <2>1, <2>2 DEF InTurn
<1>12. QED
  BY <1>2, <1>5, <1>6, <1>9, <1>10, <1>11 DEF LogSound

-----------------------------------------------------------------------------
\* The rhythm: the inductive invariant.

\* Types.
RhythmTypes ==
  /\ entered \subseteq PlansIn(log)
  /\ ended \subseteq [plan : entered, status : {"completed", "failed", "cancelled"}]
  /\ consumer \in Pacing!Places
  /\ mem \in Pacing!State /\ mem.cursor <= Len(log)
  /\ hasDecision \in BOOLEAN
  /\ cause \in 0..Len(log)
  /\ open \subseteq PlansIn(log)
  /\ recoverable \subseteq PlansIn(log)
  /\ plan \in {0} \cup PlansIn(log)
  /\ outcome \in {"none", "completed", "failed", "interrupted"}

\* The bounds.
RhythmBounds ==
  /\ hour \in 0..CadenceTime
  /\ events \in 0..Len(Foreign)
  /\ faults \in 0..MaxFaults

\* The state in memory is the last one in the log, moved over what counts for
\* nothing, except while one commit is being judged.
Agrees(l, b) ==
  /\ b.pending = LastIn(l).pending /\ b.reactive = LastIn(l).reactive
  /\ Passed(l, b.cursor)

Standing ==
  /\ consumer = "evaluate" => Judging(log, cause, mem)
  /\ consumer \notin {"down", "evaluate"} => Agrees(log, mem)

\* The plan without a result is the one the consumer has in hand, if there is one.
InHand ==
  /\ consumer = "down" => open = {} /\ recoverable = {}
  /\ consumer = "reconcile" => OpenPlans(log) = open \cup recoverable /\ open \cap recoverable = {}
  /\ consumer = "idle" => open = {} /\ OpenPlans(log) = recoverable
  /\ consumer \in {"tick", "evaluate"} => OpenPlans(log) = {} /\ open = {} /\ recoverable = {}
  /\ consumer \in {"launch", "running", "finish"} =>
       OpenPlans(log) = {plan} /\ open = {} /\ recoverable = {}

\* What results say, and the one that is about to be told, is what the records of
\* the run say.
RunEnded(p, ends) == \E e \in ends : e.plan = p
Truthful(p, status, begins, ends) ==
  /\ status = "completed" => Pacing!End(p, "completed") \in ends
  /\ status = "interrupted" => p \in begins /\ ~RunEnded(p, ends)
AllTrue(l, begins, ends) ==
  \A i \in DOMAIN l : l[i].kind = "result" => Truthful(l[i].ref, l[i].status, begins, ends)

TrueResults ==
  /\ AllTrue(log, entered, ended)
  /\ consumer = "finish" => Truthful(plan, outcome, entered, ended)
  /\ consumer = "running" => plan \in entered /\ ~RunEnded(plan, ended)

RhythmInv ==
  LogSound(log) /\ RhythmTypes /\ RhythmBounds /\ Standing /\ InHand /\ TrueResults

-----------------------------------------------------------------------------
\* The rhythm: the steps.

\* What is known of the places of the consumer.
LEMMA RhythmTypesAtHand ==
  ASSUME RhythmInv
  PROVE  /\ log \in Seq(Rows) /\ LogSound(log) /\ Len(log) \in Nat /\ DOMAIN log = 1..Len(log)
         /\ mem \in Pacing!State /\ mem.cursor \in Nat /\ mem.cursor <= Len(log)
         /\ mem.pending \in Nat /\ mem.next \in Nat /\ mem.reactive \in Nat
         /\ LastIn(log) \in Pacing!State
<1>1. log \in Seq(Rows) /\ LogSound(log) /\ LastIn(log) \in Pacing!State
  BY DEF RhythmInv, LogSound, LogTypes
<1>2. Len(log) \in Nat /\ DOMAIN log = 1..Len(log)
  BY <1>1, LenProperties
<1>3. mem \in Pacing!State /\ mem.cursor <= Len(log)
  BY DEF RhythmInv, RhythmTypes
<1>4. QED
  BY <1>1, <1>2, <1>3 DEF Pacing!State

LEMMA RhythmBoundsStep ==
  ASSUME RhythmInv, Pacing!Next
  PROVE  RhythmBounds'
<1>1. /\ hour \in 0..CadenceTime /\ events \in 0..Len(Foreign) /\ faults \in 0..MaxFaults
      /\ CadenceTime \in Nat /\ Len(Foreign) \in Nat /\ MaxFaults \in Nat
  BY PacingAssumption, LenProperties DEF RhythmInv, RhythmBounds, Pacing!CadenceAssumption
<1>2. hour' = hour \/ (hour < CadenceTime /\ hour' = hour + 1)
  BY DEF Pacing!Next, Pacing!Consumer, Pacing!Start, Pacing!Reconcile, Pacing!Initialized,
         Pacing!Recover, Pacing!CheckTime, Pacing!Skip, Pacing!Count, Pacing!SubmitTick, Pacing!Decide,
         Pacing!Launch, Pacing!LaunchFails, Pacing!RunReturns, Pacing!RunRaises, Pacing!Finish,
         Pacing!WorldCommits, Pacing!TimePasses, Pacing!Crash, Pacing!StopRun, Pacing!Forget,
         Pacing!env
<1>3. events' = events \/ (events < Len(Foreign) /\ events' = events + 1)
  BY DEF Pacing!Next, Pacing!Consumer, Pacing!Start, Pacing!Reconcile, Pacing!Initialized,
         Pacing!Recover, Pacing!CheckTime, Pacing!Skip, Pacing!Count, Pacing!SubmitTick, Pacing!Decide,
         Pacing!Launch, Pacing!LaunchFails, Pacing!RunReturns, Pacing!RunRaises, Pacing!Finish,
         Pacing!WorldCommits, Pacing!TimePasses, Pacing!Crash, Pacing!StopRun, Pacing!Forget,
         Pacing!env
<1>4. faults' = faults \/ (faults < MaxFaults /\ faults' = faults + 1)
  BY DEF Pacing!Next, Pacing!Consumer, Pacing!Start, Pacing!Reconcile, Pacing!Initialized,
         Pacing!Recover, Pacing!CheckTime, Pacing!Skip, Pacing!Count, Pacing!SubmitTick, Pacing!Decide,
         Pacing!Launch, Pacing!LaunchFails, Pacing!RunReturns, Pacing!RunRaises, Pacing!Finish,
         Pacing!WorldCommits, Pacing!TimePasses, Pacing!Crash, Pacing!StopRun, Pacing!Forget,
         Pacing!Fault, Pacing!env
<1>5. QED
  BY <1>1, <1>2, <1>3, <1>4 DEF RhythmBounds

\* A commit of the world, under whatever the consumer does.
LEMMA WorldCommitsStep ==
  ASSUME RhythmInv, Pacing!WorldCommits
  PROVE  LogSound(log') /\ RhythmTypes' /\ Standing' /\ InHand' /\ TrueResults'
<1> DEFINE c == Pacing!Commit(Foreign[events + 1], 0, Pacing!NoState, "none")
<1>1. /\ log' = Append(log, c)
      /\ UNCHANGED <<entered, ended, consumer, mem, hasDecision, cause, open, recoverable, plan, outcome>>
      /\ events' = events + 1 /\ events < Len(Foreign)
  BY DEF Pacing!WorldCommits, Pacing!Write, Pacing!runs, Pacing!job
<1>2. c \in Rows /\ c.kind \in Outside /\ c.kind # "result"
  <2>1. Foreign \in Seq({"event", "reactive", "noise"}) /\ events \in 0..Len(Foreign)
    BY PacingAssumption DEF Pacing!CadenceAssumption, RhythmInv, RhythmBounds
  <2>2. events + 1 \in 1..Len(Foreign)
    BY <1>1, <2>1, LenProperties
  <2>3. Foreign[events + 1] \in {"event", "reactive", "noise"}
    BY <2>1, <2>2, ElementOfSeq
  <2>4. QED
    BY <2>3 DEF Rows, Outside, Pacing!Commit, Pacing!NoState, Pacing!State, Pacing!LogKinds, Pacing!Decisions
<1> HIDE DEF c
<1>3. More(log', log, c)
  BY <1>1, <1>2, Appended, RhythmTypesAtHand
<1>4. /\ LogSound(log') /\ LastIn(log') = LastIn(log) /\ PlansIn(log') = PlansIn(log)
      /\ \A p : ResultsIn(log', p) = ResultsIn(log, p)
  BY <1>2, <1>3, OutsideRow, RhythmTypesAtHand
<1>5. /\ Len(log') = Len(log) + 1 /\ Len(log) \in Nat /\ DOMAIN log = 1..Len(log)
      /\ DOMAIN log' = 1..Len(log) + 1
      /\ \A i \in DOMAIN log : log'[i] = log[i]
      /\ log'[Len(log) + 1] = c
  BY <1>3 DEF More
<1>6. RhythmTypes'
  BY <1>1, <1>4, <1>5, RhythmTypesAtHand DEF RhythmInv, RhythmTypes
<1>7. \A cursor \in Nat : cursor <= Len(log) /\ Passed(log, cursor) => Passed(log', cursor)
  BY <1>4, <1>5 DEF Passed, External
<1>8. Standing'
  <2>1. ASSUME Judging(log, cause, mem) PROVE Judging(log', cause, mem)
    <3>1. cause \in DOMAIN log' /\ (External(log', cause) <=> External(log, cause))
      BY <1>5, <2>1 DEF Judging, External
    <3>2. mem.cursor <= Len(log')
      BY <1>5, RhythmTypesAtHand
    <3>3. log'[cause] = log[cause] /\ cause - 1 \in Nat /\ cause - 1 <= Len(log)
      BY <1>5, <2>1 DEF Judging
    <3>4. QED
      BY <1>4, <1>7, <2>1, <3>1, <3>2, <3>3, RhythmTypesAtHand DEF Judging
  <2>2. ASSUME Agrees(log, mem) PROVE Agrees(log', mem)
    BY <1>4, <1>7, <2>2, RhythmTypesAtHand DEF Agrees
  <2>3. QED
    BY <1>1, <2>1, <2>2 DEF RhythmInv, Standing
<1>9. OpenPlans(log') = OpenPlans(log)
  BY <1>4 DEF OpenPlans
<1>10. InHand'
  BY <1>1, <1>9 DEF RhythmInv, InHand
<1>11. TrueResults'
  BY <1>1, <1>2, <1>5 DEF RhythmInv, TrueResults, AllTrue
<1>12. QED
  BY <1>4, <1>6, <1>8, <1>10, <1>11

\* The reading of the log when the process begins, and the plans it finds open.
LEMMA Readings ==
  /\ Pacing!LastState = LastIn(log)
  /\ {p \in Pacing!Plans : Pacing!Results(p) = {}} = OpenPlans(log)
  /\ \A i : Pacing!Counts(i) <=> External(log, i)
  /\ \A p : Pacing!Ended(p) <=> RunEnded(p, ended)
<1>1. Pacing!LastState = LastIn(log)
  BY DEF Pacing!LastState, Pacing!Records, LastIn, ToldIn, Told
<1>2. {p \in Pacing!Plans : Pacing!Results(p) = {}} = OpenPlans(log)
  BY DEF Pacing!Plans, Pacing!Results, OpenPlans, PlansIn, ResultsIn
<1>3. QED
  BY <1>1, <1>2 DEF Pacing!Counts, External, Pacing!Ended, RunEnded

LEMMA OneOpenPlan ==
  ASSUME RhythmInv, NEW p \in OpenPlans(log), NEW q \in OpenPlans(log)
  PROVE  p = q
<1>1. p \in PlansIn(log) /\ q \in PlansIn(log) /\ ResultsIn(log, p) = {} /\ ResultsIn(log, q) = {}
  BY DEF OpenPlans
<1>2. p \in Nat /\ q \in Nat
  BY <1>1, RhythmTypesAtHand DEF PlansIn
<1>3. ~(p < q) /\ ~(q < p)
  BY <1>1 DEF RhythmInv, LogSound, InTurn
<1>4. QED
  BY <1>2, <1>3

\* A step that leaves the log and the records of runs leaves what is told.
Untold == log' = log /\ entered' = entered /\ ended' = ended

LEMMA UntoldFacts ==
  ASSUME RhythmInv, Untold
  PROVE  /\ LogSound(log') /\ OpenPlans(log') = OpenPlans(log) /\ PlansIn(log') = PlansIn(log)
         /\ AllTrue(log', entered', ended')
BY DEF Untold, RhythmInv, TrueResults

LEMMA ReadStep ==
  ASSUME RhythmInv, Pacing!Start
  PROVE  LogSound(log') /\ RhythmTypes' /\ Standing' /\ InHand' /\ TrueResults'
<1>1. /\ consumer = "down" /\ consumer' = "reconcile"
      /\ mem' = LastIn(log) /\ hasDecision' \in BOOLEAN /\ open' = OpenPlans(log)
      /\ UNCHANGED <<log, entered, ended, cause, recoverable, plan, outcome>>
  BY Readings DEF Pacing!Start, Pacing!runs
<1>2. Untold
  BY <1>1 DEF Untold
<1>3. RhythmTypes'
  <2>1. LastIn(log) \in Pacing!State /\ LastIn(log).cursor <= Len(log) /\ OpenPlans(log) \subseteq PlansIn(log)
    BY DEF RhythmInv, LogSound, LogTypes, OpenPlans
  <2>2. QED
    BY <1>1, <2>1 DEF RhythmInv, RhythmTypes, Pacing!Places
<1>4. Standing'
  <2>1. LastIn(log).cursor <= LastIn(log).cursor
    BY RhythmTypesAtHand DEF Pacing!State
  <2>2. Agrees(log, LastIn(log))
    BY <2>1 DEF Agrees, Passed
  <2>3. QED
    BY <1>1, <2>2 DEF Standing
<1>5. InHand'
  BY <1>1 DEF RhythmInv, InHand
<1>6. TrueResults'
  BY <1>1, <1>2, UntoldFacts DEF TrueResults
<1>7. QED
  BY <1>2, <1>3, <1>4, <1>5, <1>6, UntoldFacts

LEMMA ReconcileStep ==
  ASSUME RhythmInv, NEW p \in open, Pacing!Reconcile(p)
  PROVE  LogSound(log') /\ RhythmTypes' /\ Standing' /\ InHand' /\ TrueResults'
<1>1. /\ consumer = "reconcile" /\ open' = open \ {p}
      /\ UNCHANGED <<log, entered, ended, mem, hasDecision, cause>>
      /\ \/ /\ consumer' = "reconcile" /\ recoverable' = recoverable \cup {p}
            /\ plan' = plan /\ outcome' = outcome
         \/ /\ Pacing!Verdict(p) # "none"
            /\ consumer' = "finish" /\ plan' = p /\ outcome' = Pacing!Verdict(p)
            /\ recoverable' = recoverable
  BY DEF Pacing!Reconcile, Pacing!runs, Pacing!Kept
<1>2. Untold
  BY <1>1 DEF Untold
<1>3. /\ p \in PlansIn(log) /\ OpenPlans(log) = open \cup recoverable /\ p \in OpenPlans(log)
      /\ p \notin recoverable
  BY <1>1 DEF RhythmInv, RhythmTypes, InHand
<1>4. open = {p} /\ recoverable = {} /\ OpenPlans(log) = {p}
  BY <1>3, OneOpenPlan
<1>5. /\ Pacing!Verdict(p) \in {"none", "completed", "failed", "interrupted"}
      /\ Truthful(p, Pacing!Verdict(p), entered, ended)
  BY Readings DEF Pacing!Verdict, Truthful
<1>6. RhythmTypes'
  BY <1>1, <1>3, <1>5 DEF RhythmInv, RhythmTypes, Pacing!Places
<1>7. Standing'
  BY <1>1 DEF RhythmInv, Standing
<1>8. InHand'
  BY <1>1, <1>2, <1>4, UntoldFacts DEF InHand
<1>9. TrueResults'
  BY <1>1, <1>2, <1>5, UntoldFacts DEF TrueResults
<1>10. QED
  BY <1>2, <1>6, <1>7, <1>8, <1>9, UntoldFacts

LEMMA RecoverStep ==
  ASSUME RhythmInv, NEW p \in recoverable, Pacing!Recover(p)
  PROVE  LogSound(log') /\ RhythmTypes' /\ Standing' /\ InHand' /\ TrueResults'
<1>1. /\ consumer = "idle" /\ consumer' = "launch"
      /\ recoverable' = recoverable \ {p} /\ plan' = p
      /\ UNCHANGED <<log, entered, ended, mem, hasDecision, cause, open, outcome>>
  BY DEF Pacing!Recover, Pacing!runs
<1>2. Untold
  BY <1>1 DEF Untold
<1>3. p \in PlansIn(log) /\ open = {} /\ OpenPlans(log) = recoverable
  BY <1>1 DEF RhythmInv, RhythmTypes, InHand
<1>4. recoverable = {p}
  BY <1>3, OneOpenPlan
<1>5. RhythmTypes'
  BY <1>1, <1>3 DEF RhythmInv, RhythmTypes, Pacing!Places
<1>6. Standing'
  BY <1>1 DEF RhythmInv, Standing
<1>7. InHand'
  BY <1>1, <1>2, <1>3, <1>4, UntoldFacts DEF InHand
<1>8. TrueResults'
  BY <1>1, <1>2, UntoldFacts DEF TrueResults
<1>9. QED
  BY <1>2, <1>5, <1>6, <1>7, <1>8, UntoldFacts

LEMMA SkipStep ==
  ASSUME RhythmInv, Pacing!Skip
  PROVE  LogSound(log') /\ RhythmTypes' /\ Standing' /\ InHand' /\ TrueResults'
<1>1. /\ consumer = "idle" /\ recoverable = {} /\ mem.cursor < Len(log)
      /\ ~External(log, mem.cursor + 1)
      /\ mem' = [mem EXCEPT !.cursor = mem.cursor + 1]
      /\ consumer' \in {"tick", "idle"}
      /\ UNCHANGED <<log, entered, ended, hasDecision, cause, open, recoverable, plan, outcome>>
  BY Readings DEF Pacing!Skip, Pacing!Scanning, Pacing!runs, Pacing!job
<1>2. Untold
  BY <1>1 DEF Untold
<1>3. /\ mem' \in Pacing!State /\ mem'.cursor = mem.cursor + 1
      /\ mem'.pending = mem.pending /\ mem'.reactive = mem.reactive
  BY <1>1, RhythmTypesAtHand DEF Pacing!State
<1>4. RhythmTypes'
  <2>1. mem'.cursor <= Len(log)
    BY <1>1, <1>3, RhythmTypesAtHand
  <2>2. QED
    BY <1>1, <1>3, <2>1 DEF RhythmInv, RhythmTypes, Pacing!Places
<1>5. Standing'
  <2>1. Agrees(log, mem)
    BY <1>1 DEF RhythmInv, Standing
  <2>2. LastIn(log).cursor \in Nat
    BY RhythmTypesAtHand DEF Pacing!State
  <2>3. Passed(log, mem.cursor + 1)
    <3>1. \A i \in DOMAIN log : i <= mem.cursor + 1 => i <= mem.cursor \/ i = mem.cursor + 1
      BY RhythmTypesAtHand
    <3>2. LastIn(log).cursor <= mem.cursor + 1
      BY <2>1, <2>2, RhythmTypesAtHand DEF Agrees, Passed
    <3>3. QED
      BY <1>1, <2>1, <3>1, <3>2 DEF Agrees, Passed
  <2>4. Agrees(log, mem')
    BY <1>3, <2>1, <2>3 DEF Agrees
  <2>5. QED
    BY <1>1, <2>4 DEF Standing
<1>6. InHand'
  BY <1>1, <1>2, UntoldFacts DEF RhythmInv, InHand
<1>7. TrueResults'
  BY <1>1, <1>2, UntoldFacts DEF TrueResults
<1>8. QED
  BY <1>2, <1>4, <1>5, <1>6, <1>7, UntoldFacts

LEMMA CountStep ==
  ASSUME RhythmInv, Pacing!Count
  PROVE  LogSound(log') /\ RhythmTypes' /\ Standing' /\ InHand' /\ TrueResults'
<1> DEFINE i == mem.cursor + 1
<1>1. /\ consumer = "idle" /\ recoverable = {} /\ mem.cursor < Len(log) /\ External(log, i)
      /\ mem' = [mem EXCEPT !.cursor = i, !.pending = mem.pending + 1,
                            !.reactive = IF log[i].kind = "reactive" THEN i ELSE mem.reactive]
      /\ consumer' = "evaluate" /\ cause' = i
      /\ UNCHANGED <<log, entered, ended, hasDecision, open, recoverable, plan, outcome>>
  BY Readings DEF Pacing!Count, Pacing!Scanning, Pacing!runs
<1>2. Untold
  BY <1>1 DEF Untold
<1>3. i \in 1..Len(log) /\ i \in Nat /\ i - 1 = mem.cursor
  BY <1>1, RhythmTypesAtHand
<1>4. /\ mem' \in Pacing!State /\ mem'.cursor = i /\ mem'.pending = mem.pending + 1
      /\ mem'.reactive = IF log[i].kind = "reactive" THEN i ELSE mem.reactive
  <2> DEFINE r == IF log[i].kind = "reactive" THEN i ELSE mem.reactive
  <2>1. r \in Nat /\ mem.pending + 1 \in Nat /\ i \in Nat
    BY <1>3, RhythmTypesAtHand
  <2>2. mem' = [mem EXCEPT !.cursor = i, !.pending = mem.pending + 1, !.reactive = r]
    BY <1>1
  <2> HIDE DEF i, r
  <2>3. /\ mem' \in Pacing!State /\ mem'.cursor = i /\ mem'.pending = mem.pending + 1
        /\ mem'.reactive = r
    BY <2>1, <2>2, RhythmTypesAtHand DEF Pacing!State
  <2>4. QED
    BY <2>3 DEF r
<1>5. RhythmTypes'
  <2> HIDE DEF i
  <2>1. i <= Len(log) /\ i \in 0..Len(log)
    BY <1>3, RhythmTypesAtHand
  <2>2. QED
    BY <1>1, <1>4, <2>1 DEF RhythmInv, RhythmTypes, Pacing!Places
<1>6. Standing'
  <2>1. Agrees(log, mem)
    BY <1>1 DEF RhythmInv, Standing
  <2>2. LastIn(log).cursor \in Nat
    BY RhythmTypesAtHand DEF Pacing!State
  <2>3. LastIn(log).cursor < i
    BY <2>1, <2>2, RhythmTypesAtHand DEF Agrees, Passed
  <2>4. Passed(log, i - 1)
    BY <1>3, <2>1 DEF Agrees
  <2> HIDE DEF i
  <2>5. Judging(log, i, mem')
    BY <1>1, <1>3, <1>4, <2>1, <2>3, <2>4, RhythmTypesAtHand DEF Agrees, Judging
  <2>6. QED
    BY <1>1, <2>5 DEF Standing
<1>7. InHand'
  BY <1>1, <1>2, UntoldFacts DEF RhythmInv, InHand
<1>8. TrueResults'
  BY <1>1, <1>2, UntoldFacts DEF TrueResults
<1>9. QED
  BY <1>2, <1>5, <1>6, <1>7, <1>8, UntoldFacts

\* The consumer moves on, or the process ends, with nothing to judge.
LEMMA QuietSteps ==
  ASSUME RhythmInv,
         Pacing!TimePasses \/ Pacing!Initialized \/ Pacing!CheckTime \/ Pacing!Crash
  PROVE  LogSound(log') /\ RhythmTypes' /\ Standing' /\ InHand' /\ TrueResults'
<1>1. Untold
  BY DEF Pacing!TimePasses, Pacing!Initialized, Pacing!CheckTime, Pacing!Crash, Pacing!runs, Untold
<1>2. CASE Pacing!TimePasses
  <2>1. UNCHANGED <<log, entered, ended, consumer, mem, hasDecision, cause, open, recoverable, plan, outcome>>
    BY <1>2 DEF Pacing!TimePasses, Pacing!runs, Pacing!job
  <2>2. QED
    BY <2>1 DEF RhythmInv, RhythmTypes, Standing, InHand, TrueResults
<1>3. CASE Pacing!Initialized \/ Pacing!CheckTime
  <2>1. /\ \/ consumer = "reconcile" /\ open = {} /\ consumer' = "idle"
           \/ consumer = "idle" /\ recoverable = {} /\ consumer' = "tick"
        /\ UNCHANGED <<log, entered, ended, mem, hasDecision, cause, open, recoverable, plan, outcome>>
    BY <1>3 DEF Pacing!Initialized, Pacing!CheckTime, Pacing!Scanning, Pacing!runs, Pacing!job
  <2>2. RhythmTypes'
    BY <2>1 DEF RhythmInv, RhythmTypes, Pacing!Places
  <2>3. Standing'
    BY <2>1 DEF RhythmInv, Standing
  <2>4. InHand'
    BY <2>1 DEF RhythmInv, InHand
  <2>5. TrueResults'
    BY <1>1, <2>1, UntoldFacts DEF TrueResults
  <2>6. QED
    BY <1>1, <2>2, <2>3, <2>4, <2>5, UntoldFacts
<1>4. CASE Pacing!Crash
  <2>1. /\ consumer' = "down" /\ mem' = Pacing!NoState /\ hasDecision' = FALSE /\ cause' = 0
        /\ open' = {} /\ recoverable' = {} /\ plan' = 0 /\ outcome' = "none"
        /\ UNCHANGED <<log, entered, ended>>
    BY <1>4 DEF Pacing!Crash, Pacing!Forget, Pacing!runs
  <2>2. RhythmTypes'
    <3>1. /\ Pacing!NoState \in Pacing!State /\ Pacing!NoState.cursor <= Len(log)
          /\ 0 \in 0..Len(log)
      BY RhythmTypesAtHand DEF Pacing!NoState, Pacing!State
    <3>2. QED
      BY <2>1, <3>1 DEF RhythmInv, RhythmTypes, Pacing!Places
  <2>3. Standing' /\ InHand'
    BY <2>1 DEF Standing, InHand
  <2>4. TrueResults'
    BY <1>1, <2>1, UntoldFacts DEF TrueResults
  <2>5. QED
    BY <1>1, <2>2, <2>3, <2>4, UntoldFacts
<1>5. QED
  BY <1>2, <1>3, <1>4

\* The consumer writes: a tick to judge, its decision, the result of a plan.
LEMMA SubmitTickStep ==
  ASSUME RhythmInv, Pacing!SubmitTick
  PROVE  LogSound(log') /\ RhythmTypes' /\ Standing' /\ InHand' /\ TrueResults'
<1> DEFINE c == Pacing!Commit("tick", 0, Pacing!NoState, "none")
<1>1. /\ consumer = "tick" /\ consumer' = "evaluate"
      /\ log' = Append(log, c) /\ cause' = Len(log')
      /\ UNCHANGED <<entered, ended, mem, hasDecision, open, recoverable, plan, outcome>>
  BY DEF Pacing!SubmitTick, Pacing!Write, Pacing!runs
<1>2. c \in Rows /\ c.kind \in Outside /\ c.kind = "tick"
  BY DEF Rows, Outside, Pacing!Commit, Pacing!NoState, Pacing!State, Pacing!LogKinds, Pacing!Decisions
<1> HIDE DEF c
<1>3. More(log', log, c)
  BY <1>1, <1>2, Appended, RhythmTypesAtHand
<1>4. /\ LogSound(log') /\ LastIn(log') = LastIn(log) /\ PlansIn(log') = PlansIn(log)
      /\ \A p : ResultsIn(log', p) = ResultsIn(log, p)
  BY <1>2, <1>3, OutsideRow, RhythmTypesAtHand
<1>5. /\ Len(log') = Len(log) + 1 /\ Len(log) \in Nat /\ DOMAIN log = 1..Len(log)
      /\ DOMAIN log' = 1..Len(log) + 1
      /\ \A i \in DOMAIN log : log'[i] = log[i]
      /\ log'[Len(log) + 1] = c
  BY <1>3 DEF More
<1>6. RhythmTypes'
  <2>1. mem.cursor <= Len(log') /\ Len(log') \in 0..Len(log')
    BY <1>5, RhythmTypesAtHand
  <2>2. QED
    BY <1>1, <1>4, <2>1 DEF RhythmInv, RhythmTypes, Pacing!Places
<1>7. Standing'
  <2>1. Agrees(log, mem)
    BY <1>1 DEF RhythmInv, Standing
  <2>2. Passed(log', mem.cursor)
    BY <1>4, <1>5, <2>1, RhythmTypesAtHand DEF Agrees, Passed, External
  <2>3. ~External(log', Len(log'))
    BY <1>2, <1>5 DEF External
  <2>4. Len(log') \in DOMAIN log' /\ mem.cursor <= Len(log')
    BY <1>5, RhythmTypesAtHand
  <2>5. Judging(log', Len(log'), mem)
    BY <1>4, <2>1, <2>2, <2>3, <2>4, RhythmTypesAtHand DEF Agrees, Judging
  <2>6. QED
    BY <1>1, <2>5 DEF Standing
<1>8. InHand'
  <2>1. OpenPlans(log') = OpenPlans(log)
    BY <1>4 DEF OpenPlans
  <2>2. QED
    BY <1>1, <2>1 DEF RhythmInv, InHand
<1>9. TrueResults'
  <2>1. AllTrue(log', entered, ended)
    BY <1>2, <1>5 DEF RhythmInv, TrueResults, AllTrue
  <2>2. QED
    BY <1>1, <2>1 DEF TrueResults
<1>10. QED
  BY <1>4, <1>6, <1>7, <1>8, <1>9

LEMMA DeclineStep ==
  ASSUME RhythmInv, NEW delay \in Delays, Pacing!Decide(FALSE, delay)
  PROVE  LogSound(log') /\ RhythmTypes' /\ Standing' /\ InHand' /\ TrueResults'
<1> DEFINE c == Pacing!Commit("decided", cause, mem', "none")
<1>1. /\ consumer = "evaluate" /\ consumer' = "idle"
      /\ mem' = [mem EXCEPT !.pending = mem.pending, !.next = hour + delay, !.reactive = mem.reactive]
      /\ log' = Append(log, c) /\ hasDecision' = TRUE
      /\ UNCHANGED <<entered, ended, cause, open, recoverable, plan, outcome>>
  BY DEF Pacing!Decide, Pacing!Decided, Pacing!Left, Pacing!Write, Pacing!runs
<1>2. Judging(log, cause, mem) /\ cause \in 1..Len(log)
  BY <1>1, RhythmTypesAtHand DEF RhythmInv, Standing, Judging
<1>3. /\ mem' \in Pacing!State /\ mem'.cursor = mem.cursor /\ mem'.pending = mem.pending
      /\ mem'.reactive = mem.reactive
  <2>1. hour + delay \in Nat
    BY PacingAssumption DEF Pacing!CadenceAssumption, RhythmInv, RhythmBounds
  <2>2. QED
    BY <1>1, <2>1, RhythmTypesAtHand DEF Pacing!State
<1>4. /\ c \in Rows /\ c.kind = "decided" /\ c.ref = cause /\ c.state = mem' /\ c.status = "none"
  BY <1>2, <1>3 DEF Rows, Pacing!Commit, Pacing!LogKinds, Pacing!Decisions
<1> HIDE DEF c
<1>5. More(log', log, c)
  BY <1>1, <1>4, Appended, RhythmTypesAtHand
<1>6. /\ LogSound(log') /\ LastIn(log') = mem' /\ PlansIn(log') = PlansIn(log)
      /\ \A p : ResultsIn(log', p) = ResultsIn(log, p)
  <2>1. Judging(log, c.ref, mem)
    BY <1>2, <1>4
  <2>2. c.state.cursor = mem.cursor /\ c.state.pending = mem.pending /\ c.state.reactive = mem.reactive
    BY <1>3, <1>4
  <2>3. QED
    BY <1>4, <1>5, <2>1, <2>2, DecidedRow, RhythmTypesAtHand
<1>7. /\ Len(log') = Len(log) + 1 /\ Len(log) \in Nat
      /\ DOMAIN log = 1..Len(log) /\ DOMAIN log' = 1..Len(log) + 1
      /\ \A i \in DOMAIN log : log'[i] = log[i]
      /\ log'[Len(log) + 1] = c
  BY <1>5 DEF More
<1>8. RhythmTypes'
  <2>1. mem'.cursor <= Len(log') /\ cause \in 0..Len(log')
    BY <1>2, <1>3, <1>7, RhythmTypesAtHand
  <2>2. QED
    BY <1>1, <1>3, <1>6, <2>1 DEF RhythmInv, RhythmTypes, Pacing!Places
<1>9. Standing'
  <2>1. mem'.cursor <= mem'.cursor
    BY <1>3, RhythmTypesAtHand
  <2>2. Agrees(log', mem')
    BY <1>6, <2>1 DEF Agrees, Passed
  <2>3. QED
    BY <1>1, <2>2 DEF Standing
<1>10. InHand'
  <2>1. OpenPlans(log') = OpenPlans(log)
    BY <1>6 DEF OpenPlans
  <2>2. QED
    BY <1>1, <2>1 DEF RhythmInv, InHand
<1>11. TrueResults'
  <2>1. AllTrue(log', entered, ended)
    BY <1>4, <1>7 DEF RhythmInv, TrueResults, AllTrue
  <2>2. QED
    BY <1>1, <2>1 DEF TrueResults
<1>12. QED
  BY <1>6, <1>8, <1>9, <1>10, <1>11

LEMMA DeliberateStep ==
  ASSUME RhythmInv, NEW delay \in Delays, Pacing!Decide(TRUE, delay)
  PROVE  LogSound(log') /\ RhythmTypes' /\ Standing' /\ InHand' /\ TrueResults'
<1> DEFINE left == IF mem.reactive = 0 THEN 0 ELSE IF mem.pending > 0 THEN mem.pending - 1 ELSE 0
           c == Pacing!Commit("planned", cause, mem', IF mem.reactive # 0 THEN "reactive" ELSE "open")
<1>1. /\ consumer = "evaluate" /\ consumer' = "launch"
      /\ mem' = [mem EXCEPT !.pending = left, !.next = hour + delay, !.reactive = 0]
      /\ log' = Append(log, c) /\ plan' = Len(log') /\ hasDecision' = TRUE
      /\ UNCHANGED <<entered, ended, cause, open, recoverable, outcome>>
  BY DEF Pacing!Decide, Pacing!Decided, Pacing!Left, Pacing!Write, Pacing!runs
<1>2. Judging(log, cause, mem) /\ cause \in 1..Len(log)
  BY <1>1, RhythmTypesAtHand DEF RhythmInv, Standing, Judging
<1>3. /\ OpenPlans(log) = {} /\ open = {} /\ recoverable = {}
  BY <1>1 DEF RhythmInv, InHand
<1>4. left \in Nat /\ (mem.reactive # 0 => mem.pending > 0)
  <2>1. mem.reactive # 0 => mem.pending > 0
    BY <1>2, JudgingFacts, RhythmTypesAtHand
  <2>2. QED
    BY <2>1, RhythmTypesAtHand
<1>5. /\ mem' \in Pacing!State /\ mem'.cursor = mem.cursor /\ mem'.reactive = 0 /\ mem'.pending = left
  <2>1. hour + delay \in Nat
    BY PacingAssumption DEF Pacing!CadenceAssumption, RhythmInv, RhythmBounds
  <2> HIDE DEF left
  <2>2. QED
    BY <1>1, <1>4, <2>1, RhythmTypesAtHand DEF Pacing!State
<1>6. /\ c \in Rows /\ c.kind = "planned" /\ c.ref = cause /\ c.state = mem'
      /\ c.status = IF mem.reactive # 0 THEN "reactive" ELSE "open"
  BY <1>2, <1>5 DEF Rows, Pacing!Commit, Pacing!LogKinds, Pacing!Decisions
<1> HIDE DEF c
<1>7. More(log', log, c)
  BY <1>1, <1>6, Appended, RhythmTypesAtHand
<1>8. /\ LogSound(log') /\ LastIn(log') = mem'
      /\ PlansIn(log') = PlansIn(log) \cup {Len(log) + 1}
      /\ ResultsIn(log', Len(log) + 1) = {}
      /\ \A p : ResultsIn(log', p) = ResultsIn(log, p)
  <2>1. Judging(log, c.ref, mem)
    BY <1>2, <1>6
  <2>2. c.state.cursor = mem.cursor /\ c.state.reactive = 0
    BY <1>5, <1>6
  <2>3. Answers(c, mem)
    BY <1>4, <1>5, <1>6 DEF Answers
  <2>4. OpenPlans(log) = {}
    BY <1>3
  <2>5. log \in Seq(Rows) /\ LogSound(log) /\ c \in Rows /\ c.kind = "planned"
    BY <1>6, RhythmTypesAtHand
  <2>6. /\ LogSound(log') /\ LastIn(log') = c.state
        /\ PlansIn(log') = PlansIn(log) \cup {Len(log) + 1}
        /\ ResultsIn(log', Len(log) + 1) = {}
        /\ \A p : ResultsIn(log', p) = ResultsIn(log, p)
    BY <1>7, <2>1, <2>2, <2>3, <2>4, <2>5, PlannedRow
  <2>7. QED
    BY <1>6, <2>6
<1> HIDE DEF left
<1>9. /\ Len(log') = Len(log) + 1 /\ Len(log) \in Nat
      /\ DOMAIN log = 1..Len(log) /\ DOMAIN log' = 1..Len(log) + 1
      /\ \A i \in DOMAIN log : log'[i] = log[i]
      /\ log'[Len(log) + 1] = c
  BY <1>7 DEF More
<1>10. RhythmTypes'
  <2>1. mem'.cursor <= Len(log') /\ cause \in 0..Len(log')
    BY <1>2, <1>5, <1>9, RhythmTypesAtHand
  <2>2. plan' \in PlansIn(log') /\ PlansIn(log) \subseteq PlansIn(log')
    BY <1>1, <1>8, <1>9
  <2>3. entered \subseteq PlansIn(log') /\ open \subseteq PlansIn(log') /\ recoverable \subseteq PlansIn(log')
    BY <2>2 DEF RhythmInv, RhythmTypes
  <2>4. QED
    BY <1>1, <1>5, <2>1, <2>2, <2>3 DEF RhythmInv, RhythmTypes, Pacing!Places
<1>11. Standing'
  <2>1. mem'.cursor <= mem'.cursor
    BY <1>5, RhythmTypesAtHand
  <2>2. Agrees(log', mem')
    BY <1>8, <2>1 DEF Agrees, Passed
  <2>3. QED
    BY <1>1, <2>2 DEF Standing
<1>12. InHand'
  <2>1. OpenPlans(log') = {plan'}
    BY <1>1, <1>3, <1>8, <1>9 DEF OpenPlans
  <2>2. QED
    BY <1>1, <1>3, <2>1 DEF InHand
<1>13. TrueResults'
  <2>1. AllTrue(log', entered, ended)
    BY <1>6, <1>9 DEF RhythmInv, TrueResults, AllTrue
  <2>2. QED
    BY <1>1, <2>1 DEF TrueResults
<1>14. QED
  BY <1>8, <1>10, <1>11, <1>12, <1>13

LEMMA FinishStep ==
  ASSUME RhythmInv, Pacing!Finish
  PROVE  LogSound(log') /\ RhythmTypes' /\ Standing' /\ InHand' /\ TrueResults'
<1> DEFINE c == Pacing!Commit("result", plan, mem, outcome)
<1>1. /\ consumer = "finish"
      /\ consumer' = IF open # {} THEN "reconcile" ELSE "idle"
      /\ log' = Append(log, c)
      /\ UNCHANGED <<entered, ended, mem, hasDecision, cause, open, recoverable, plan, outcome>>
  BY DEF Pacing!Finish, Pacing!Write, Pacing!runs, Pacing!job
<1>2. /\ OpenPlans(log) = {plan} /\ open = {} /\ recoverable = {}
      /\ plan \in PlansIn(log) /\ ResultsIn(log, plan) = {}
  <2>1. OpenPlans(log) = {plan} /\ open = {} /\ recoverable = {}
    BY <1>1 DEF RhythmInv, InHand
  <2>2. plan \in OpenPlans(log)
    BY <2>1
  <2>3. QED
    BY <2>1, <2>2 DEF OpenPlans
<1>3. Agrees(log, mem) /\ Truthful(plan, outcome, entered, ended)
  BY <1>1 DEF RhythmInv, Standing, TrueResults
<1>4. c \in Rows /\ c.kind = "result" /\ c.ref = plan /\ c.state = mem /\ c.status = outcome
  <2>1. plan \in Nat /\ outcome \in {"none", "completed", "failed", "interrupted"}
    BY <1>2, RhythmTypesAtHand DEF PlansIn, RhythmInv, RhythmTypes
  <2>2. QED
    BY <2>1, RhythmTypesAtHand DEF Rows, Pacing!Commit, Pacing!LogKinds, Pacing!Decisions
<1> HIDE DEF c
<1>5. More(log', log, c)
  BY <1>1, <1>4, Appended, RhythmTypesAtHand
<1>6. /\ LogSound(log') /\ LastIn(log') = mem /\ PlansIn(log') = PlansIn(log)
      /\ ResultsIn(log', plan) = {Len(log) + 1}
      /\ \A p : p # plan => ResultsIn(log', p) = ResultsIn(log, p)
  <2>1. c.ref \in PlansIn(log) /\ ResultsIn(log, c.ref) = {}
    BY <1>2, <1>4
  <2>2. /\ c.state.pending = LastIn(log).pending /\ c.state.reactive = LastIn(log).reactive
        /\ Passed(log, c.state.cursor) /\ c.state.cursor <= Len(log)
    BY <1>3, <1>4, RhythmTypesAtHand DEF Agrees
  <2>3. /\ LogSound(log') /\ LastIn(log') = c.state /\ PlansIn(log') = PlansIn(log)
        /\ ResultsIn(log', c.ref) = {Len(log) + 1}
        /\ \A p : p # c.ref => ResultsIn(log', p) = ResultsIn(log, p)
    <3>1. log \in Seq(Rows) /\ LogSound(log) /\ c \in Rows /\ c.kind = "result"
      BY <1>4, RhythmTypesAtHand
    <3>2. QED
      BY <1>5, <2>1, <2>2, <3>1, ResultRow
  <2>4. QED
    BY <1>4, <2>3
<1>7. /\ Len(log') = Len(log) + 1 /\ Len(log) \in Nat
      /\ DOMAIN log = 1..Len(log) /\ DOMAIN log' = 1..Len(log) + 1
      /\ \A i \in DOMAIN log : log'[i] = log[i]
      /\ log'[Len(log) + 1] = c
  BY <1>5 DEF More
<1>8. RhythmTypes'
  <2>1. mem.cursor <= Len(log') /\ cause \in 0..Len(log')
    BY <1>7, RhythmTypesAtHand DEF RhythmInv, RhythmTypes
  <2>2. QED
    BY <1>1, <1>6, <2>1 DEF RhythmInv, RhythmTypes, Pacing!Places
<1>9. Standing'
  <2>1. mem.cursor <= mem.cursor
    BY RhythmTypesAtHand
  <2>2. Agrees(log', mem)
    BY <1>6, <2>1 DEF Agrees, Passed
  <2>3. QED
    BY <1>1, <2>2 DEF Standing
<1>10. InHand'
  <2>1. \A p \in PlansIn(log') : ResultsIn(log', p) # {}
    BY <1>2, <1>6 DEF OpenPlans
  <2>2. OpenPlans(log') = {}
    BY <2>1 DEF OpenPlans
  <2>3. QED
    BY <1>1, <1>2, <2>2 DEF InHand
<1>11. TrueResults'
  <2>1. AllTrue(log', entered, ended)
    BY <1>3, <1>4, <1>7 DEF RhythmInv, TrueResults, AllTrue
  <2>2. QED
    BY <1>1, <1>2, <2>1 DEF TrueResults
<1>12. QED
  BY <1>6, <1>8, <1>9, <1>10, <1>11

\* The run of the plan in hand.
LEMMA RecordsGrow ==
  ASSUME NEW l, NEW s, NEW e, NEW begins, NEW ends, NEW p,
         AllTrue(l, s, e), ResultsIn(l, p) = {},
         s \subseteq begins, e \subseteq ends, \A x \in ends : x \in e \/ x.plan = p
  PROVE  AllTrue(l, begins, ends)
<1> SUFFICES ASSUME NEW i \in DOMAIN l, l[i].kind = "result"
             PROVE  Truthful(l[i].ref, l[i].status, begins, ends)
  BY DEF AllTrue
<1>1. Truthful(l[i].ref, l[i].status, s, e) /\ l[i].ref # p
  BY DEF AllTrue, ResultsIn
<1>2. QED
  BY <1>1 DEF Truthful, RunEnded

LEMMA RunSteps ==
  ASSUME RhythmInv,
         \/ Pacing!Launch \/ Pacing!LaunchFails
         \/ (\E status \in {"completed", "failed"} : Pacing!RunReturns(status))
         \/ (\E recorded \in {{}, {"completed"}, {"failed"}} : Pacing!RunRaises(recorded))
         \/ Pacing!StopRun
  PROVE  LogSound(log') /\ RhythmTypes' /\ Standing' /\ InHand' /\ TrueResults'
<1> DEFINE Ends(S) == {Pacing!End(plan, status) : status \in S}
<1>1. /\ consumer \in {"launch", "running"} /\ log' = log
      /\ \/ consumer = "launch" /\ consumer' = "running" /\ plan \notin entered
            /\ entered' = entered \cup {plan} /\ ended' = ended
            /\ UNCHANGED <<mem, hasDecision, cause, open, recoverable, plan, outcome>>
         \/ consumer = "launch" /\ consumer' = "finish" /\ entered' = entered /\ ended' = ended
            /\ outcome' = "failed"
            /\ UNCHANGED <<mem, hasDecision, cause, open, recoverable, plan>>
         \/ consumer = "running" /\ consumer' = "finish" /\ entered' = entered
            /\ outcome' \in {"completed", "failed"} /\ ended' = ended \cup Ends({outcome'})
            /\ UNCHANGED <<mem, hasDecision, cause, open, recoverable, plan>>
         \/ consumer = "running" /\ consumer' = "finish" /\ entered' = entered
            /\ outcome' = "failed"
            /\ (\E S \in {{}, {"completed"}, {"failed"}} : ended' = ended \cup Ends(S))
            /\ UNCHANGED <<mem, hasDecision, cause, open, recoverable, plan>>
         \/ consumer = "running" /\ consumer' = "down" /\ entered' = entered
            /\ ended' = ended \cup Ends({"cancelled"})
            /\ mem' = Pacing!NoState /\ hasDecision' = FALSE /\ cause' = 0
            /\ open' = {} /\ recoverable' = {} /\ plan' = 0 /\ outcome' = "none"
  BY DEF Pacing!Launch, Pacing!LaunchFails, Pacing!RunReturns, Pacing!RunRaises, Pacing!StopRun,
         Pacing!Forget, Pacing!runs, Pacing!job
<1>2. PICK S \in SUBSET {"completed", "failed", "cancelled"} :
        /\ consumer = "running" \/ S = {}
        /\ ended' = ended \cup Ends(S)
        /\ consumer' = "finish" => outcome' \in {"completed", "failed"}
        /\ consumer' = "finish" /\ outcome' = "completed" => "completed" \in S
  <2>1. CASE consumer = "launch"
    <3>1. {} \in SUBSET {"completed", "failed", "cancelled"} /\ Ends({}) = {}
      OBVIOUS
    <3>2. ended' = ended /\ (consumer' = "finish" => outcome' = "failed")
      BY <1>1, <2>1
    <3>3. QED
      BY <3>1, <3>2
  <2>2. CASE consumer = "running"
    <3> HIDE DEF Ends
    <3>1. \/ consumer' = "finish" /\ outcome' \in {"completed", "failed"} /\ ended' = ended \cup Ends({outcome'})
          \/ /\ consumer' = "finish" /\ outcome' = "failed"
             /\ \E S \in {{}, {"completed"}, {"failed"}} : ended' = ended \cup Ends(S)
          \/ consumer' = "down" /\ ended' = ended \cup Ends({"cancelled"})
      BY <1>1, <2>2
    <3>2. CASE outcome' \in {"completed", "failed"} /\ ended' = ended \cup Ends({outcome'})
      <4>1. {outcome'} \in SUBSET {"completed", "failed", "cancelled"}
        BY <3>2
      <4>2. QED
        BY <2>2, <3>2, <4>1
    <3>3. CASE outcome' = "failed" /\ \E S \in {{}, {"completed"}, {"failed"}} : ended' = ended \cup Ends(S)
      <4>1. PICK S \in {{}, {"completed"}, {"failed"}} : ended' = ended \cup Ends(S)
        BY <3>3
      <4>2. S \in SUBSET {"completed", "failed", "cancelled"}
        BY <4>1
      <4>3. QED
        BY <2>2, <3>3, <4>1, <4>2
    <3>4. CASE consumer' = "down" /\ ended' = ended \cup Ends({"cancelled"})
      <4>1. {"cancelled"} \in SUBSET {"completed", "failed", "cancelled"}
        OBVIOUS
      <4>2. QED
        BY <2>2, <3>4, <4>1
    <3>5. QED
      BY <3>1, <3>2, <3>3, <3>4
  <2>3. QED
    BY <1>1, <2>1, <2>2
<1>3. entered' = entered \/ (consumer = "launch" /\ consumer' = "running" /\ plan \notin entered
                             /\ entered' = entered \cup {plan} /\ plan' = plan)
  BY <1>1
<1>4. /\ OpenPlans(log) = {plan} /\ open = {} /\ recoverable = {}
      /\ plan \in PlansIn(log) /\ ResultsIn(log, plan) = {}
  <2>1. OpenPlans(log) = {plan} /\ open = {} /\ recoverable = {}
    BY <1>1 DEF RhythmInv, InHand
  <2>2. plan \in OpenPlans(log)
    BY <2>1
  <2>3. QED
    BY <2>1, <2>2 DEF OpenPlans
<1>5. S # {} => plan \in entered
  BY <1>2 DEF RhythmInv, TrueResults
<1>6. /\ entered' \subseteq PlansIn(log')
      /\ ended' \subseteq [plan : entered', status : {"completed", "failed", "cancelled"}]
  <2>1. /\ entered \subseteq PlansIn(log)
        /\ ended \subseteq [plan : entered, status : {"completed", "failed", "cancelled"}]
    BY DEF RhythmInv, RhythmTypes
  <2>2. entered \subseteq entered' /\ entered' \subseteq PlansIn(log')
    BY <1>1, <1>3, <1>4, <2>1
  <2>3. \A e \in Ends(S) : e \in [plan : entered, status : {"completed", "failed", "cancelled"}]
    BY <1>5 DEF Pacing!End
  <2>4. QED
    BY <1>2, <2>1, <2>2, <2>3
<1>7. AllTrue(log', entered', ended')
  <2>1. \A e \in ended' : e \in ended \/ e.plan = plan
    BY <1>2 DEF Pacing!End
  <2>2. entered \subseteq entered' /\ ended \subseteq ended'
    BY <1>2, <1>3
  <2>3. AllTrue(log, entered, ended)
    BY DEF RhythmInv, TrueResults
  <2>4. AllTrue(log, entered', ended')
    BY <1>4, <2>1, <2>2, <2>3, RecordsGrow
  <2>5. QED
    BY <1>1, <2>4
<1>8. CASE consumer' = "down"
  <2>1. /\ mem' = Pacing!NoState /\ hasDecision' = FALSE /\ cause' = 0
        /\ open' = {} /\ recoverable' = {} /\ plan' = 0 /\ outcome' = "none" /\ log' = log
    BY <1>1, <1>8
  <2>2. /\ Pacing!NoState \in Pacing!State /\ Pacing!NoState.cursor <= Len(log)
        /\ 0 \in 0..Len(log)
    BY RhythmTypesAtHand DEF Pacing!NoState, Pacing!State
  <2>3. RhythmTypes'
    BY <1>6, <1>8, <2>1, <2>2 DEF RhythmTypes, Pacing!Places
  <2>4. Standing' /\ InHand' /\ TrueResults'
    BY <1>7, <1>8, <2>1 DEF Standing, InHand, TrueResults
  <2>5. QED
    BY <2>1, <2>3, <2>4 DEF RhythmInv
<1>9. CASE consumer' # "down"
  <2>1. /\ consumer' \in {"running", "finish"} /\ log' = log
        /\ UNCHANGED <<mem, hasDecision, cause, open, recoverable, plan>>
        /\ outcome' \in {outcome, "completed", "failed"}
    BY <1>1, <1>9
  <2>2. RhythmTypes'
    BY <1>6, <2>1 DEF RhythmInv, RhythmTypes, Pacing!Places
  <2>3. Standing'
    BY <1>1, <2>1 DEF RhythmInv, Standing
  <2>4. InHand'
    BY <1>4, <2>1 DEF InHand
  <2>5. TrueResults'
    <3>1. consumer' = "finish" => Truthful(plan', outcome', entered', ended')
      BY <1>2, <2>1 DEF Truthful
    <3>2. ASSUME consumer' = "running" PROVE plan' \in entered' /\ ~RunEnded(plan', ended')
      <4>1. plan \notin entered /\ entered' = entered \cup {plan} /\ ended' = ended /\ plan' = plan
        BY <1>1, <3>2
      <4>2. \A e \in ended : e.plan \in entered
        BY DEF RhythmInv, RhythmTypes
      <4>3. QED
        BY <4>1, <4>2 DEF RunEnded
    <3>3. QED
      BY <1>7, <3>1, <3>2 DEF TrueResults
  <2>6. QED
    BY <2>1, <2>2, <2>3, <2>4, <2>5 DEF RhythmInv
<1>10. QED
  BY <1>8, <1>9

LEMMA RhythmInit == Pacing!Init => RhythmInv
<1> SUFFICES ASSUME Pacing!Init PROVE RhythmInv
  OBVIOUS
<1>1. /\ log = <<>> /\ entered = {} /\ ended = {} /\ consumer = "down" /\ mem = Pacing!NoState
      /\ hasDecision = FALSE /\ cause = 0 /\ open = {} /\ recoverable = {} /\ plan = 0
      /\ outcome = "none" /\ hour = 0 /\ events = 0 /\ faults = 0
  BY DEF Pacing!Init
<1>2. log \in Seq(Rows) /\ Len(log) = 0 /\ DOMAIN log = {}
  BY <1>1, EmptySeq
<1>3. Pacing!NoState \in Pacing!State /\ Pacing!NoState.cursor = 0 /\ Pacing!NoState.pending = 0
      /\ Pacing!NoState.reactive = 0
  BY DEF Pacing!NoState, Pacing!State
<1>4. ToldIn(log) = {} /\ PlansIn(log) = {} /\ JudgedIn(log) = {} /\ AnsweredIn(log) = {}
  BY <1>2 DEF ToldIn, PlansIn, JudgedIn, AnsweredIn, SinceOpen
<1>5. LastIn(log) = Pacing!NoState
  BY <1>4 DEF LastIn
<1>6. LogTypes(log)
  BY <1>2, <1>3, <1>4, <1>5 DEF LogTypes
<1>7. Pressed(log, LastIn(log).pending)
  <2>1. Cardinality({}) = 0
    BY FS_EmptySet
  <2>2. QED
    BY <1>3, <1>4, <1>5, <2>1 DEF Pressed
<1>8. LogSound(log)
  BY <1>2, <1>4, <1>6, <1>7 DEF LogSound, JudgedTo, Remembered, InTurn
<1>9. RhythmTypes
  <2>1. mem \in Pacing!State /\ mem.cursor <= Len(log) /\ cause \in 0..Len(log)
    BY <1>1, <1>2, <1>3
  <2>2. consumer \in Pacing!Places
    BY <1>1 DEF Pacing!Places
  <2>3. QED
    BY <1>1, <2>1, <2>2 DEF RhythmTypes
<1>10. RhythmBounds
  BY <1>1, PacingAssumption, LenProperties DEF RhythmBounds, Pacing!CadenceAssumption
<1>11. Standing /\ InHand /\ TrueResults
  BY <1>1, <1>2 DEF Standing, InHand, TrueResults, AllTrue
<1>12. QED
  BY <1>8, <1>9, <1>10, <1>11 DEF RhythmInv

LEMMA RhythmStep == RhythmInv /\ [Pacing!Next]_(Pacing!vars) => RhythmInv'
<1> SUFFICES ASSUME RhythmInv, [Pacing!Next]_(Pacing!vars) PROVE RhythmInv'
  OBVIOUS
<1>1. CASE UNCHANGED Pacing!vars
  BY <1>1 DEF Pacing!vars, Pacing!runs, Pacing!job, Pacing!env, RhythmInv, RhythmTypes, RhythmBounds,
              Standing, InHand, TrueResults
<1>2. CASE Pacing!Next
  <2>1. RhythmBounds'
    BY <1>2, RhythmBoundsStep
  <2>2. LogSound(log') /\ RhythmTypes' /\ Standing' /\ InHand' /\ TrueResults'
    <3>1. CASE Pacing!TimePasses \/ Pacing!Initialized \/ Pacing!CheckTime \/ Pacing!Crash
      BY <3>1, QuietSteps
    <3>2. CASE Pacing!Start
      BY <3>2, ReadStep
    <3>3. CASE \E p \in open : Pacing!Reconcile(p)
      BY <3>3, ReconcileStep
    <3>4. CASE \E p \in recoverable : Pacing!Recover(p)
      BY <3>4, RecoverStep
    <3>5. CASE Pacing!Skip
      BY <3>5, SkipStep
    <3>6. CASE Pacing!Count
      BY <3>6, CountStep
    <3>7. CASE Pacing!SubmitTick
      BY <3>7, SubmitTickStep
    <3>8. CASE \E deliberating \in BOOLEAN, delay \in Delays : Pacing!Decide(deliberating, delay)
      <4>1. PICK deliberating \in BOOLEAN, delay \in Delays : Pacing!Decide(deliberating, delay)
        BY <3>8
      <4>2. CASE deliberating = TRUE
        <5>1. Pacing!Decide(TRUE, delay)
          BY <4>1, <4>2
        <5>2. QED
          BY <5>1, DeliberateStep
      <4>3. CASE deliberating = FALSE
        <5>1. Pacing!Decide(FALSE, delay)
          BY <4>1, <4>3
        <5>2. QED
          BY <5>1, DeclineStep
      <4>4. QED
        BY <4>2, <4>3
    <3>9. CASE \/ Pacing!Launch \/ Pacing!LaunchFails
               \/ (\E status \in {"completed", "failed"} : Pacing!RunReturns(status))
               \/ (\E recorded \in {{}, {"completed"}, {"failed"}} : Pacing!RunRaises(recorded))
               \/ Pacing!StopRun
      BY <3>9, RunSteps
    <3>10. CASE Pacing!Finish
      BY <3>10, FinishStep
    <3>11. CASE Pacing!WorldCommits
      BY <3>11, WorldCommitsStep
    <3>12. QED
      BY <1>2, <3>1, <3>2, <3>3, <3>4, <3>5, <3>6, <3>7, <3>8, <3>9, <3>10, <3>11
         DEF Pacing!Next, Pacing!Consumer
  <2>3. QED
    BY <2>1, <2>2 DEF RhythmInv
<1>3. QED
  BY <1>1, <1>2

\* Each event of the world is judged once, no pressure is lost or counted twice, a
\* reactive event is answered or remembered, and plans are carried out once and one
\* after the other with true results, over every crash, failure and restart.
THEOREM CadenceIsSound == Pacing!Spec => []CadenceSound
<1> USE DEF CadenceSound
<1>1. RhythmInv => Pacing!CadenceSound
  <2> SUFFICES ASSUME RhythmInv PROVE Pacing!CadenceSound
    OBVIOUS
  <2>1. /\ Pacing!Plans = PlansIn(log)
        /\ \A p : Pacing!Results(p) = ResultsIn(log, p)
        /\ \A i : Pacing!Judgements(i) = JudgementsIn(log, i)
    BY DEF Pacing!Plans, PlansIn, Pacing!Results, ResultsIn, Pacing!Judgements, JudgementsIn
  <2>2. Pacing!TypeOK
    <3>1. \A i \in DOMAIN log : log[i].kind \in Pacing!LogKinds /\ log[i].state \in Pacing!State
      <4>1. \A i \in DOMAIN log : log[i] \in Rows
        BY RhythmTypesAtHand, ElementOfSeq
      <4>2. QED
        BY <4>1 DEF Rows
    <3>2. QED
      BY <2>1, <3>1 DEF RhythmInv, RhythmTypes, RhythmBounds, Pacing!TypeOK
  <2>3. \A S : (\A x, y \in S : x = y) => Pacing!Cardinality(S) <= 1
    <3> SUFFICES ASSUME NEW S, \A x, y \in S : x = y PROVE Pacing!Cardinality(S) <= 1
      OBVIOUS
    <3>1. Pacing!Cardinality(S) = Cardinality(S)
      BY DEF Pacing!Cardinality, Cardinality
    <3>2. CASE S = {}
      BY <3>1, <3>2, FS_EmptySet
    <3>3. CASE S # {}
      <4>1. PICK x : S = {x}
        BY <3>3
      <4>2. QED
        BY <3>1, <4>1, FS_Singleton
    <3>4. QED
      BY <3>2, <3>3
  <2>4. Pacing!JudgedOnce
    <3> SUFFICES ASSUME NEW i \in DOMAIN log, External(log, i)
                 PROVE  /\ Pacing!Cardinality(Pacing!Judgements(i)) <= 1
                        /\ i <= LastIn(log).cursor \/ (consumer = "idle" /\ i <= mem.cursor) =>
                             Pacing!Judgements(i) # {}
      BY Readings DEF Pacing!JudgedOnce
    <3>1. /\ \A d, e \in JudgementsIn(log, i) : d = e
          /\ JudgementsIn(log, i) # {} <=> i <= LastIn(log).cursor
      BY DEF RhythmInv, LogSound, JudgedTo
    <3>2. consumer = "idle" /\ i <= mem.cursor => i <= LastIn(log).cursor
      BY DEF RhythmInv, Standing, Agrees, Passed
    <3>3. QED
      BY <2>1, <2>3, <3>1, <3>2
  <2>5. Pacing!PressureExact
    <3>1. Pressed(log, LastIn(log).pending)
      BY DEF RhythmInv, LogSound
    <3>2. \A S : Pacing!Cardinality(S) = Cardinality(S)
      BY DEF Pacing!Cardinality, Cardinality
    <3> DEFINE opened == {p \in Pacing!Plans : log[p].status = "open"}
               since == {d \in DOMAIN log : \A p \in opened : d > p}
               judged == {d \in since : log[d].kind \in Pacing!Decisions /\ Pacing!Counts(log[d].ref)}
               answered == {p \in since : p \in Pacing!Plans /\ log[p].status = "reactive"}
    <3>3. since = SinceOpen(log)
      BY <2>1 DEF SinceOpen
    <3> HIDE DEF since
    <3>4. judged = JudgedIn(log)
      BY <3>3, Readings DEF JudgedIn
    <3>5. answered = AnsweredIn(log)
      BY <2>1, <3>3 DEF AnsweredIn, PlansIn, SinceOpen
    <3> HIDE DEF judged, answered
    <3>6. Pacing!LastState.pending + Pacing!Cardinality(answered) = Pacing!Cardinality(judged)
      BY <3>1, <3>2, <3>4, <3>5, Readings DEF Pressed
    <3>7. QED
      BY <3>6 DEF Pacing!PressureExact, judged, answered, since
  <2>6. Pacing!ReactiveKept
    <3>1. Remembered(log, LastIn(log))
      BY DEF RhythmInv, LogSound
    <3>2. QED
      BY <2>1, <3>1, Readings DEF Pacing!ReactiveKept, Remembered
  <2>7. Pacing!PlansRunOnce
    <3>1. \A p \in PlansIn(log) : Pacing!Cardinality(ResultsIn(log, p)) <= 1
      BY <2>3 DEF RhythmInv, LogSound, InTurn
    <3>2. \A p \in PlansIn(log) : \A i \in ResultsIn(log, p) :
            /\ log[i].status = "completed" => Pacing!End(p, "completed") \in ended
            /\ log[i].status = "interrupted" => p \in entered /\ ~Pacing!Ended(p)
      BY Readings DEF RhythmInv, TrueResults, AllTrue, Truthful, ResultsIn
    <3>3. \A p, q \in PlansIn(log) : p < q =>
            ResultsIn(log, p) # {} /\ \A i \in ResultsIn(log, p) : i < q
      BY DEF RhythmInv, LogSound, InTurn
    <3>4. consumer = "running" => ResultsIn(log, plan) = {} /\ ~Pacing!Ended(plan)
      <4>1. consumer = "running" => plan \in OpenPlans(log) /\ ~RunEnded(plan, ended)
        BY DEF RhythmInv, InHand, TrueResults
      <4>2. QED
        BY <4>1, Readings DEF OpenPlans
    <3>5. QED
      BY <2>1, <3>1, <3>2, <3>3, <3>4 DEF Pacing!PlansRunOnce
  <2>8. QED
    BY <2>2, <2>4, <2>5, <2>6, <2>7 DEF Pacing!CadenceSound, Pacing!PressureSound
<1>2. QED
  BY <1>1, RhythmInit, RhythmStep, PTL DEF Pacing!Spec
=============================================================================
