--------------------------- MODULE EngineRunProofs ---------------------------
(***************************************************************************)
(* Theorems of EngineRun: the engine drives the ReAct run only in ways     *)
(* AgentRun allows, so what is proved of AgentRun holds of it, and the     *)
(* journal accounts for the run at every moment.                           *)
(***************************************************************************)
EXTENDS EngineRun, ProofLemmas, FiniteSetTheorems

\* The ReAct run with its theorems.
Proven == INSTANCE AgentRunProofs

-----------------------------------------------------------------------------
\* The run that is driven.

\* Both instances of AgentRun are of the same variables and constants: with all
\* definitions expanded they are the same.
LEMMA SameAgent ==
  /\ Agent!Init <=> Proven!Init
  /\ Agent!Next <=> Proven!Next
  /\ UNCHANGED Agent!vars <=> UNCHANGED Proven!vars
<1>1. Agent!Init <=> Proven!Init
  BY DEF Agent!Init, Proven!Init, Agent!Input, Proven!Input
<1>2. Agent!Next <=> Proven!Next
  BY DEF Agent!ToSet, Proven!ToSet, Agent!IsInjective, Proven!IsInjective,
         Agent!ending, Proven!ending, Agent!record, Proven!record, Agent!intake,
         Proven!intake, Agent!stats, Proven!stats, Agent!local, Proven!local,
         Agent!vars, Proven!vars, Agent!Terminal, Proven!Terminal,
         Agent!TerminalStatus, Proven!TerminalStatus, Agent!AtAwait, Proven!AtAwait,
         Agent!Awaits, Proven!Awaits, Agent!Input, Proven!Input, Agent!Assistant,
         Proven!Assistant, Agent!ToolResult, Proven!ToolResult, Agent!Proposed,
         Proven!Proposed, Agent!Answered, Proven!Answered, Agent!Open, Proven!Open,
         Agent!ValidHistory, Proven!ValidHistory, Agent!FirstPending,
         Proven!FirstPending, Agent!Pending, Proven!Pending, Agent!ModelBudgetLeft,
         Proven!ModelBudgetLeft, Agent!ToolBudgetLeft, Proven!ToolBudgetLeft,
         Agent!Finish, Proven!Finish, Agent!MarkUnknown, Proven!MarkUnknown,
         Agent!RecordOutput, Proven!RecordOutput, Agent!AppendMessage,
         Proven!AppendMessage, Agent!Cancel, Proven!Cancel, Agent!Drive,
         Proven!Drive, Agent!EndCancelled, Proven!EndCancelled, Agent!NextAdvance,
         Proven!NextAdvance, Agent!AdvanceReturns, Proven!AdvanceReturns,
         Agent!LimitReached, Proven!LimitReached, Agent!BeginModelStep,
         Proven!BeginModelStep, Agent!StartTool, Proven!StartTool,
         Agent!BeginToolStep, Proven!BeginToolStep, Agent!AbandonStep,
         Proven!AbandonStep, Agent!LeftInQueue, Proven!LeftInQueue,
         Agent!AssembleReturns, Proven!AssembleReturns, Agent!FinalAnswer,
         Proven!FinalAnswer, Agent!ModelReplies, Proven!ModelReplies, Agent!Refused,
         Proven!Refused, Agent!PolicyDecides, Proven!PolicyDecides, Agent!Running,
         Proven!Running, Agent!ToolReturns, Proven!ToolReturns,
         Agent!ToolEffectUnknown, Proven!ToolEffectUnknown, Agent!AwaitRaises,
         Proven!AwaitRaises, Agent!DriverCancelled, Proven!DriverCancelled,
         Agent!Replies, Proven!Replies, Agent!AwaitReturns, Proven!AwaitReturns,
         Agent!Driver, Proven!Driver, Agent!Host, Proven!Host, Agent!Next,
         Proven!Next
<1>3. UNCHANGED Agent!vars <=> UNCHANGED Proven!vars
  BY DEF Agent!vars, Agent!ending, Agent!record, Agent!intake, Agent!stats, Agent!local,
         Proven!vars, Proven!ending, Proven!record, Proven!intake, Proven!stats, Proven!local
<1>4. QED
  BY <1>1, <1>2, <1>3

\* What the engine leaves alone, the run does.
LEMMA AgentStays ==
  ASSUME UNCHANGED agentVars
  PROVE  UNCHANGED Agent!vars
BY DEF agentVars, Agent!vars, Agent!ending, Agent!record, Agent!intake, Agent!stats, Agent!local

LEMMA SettleDrives == ASSUME NEW cause, Settle(cause) PROVE [Agent!Next]_(Agent!vars)
<1>1. CASE Agent!Terminal
  BY <1>1, AgentStays DEF Settle, EndAgent
<1>2. CASE ~Agent!Terminal
  BY <1>2 DEF Settle, EndAgent, Agent!Next, Agent!Host
<1>3. QED
  BY <1>1, <1>2

\* The agent is only handed answers that the model may give.
Asked == reply \in Replies

LEMMA AskedInit == Init => Asked
<1> SUFFICES ASSUME Init PROVE Asked
  OBVIOUS
<1>1. reply \in [1..0 -> CallIds] /\ 0 \in 0..MaxBatch
  BY EngineAssumption DEF Init
<1>2. QED
  BY <1>1 DEF Asked, Replies

LEMMA AskedStep == Asked /\ [Next]_vars => Asked'
<1> SUFFICES ASSUME Asked, [Next]_vars PROVE Asked'
  OBVIOUS
<1>1. <<>> \in Replies
  <2>1. <<>> \in [1..0 -> CallIds] /\ 0 \in 0..MaxBatch
    BY EngineAssumption
  <2>2. QED
    BY <2>1 DEF Replies
<1>2. reply' \in Replies
  BY <1>1 DEF Asked, Next, vars, control, Loop, Steps, Interruption, Others, Lookup, Record,
     NotifyReturns, RecordsDone, CommitOutput, Finish, Claim, BeforeStep, AfterStep,
     Leave, GoTo, Settle, EnterSettlement, Stepped, RequestModel, ModelAnswers,
     ModelFails, RecordAnswer, LookAtWorld, Seal, AgentAdvances, Assembled, BeginTool,
     AgentGetsReply, Disclose, ToolAllowed, ToolEnds, InterruptClaim, SettlementFails,
     StepRaises, StepCancelled, LoopInterrupted, WorldCommit, RivalStarts, HostCancels,
     HostAppends
<1>3. QED
  BY <1>2 DEF Asked, Replies

LEMMA StepDrives == Asked /\ [Next]_vars => [Agent!Next]_(Agent!vars)
<1> SUFFICES ASSUME Asked, [Next]_vars PROVE Agent!Next \/ UNCHANGED Agent!vars
  OBVIOUS
<1>1. CASE UNCHANGED vars
  BY <1>1, AgentStays DEF vars
<1>2. CASE Loop
  <2>1. CASE Lookup \/ Record \/ NotifyReturns \/ RecordsDone \/ CommitOutput \/ Finish
    BY <2>1, AgentStays
       DEF Lookup, Record, NotifyReturns, RecordsDone, CommitOutput, Finish
  <2>2. CASE Claim
    BY <2>2, AgentStays, SettleDrives DEF Claim
  <2>3. CASE BeforeStep
    BY <2>3, AgentStays DEF BeforeStep, Agent!Next, Agent!Host
  <2>4. CASE AfterStep
    BY <2>4, AgentStays, SettleDrives DEF AfterStep
  <2>5. QED
    BY <1>2, <2>1, <2>2, <2>3, <2>4 DEF Loop
<1>3. CASE Steps
  <2>1. CASE \/ RequestModel \/ (\E ids \in Replies : ModelAnswers(ids)) \/ ModelFails
             \/ RecordAnswer \/ LookAtWorld \/ Seal
    BY <2>1, AgentStays
       DEF RequestModel, ModelAnswers, ModelFails, RecordAnswer, LookAtWorld, Seal
  <2>2. CASE AgentAdvances \/ Assembled \/ BeginTool
    BY <2>2 DEF AgentAdvances, Assembled, BeginTool, Agent!Next, Agent!Driver, Agent!AwaitReturns
  <2>3. CASE AgentGetsReply
    BY <2>3 DEF Asked, Replies, Agent!Replies, AgentGetsReply, Agent!Next, Agent!Driver, Agent!AwaitReturns
  <2>4. CASE Disclose \/ ToolAllowed
    BY <2>4 DEF Disclose, ToolAllowed, Agent!Next, Agent!Driver, Agent!Host, Agent!AwaitReturns
  <2>5. CASE ToolEnds
    BY <2>5 DEF ToolEnds, Agent!Next, Agent!Driver, Agent!AwaitReturns
  <2>6. QED
    BY <1>3, <2>1, <2>2, <2>3, <2>4, <2>5 DEF Steps
<1>4. CASE Interruption
  <2>1. CASE InterruptClaim \/ SettlementFails
    BY <2>1, AgentStays DEF InterruptClaim, SettlementFails
  <2>2. CASE StepRaises \/ StepCancelled
    BY <2>2 DEF StepRaises, StepCancelled, Agent!Next, Agent!Driver, Agent!Host
  <2>3. CASE \E cause \in {"error", "cancelled"} : LoopInterrupted(cause)
    BY <2>3, SettleDrives DEF LoopInterrupted
  <2>4. QED
    BY <1>4, <2>1, <2>2, <2>3 DEF Interruption
<1>5. CASE Others
  BY <1>5, AgentStays
     DEF Others, WorldCommit, RivalStarts, HostCancels, HostAppends, Agent!Next, Agent!Host
<1>6. QED
  BY <1>1, <1>2, <1>3, <1>4, <1>5 DEF Next

\* The engine drives the run only in ways AgentRun allows.
THEOREM DrivesAgent == Spec => DrivesTheAgent
<1>1. Init => Agent!Init
  BY DEF Init
<1>2. Init => Asked
  BY AskedInit
<1>3. Asked /\ [Next]_vars => Asked'
  BY AskedStep
<1>4. Asked /\ [Next]_vars => [Agent!Next]_(Agent!vars)
  BY StepDrives
<1>5. QED
  BY <1>1, <1>2, <1>3, <1>4, PTL DEF Spec, DrivesTheAgent, Agent!Spec

\* What is proved of every run holds of one in the engine.
THEOREM RunInvariance == Spec => []Proven!HInv
<1>1. Proven!RunAssumption
  BY EngineAssumption DEF Proven!RunAssumption
<1>2. Agent!Spec => Proven!Spec
  BY SameAgent, PTL DEF Agent!Spec, Proven!Spec
<1>3. Proven!Spec => []Proven!HInv
  BY <1>1, Proven!HistoryInvariance
<1>4. QED
  BY <1>2, <1>3, DrivesAgent, PTL DEF DrivesTheAgent

-----------------------------------------------------------------------------
\* Sequences, positions and pages.

\* What a set keeps of a sequence: its elements in the set, and only those.
LEMMA ChosenFacts ==
  ASSUME NEW S, NEW seq \in Seq(S), NEW keep
  PROVE  /\ Chosen(seq, keep) \in Seq(S)
         /\ \A i \in 1..Len(Chosen(seq, keep)) :
              Chosen(seq, keep)[i] \in keep
              /\ \E j \in 1..Len(seq) : Chosen(seq, keep)[i] = seq[j]
         /\ \A j \in 1..Len(seq) : seq[j] \in keep =>
              \E i \in 1..Len(Chosen(seq, keep)) : Chosen(seq, keep)[i] = seq[j]
<1> DEFINE L == Len(seq)
           Then(e, n) == IF seq[n] \in keep THEN Append(e, seq[n]) ELSE e
           F(f) == [n \in 0..L |-> IF n = 0 THEN <<>>
                                   ELSE IF seq[n] \in keep THEN Append(f[n - 1], seq[n])
                                        ELSE f[n - 1]]
           f == CHOOSE f : f = F(f)
           Upto(g, m) == \A n \in 0..m : g[n] = IF n = 0 THEN <<>> ELSE Then(g[n - 1], n)
           Good(e, n) == /\ e \in Seq(S)
                         /\ \A i \in 1..Len(e) : e[i] \in keep /\ \E j \in 1..n : e[i] = seq[j]
                         /\ \A j \in 1..n : seq[j] \in keep => \E i \in 1..Len(e) : e[i] = seq[j]
<1>1. L \in Nat /\ \A j \in 1..L : seq[j] \in S
  OBVIOUS
<1>2. Chosen(seq, keep) = f[L]
  BY Zenon DEF Chosen
<1>3. \E g : g = F(g)
  <2> DEFINE T == {m \in 0..L : ~\E g : Upto(g, m)}
  <2>1. T = {}
    <3> SUFFICES ASSUME T # {} PROVE FALSE
      OBVIOUS
    <3>1. T \in SUBSET Nat
      OBVIOUS
    <3>2. PICK m \in T : \A k \in T : m <= k
      BY <3>1, LeastNatural
    <3>3. m # 0
      <4>1. Upto([n \in {0} |-> <<>>], 0)
        OBVIOUS
      <4>2. 0 \notin T
        BY <4>1
      <4>3. QED
        BY <4>2
    <3>4. m - 1 \in 0..L /\ m - 1 \notin T
      <4>1. m \in 0..L
        BY <3>2
      <4>2. m - 1 \in 0..L /\ ~(m <= m - 1)
        BY <1>1, <3>3, <4>1
      <4> HIDE DEF T
      <4>3. QED
        BY <3>2, <4>2
    <3>5. PICK g : Upto(g, m - 1)
      BY <3>4
    <3> DEFINE h == [n \in 0..m |-> IF n = m THEN Then(g[m - 1], m) ELSE g[n]]
    <3>6. Upto(h, m)
      <4>1. m \in Nat /\ m # 0
        BY <3>2, <3>3
      <4>2. ASSUME NEW n \in 0..m PROVE h[n] = IF n = 0 THEN <<>> ELSE Then(h[n - 1], n)
        <5>1. CASE n = m
          <6>1. m - 1 \in 0..m /\ m - 1 # m
            BY <4>1
          <6>2. h[m - 1] = g[m - 1] /\ h[m] = Then(g[m - 1], m)
            BY <4>1, <6>1
          <6>3. QED
            BY <4>1, <5>1, <6>2
        <5>2. CASE n # m
          <6>1. n \in 0..m - 1 /\ (n # 0 => n - 1 \in 0..m /\ n - 1 # m)
            BY <4>1, <5>2
          <6>2. h[n] = g[n] /\ (n # 0 => h[n - 1] = g[n - 1])
            BY <5>2, <6>1
          <6>3. QED
            BY <3>5, <6>1, <6>2
        <5>3. QED
          BY <5>1, <5>2
      <4>3. QED
        BY <4>2
    <3>7. QED
      BY <3>2, <3>6
  <2>2. PICK g : Upto(g, L)
    BY <1>1, <2>1
  <2> DEFINE h == [n \in 0..L |-> g[n]]
  <2>3. \A n \in 0..L : h[n] = IF n = 0 THEN <<>> ELSE Then(h[n - 1], n)
    BY <1>1, <2>2
  <2>4. h = F(h)
    BY <2>3
  <2>5. QED
    BY <2>4
<1>4. f = F(f)
  BY <1>3, Zenon
<1> HIDE DEF f
<1>5. \A n \in 0..L : f[n] = IF n = 0 THEN <<>> ELSE Then(f[n - 1], n)
  BY <1>4
<1> DEFINE T == {n \in 0..L : ~Good(f[n], n)}
<1>6. T = {}
  <2> SUFFICES ASSUME T # {} PROVE FALSE
    OBVIOUS
  <2>1. T \in SUBSET Nat
    OBVIOUS
  <2>2. PICK n \in T : \A k \in T : n <= k
    BY <2>1, LeastNatural
  <2>3. n \in 0..L /\ ~Good(f[n], n)
    BY <2>2
  <2>4. n # 0
    <3>1. 0 \in 0..L /\ f[0] = <<>>
      BY <1>1, <1>5
    <3>2. Good(<<>>, 0)
      OBVIOUS
    <3> HIDE DEF Good
    <3>3. QED
      BY <2>3, <3>1, <3>2
  <2>5. n - 1 \in 0..L /\ n - 1 \notin T /\ n \in 1..L
    BY <1>1, <2>2, <2>4
  <2> DEFINE e == f[n - 1]
  <2>6. Good(e, n - 1)
    BY <2>5
  <2>7. f[n] = Then(e, n) /\ seq[n] \in S
    BY <1>1, <1>5, <2>3, <2>4, <2>5
  <2> HIDE DEF e
  <2>8. CASE seq[n] \in keep
    <3> DEFINE d == Append(e, seq[n])
    <3>1. /\ e \in Seq(S) /\ d \in Seq(S) /\ Len(d) = Len(e) + 1 /\ Len(e) \in Nat
          /\ d[Len(e) + 1] = seq[n] /\ \A i \in 1..Len(e) : d[i] = e[i]
      BY <2>6, <2>7
    <3> HIDE DEF d
    <3>2. ASSUME NEW i \in 1..Len(d) PROVE d[i] \in keep /\ \E j \in 1..n : d[i] = seq[j]
      <4>1. CASE i = Len(e) + 1
        BY <2>5, <2>8, <3>1, <4>1
      <4>2. CASE i # Len(e) + 1
        <5>1. i \in 1..Len(e)
          BY <3>1, <4>2
        <5>2. PICK j \in 1..n - 1 : e[i] = seq[j]
          BY <2>6, <5>1
        <5>3. j \in 1..n
          BY <2>5
        <5>4. QED
          BY <2>6, <3>1, <5>1, <5>2, <5>3
      <4>3. QED
        BY <4>1, <4>2
    <3>3. ASSUME NEW j \in 1..n, seq[j] \in keep PROVE \E i \in 1..Len(d) : d[i] = seq[j]
      <4>1. CASE j = n
        BY <3>1, <4>1
      <4>2. CASE j # n
        <5>1. j \in 1..n - 1
          BY <2>5, <4>2
        <5>2. PICK i \in 1..Len(e) : e[i] = seq[j]
          BY <2>6, <3>3, <5>1
        <5>3. i \in 1..Len(d)
          BY <3>1
        <5>4. QED
          BY <3>1, <5>2, <5>3
      <4>3. QED
        BY <4>1, <4>2
    <3>4. Good(d, n)
      BY <3>1, <3>2, <3>3
    <3>5. QED
      BY <2>3, <2>7, <2>8, <3>4 DEF d
  <2>9. CASE seq[n] \notin keep
    <3>1. Good(e, n)
      <4>1. ASSUME NEW i \in 1..Len(e) PROVE e[i] \in keep /\ \E j \in 1..n : e[i] = seq[j]
        <5>1. PICK j \in 1..n - 1 : e[i] = seq[j]
          BY <2>6
        <5>2. j \in 1..n
          BY <2>5
        <5>3. QED
          BY <2>6, <5>1, <5>2
      <4>2. ASSUME NEW j \in 1..n, seq[j] \in keep PROVE \E i \in 1..Len(e) : e[i] = seq[j]
        <5>1. j \in 1..n - 1
          BY <2>5, <2>9, <4>2
        <5>2. QED
          BY <2>6, <4>2, <5>1
      <4>3. QED
        BY <2>6, <4>1, <4>2
    <3>2. QED
      BY <2>3, <2>7, <2>9, <3>1
  <2>10. QED
    BY <2>8, <2>9
<1>7. Good(f[L], L)
  BY <1>1, <1>6
<1>8. QED
  BY <1>2, <1>7

\* What a set keeps of a sequence of one element.
LEMMA ChosenOne ==
  ASSUME NEW e, NEW keep
  PROVE  Chosen(<<e>>, keep) = IF e \in keep THEN <<e>> ELSE <<>>
<1> DEFINE seq == <<e>>
           then(s, n) == IF seq[n] \in keep THEN Append(s, seq[n]) ELSE s
           last == IF e \in keep THEN <<e>> ELSE <<>>
           F(f) == [n \in 0..Len(seq) |-> IF n = 0 THEN <<>>
                                          ELSE IF seq[n] \in keep THEN Append(f[n - 1], seq[n])
                                               ELSE f[n - 1]]
           f == CHOOSE f : f = F(f)
           g == [n \in 0..1 |-> IF n = 0 THEN <<>> ELSE last]
<1>1. Len(seq) = 1 /\ seq[1] = e
  OBVIOUS
<1>2. Chosen(seq, keep) = f[Len(seq)]
  BY Zenon DEF Chosen
<1>3. g[0] = <<>> /\ g[1] = last
  OBVIOUS
<1>4. last = IF seq[1] \in keep THEN Append(<<>>, seq[1]) ELSE <<>>
  OBVIOUS
<1>5. g = F(g)
  <2> HIDE DEF last, seq
  <2>1. \A n \in 0..1 : g[n] = IF n = 0 THEN <<>>
                                ELSE IF seq[n] \in keep THEN Append(g[n - 1], seq[n])
                                     ELSE g[n - 1]
    <3> SUFFICES ASSUME NEW n \in 0..1
                 PROVE  g[n] = IF n = 0 THEN <<>>
                               ELSE IF seq[n] \in keep THEN Append(g[n - 1], seq[n])
                                    ELSE g[n - 1]
      OBVIOUS
    <3>1. CASE n = 0
      BY <3>1
    <3>2. CASE n = 1
      BY <1>3, <1>4, <3>2
    <3>3. QED
      BY <3>1, <3>2
  <2> HIDE DEF g
  <2>2. QED
    BY <1>1, <2>1 DEF g
<1>6. f = F(f)
  BY <1>5, Zenon
<1> HIDE DEF f
<1>7. f[0] = <<>> /\ f[1] = last
  <2> HIDE DEF seq
  <2>1. \A n \in 0..1 : f[n] = IF n = 0 THEN <<>>
                                ELSE IF seq[n] \in keep THEN Append(f[n - 1], seq[n])
                                     ELSE f[n - 1]
    BY <1>1, <1>6
  <2>2. 0 \in 0..1 /\ 1 \in 0..1 /\ 1 - 1 = 0 /\ 1 # 0
    OBVIOUS
  <2> HIDE DEF last
  <2>3. f[0] = <<>>
    BY <2>1, <2>2
  <2>4. f[1] = IF seq[1] \in keep THEN Append(f[0], seq[1]) ELSE f[0]
    BY <2>1, <2>2
  <2>5. QED
    BY <1>4, <2>3, <2>4
<1>8. QED
  BY <1>1, <1>2, <1>7

\* What a position is, and that the highest of some rows is one of them.
LEMMA PositionType ==
  ASSUME NEW rows, NEW i \in Nat, NEW s
  PROVE  Position(rows, i, s) \in Nat
<1>1. IsFiniteSet({j \in 1..i : s \in rows[j].scopes})
  <2>1. IsFiniteSet(1..i)
    BY FS_Interval
  <2>2. QED
    BY <2>1, FS_Subset
<1>2. QED
  BY <1>1, FS_CardinalityType DEF Position

LEMMA HighestOf ==
  ASSUME NEW n \in Nat, NEW D, D # {}, \A i \in D : i \in 1..n
  PROVE  /\ (CHOOSE i \in D : \A j \in D : j <= i) \in D
         /\ \A k \in D : k <= CHOOSE i \in D : \A j \in D : j <= i
<1> DEFINE T == {m \in 0..n : n - m \in D}
<1>1. PICK d \in D : d \in 1..n
  OBVIOUS
<1>2. n - d \in T
  BY <1>1
<1>3. PICK m \in T : \A k \in T : m <= k
  <2>1. T \in SUBSET Nat
    OBVIOUS
  <2> HIDE DEF T
  <2>2. QED
    BY <1>2, <2>1, LeastNatural
<1>4. n - m \in D /\ m \in 0..n
  BY <1>3
<1>5. ASSUME NEW j \in D PROVE j <= n - m
  <2>1. j \in 1..n /\ n - (n - j) = j /\ n - j \in 0..n
    OBVIOUS
  <2>2. n - j \in T
    BY <2>1
  <2>3. m <= n - j /\ m \in 0..n
    BY <1>3, <2>2
  <2>4. QED
    BY <2>1, <2>3
<1>6. QED
  BY <1>4, <1>5

LEMMA AdvancedType ==
  ASSUME frontier \in [Scopes -> Nat], NEW rows, Len(rows) \in Nat,
         DOMAIN rows = 1..Len(rows), NEW recs
  PROVE  Advanced(rows, recs) \in [Scopes -> Nat]
<1> SUFFICES ASSUME NEW s \in Scopes PROVE Advanced(rows, recs)[s] \in Nat
  BY DEF Advanced
<1> DEFINE mine == {i \in DOMAIN rows : s \in rows[i].scopes /\
                      \E r \in DOMAIN recs : SameId(rows[i], recs[r])}
           top == CHOOSE i \in mine : \A j \in mine : j <= i
<1>1. Advanced(rows, recs)[s] = IF mine = {} THEN frontier[s] ELSE Position(rows, top, s)
  BY DEF Advanced
<1>2. mine # {} => top \in mine
  <2>1. \A i \in mine : i \in 1..Len(rows)
    OBVIOUS
  <2> HIDE DEF mine
  <2>2. QED
    BY <2>1, HighestOf
<1>3. mine # {} => top \in Nat
  BY <1>2
<1> HIDE DEF mine, top
<1>4. mine # {} => Position(rows, top, s) \in Nat
  BY <1>3, PositionType
<1>5. QED
  BY <1>1, <1>4

LEMMA PageEndType ==
  ASSUME frontier \in [Scopes -> Nat], NEW page, NEW n \in Nat, \A i \in page : i \in 1..n
  PROVE  PageEnd(page) \in [Scopes -> Nat]
<1> SUFFICES ASSUME NEW s \in Scopes PROVE PageEnd(page)[s] \in Nat
  BY DEF PageEnd
<1> DEFINE shown == {i \in page : s \in observed /\ s \in log[i].scopes}
           best == CHOOSE i \in shown : \A j \in shown : j <= i
           top == Position(log, best, s)
<1>1. PageEnd(page)[s] = IF shown # {} /\ top > frontier[s] THEN top ELSE frontier[s]
  BY DEF PageEnd
<1>2. shown # {} => best \in shown
  <2>1. \A i \in shown : i \in 1..n
    OBVIOUS
  <2> HIDE DEF shown
  <2>2. QED
    BY <2>1, HighestOf
<1>3. shown # {} => best \in Nat
  BY <1>2
<1> HIDE DEF shown, best
<1>4. shown # {} => top \in Nat
  BY <1>3, PositionType
<1>5. QED
  BY <1>1, <1>4

-----------------------------------------------------------------------------
\* What the engine uses of the run.

Waiting == {c \in CallIds : calls[c] = "PENDING"}

\* The types of the run, where its driver may be, and the calls that wait.
RunFacts ==
  /\ Agent!TypeOK
  /\ Agent!Terminal => pc \in {"idle", "returned"}
  /\ pc = "advance" => ~cancelRequested
  /\ pc = "idle" /\ cancelRequested => Agent!Terminal
  /\ pc \notin {"idle", "returned"} => status = "RUNNING"
  /\ pc = "policing" => Pending # <<>>
  /\ pc = "assembling" => Waiting = {}
  /\ \A c \in CallIds : calls[c] \in {"absent", "PENDING"} => executions[c] = 0
  /\ \A c \in CallIds : calls[c] # "absent" => \E i \in 1..Len(order) : order[i] = c
  /\ Pending \in Seq(CallIds)
  /\ \A c \in CallIds : c \in Waiting <=> \E i \in 1..Len(Pending) : Pending[i] = c

LEMMA Assumed == Proven!RunAssumption
BY EngineAssumption DEF Proven!RunAssumption

LEMMA FactsOfRun == Proven!HInv => RunFacts
<1> SUFFICES ASSUME Proven!HInv PROVE RunFacts
  OBVIOUS
<1>1. /\ Proven!TypeOK /\ Proven!ControlPoints /\ Proven!EntriesMatchCalls
      /\ Proven!Ordered /\ Proven!Assembling
  BY DEF Proven!HInv, Proven!IInv, Proven!Told
<1>2. Agent!TypeOK
  BY <1>1 DEF Agent!TypeOK, Proven!TypeOK, Agent!RunStatus, Proven!RunStatus,
     Agent!TerminalStatus, Proven!TerminalStatus, Agent!MessageOf, Proven!MessageOf,
     Agent!CallStatus, Proven!CallStatus, Agent!Awaits, Proven!Awaits
<1>3. Pending = Proven!Pending
  BY DEF Pending, Agent!Pending, Proven!Pending, Agent!FirstPending, Proven!FirstPending
<1>4. Agent!Terminal <=> Proven!Terminal
  BY DEF Agent!Terminal, Proven!Terminal, Agent!TerminalStatus, Proven!TerminalStatus
<1>5. /\ Agent!Terminal => pc \in {"idle", "returned"}
      /\ pc = "advance" => ~cancelRequested
      /\ pc = "idle" /\ cancelRequested => Agent!Terminal
      /\ pc \notin {"idle", "returned"} => status = "RUNNING"
      /\ pc = "policing" => Pending # <<>>
  BY <1>1, <1>3, <1>4 DEF Proven!ControlPoints
<1>6. \A c \in CallIds : calls[c] \in {"absent", "PENDING"} => executions[c] = 0
  BY <1>1 DEF Proven!EntriesMatchCalls
<1>7. order \in Seq(CallIds)
  BY <1>2 DEF Agent!TypeOK
<1>8. \A c \in CallIds : calls[c] # "absent" => \E i \in 1..Len(order) : order[i] = c
  BY <1>1, <1>7 DEF Proven!Ordered, Proven!ToSet
<1>9. /\ Proven!ToSet(Proven!Pending) = {c \in CallIds : calls[c] = "PENDING"}
      /\ Proven!Pending \in Seq(CallIds)
  BY <1>1, Assumed, Proven!PendingFacts
<1>10. /\ Pending \in Seq(CallIds)
       /\ \A c \in CallIds : c \in Waiting <=> \E i \in 1..Len(Pending) : Pending[i] = c
  BY <1>3, <1>9 DEF Proven!ToSet, Waiting
<1>11. pc = "assembling" => Waiting = {}
  BY <1>1 DEF Proven!Assembling, Waiting
<1>12. QED
  BY <1>2, <1>5, <1>6, <1>8, <1>10, <1>11 DEF RunFacts

\* A settled call keeps its outcome, a record stays, and only a call without a
\* record begins to wait.
Onward ==
  \A c \in CallIds :
    /\ Settled(c) => calls'[c] = calls[c] /\ executions'[c] = executions[c]
    /\ calls[c] # "absent" => calls'[c] # "absent"
    /\ calls'[c] = "PENDING" => calls[c] \in {"absent", "PENDING"}

LEMMA CallsGoOnward ==
  ASSUME Proven!HInv, Asked, [Next]_vars
  PROVE  Onward
<1>1. [Proven!Next]_(Proven!vars)
  BY StepDrives, SameAgent
<1>2. Proven!Onward
  BY <1>1, Assumed, Proven!GoesOnward
<1>3. QED
  BY <1>2 DEF Onward, Settled, Proven!Onward, Proven!SettledStatus

LEMMA NextIsUnrecorded ==
  ASSUME RunFacts, ToRecord # {}
  PROVE  NextToRecord \in ToRecord
<1> DEFINE First(c, n) == order[n] = c /\ \A m \in 1..n - 1 : order[m] \notin ToRecord
           T == {n \in 1..Len(order) : order[n] \in ToRecord}
<1>1. order \in Seq(CallIds) /\ Len(order) \in Nat /\ DOMAIN order = 1..Len(order)
  BY DEF RunFacts, Agent!TypeOK
<1>2. PICK c \in ToRecord : TRUE
  OBVIOUS
<1>3. c \in CallIds /\ calls[c] # "absent"
  BY DEF ToRecord, Settled
<1>4. PICK i \in 1..Len(order) : order[i] = c
  BY <1>3 DEF RunFacts
<1>5. T \in SUBSET Nat /\ i \in T
  BY <1>1, <1>4
<1>6. PICK n \in T : \A k \in T : n <= k
  <2> HIDE DEF T
  <2>1. QED
    BY <1>5, LeastNatural
<1>7. n \in 1..Len(order) /\ order[n] \in ToRecord
  BY <1>6
<1>8. \A m \in 1..n - 1 : order[m] \notin ToRecord
  <2> SUFFICES ASSUME NEW m \in 1..n - 1, order[m] \in ToRecord PROVE FALSE
    OBVIOUS
  <2>1. m \in 1..Len(order) /\ ~(n <= m)
    BY <1>1, <1>7
  <2>2. m \in T
    BY <2>1
  <2>3. QED
    BY <1>6, <2>1, <2>2
<1>9. \E d \in ToRecord : \E k \in DOMAIN order : First(d, k)
  BY <1>1, <1>7, <1>8
<1>10. QED
  BY <1>9, Zenon DEF NextToRecord

-----------------------------------------------------------------------------
\* The inductive invariant.

Kinds == {"started", "world", "model.requested", "model.failed", "model.completed",
          "model.delta", "tool.delta", "tool.requested", "tool.result", "output", "finished"}
Outcomes == {"", "us", "rival"} \cup Agent!RunStatus \cup Agent!CallStatus
Rows == [kind : Kinds, ref : Nat \cup CallIds \cup {"run"}, scopes : SUBSET Scopes,
         result : Nat \cup Outcomes, known : [Scopes -> Nat]]
ModelKinds == {"model.requested", "model.failed", "model.completed", "model.delta"}
StepKinds == ModelKinds \cup {"tool.delta", "tool.requested"}

\* Places where this execution owns nothing.
Unstarted == {"lookup", "claim", "refused", "abandoned"}

Types == TypeOK /\ log \in Seq(Rows) /\ reply \in Replies

\* Where the run's driver is when the session is somewhere.
Driven ==
  /\ policed /\ ~continuous
  /\ at = "step" <=> pc # "idle"
  /\ sub = "none" => pc \notin {"inferring", "policing"}
  /\ sub \in {"request", "model", "failed", "completed", "reply"} => pc = "inferring"
  /\ sub \in {"delta", "disclose"} => pc \in {"inferring", "policing"}
  /\ sub \in {"seal", "hook"} => pc = "policing"
  /\ pc = "inferring" => Waiting = {}

\* The end of the run and its settlement: what was settled is recorded before
\* anything goes on, and the output before the end.
Ending ==
  /\ ended => /\ Agent!Terminal
              /\ at \notin Unstarted \cup {"before", "step"}
  /\ settling => ended /\ at # "after"
  /\ ~settling => failure = "none" /\ at \notin {"returned", "raised", "unsettled"}
  /\ at \in {"output", "finish"} => ended /\ ~finished
  /\ at = "output" => status = "COMPLETED" /\ ~published
  /\ at = "finish" /\ status = "COMPLETED" => published
  /\ \/ at \in {"before", "output", "finish", "after", "returned", "raised"}
     \/ at = "step" /\ pc # "returned"
     => ToRecord = {}
  /\ published => status = "COMPLETED" /\ ended
  /\ finished => ended /\ ToRecord = {} /\ at \notin {"notify", "unsettled"}
  /\ (at = "after" /\ ended) \/ at \in {"returned", "raised"} => finished

\* The claim comes before anything else, and there is one.
Beginning ==
  /\ at \in Unstarted =>
       /\ \A c \in CallIds : calls[c] = "absent"
       /\ \A i \in 1..Len(log) : log[i].kind \in {"started", "world"}
       /\ sealed = {} /\ recorded = {} /\ ~published /\ ~finished
  /\ at \notin Unstarted =>
       \E i \in 1..Len(log) : log[i].kind = "started" /\ log[i].result = "us"
  /\ \A i, j \in 1..Len(log) : log[i].kind = "started" /\ log[j].kind = "started" => i = j
  /\ \A i \in 1..Len(log) : log[i].kind = "started" => log[i].ref = "run"

\* The places of a model call before a commit of a kind.
Until(kind) ==
  CASE kind = "model.requested" -> {"request"}
    [] kind = "model.failed" -> {"request", "model", "failed"}
    [] kind = "model.completed" -> {"request", "model", "completed"}
    [] OTHER -> {"request", "model", "completed", "delta", "disclose"}

\* The commits of steps: none of them has been made that is still to be made.
StepRows ==
  /\ \A i \in 1..Len(log) : log[i].kind \in ModelKinds =>
       /\ log[i].ref \in 0..modelCalls
       /\ pc = "inferring" /\ sub \in Until(log[i].kind) => log[i].ref # modelCalls
  /\ \A i \in 1..Len(log) : log[i].kind = "tool.delta" =>
       /\ log[i].ref \in CallIds /\ calls[log[i].ref] # "absent"
       /\ log[i].ref \in Waiting => Agent!Terminal \/ (pc = "returned" /\ cancelRequested)
  /\ \A i \in 1..Len(log) : log[i].kind = "tool.requested" =>
       log[i].ref \in sealed \/ Agent!Terminal
  /\ sub = "model" => \E i \in 1..Len(log) :
       log[i].kind = "model.requested" /\ log[i].ref = modelCalls

Requested(c) == \E i \in 1..Len(log) : log[i].kind = "tool.requested" /\ log[i].ref = c

\* Calls are sealed all together, and a tool is entered only when its call is.
Sealing ==
  /\ \A c \in sealed : c \in CallIds /\ calls[c] # "absent" /\ Requested(c)
  /\ (\E c \in Waiting \cap Catalog : c \in sealed) => Waiting \cap Catalog \subseteq sealed
  /\ pc = "policing" => Pending[1] \in Catalog
  /\ pc = "policing" /\ sub \in {"delta", "disclose", "seal"} => Pending[1] \notin sealed
  /\ sub = "hook" => Pending[1] \in sealed
  /\ \A c \in CallIds : Executed(c) => c \in sealed

ResultRecord ==
  Commit("tool.result", NextToRecord, PublishOf(NextToRecord), calls[NextToRecord])

Told(c) == \E i \in 1..Len(log) : /\ log[i].kind = "tool.result" /\ log[i].ref = c
                                  /\ log[i].result = calls[c]

\* Results that were recorded are true, and one whose append was interrupted is
\* the next that the settlement writes.
Results ==
  /\ \A c \in recorded : Settled(c) /\ Told(c) /\ (Executed(c) => c \in notified)
  /\ \A i \in 1..Len(log) : log[i].kind = "tool.result" /\ log[i].ref \notin recorded =>
       /\ settling
       /\ at # "unsettled" => at = "record" /\ ToRecord # {} /\ log[i] = ResultRecord

\* The same of the output and the end.
Ends ==
  /\ published => \E i \in 1..Len(log) : log[i].kind = "output"
  /\ finished => \E i \in 1..Len(log) : log[i].kind = "finished"
  /\ \A i \in 1..Len(log) : log[i].kind = "output" =>
       /\ status = "COMPLETED" /\ ended /\ log[i].ref = "run"
       /\ published \/ (/\ settling
                        /\ at # "unsettled" => /\ at \in {"record", "output"} /\ ToRecord = {}
                                               /\ log[i] = Commit("output", "run", {}, ""))
  /\ \A i \in 1..Len(log) : log[i].kind = "finished" =>
       /\ ended /\ log[i].ref = "run" /\ ToRecord = {}
       /\ status = "COMPLETED" => published
       /\ finished \/ (/\ settling
                       /\ at # "unsettled" =>
                            /\ at \in {"record", "finish"}
                            /\ log[i] = Commit("finished", "run", {}, RunStatusRecorded))
  /\ \A i \in 1..Len(log) : log[i].kind = "finished" =>
       (log[i].result = "COMPLETED" <=> \E j \in 1..i : log[j].kind = "output")

EInv ==
  /\ Types /\ Driven /\ Ending /\ Beginning /\ StepRows /\ Sealing /\ Results /\ Ends

-----------------------------------------------------------------------------
\* Growth of the journal.

\* The journal kept its rows and got some of S.
Grown(S) ==
  /\ log' \in Seq(Rows)
  /\ \A i \in 1..Len(log) : i \in 1..Len(log') /\ log'[i] = log[i]
  /\ \A i \in 1..Len(log') : i \notin 1..Len(log) => log'[i] \in S

LEMMA NotGrown == ASSUME log \in Seq(Rows), log' = log PROVE Grown({})
BY DEF Grown

LEMMA GrownByOne ==
  ASSUME log \in Seq(Rows), NEW r \in Rows, log' = Append(log, r)
  PROVE  Grown({r}) /\ Len(log') = Len(log) + 1
<1>1. /\ log' \in Seq(Rows) /\ Len(log') = Len(log) + 1 /\ Len(log) \in Nat
      /\ \A i \in 1..Len(log) : log'[i] = log[i]
      /\ log'[Len(log) + 1] = r
  BY AppendProperties
<1>2. \A i \in 1..Len(log') : i \notin 1..Len(log) => i = Len(log) + 1
  BY <1>1
<1>3. QED
  BY <1>1, <1>2 DEF Grown

LEMMA CommitType ==
  ASSUME frontier \in [Scopes -> Nat]
  PROVE  \A kind \in Kinds : \A ref \in Nat \cup CallIds \cup {"run"} :
           \A scopes \in SUBSET Scopes : \A result \in Nat \cup Outcomes :
             Commit(kind, ref, scopes, result) \in Rows
BY DEF Commit, Rows

\* The records that land are those that were not there, and then all are.
LEMMA Lands ==
  ASSUME log \in Seq(Rows), NEW recs \in Seq(Rows), Land(recs)
  PROVE  /\ Grown({recs[r] : r \in 1..Len(recs)})
         /\ \A i \in 1..Len(log') : i \notin 1..Len(log) => ~Stored(log'[i])
         /\ \A r \in 1..Len(recs) : \E i \in 1..Len(log') : log'[i] = recs[r]
<1> DEFINE keep == {r \in ToSet(recs) : ~Stored(r)}
           new == Chosen(recs, keep)
<1>1. /\ log' = log \o new
      /\ \A r \in 1..Len(recs) : ~Differs(recs[r])
  BY DEF Land
<1>2. /\ new \in Seq(Rows)
      /\ \A i \in 1..Len(new) : new[i] \in keep /\ \E j \in 1..Len(recs) : new[i] = recs[j]
      /\ \A j \in 1..Len(recs) : recs[j] \in keep => \E i \in 1..Len(new) : new[i] = recs[j]
  <2> HIDE DEF keep
  <2>1. new = Chosen(recs, keep)
    OBVIOUS
  <2> HIDE DEF new
  <2>2. QED
    BY <2>1, ChosenFacts
<1>3. \A r \in keep : ~Stored(r)
  OBVIOUS
<1>4. \A j \in 1..Len(recs) : ~Stored(recs[j]) => recs[j] \in keep
  BY DEF ToSet
<1> HIDE DEF keep, new
<1>5. /\ log' \in Seq(Rows) /\ Len(log') = Len(log) + Len(new)
      /\ Len(log) \in Nat /\ Len(new) \in Nat
      /\ \A i \in 1..Len(log) : log'[i] = log[i]
      /\ \A i \in 1..Len(new) : log'[Len(log) + i] = new[i]
  BY <1>1, <1>2, ConcatProperties
<1>6. ASSUME NEW i \in 1..Len(log'), i \notin 1..Len(log)
      PROVE  \E k \in 1..Len(new) : log'[i] = new[k]
  <2>1. i - Len(log) \in 1..Len(new) /\ Len(log) + (i - Len(log)) = i
    BY <1>5, <1>6
  <2>2. QED
    BY <1>5, <2>1
<1>7. \A i \in 1..Len(log) : i \in 1..Len(log')
  BY <1>5
<1>8. Grown({recs[r] : r \in 1..Len(recs)})
  <2>1. ASSUME NEW i \in 1..Len(log'), i \notin 1..Len(log)
        PROVE  log'[i] \in {recs[r] : r \in 1..Len(recs)}
    BY <1>2, <1>6, <2>1
  <2>2. QED
    BY <1>5, <1>7, <2>1 DEF Grown
<1>9. ASSUME NEW i \in 1..Len(log'), i \notin 1..Len(log) PROVE ~Stored(log'[i])
  BY <1>2, <1>3, <1>6, <1>9
<1>10. ASSUME NEW r \in 1..Len(recs) PROVE \E i \in 1..Len(log') : log'[i] = recs[r]
  <2>1. CASE Stored(recs[r])
    <3>1. PICK i \in DOMAIN log : SameId(log[i], recs[r])
      BY <2>1 DEF Stored
    <3>2. log[i] = recs[r]
      BY <1>1, <3>1 DEF Differs
    <3>3. QED
      BY <1>5, <1>7, <3>2
  <2>2. CASE ~Stored(recs[r])
    <3>1. PICK k \in 1..Len(new) : new[k] = recs[r]
      BY <1>2, <1>4, <2>2
    <3>2. Len(log) + k \in 1..Len(log')
      BY <1>5
    <3>3. QED
      BY <1>5, <3>1, <3>2
  <2>3. QED
    BY <2>1, <2>2
<1>11. QED
  BY <1>8, <1>9, <1>10

\* The same of one record.
LEMMA LandsOne ==
  ASSUME log \in Seq(Rows), NEW r \in Rows, Land(<<r>>)
  PROVE  /\ Grown({r})
         /\ \A i \in 1..Len(log') : i \notin 1..Len(log) => log'[i] = r /\ ~Stored(r)
         /\ \E i \in 1..Len(log') : log'[i] = r
<1> DEFINE recs == <<r>>
<1>1. recs \in Seq(Rows) /\ Len(recs) = 1 /\ recs[1] = r
  OBVIOUS
<1>2. {recs[n] : n \in 1..Len(recs)} = {r}
  BY <1>1
<1>3. Land(recs)
  OBVIOUS
<1> HIDE DEF recs
<1>4. /\ Grown({recs[n] : n \in 1..Len(recs)})
      /\ \A i \in 1..Len(log') : i \notin 1..Len(log) => ~Stored(log'[i])
      /\ \A n \in 1..Len(recs) : \E i \in 1..Len(log') : log'[i] = recs[n]
  BY <1>1, <1>3, Lands
<1>5. Grown({r})
  BY <1>2, <1>4
<1>6. \A i \in 1..Len(log') : i \notin 1..Len(log) => log'[i] = r
  BY <1>5 DEF Grown
<1>7. QED
  BY <1>1, <1>4, <1>5, <1>6

\* What the journal told it still tells.
LEMMA StillThere ==
  ASSUME NEW S, Grown(S)
  PROVE  /\ \A kind, ref : (\E i \in 1..Len(log) : log[i].kind = kind /\ log[i].ref = ref)
              => \E i \in 1..Len(log') : log'[i].kind = kind /\ log'[i].ref = ref
         /\ \A kind : (\E i \in 1..Len(log) : log[i].kind = kind)
              => \E i \in 1..Len(log') : log'[i].kind = kind
         /\ \A kind, result :
              (\E i \in 1..Len(log) : log[i].kind = kind /\ log[i].result = result)
              => \E i \in 1..Len(log') : log'[i].kind = kind /\ log'[i].result = result
         /\ \A kind, ref, result :
              (\E i \in 1..Len(log) :
                 log[i].kind = kind /\ log[i].ref = ref /\ log[i].result = result)
              => \E i \in 1..Len(log') :
                   log'[i].kind = kind /\ log'[i].ref = ref /\ log'[i].result = result
BY Zenon DEF Grown

-----------------------------------------------------------------------------
\* Parts of the invariant that a step leaves alone.

\* A place may go on without records of steps when it does not go back.
LEMMA StepRowsStay ==
  ASSUME StepRows, Onward, NEW S, Grown(S), \A r \in S : r.kind \notin StepKinds,
         modelCalls' = modelCalls, sealed' = sealed,
         sub' \in {"none", "seal", "hook"} \/ sub' = "reply" \/ (sub' = sub /\ pc' = pc),
         Agent!Terminal => Agent!Terminal',
         pc = "returned" /\ cancelRequested =>
           Agent!Terminal' \/ (pc' = "returned" /\ cancelRequested')
  PROVE  StepRows'
<1>1. ASSUME NEW i \in 1..Len(log'), log'[i].kind \in StepKinds
      PROVE  i \in 1..Len(log) /\ log'[i] = log[i]
  BY <1>1 DEF Grown
<1>2. ASSUME NEW i \in 1..Len(log'), log'[i].kind \in ModelKinds
      PROVE  /\ log'[i].ref \in 0..modelCalls'
             /\ pc' = "inferring" /\ sub' \in Until(log'[i].kind) => log'[i].ref # modelCalls'
  <2>1. i \in 1..Len(log) /\ log'[i] = log[i] /\ log[i].kind \in ModelKinds
    BY <1>1, <1>2 DEF StepKinds
  <2>2. /\ log[i].ref \in 0..modelCalls
        /\ pc = "inferring" /\ sub \in Until(log[i].kind) => log[i].ref # modelCalls
    BY <2>1 DEF StepRows
  <2>3. sub' \in Until(log[i].kind) => sub' = sub /\ pc' = pc
    BY DEF Until
  <2>4. QED
    BY <2>1, <2>2, <2>3
<1>3. ASSUME NEW i \in 1..Len(log'), log'[i].kind = "tool.delta"
      PROVE  /\ log'[i].ref \in CallIds /\ calls'[log'[i].ref] # "absent"
             /\ log'[i].ref \in Waiting' =>
                  Agent!Terminal' \/ (pc' = "returned" /\ cancelRequested')
  <2>1. i \in 1..Len(log) /\ log'[i] = log[i] /\ log[i].kind = "tool.delta"
    BY <1>1, <1>3 DEF StepKinds
  <2>2. /\ log[i].ref \in CallIds /\ calls[log[i].ref] # "absent"
        /\ log[i].ref \in Waiting => Agent!Terminal \/ (pc = "returned" /\ cancelRequested)
    BY <2>1 DEF StepRows
  <2>3. log[i].ref \in Waiting' => log[i].ref \in Waiting
    BY <2>2 DEF Onward, Waiting
  <2>4. calls'[log[i].ref] # "absent"
    BY <2>2 DEF Onward
  <2>5. QED
    BY <2>1, <2>2, <2>3, <2>4
<1>4. ASSUME NEW i \in 1..Len(log'), log'[i].kind = "tool.requested"
      PROVE  log'[i].ref \in sealed' \/ Agent!Terminal'
  <2>1. i \in 1..Len(log) /\ log'[i] = log[i] /\ log[i].kind = "tool.requested"
    BY <1>1, <1>4 DEF StepKinds
  <2>2. QED
    BY <2>1 DEF StepRows
<1>5. ASSUME sub' = "model"
      PROVE  \E i \in 1..Len(log') : log'[i].kind = "model.requested" /\ log'[i].ref = modelCalls'
  <2>1. \E i \in 1..Len(log) : log[i].kind = "model.requested" /\ log[i].ref = modelCalls
    BY <1>5 DEF StepRows
  <2>2. QED
    BY <2>1, StillThere
<1>6. QED
  BY <1>2, <1>3, <1>4, <1>5 DEF StepRows

LEMMA SealingStays ==
  ASSUME Sealing, Onward, NEW S, Grown(S), sealed' = sealed,
         \A c \in CallIds : executions'[c] > 0 => c \in sealed,
         \A c \in Waiting' : c \in Waiting \/ c \notin sealed,
         \A c \in Waiting' : c \notin Waiting => Waiting = {},
         \/ pc' # "policing" /\ sub' # "hook"
         \/ /\ pc' = "policing" /\ pc = "policing" /\ Pending' = Pending
            /\ sub' = sub \/ (sub' = "hook" /\ Pending[1] \in sealed)
                          \/ (sub' \in {"delta", "disclose", "seal"} /\ Pending[1] \notin sealed)
  PROVE  Sealing'
<1>1. ASSUME NEW c \in sealed' PROVE c \in CallIds /\ calls'[c] # "absent" /\ Requested(c)'
  <2>1. c \in CallIds /\ calls[c] # "absent" /\ Requested(c)
    BY <1>1 DEF Sealing
  <2>2. Requested(c)'
    BY <2>1, StillThere DEF Requested
  <2>3. QED
    BY <2>1, <2>2 DEF Onward
<1>2. ASSUME NEW c \in Waiting' \cap Catalog, c \in sealed'
      PROVE  Waiting' \cap Catalog \subseteq sealed'
  BY <1>2 DEF Sealing
<1>3. /\ pc' = "policing" => Pending'[1] \in Catalog
      /\ pc' = "policing" /\ sub' \in {"delta", "disclose", "seal"} => Pending'[1] \notin sealed'
      /\ sub' = "hook" => Pending'[1] \in sealed'
  BY DEF Sealing
<1>4. \A c \in CallIds : Executed(c)' => c \in sealed'
  BY DEF Executed
<1>5. QED
  BY <1>1, <1>2, <1>3, <1>4 DEF Sealing

LEMMA ToldStays ==
  ASSUME Onward, NEW S, Grown(S), NEW c \in CallIds, Settled(c), Told(c)
  PROVE  Settled(c)' /\ Told(c)'
<1>1. calls'[c] = calls[c]
  BY DEF Onward
<1>2. \E i \in 1..Len(log') : /\ log'[i].kind = "tool.result" /\ log'[i].ref = c
                                /\ log'[i].result = calls[c]
  <2>1. PICK i \in 1..Len(log) : /\ log[i].kind = "tool.result" /\ log[i].ref = c
                                 /\ log[i].result = calls[c]
    BY DEF Told
  <2>2. i \in 1..Len(log') /\ log'[i] = log[i]
    BY DEF Grown
  <2>3. QED
    BY <2>1, <2>2
<1>3. QED
  BY <1>1, <1>2 DEF Settled, Told

\* Before the settlement no result is in the journal that was not confirmed.
LEMMA ResultsStay ==
  ASSUME Types, Results, Onward, NEW S, Grown(S), ~settling,
         \A r \in S : r.kind # "tool.result", recorded' = recorded, notified' = notified
  PROVE  Results'
<1>1. ASSUME NEW c \in recorded'
      PROVE  Settled(c)' /\ Told(c)' /\ (Executed(c)' => c \in notified')
  <2>1. c \in CallIds /\ Settled(c) /\ Told(c) /\ (Executed(c) => c \in notified)
    BY <1>1 DEF Results, Types, TypeOK
  <2>2. executions'[c] = executions[c]
    BY <2>1 DEF Onward
  <2>3. QED
    BY <2>1, <2>2, ToldStays DEF Executed
<1>2. ASSUME NEW i \in 1..Len(log'), log'[i].kind = "tool.result", log'[i].ref \notin recorded'
      PROVE  FALSE
  <2>1. i \in 1..Len(log) /\ log'[i] = log[i]
    BY <1>2 DEF Grown
  <2>2. QED
    BY <1>2, <2>1 DEF Results
<1>3. QED
  BY <1>1, <1>2 DEF Results

\* Before the end neither output nor end is in the journal.
LEMMA NoEnds ==
  ASSUME Ends, Ending, ~ended
  PROVE  /\ ~published /\ ~finished
         /\ \A i \in 1..Len(log) : log[i].kind \notin {"output", "finished"}
BY DEF Ends, Ending

LEMMA EndsStay ==
  ASSUME Ends, Ending, ~ended, NEW S, Grown(S),
         \A r \in S : r.kind \notin {"output", "finished"},
         published' = published, finished' = finished
  PROVE  Ends'
<1>1. /\ ~published' /\ ~finished'
      /\ \A i \in 1..Len(log) : log[i].kind \notin {"output", "finished"}
  BY NoEnds
<1>2. \A i \in 1..Len(log') : log'[i].kind \notin {"output", "finished"}
  BY <1>1 DEF Grown
<1>3. QED
  BY <1>1, <1>2 DEF Ends

LEMMA BeginningStays ==
  ASSUME Beginning, at \notin Unstarted, at' \notin Unstarted, NEW S, Grown(S),
         \A r \in S : r.kind # "started"
  PROVE  Beginning'
<1>1. \E i \in 1..Len(log') : log'[i].kind = "started" /\ log'[i].result = "us"
  <2>1. \E i \in 1..Len(log) : log[i].kind = "started" /\ log[i].result = "us"
    BY DEF Beginning
  <2>2. QED
    BY <2>1, StillThere
<1>2. ASSUME NEW i \in 1..Len(log'), log'[i].kind = "started"
      PROVE  i \in 1..Len(log) /\ log'[i] = log[i]
  BY <1>2 DEF Grown
<1>3. QED
  BY <1>1, <1>2 DEF Beginning

-----------------------------------------------------------------------------
\* Where the session and the driver are.

Control ==
  /\ at \in Places
  /\ sub \in Subs
  /\ sub # "none" => at = "step"
  /\ failure \in {"none", "error", "cancelled"}
  /\ settling \in BOOLEAN
  /\ ended \in BOOLEAN

LEMMA SettleControl ==
  ASSUME Types, Driven, pc = "idle", NEW cause \in {"none", "error", "cancelled"}, Settle(cause)
  PROVE  Driven' /\ Control'
<1>1. /\ at' = "record" /\ sub' = "none" /\ pc' = pc /\ policed' = policed
      /\ continuous' = continuous /\ failure' = cause /\ settling' = TRUE /\ ended' = TRUE
  BY DEF Settle, EnterSettlement, EndAgent, agentVars, Agent!Cancel, Agent!local
<1>2. QED
  BY <1>1 DEF Driven, Control, Places, Subs, Over

LEMMA LoopControl ==
  ASSUME Types, Driven, Loop
  PROVE  Driven' /\ Control'
<1>1. CASE Lookup \/ NotifyReturns \/ RecordsDone \/ CommitOutput \/ Finish
  <2>1. /\ at # "step" /\ at' \in Places \ {"step"}
        /\ UNCHANGED <<sub, failure, settling, ended, pc, policed, continuous>>
    BY <1>1 DEF Lookup, NotifyReturns, RecordsDone, CommitOutput, Finish, Leave, Closing,
       GoTo, agentVars, Places, Over
  <2>2. QED
    BY <2>1 DEF Driven, Control, Types, TypeOK
<1>2. CASE Record
  <2>1. /\ at # "step" /\ at' \in Places \ {"step"}
        /\ UNCHANGED <<sub, failure, settling, ended, pc, policed, continuous>>
    BY <1>2 DEF Record, GoTo, agentVars, control, Places, Over
  <2>2. QED
    BY <2>1 DEF Driven, Control, Types, TypeOK
<1>3. CASE Claim
  <2>1. CASE Settle("none")
    BY <1>3, <2>1, SettleControl DEF Claim, Driven
  <2>2. CASE ~Settle("none")
    <3>1. /\ at # "step" /\ at' \in Places \ {"step"}
          /\ UNCHANGED <<sub, failure, settling, ended, pc, policed, continuous>>
      BY <1>3, <2>2 DEF Claim, GoTo, agentVars, Places, Over
    <3>2. QED
      BY <3>1 DEF Driven, Control, Types, TypeOK
  <2>3. QED
    BY <2>1, <2>2
<1>4. CASE AfterStep
  <2>1. CASE Settle("none")
    BY <1>4, <2>1, SettleControl DEF AfterStep, Driven
  <2>2. CASE ~Settle("none")
    <3>1. /\ at # "step" /\ at' \in Places \ {"step"}
          /\ UNCHANGED <<sub, failure, settling, ended, pc, policed, continuous>>
      BY <1>4, <2>2 DEF AfterStep, GoTo, agentVars, Places, Over
    <3>2. QED
      BY <3>1 DEF Driven, Control, Types, TypeOK
  <2>3. QED
    BY <2>1, <2>2
<1>5. CASE BeforeStep
  <2>1. CASE Agent!Terminal
    <3>1. /\ at = "before" /\ at' = "record" /\ ended' = TRUE
          /\ UNCHANGED <<sub, failure, settling, pc, policed, continuous>>
      BY <1>5, <2>1 DEF BeforeStep, agentVars
    <3>2. QED
      BY <3>1 DEF Driven, Control, Types, TypeOK, Places
  <2>2. CASE ~Agent!Terminal
    <3>1. /\ at = "before" /\ at' = "step" /\ pc' = "advance" /\ ~continuous' /\ policed' = policed
          /\ UNCHANGED <<sub, failure, settling, ended>>
      BY <1>5, <2>2 DEF BeforeStep, GoTo, Agent!Drive
    <3>2. QED
      BY <3>1 DEF Driven, Control, Types, TypeOK, Places
  <2>3. QED
    BY <2>1, <2>2
<1>6. QED
  BY <1>1, <1>2, <1>3, <1>4, <1>5 DEF Loop

LEMMA StepsControl ==
  ASSUME Types, Driven, RunFacts, Steps
  PROVE  Driven' /\ Control'
<1>1. CASE \/ RequestModel \/ (\E ids \in Replies : ModelAnswers(ids)) \/ ModelFails
           \/ RecordAnswer \/ Seal
  <2>1. /\ at = "step" /\ at' = "step" /\ pc' = pc /\ calls' = calls
        /\ UNCHANGED <<failure, settling, ended, policed, continuous>>
        /\ \/ sub \in {"request", "model", "completed"}
              /\ sub' \in {"model", "completed", "failed", "delta", "reply"}
           \/ sub = "seal" /\ sub' = "hook"
    BY <1>1 DEF RequestModel, ModelAnswers, ModelFails, RecordAnswer, Seal, agentVars
  <2>2. Waiting' = Waiting
    BY <2>1 DEF Waiting
  <2>3. QED
    BY <2>1, <2>2 DEF Driven, Control, Types, TypeOK, Subs
<1>2. CASE LookAtWorld
  <2>1. /\ at = "step" /\ at' = "step" /\ pc' = pc /\ calls' = calls /\ sub = "delta"
        /\ UNCHANGED <<failure, settling, ended, policed, continuous>>
        /\ sub' \in {"disclose", IF pc = "policing" THEN "seal" ELSE "reply"}
    BY <1>2 DEF LookAtWorld, agentVars
  <2>2. Waiting' = Waiting
    BY <2>1 DEF Waiting
  <2>3. QED
    BY <2>1, <2>2 DEF Driven, Control, Types, TypeOK, Subs
<1>3. CASE AgentAdvances
  <2>1. /\ at = "step" /\ at' = (IF pc' = "idle" THEN "record" ELSE "step") /\ sub' = "none"
        /\ pc' \in {"idle", "advance", "returned", "assembling"}
        /\ UNCHANGED <<failure, settling, policed, continuous>> /\ ended' \in BOOLEAN
    BY <1>3 DEF AgentAdvances, Stepped, Agent!AdvanceReturns, Agent!LimitReached,
       Agent!BeginModelStep, Agent!local
  <2>2. QED
    BY <2>1 DEF Driven, Control, Types, TypeOK, Subs, Places
<1>4. CASE Assembled
  <2>1. /\ at = "step" /\ at' = (IF pc' = "idle" THEN "record" ELSE "step")
        /\ sub' = (IF pc' = "inferring" THEN "request" ELSE "none")
        /\ pc = "assembling" /\ pc' \in {"returned", "inferring"} /\ calls' = calls
        /\ UNCHANGED <<failure, settling, policed, continuous>> /\ ended' \in BOOLEAN
    BY <1>4 DEF Assembled, Stepped, Agent!AssembleReturns, Agent!local
  <2>2. Waiting' = {}
    BY <2>1 DEF Waiting, RunFacts
  <2>3. QED
    BY <2>1, <2>2 DEF Driven, Control, Types, TypeOK, Subs, Places
<1>5. CASE AgentGetsReply
  <2>1. /\ at = "step" /\ at' = (IF pc' = "idle" THEN "record" ELSE "step") /\ sub' = "none"
        /\ pc' \in {"idle", "returned"}
        /\ UNCHANGED <<failure, settling, policed, continuous>> /\ ended' \in BOOLEAN
    BY <1>5 DEF AgentGetsReply, Agent!ModelReplies, Agent!local
  <2>2. QED
    BY <2>1 DEF Driven, Control, Types, TypeOK, Subs, Places
<1>6. CASE BeginTool
  <2>1. /\ at = "step" /\ at' = (IF pc' = "idle" THEN "record" ELSE "step")
        /\ pc' \in {"returned", "policing"}
        /\ sub' \in (IF pc' = "policing" THEN {"hook", "seal", "delta"} ELSE {"none"})
        /\ UNCHANGED <<failure, settling, policed, continuous>> /\ ended' \in BOOLEAN
    BY <1>6 DEF BeginTool, Stepped, FirstLook, Agent!BeginToolStep, Agent!local, Driven
  <2>2. QED
    BY <2>1 DEF Driven, Control, Types, TypeOK, Subs, Places
<1>7. CASE Disclose
  <2>1. CASE pc = "policing"
    <3>1. /\ at = "step" /\ at' = (IF pc' = "idle" THEN "record" ELSE "step") /\ sub' = "none"
          /\ pc' \in {"executing", "returned"}
          /\ UNCHANGED <<failure, settling, policed, continuous>> /\ ended' \in BOOLEAN
      BY <1>7, <2>1 DEF Disclose, Stepped, Agent!PolicyDecides, Agent!StartTool, Agent!local
    <3>2. QED
      BY <3>1 DEF Driven, Control, Types, TypeOK, Subs, Places
  <2>2. CASE pc # "policing"
    <3>1. /\ at = "step" /\ at' = (IF pc' = "idle" THEN "record" ELSE "step") /\ sub' = "reply"
          /\ pc' = pc /\ calls' = calls /\ sub = "disclose"
          /\ UNCHANGED <<failure, settling, policed, continuous>> /\ ended' \in BOOLEAN
      BY <1>7, <2>2 DEF Disclose, Stepped, Agent!AppendMessage, Agent!local, Agent!record
    <3>2. Waiting' = Waiting
      BY <3>1 DEF Waiting
    <3>3. QED
      BY <2>2, <3>1, <3>2 DEF Driven, Control, Types, TypeOK, Subs, Places
  <2>3. QED
    BY <2>1, <2>2
<1>8. CASE ToolAllowed \/ ToolEnds
  <2>1. /\ at = "step" /\ at' = (IF pc' = "idle" THEN "record" ELSE "step") /\ sub' = "none"
        /\ pc' \in {"executing", "returned"}
        /\ UNCHANGED <<failure, settling, policed, continuous>> /\ ended' \in BOOLEAN
    BY <1>8 DEF ToolAllowed, ToolEnds, Stepped, Agent!PolicyDecides, Agent!StartTool,
       Agent!ToolReturns, Agent!ToolEffectUnknown, Agent!local
  <2>2. QED
    BY <2>1 DEF Driven, Control, Types, TypeOK, Subs, Places
<1>9. QED
  BY <1>1, <1>2, <1>3, <1>4, <1>5, <1>6, <1>7, <1>8 DEF Steps

LEMMA InterruptionControl ==
  ASSUME Types, Driven, Interruption
  PROVE  Driven' /\ Control'
<1>1. CASE InterruptClaim \/ SettlementFails
  <2>1. /\ at # "step" /\ at' \in Places \ {"step"}
        /\ UNCHANGED <<sub, failure, settling, ended, pc, policed, continuous>>
    BY <1>1 DEF InterruptClaim, SettlementFails, GoTo, agentVars, Places, Over
  <2>2. QED
    BY <2>1 DEF Driven, Control, Types, TypeOK
<1>2. CASE StepRaises \/ StepCancelled
  <2>1. /\ at = "step" /\ at' = "record" /\ sub' = "none" /\ pc' = "idle"
        /\ UNCHANGED <<policed, continuous>> /\ ended' \in BOOLEAN /\ settling' \in BOOLEAN
        /\ failure' \in {"none", "error", "cancelled"}
    BY <1>2 DEF StepRaises, StepCancelled, Stepped, EnterSettlement, Agent!AwaitRaises,
       Agent!DriverCancelled, Agent!local, Types, TypeOK
  <2>2. QED
    BY <2>1 DEF Driven, Control, Subs, Places
<1>3. CASE \E cause \in {"error", "cancelled"} : LoopInterrupted(cause)
  <2>1. PICK cause \in {"error", "cancelled"} : LoopInterrupted(cause)
    BY <1>3
  <2>2. Settle(cause) /\ at # "step"
    BY <2>1 DEF LoopInterrupted
  <2>3. QED
    BY <2>2, SettleControl DEF Driven
<1>4. QED
  BY <1>1, <1>2, <1>3 DEF Interruption

LEMMA OthersControl ==
  ASSUME Types, Driven, Others
  PROVE  Driven' /\ Control'
<1>1. /\ UNCHANGED <<at, sub, failure, settling, ended, pc, policed, continuous, calls>>
  BY DEF Others, WorldCommit, RivalStarts, HostCancels, HostAppends, control, agentVars,
     Agent!Cancel, Agent!AppendMessage, Agent!local, Agent!record
<1>2. Waiting' = Waiting
  BY <1>1 DEF Waiting
<1>3. QED
  BY <1>1, <1>2 DEF Driven, Control, Types, TypeOK

-----------------------------------------------------------------------------
\* What is written, and the types.

LEMMA WritingValue ==
  /\ at = "claim" => Writing = <<ClaimRecord>>
  /\ at = "step" /\ sub = "request" => Writing = <<Commit("model.requested", modelCalls, {}, "")>>
  /\ at = "step" /\ sub = "failed" => Writing = <<Commit("model.failed", modelCalls, {}, "")>>
  /\ at = "step" /\ sub = "completed" =>
       Writing = <<Commit("model.completed", modelCalls, {}, Len(reply))>>
  /\ at = "step" /\ sub = "disclose" /\ pc = "inferring" =>
       Writing = <<Commit("model.delta", modelCalls, {}, Cardinality(disclosed))>>
  /\ at = "step" /\ sub = "disclose" /\ pc = "policing" =>
       Writing = <<Commit("tool.delta", Pending[1], {}, Cardinality(disclosed))>>
  /\ at = "step" /\ sub = "seal" =>
       Writing = [n \in DOMAIN Visible |->
                    Commit("tool.requested", Visible[n], Publish[Visible[n]], "")]
  /\ at = "record" /\ ToRecord # {} => Writing = <<ResultRecord>>
  /\ at = "output" => Writing = <<Commit("output", "run", {}, "")>>
  /\ at = "finish" => Writing = <<Commit("finished", "run", {}, RunStatusRecorded)>>
  /\ at \notin {"claim", "step", "record", "output", "finish"} => Writing = <<>>
  /\ at = "step" /\ sub \notin {"request", "failed", "completed", "disclose", "seal"} =>
       Writing = <<>>
  /\ at = "record" /\ ToRecord = {} => Writing = <<>>
BY DEF Writing, ResultRecord

\* The record that a place with one record writes.
LEMMA OneRow ==
  ASSUME Types, Driven, RunFacts
  PROVE  /\ ClaimRecord \in Rows
         /\ Commit("model.requested", modelCalls, {}, "") \in Rows
         /\ Commit("model.failed", modelCalls, {}, "") \in Rows
         /\ Commit("model.completed", modelCalls, {}, Len(reply)) \in Rows
         /\ Commit("model.delta", modelCalls, {}, Cardinality(disclosed)) \in Rows
         /\ pc = "policing" => Commit("tool.delta", Pending[1], {}, Cardinality(disclosed)) \in Rows
         /\ ToRecord # {} => ResultRecord \in Rows
         /\ Commit("output", "run", {}, "") \in Rows
         /\ Commit("finished", "run", {}, RunStatusRecorded) \in Rows
<1>1. /\ frontier \in [Scopes -> Nat] /\ modelCalls \in Nat /\ {} \in SUBSET Scopes
      /\ reply \in Seq(CallIds) /\ sealed \subseteq CallIds
  BY EngineAssumption DEF Types, TypeOK, Agent!TypeOK
<1>2. Len(reply) \in Nat
  BY <1>1
<1>3. Cardinality(disclosed) \in Nat
  <2>1. disclosed \subseteq 1..Len(log) /\ Len(log) \in Nat /\ 1 \in Nat
    BY DEF Types, TypeOK
  <2>2. IsFiniteSet(disclosed)
    <3>1. IsFiniteSet(1..Len(log))
      BY <2>1, FS_Interval
    <3>2. QED
      BY <2>1, <3>1, FS_Subset
  <2>3. QED
    BY <2>2, FS_CardinalityType
<1>4. ClaimRecord \in Rows
  BY <1>1, CommitType DEF ClaimRecord, Kinds, Outcomes
<1>5. /\ Commit("model.requested", modelCalls, {}, "") \in Rows
      /\ Commit("model.failed", modelCalls, {}, "") \in Rows
      /\ Commit("model.completed", modelCalls, {}, Len(reply)) \in Rows
      /\ Commit("model.delta", modelCalls, {}, Cardinality(disclosed)) \in Rows
  BY <1>1, <1>2, <1>3, CommitType DEF Kinds, Outcomes
<1>6. ASSUME pc = "policing"
      PROVE  Commit("tool.delta", Pending[1], {}, Cardinality(disclosed)) \in Rows
  <2>1. Pending[1] \in CallIds
    BY <1>6 DEF RunFacts
  <2>2. QED
    BY <1>1, <1>3, <2>1, CommitType DEF Kinds, Outcomes
<1>7. ASSUME ToRecord # {} PROVE ResultRecord \in Rows
  <2>1. NextToRecord \in CallIds
    BY <1>7, NextIsUnrecorded DEF ToRecord
  <2>2. PublishOf(NextToRecord) \in SUBSET Scopes
    BY <2>1, EngineAssumption DEF PublishOf
  <2>3. calls[NextToRecord] \in Outcomes
    BY <1>7, NextIsUnrecorded DEF ToRecord, Settled, Outcomes, Agent!CallStatus
  <2>4. QED
    BY <1>1, <2>1, <2>2, <2>3, CommitType DEF ResultRecord, Kinds
<1>8. RunStatusRecorded \in Outcomes
  BY DEF RunStatusRecorded, RunFacts, Agent!TypeOK, Agent!RunStatus, Agent!TerminalStatus, Outcomes
<1>9. /\ Commit("output", "run", {}, "") \in Rows
      /\ Commit("finished", "run", {}, RunStatusRecorded) \in Rows
  BY <1>1, <1>8, CommitType DEF Kinds, Outcomes
<1>10. QED
  BY <1>4, <1>5, <1>6, <1>7, <1>9

\* The calls of the catalogue among those that wait, and their requests.
LEMMA VisibleFacts ==
  ASSUME RunFacts
  PROVE  /\ Visible \in Seq(CallIds)
         /\ \A n \in 1..Len(Visible) : Visible[n] \in Waiting \cap Catalog
         /\ \A c \in Waiting \cap Catalog : \E n \in 1..Len(Visible) : Visible[n] = c
<1>1. Pending \in Seq(CallIds)
  BY DEF RunFacts
<1>2. /\ Visible \in Seq(CallIds)
      /\ \A i \in 1..Len(Visible) :
           Visible[i] \in Catalog /\ \E j \in 1..Len(Pending) : Visible[i] = Pending[j]
      /\ \A j \in 1..Len(Pending) : Pending[j] \in Catalog =>
           \E i \in 1..Len(Visible) : Visible[i] = Pending[j]
  <2>1. Visible = Chosen(Pending, Catalog)
    BY DEF Visible
  <2> HIDE DEF Visible
  <2>2. QED
    BY <1>1, <2>1, ChosenFacts
<1>3. ASSUME NEW n \in 1..Len(Visible) PROVE Visible[n] \in Waiting \cap Catalog
  <2>1. Visible[n] \in Catalog /\ Visible[n] \in CallIds
    BY <1>2
  <2>2. QED
    BY <1>2, <2>1 DEF RunFacts
<1>4. ASSUME NEW c \in Waiting \cap Catalog PROVE \E n \in 1..Len(Visible) : Visible[n] = c
  <2>1. PICK j \in 1..Len(Pending) : Pending[j] = c
    BY DEF RunFacts, Waiting
  <2>2. QED
    BY <1>2, <2>1
<1>5. QED
  BY <1>2, <1>3, <1>4

Sealable == [n \in DOMAIN Visible |->
               Commit("tool.requested", Visible[n], Publish[Visible[n]], "")]

LEMMA SealableFacts ==
  ASSUME Types, RunFacts
  PROVE  /\ Sealable \in Seq(Rows) /\ Len(Sealable) = Len(Visible)
         /\ \A n \in 1..Len(Visible) : /\ Sealable[n].kind = "tool.requested"
                                       /\ Sealable[n].ref = Visible[n]
<1>1. Visible \in Seq(CallIds) /\ DOMAIN Visible = 1..Len(Visible) /\ Len(Visible) \in Nat
  BY VisibleFacts
<1>2. ASSUME NEW n \in 1..Len(Visible)
      PROVE  /\ Sealable[n] \in Rows
             /\ Sealable[n].kind = "tool.requested" /\ Sealable[n].ref = Visible[n]
  <2>1. Visible[n] \in CallIds /\ Publish[Visible[n]] \in SUBSET Scopes
    BY <1>1, EngineAssumption
  <2>2. frontier \in [Scopes -> Nat]
    BY DEF Types, TypeOK
  <2>3. Commit("tool.requested", Visible[n], Publish[Visible[n]], "") \in Rows
    BY <2>1, <2>2, CommitType DEF Kinds, Outcomes
  <2>4. Sealable[n] = Commit("tool.requested", Visible[n], Publish[Visible[n]], "")
    BY <1>1 DEF Sealable
  <2>5. Sealable[n] \in Rows
    BY <2>3, <2>4
  <2>6. Sealable[n].kind = "tool.requested" /\ Sealable[n].ref = Visible[n]
    <3> DEFINE row == Sealable[n]
               ref == Visible[n]
               scopes == Publish[Visible[n]]
    <3>1. row = Commit("tool.requested", ref, scopes, "")
      BY <2>4
    <3> HIDE DEF row, ref, scopes
    <3>2. row.kind = "tool.requested" /\ row.ref = ref
      BY <3>1 DEF Commit
    <3>3. QED
      BY <3>2 DEF row, ref
  <2>7. QED
    BY <2>5, <2>6
<1>3. Sealable = [n \in 1..Len(Visible) |-> Sealable[n]]
  BY <1>1 DEF Sealable
<1>4. Sealable \in Seq(Rows) /\ Len(Sealable) = Len(Visible)
  BY <1>1, <1>2, <1>3
<1>5. QED
  BY <1>2, <1>4

LEMMA WritingType ==
  ASSUME Types, Driven, RunFacts
  PROVE  Writing \in Seq(Rows)
<1>1. \A r \in Rows : <<r>> \in Seq(Rows)
  OBVIOUS
<1>2. <<>> \in Seq(Rows)
  OBVIOUS
<1>3. CASE at # "step"
  <2>1. \/ Writing = <<>>
        \/ Writing = <<ClaimRecord>>
        \/ ToRecord # {} /\ Writing = <<ResultRecord>>
        \/ Writing = <<Commit("output", "run", {}, "")>>
        \/ Writing = <<Commit("finished", "run", {}, RunStatusRecorded)>>
    BY <1>3, WritingValue
  <2>2. QED
    BY <1>1, <1>2, <2>1, OneRow
<1>4. CASE at = "step"
  <2>1. sub = "disclose" => pc \in {"inferring", "policing"}
    BY DEF Driven
  <2>2. \/ Writing = <<>>
        \/ Writing = <<Commit("model.requested", modelCalls, {}, "")>>
        \/ Writing = <<Commit("model.failed", modelCalls, {}, "")>>
        \/ Writing = <<Commit("model.completed", modelCalls, {}, Len(reply))>>
        \/ Writing = <<Commit("model.delta", modelCalls, {}, Cardinality(disclosed))>>
        \/ pc = "policing" /\ Writing = <<Commit("tool.delta", Pending[1], {}, Cardinality(disclosed))>>
        \/ Writing = Sealable
    BY <1>4, <2>1, WritingValue DEF Sealable
  <2>3. QED
    BY <1>1, <1>2, <2>2, OneRow, SealableFacts
<1>5. QED
  BY <1>3, <1>4

\* An append that was interrupted.
LEMMA MayLand ==
  ASSUME Types, Driven, RunFacts, MayHaveLanded
  PROVE  Grown({Writing[r] : r \in 1..Len(Writing)})
<1>1. log \in Seq(Rows) /\ Writing \in Seq(Rows)
  BY WritingType DEF Types
<1>2. CASE log' = log
  BY <1>1, <1>2 DEF Grown
<1>3. CASE Land(Writing)
  BY <1>1, <1>3, Lands
<1>4. QED
  BY <1>2, <1>3 DEF MayHaveLanded

\* The commit of another writer.
LEMMA WorldRow ==
  ASSUME Types, NEW scopes \in SUBSET Scopes
  PROVE  LET n == Cardinality({i \in DOMAIN log : log[i].kind = "world"})
             row == [Commit("world", n + 1, scopes, "") EXCEPT !.known = [s \in Scopes |-> 0]]
         IN  row \in Rows /\ row.kind = "world"
<1> DEFINE n == Cardinality({i \in DOMAIN log : log[i].kind = "world"})
           row == [Commit("world", n + 1, scopes, "") EXCEPT !.known = [s \in Scopes |-> 0]]
<1>1. log \in Seq(Rows) /\ frontier \in [Scopes -> Nat]
  BY DEF Types, TypeOK
<1>2. n \in Nat
  <2>1. IsFiniteSet(1..Len(log)) /\ DOMAIN log = 1..Len(log)
    BY <1>1, FS_Interval
  <2>2. IsFiniteSet({i \in DOMAIN log : log[i].kind = "world"})
    BY <2>1, FS_Subset
  <2>3. QED
    BY <2>2, FS_CardinalityType
<1> HIDE DEF n
<1>3. [s \in Scopes |-> 0] \in [Scopes -> Nat]
  OBVIOUS
<1>4. Commit("world", n + 1, scopes, "") \in Rows
  <2>1. /\ "world" \in Kinds /\ "" \in Nat \cup Outcomes
        /\ n + 1 \in Nat \cup CallIds \cup {"run"}
    BY <1>2 DEF Kinds, Outcomes
  <2>2. QED
    BY <1>1, <2>1, CommitType
<1>5. \A r \in Rows : \A k \in [Scopes -> Nat] :
        [r EXCEPT !.known = k] \in Rows /\ [r EXCEPT !.known = k].kind = r.kind
  BY DEF Rows
<1>6. Commit("world", n + 1, scopes, "").kind = "world"
  BY DEF Commit
<1>7. row \in Rows /\ row.kind = "world"
  BY <1>3, <1>4, <1>5, <1>6
<1>8. QED
  BY <1>7 DEF n

\* Another writer adds one record of its own.
LEMMA WorldGrows ==
  ASSUME Types, NEW scopes \in SUBSET Scopes \ {{}}, WorldCommit(scopes)
  PROVE  \E r \in Rows : r.kind = "world" /\ Grown({r})
<1> DEFINE n == Cardinality({i \in DOMAIN log : log[i].kind = "world"})
           row == [Commit("world", n + 1, scopes, "") EXCEPT !.known = [s \in Scopes |-> 0]]
<1>1. log' = Append(log, row)
  BY DEF WorldCommit
<1>2. row \in Rows /\ row.kind = "world"
  BY WorldRow
<1> HIDE DEF row
<1>3. log \in Seq(Rows)
  BY DEF Types
<1>4. QED
  BY <1>1, <1>2, <1>3, GrownByOne

\* How a step changes the journal.
LEMMA Written ==
  ASSUME [Next]_vars
  PROVE  \/ log' = log \/ Land(Writing) \/ RivalStarts
         \/ \E scopes \in SUBSET Scopes \ {{}} : WorldCommit(scopes)
<1>1. Loop => log' = log \/ Land(Writing)
  BY DEF Loop, Lookup, Claim, BeforeStep, Record, NotifyReturns, RecordsDone,
     CommitOutput, Finish, AfterStep, Append1
<1>2. Steps => log' = log \/ Land(Writing)
  BY DEF Steps, AgentAdvances, Assembled, RequestModel, ModelAnswers, ModelFails,
     RecordAnswer, AgentGetsReply, BeginTool, LookAtWorld, Disclose, Seal, ToolAllowed,
     ToolEnds, Append1
<1>3. Interruption => log' = log \/ Land(Writing)
  BY DEF Interruption, InterruptClaim, StepRaises, StepCancelled, LoopInterrupted,
     SettlementFails, MayHaveLanded, Append1
<1>4. HostCancels \/ HostAppends \/ UNCHANGED vars => log' = log
  BY DEF HostCancels, HostAppends, vars
<1>5. QED
  BY <1>1, <1>2, <1>3, <1>4 DEF Next, Others

LEMMA Grows ==
  ASSUME Types, Driven, RunFacts, [Next]_vars
  PROVE  \E S : Grown(S)
<1>1. log \in Seq(Rows) /\ Writing \in Seq(Rows) /\ frontier \in [Scopes -> Nat]
  BY WritingType DEF Types, TypeOK
<1>2. CASE log' = log
  BY <1>1, <1>2, NotGrown
<1>3. CASE Land(Writing)
  BY <1>1, <1>3, Lands
<1>4. CASE \E scopes \in SUBSET Scopes \ {{}} : WorldCommit(scopes)
  BY <1>4, WorldGrows
<1>5. CASE RivalStarts
  <2> DEFINE claim == Commit("started", "run", {}, "rival")
  <2>1. log' = Append(log, claim)
    BY <1>5 DEF RivalStarts
  <2>2. claim \in Rows
    BY <1>1, CommitType DEF Kinds, Outcomes
  <2> HIDE DEF claim
  <2>3. QED
    BY <1>1, <2>1, <2>2, GrownByOne
<1>6. QED
  BY <1>2, <1>3, <1>4, <1>5, Written

LEMMA FrontierType ==
  ASSUME Types, Driven, RunFacts, [Next]_vars
  PROVE  frontier' \in [Scopes -> Nat]
<1>1. frontier \in [Scopes -> Nat] /\ log \in Seq(Rows)
  BY DEF Types, TypeOK
<1>2. PICK S : Grown(S)
  BY Grows
<1>3. log' \in Seq(Rows)
  BY <1>2 DEF Grown
<1>4. CASE frontier' = frontier
  BY <1>1, <1>4
<1>5. CASE \E recs : frontier' = Advanced(log', recs)
  <2>1. Len(log') \in Nat /\ DOMAIN log' = 1..Len(log')
    BY <1>3
  <2>2. QED
    BY <1>1, <1>5, <2>1, AdvancedType
<1>6. CASE frontier' = PageEnd(Page)
  <2>1. \A i \in Page : i \in 1..Len(log)
    BY <1>1 DEF Page, Ahead
  <2>2. Len(log) \in Nat
    BY <1>1
  <2>3. QED
    BY <1>1, <1>6, <2>1, <2>2, PageEndType
<1>7. \/ frontier' = frontier
      \/ \E recs : frontier' = Advanced(log', recs)
      \/ frontier' = PageEnd(Page)
  <2>1. CASE Loop
    BY <2>1 DEF Loop, Lookup, Claim, BeforeStep, Record, NotifyReturns, RecordsDone,
       CommitOutput, Finish, AfterStep, Append1, world
  <2>2. CASE Steps
    BY <2>2 DEF Steps, AgentAdvances, Assembled, RequestModel, ModelAnswers, ModelFails,
       RecordAnswer, AgentGetsReply, BeginTool, LookAtWorld, Disclose, Seal, ToolAllowed,
       ToolEnds, Append1, world
  <2>3. CASE Interruption
    BY <2>3 DEF Interruption, InterruptClaim, StepRaises, StepCancelled, LoopInterrupted,
       SettlementFails, Append1, world
  <2>4. CASE Others \/ UNCHANGED vars
    BY <2>4 DEF Others, WorldCommit, RivalStarts, HostCancels, HostAppends, vars, world
  <2>5. QED
    BY <2>1, <2>2, <2>3, <2>4 DEF Next
<1>8. QED
  BY <1>4, <1>5, <1>6, <1>7

\* The bookkeeping of the ledger and of what was disclosed.
Books ==
  /\ RequestScopes \subseteq observed /\ observed \subseteq Scopes
  /\ reviewed \in BOOLEAN
  /\ moreToCome \in BOOLEAN
  /\ sealed \subseteq CallIds
  /\ recorded \subseteq CallIds
  /\ notified \subseteq recorded
  /\ published \in BOOLEAN
  /\ finished \in BOOLEAN
  /\ disclosed \subseteq 1..Len(log)
  /\ arrived \in 0..Len(log)

LEMMA BooksType ==
  ASSUME Types, Driven, RunFacts, [Next]_vars
  PROVE  Books'
<1>1. Books /\ log \in Seq(Rows) /\ Len(log) \in Nat
  BY DEF Types, TypeOK, Books
<1>2. PICK S : Grown(S)
  BY Grows
<1>3. /\ log' \in Seq(Rows) /\ Len(log') \in Nat
      /\ \A i \in 1..Len(log) : i \in 1..Len(log')
  BY <1>2 DEF Grown
<1>4. Len(log) <= Len(log')
  <2>1. CASE Len(log) = 0
    BY <1>3, <2>1
  <2>2. CASE Len(log) # 0
    <3>1. Len(log) \in 1..Len(log)
      BY <1>1, <2>2
    <3>2. QED
      BY <1>3, <3>1
  <2>3. QED
    BY <2>1, <2>2
<1>5. /\ Page \subseteq 1..Len(log)
      /\ ToSet(Visible) \subseteq CallIds
      /\ UNION {Observe[c] : c \in ToSet(Visible)} \subseteq Scopes
  <2>1. Page \subseteq 1..Len(log)
    BY <1>1 DEF Page, Ahead
  <2>2. ToSet(Visible) \subseteq CallIds
    BY VisibleFacts DEF ToSet
  <2>3. \A c \in ToSet(Visible) : Observe[c] \subseteq Scopes
    BY <2>2, EngineAssumption
  <2> HIDE DEF ToSet
  <2>4. QED
    BY <2>1, <2>2, <2>3
<1>6. /\ observed' \in {observed, observed \cup UNION {Observe[c] : c \in ToSet(Visible)}}
      /\ reviewed' \in BOOLEAN
      /\ moreToCome' \in BOOLEAN
      /\ sealed' \in {sealed, sealed \cup ToSet(Visible)}
      /\ \/ recorded' = recorded /\ notified' = notified
         \/ /\ ToRecord # {} /\ recorded' = recorded \cup {NextToRecord}
            /\ notified' \in {notified, notified \cup {NextToRecord}}
      /\ published' \in BOOLEAN
      /\ finished' \in BOOLEAN
      /\ disclosed' \in {disclosed, disclosed \cup Page}
      /\ arrived' \in {arrived, Len(log)}
  <2>1. CASE Loop
    <3>1. CASE Record
      BY <1>1, <3>1 DEF Record, Books
    <3>2. CASE RecordsDone
      BY <1>1, <3>2 DEF RecordsDone, ledger, Books
    <3>3. CASE ~Record /\ ~RecordsDone
      BY <1>1, <2>1, <3>3 DEF Loop, Lookup, Claim, BeforeStep, NotifyReturns,
         CommitOutput, Finish, AfterStep, world, ledger, Books
    <3>4. QED
      BY <3>1, <3>2, <3>3
  <2>2. CASE Steps
    BY <1>1, <2>2 DEF Steps, AgentAdvances, Assembled, RequestModel, ModelAnswers, ModelFails,
       RecordAnswer, AgentGetsReply, BeginTool, LookAtWorld, Disclose, Seal, ToolAllowed,
       ToolEnds, world, ledger, Books
  <2>3. CASE Interruption
    BY <1>1, <2>3 DEF Interruption, InterruptClaim, StepRaises, StepCancelled, LoopInterrupted,
       SettlementFails, world, ledger, Books
  <2>4. CASE Others \/ UNCHANGED vars
    BY <1>1, <2>4 DEF Others, WorldCommit, RivalStarts, HostCancels, HostAppends, vars, world,
       ledger, Books
  <2>5. QED
    BY <2>1, <2>2, <2>3, <2>4 DEF Next
<1>7. ToRecord # {} => NextToRecord \in CallIds
  BY NextIsUnrecorded DEF ToRecord
<1>8. recorded' \subseteq CallIds /\ notified' \subseteq recorded'
  BY <1>1, <1>6, <1>7 DEF Books
<1>9. disclosed' \subseteq 1..Len(log') /\ arrived' \in 0..Len(log')
  <2>1. 1..Len(log) \subseteq 1..Len(log')
    BY <1>3
  <2>2. disclosed' \subseteq 1..Len(log)
    BY <1>1, <1>5, <1>6 DEF Books
  <2>3. arrived' \in 0..Len(log)
    BY <1>1, <1>6 DEF Books
  <2>4. QED
    BY <1>1, <1>3, <1>4, <2>1, <2>2, <2>3
<1>10. /\ RequestScopes \subseteq observed' /\ observed' \subseteq Scopes
       /\ sealed' \subseteq CallIds
  BY <1>1, <1>5, <1>6 DEF Books
<1>11. QED
  BY <1>6, <1>8, <1>9, <1>10 DEF Books

\* Every step keeps the types and knows where it is.
LEMMA TypesStep ==
  ASSUME Types, Driven, RunFacts, RunFacts', [Next]_vars
  PROVE  Types' /\ Driven'
<1>1. Driven' /\ Control'
  <2>1. CASE UNCHANGED vars
    <3>1. /\ UNCHANGED <<policed, continuous, at, pc, sub, failure, settling, ended>>
          /\ Waiting' = Waiting
      BY <2>1 DEF vars, agentVars, control, Waiting
    <3>2. QED
      BY <3>1 DEF Driven, Control, Types, TypeOK
  <2>2. QED
    BY <2>1, LoopControl, StepsControl, InterruptionControl, OthersControl DEF Next
<1>2. Asked'
  BY AskedStep DEF Asked, Types
<1>3. PICK S : Grown(S)
  BY Grows
<1>4. log' \in Seq(Rows)
  BY <1>3 DEF Grown
<1>5. \A i \in DOMAIN log' : log'[i].scopes \subseteq Scopes /\ log'[i].known \in [Scopes -> Nat]
  <2>1. \A i \in DOMAIN log' : log'[i] \in Rows
    BY <1>4
  <2>2. \A r \in Rows : r.scopes \subseteq Scopes /\ r.known \in [Scopes -> Nat]
    BY DEF Rows
  <2>3. QED
    BY <2>1, <2>2
<1>6. reply' \in Seq(CallIds)
  <2>1. \A n \in 0..MaxBatch : \A f \in [1..n -> CallIds] : f \in Seq(CallIds)
    BY EngineAssumption
  <2>2. QED
    BY <1>2, <2>1 DEF Asked, Replies
<1>7. frontier' \in [Scopes -> Nat] /\ Books'
  BY FrontierType, BooksType
<1>8. Agent!TypeOK'
  BY DEF RunFacts
<1>9. QED
  BY <1>1, <1>2, <1>4, <1>5, <1>6, <1>7, <1>8 DEF Types, TypeOK, Control, Books, Asked

-----------------------------------------------------------------------------
\* Steps of the run.

\* In a step nothing of the end is there, and no record of it lands.
LEMMA InStep ==
  ASSUME EInv, Onward, at \notin Unstarted, ~ended, at' \notin Unstarted, NEW S, Grown(S),
         \A r \in S : r.kind \notin {"started", "tool.result", "output", "finished"},
         recorded' = recorded, notified' = notified,
         published' = published, finished' = finished
  PROVE  Beginning' /\ Results' /\ Ends'
<1>1. ~settling
  BY DEF EInv, Ending
<1>2. Beginning'
  BY BeginningStays DEF EInv
<1>3. Results'
  BY <1>1, ResultsStay DEF EInv
<1>4. Ends'
  BY EndsStay DEF EInv
<1>5. QED
  BY <1>2, <1>3, <1>4

LEMMA EndingInStep ==
  ASSUME Ending, at = "step", published' = published, finished' = finished,
         at' \in {"step", "record"},
         ended' => Agent!Terminal' /\ at' = "record",
         settling' => ended', ~settling' => failure' = "none",
         at' = "step" /\ pc' # "returned" => ToRecord' = {}
  PROVE  Ending'
<1>1. ~ended /\ ~published /\ ~finished
  BY DEF Ending
<1>2. QED
  BY <1>1 DEF Ending, Unstarted

\* The records of a step, when it makes some.
LEMMA StepRowsGrow ==
  ASSUME StepRows, Onward, NEW S, Grown(S),
         modelCalls \in Nat, modelCalls' = modelCalls,
         \A kind \in ModelKinds : pc' = "inferring" /\ sub' \in Until(kind)
           => pc = "inferring" /\ sub \in Until(kind),
         \A r \in S : r.kind \in ModelKinds =>
           r.ref = modelCalls /\ sub' \notin Until(r.kind),
         \A r \in S : r.kind = "tool.delta" =>
           /\ r.ref \in CallIds /\ calls[r.ref] # "absent"
           /\ r.ref \in Waiting' => Agent!Terminal' \/ (pc' = "returned" /\ cancelRequested'),
         \A r \in S : r.kind = "tool.requested" => r.ref \in sealed' \/ Agent!Terminal',
         sealed \subseteq sealed', ~Agent!Terminal, pc # "returned",
         sub' = "model" => \E i \in 1..Len(log') :
           log'[i].kind = "model.requested" /\ log'[i].ref = modelCalls'
  PROVE  StepRows'
<1>1. ASSUME NEW i \in 1..Len(log') PROVE (i \in 1..Len(log) /\ log'[i] = log[i]) \/ log'[i] \in S
  BY DEF Grown
<1>2. ASSUME NEW i \in 1..Len(log'), log'[i].kind \in ModelKinds
      PROVE  /\ log'[i].ref \in 0..modelCalls'
             /\ pc' = "inferring" /\ sub' \in Until(log'[i].kind) => log'[i].ref # modelCalls'
  <2>1. CASE log'[i] \in S
    <3>1. log'[i].ref = modelCalls /\ sub' \notin Until(log'[i].kind)
      BY <1>2, <2>1
    <3>2. QED
      BY <3>1
  <2>2. CASE i \in 1..Len(log) /\ log'[i] = log[i]
    <3>1. /\ log[i].ref \in 0..modelCalls
          /\ pc = "inferring" /\ sub \in Until(log[i].kind) => log[i].ref # modelCalls
      BY <1>2, <2>2 DEF StepRows
    <3>2. pc' = "inferring" /\ sub' \in Until(log[i].kind)
            => pc = "inferring" /\ sub \in Until(log[i].kind)
      BY <1>2, <2>2
    <3>3. QED
      BY <2>2, <3>1, <3>2
  <2>3. QED
    BY <1>1, <2>1, <2>2
<1>3. ASSUME NEW i \in 1..Len(log'), log'[i].kind = "tool.delta"
      PROVE  /\ log'[i].ref \in CallIds /\ calls'[log'[i].ref] # "absent"
             /\ log'[i].ref \in Waiting' =>
                  Agent!Terminal' \/ (pc' = "returned" /\ cancelRequested')
  <2>1. CASE log'[i] \in S
    <3>1. /\ log'[i].ref \in CallIds /\ calls[log'[i].ref] # "absent"
          /\ log'[i].ref \in Waiting' =>
               Agent!Terminal' \/ (pc' = "returned" /\ cancelRequested')
      BY <1>3, <2>1
    <3>2. calls'[log'[i].ref] # "absent"
      BY <3>1 DEF Onward
    <3>3. QED
      BY <3>1, <3>2
  <2>2. CASE i \in 1..Len(log) /\ log'[i] = log[i]
    <3>1. log[i].ref \in CallIds /\ calls[log[i].ref] # "absent" /\ log[i].ref \notin Waiting
      BY <1>3, <2>2 DEF StepRows
    <3>2. calls'[log[i].ref] # "absent" /\ log[i].ref \notin Waiting'
      BY <3>1 DEF Onward, Waiting
    <3>3. QED
      BY <2>2, <3>1, <3>2
  <2>3. QED
    BY <1>1, <2>1, <2>2
<1>4. ASSUME NEW i \in 1..Len(log'), log'[i].kind = "tool.requested"
      PROVE  log'[i].ref \in sealed' \/ Agent!Terminal'
  <2>1. CASE log'[i] \in S
    BY <1>4, <2>1
  <2>2. CASE i \in 1..Len(log) /\ log'[i] = log[i]
    BY <1>4, <2>2 DEF StepRows
  <2>3. QED
    BY <1>1, <2>1, <2>2
<1>5. QED
  BY <1>2, <1>3, <1>4 DEF StepRows

\* The premises that the lemmas on single steps share.
Before == EInv /\ RunFacts /\ RunFacts' /\ Onward /\ Types' /\ Driven'
Kept == Ending /\ Beginning /\ StepRows /\ Sealing /\ Results /\ Ends

LEMMA StepFacts ==
  ASSUME Before, at = "step"
  PROVE  /\ ~ended /\ ~settling /\ failure = "none" /\ ~published /\ ~finished
         /\ at \notin Unstarted /\ log \in Seq(Rows) /\ modelCalls \in Nat
         /\ calls \in [CallIds -> Agent!CallStatus \cup {"absent"}]
         /\ executions \in [CallIds -> Nat]
         /\ pc # "returned" => ToRecord = {} /\ ~Agent!Terminal /\ status = "RUNNING"
         /\ pc # "idle" /\ policed /\ ~continuous
<1>1. Types /\ Driven /\ Ending /\ RunFacts
  BY DEF Before, EInv
<1>2. ~ended /\ pc # "idle" /\ policed /\ ~continuous
  BY <1>1 DEF Ending, Driven
<1>3. /\ ~settling /\ failure = "none" /\ ~published /\ ~finished
      /\ pc # "returned" => ToRecord = {}
  BY <1>1, <1>2 DEF Ending
<1>4. pc # "returned" => ~Agent!Terminal /\ status = "RUNNING"
  BY <1>1, <1>2 DEF RunFacts
<1>5. /\ log \in Seq(Rows) /\ modelCalls \in Nat
      /\ calls \in [CallIds -> Agent!CallStatus \cup {"absent"}]
      /\ executions \in [CallIds -> Nat]
  BY <1>1 DEF Types, RunFacts, Agent!TypeOK
<1>6. QED
  BY <1>2, <1>3, <1>4, <1>5 DEF Unstarted

LEMMA AgentAdvancesKeeps == ASSUME Before, AgentAdvances PROVE Kept'
<1>1. at = "step"
  BY DEF AgentAdvances
<1>2. EInv /\ RunFacts /\ Onward /\ Driven'
  BY DEF Before
<1>3. /\ log' = log /\ sub' = "none" /\ at' = (IF pc' = "idle" THEN "record" ELSE "step")
      /\ ended' = (pc' = "idle" /\ status' \in Agent!TerminalStatus)
      /\ UNCHANGED <<failure, settling, sealed, recorded, notified, published, finished,
                     modelCalls, calls, executions, cancelRequested, order>>
      /\ \/ pc = "returned" /\ pc' = "idle"
            /\ status' = (IF Agent!EndCancelled THEN "CANCELLED" ELSE status)
         \/ pc = "advance" /\ pc' \in {"returned", "assembling"}
    BY <1>1, <1>2 DEF AgentAdvances, Stepped, ledger, Agent!AdvanceReturns, Agent!LimitReached,
       Agent!BeginModelStep, Agent!NextAdvance, Agent!Finish, Agent!record, Agent!stats,
       Agent!ending, EInv, Driven
<1>4. Grown({})
  BY <1>1, <1>3, StepFacts, NotGrown
<1>5. Beginning' /\ Results' /\ Ends'
  <2>1. at' \notin Unstarted
    BY <1>3 DEF Unstarted
  <2>2. QED
    BY <1>1, <1>2, <1>3, <1>4, <2>1, StepFacts, InStep
<1>6. Ending'
  <2>1. pc' # "returned" /\ at' = "step" => ToRecord' = {}
    BY <1>1, <1>3, StepFacts DEF ToRecord, Settled
  <2>2. ended' => Agent!Terminal' /\ at' = "record"
    BY <1>3 DEF Agent!Terminal
  <2>3. QED
    BY <1>1, <1>2, <1>3, <2>1, <2>2, StepFacts, EndingInStep DEF EInv
<1>7. StepRows'
  <2>1. Agent!Terminal => Agent!Terminal'
    BY <1>1, <1>3, StepFacts DEF Agent!Terminal, Agent!TerminalStatus
  <2>2. pc = "returned" /\ cancelRequested => Agent!Terminal'
    BY <1>3, <2>1 DEF Agent!Terminal, Agent!TerminalStatus, Agent!EndCancelled
  <2>3. QED
    BY <1>2, <1>3, <1>4, <2>1, <2>2, StepRowsStay DEF EInv
<1>8. Sealing'
  <2>1. Waiting' = Waiting
    BY <1>3 DEF Waiting
  <2>2. \A c \in CallIds : executions'[c] > 0 => c \in sealed
    BY <1>2, <1>3 DEF EInv, Sealing, Executed
  <2>3. pc' # "policing" /\ sub' # "hook"
    BY <1>3
  <2>4. QED
    BY <1>2, <1>3, <1>4, <2>1, <2>2, <2>3, SealingStays DEF EInv
<1>9. QED
  BY <1>5, <1>6, <1>7, <1>8 DEF Kept

LEMMA AssembledKeeps == ASSUME Before, Assembled PROVE Kept'
<1>1. at = "step"
  BY DEF Assembled
<1>2. EInv /\ RunFacts /\ Onward /\ Driven'
  BY DEF Before
<1>3. /\ log' = log /\ at' = "step" /\ pc = "assembling"
      /\ ended' = (pc' = "idle" /\ status' \in Agent!TerminalStatus)
      /\ UNCHANGED <<failure, settling, sealed, recorded, notified, published, finished,
                     calls, executions, cancelRequested, order, status>>
      /\ \/ pc' = "returned" /\ sub' = "none" /\ modelCalls' = modelCalls
         \/ pc' = "inferring" /\ sub' = "request" /\ modelCalls' = modelCalls + 1
  BY <1>1 DEF Assembled, Stepped, ledger, Agent!AssembleReturns, Agent!ending
<1>4. Grown({}) /\ pc # "returned" /\ ~Agent!Terminal
  BY <1>1, <1>3, StepFacts, NotGrown
<1>5. Beginning' /\ Results' /\ Ends'
  <2>1. at' \notin Unstarted
    BY <1>3 DEF Unstarted
  <2>2. QED
    BY <1>1, <1>2, <1>3, <1>4, <2>1, StepFacts, InStep
<1>6. Ending'
  <2>1. ToRecord' = {}
    BY <1>1, <1>3, <1>4, StepFacts DEF ToRecord, Settled
  <2>2. ~ended'
    BY <1>3
  <2>3. QED
    BY <1>1, <1>2, <1>3, <2>1, <2>2, StepFacts, EndingInStep DEF EInv
<1>7. StepRows'
  <2>1. CASE pc' = "returned"
    BY <1>2, <1>3, <1>4, <2>1, StepRowsStay DEF EInv
  <2>2. CASE pc' = "inferring"
    <3>1. \A i \in 1..Len(log) : log[i].kind \in ModelKinds => log[i].ref \in 0..modelCalls
      BY <1>2 DEF EInv, StepRows
    <3>2. \A i \in 1..Len(log) : log[i].kind \in ModelKinds =>
            log[i].ref \in 0..modelCalls' /\ log[i].ref # modelCalls'
      BY <1>1, <1>3, <2>2, <3>1, StepFacts
    <3>3. /\ \A i \in 1..Len(log) : log[i].kind = "tool.delta" =>
               log[i].ref \in CallIds /\ calls[log[i].ref] # "absent" /\ log[i].ref \notin Waiting
          /\ \A i \in 1..Len(log) : log[i].kind = "tool.requested" => log[i].ref \in sealed
      BY <1>2, <1>4 DEF EInv, StepRows
    <3>4. Waiting' = Waiting
      BY <1>3 DEF Waiting
    <3>5. QED
      BY <1>3, <2>2, <3>2, <3>3, <3>4 DEF StepRows
  <2>3. QED
    BY <1>3, <2>1, <2>2
<1>8. Sealing'
  <2>1. Waiting' = Waiting
    BY <1>3 DEF Waiting
  <2>2. \A c \in CallIds : executions'[c] > 0 => c \in sealed
    BY <1>2, <1>3 DEF EInv, Sealing, Executed
  <2>3. pc' # "policing" /\ sub' # "hook"
    BY <1>3
  <2>4. QED
    BY <1>2, <1>3, <1>4, <2>1, <2>2, <2>3, SealingStays DEF EInv
<1>9. QED
  BY <1>5, <1>6, <1>7, <1>8 DEF Kept

\* The session's own steps in a model call.
LEMMA CallKeeps ==
  ASSUME Before, NEW S, Grown(S), at = "step", at' = "step",
         UNCHANGED <<status, calls, order, modelCalls, cancelRequested, pc, executions,
                     failure, settling, ended, sealed, recorded, notified, published,
                     finished>>,
         pc = "inferring", sub' # "hook",
         \A kind \in ModelKinds : sub' \in Until(kind) => sub \in Until(kind),
         \A r \in S : r.kind \in ModelKinds /\ r.ref = modelCalls /\ sub' \notin Until(r.kind),
         sub' = "model" => \E i \in 1..Len(log') :
           log'[i].kind = "model.requested" /\ log'[i].ref = modelCalls
  PROVE  Kept'
<1>1. EInv /\ RunFacts /\ Onward /\ Driven'
  BY DEF Before
<1>2. UNCHANGED <<status, calls, order, modelCalls, cancelRequested, pc, executions>>
  OBVIOUS
<1>3. Beginning' /\ Results' /\ Ends'
  <2>1. at' \notin Unstarted
    BY DEF Unstarted
  <2>2. \A r \in S : r.kind \notin {"started", "tool.result", "output", "finished"}
    BY DEF ModelKinds
  <2>3. QED
    BY <1>1, <2>1, <2>2, StepFacts, InStep
<1>4. Ending'
  <2>1. ToRecord' = {}
    BY <1>2, StepFacts DEF ToRecord, Settled
  <2>2. QED
    BY <1>1, <2>1, StepFacts, EndingInStep DEF EInv
<1>5. StepRows'
  <2>1. \A r \in S : r.kind \notin {"tool.delta", "tool.requested"}
    BY DEF ModelKinds
  <2>2. modelCalls \in Nat /\ ~Agent!Terminal /\ pc # "returned" /\ StepRows
    BY <1>1, StepFacts DEF EInv
  <2>3. QED
    BY <1>1, <1>2, <2>1, <2>2, StepRowsGrow
<1>6. Sealing'
  <2>1. Waiting' = Waiting
    BY <1>2 DEF Waiting
  <2>2. \A c \in CallIds : executions'[c] > 0 => c \in sealed
    BY <1>1, <1>2 DEF EInv, Sealing, Executed
  <2>3. pc' # "policing"
    BY <1>2
  <2>4. QED
    BY <1>1, <2>1, <2>2, <2>3, SealingStays DEF EInv
<1>7. QED
  BY <1>3, <1>4, <1>5, <1>6 DEF Kept

LEMMA RequestModelKeeps == ASSUME Before, RequestModel PROVE Kept'
<1> DEFINE row == Commit("model.requested", modelCalls, {}, "")
<1>1. /\ at = "step" /\ at' = "step" /\ sub = "request" /\ sub' = "model" /\ Land(Writing)
      /\ UNCHANGED <<status, calls, order, modelCalls, cancelRequested, pc, executions,
                     failure, settling, ended, sealed, recorded, notified, published,
                     finished>>
  BY DEF RequestModel, Append1, ledger, agentVars
<1>2. EInv /\ Types /\ Driven /\ RunFacts
  BY DEF Before, EInv
<1>3. Writing = <<row>> /\ row \in Rows /\ log \in Seq(Rows)
  BY <1>1, <1>2, WritingValue, OneRow DEF Types
<1>4. row.kind = "model.requested" /\ row.ref = modelCalls
  BY DEF Commit
<1> HIDE DEF row
<1>5. Grown({row}) /\ \E i \in 1..Len(log') : log'[i] = row
  BY <1>1, <1>3, LandsOne
<1>6. pc = "inferring"
  BY <1>1, <1>2 DEF Driven
<1>7. /\ \A kind \in ModelKinds : sub' \in Until(kind) => sub \in Until(kind)
      /\ sub' \notin Until("model.requested")
  BY <1>1 DEF Until, ModelKinds
<1>8. \A r \in {row} : r.kind \in ModelKinds /\ r.ref = modelCalls /\ sub' \notin Until(r.kind)
  BY <1>4, <1>7 DEF ModelKinds
<1>9. \E i \in 1..Len(log') : log'[i].kind = "model.requested" /\ log'[i].ref = modelCalls
  BY <1>4, <1>5
<1>10. sub' # "hook"
  BY <1>1
<1>11. QED
  BY <1>1, <1>5, <1>6, <1>7, <1>8, <1>9, <1>10, CallKeeps

LEMMA ModelReturnsKeeps ==
  ASSUME Before, (\E ids \in Replies : ModelAnswers(ids)) \/ ModelFails
  PROVE  Kept'
<1>1. /\ at = "step" /\ at' = "step" /\ sub = "model" /\ sub' \in {"completed", "failed"}
      /\ log' = log
      /\ UNCHANGED <<status, calls, order, modelCalls, cancelRequested, pc, executions,
                     failure, settling, ended, sealed, recorded, notified, published,
                     finished>>
  BY DEF ModelAnswers, ModelFails, ledger, agentVars
<1>2. EInv /\ Types /\ Driven /\ RunFacts
  BY DEF Before, EInv
<1>3. Grown({})
  BY <1>1, <1>2, NotGrown DEF Types
<1>4. pc = "inferring"
  BY <1>1, <1>2 DEF Driven
<1>5. \A kind \in ModelKinds : sub' \in Until(kind) => sub \in Until(kind)
  BY <1>1 DEF Until, ModelKinds
<1>6. sub' # "hook" /\ sub' # "model"
  BY <1>1
<1>7. QED
  BY <1>1, <1>3, <1>4, <1>5, <1>6, CallKeeps

LEMMA RecordAnswerKeeps == ASSUME Before, RecordAnswer PROVE Kept'
<1> DEFINE row == Commit("model.completed", modelCalls, {}, Len(reply))
<1>1. /\ at = "step" /\ at' = "step" /\ sub = "completed" /\ sub' \in {"delta", "reply"}
      /\ Land(Writing)
      /\ UNCHANGED <<status, calls, order, modelCalls, cancelRequested, pc, executions,
                     failure, settling, ended, sealed, recorded, notified, published,
                     finished>>
  BY DEF RecordAnswer, Append1, ledger, agentVars
<1>2. EInv /\ Types /\ Driven /\ RunFacts
  BY DEF Before, EInv
<1>3. Writing = <<row>> /\ row \in Rows /\ log \in Seq(Rows)
  BY <1>1, <1>2, WritingValue, OneRow DEF Types
<1>4. row.kind = "model.completed" /\ row.ref = modelCalls
  BY DEF Commit
<1> HIDE DEF row
<1>5. Grown({row})
  BY <1>1, <1>3, LandsOne
<1>6. pc = "inferring"
  BY <1>1, <1>2 DEF Driven
<1>7. /\ \A kind \in ModelKinds : sub' \in Until(kind) => sub \in Until(kind)
      /\ sub' \notin Until("model.completed")
  BY <1>1 DEF Until, ModelKinds
<1>8. \A r \in {row} : r.kind \in ModelKinds /\ r.ref = modelCalls /\ sub' \notin Until(r.kind)
  BY <1>4, <1>7 DEF ModelKinds
<1>9. sub' # "hook" /\ sub' # "model"
  BY <1>1
<1>10. QED
  BY <1>1, <1>5, <1>6, <1>7, <1>8, <1>9, CallKeeps

LEMMA AgentGetsReplyKeeps == ASSUME Before, AgentGetsReply PROVE Kept'
<1>1. at = "step" /\ sub = "reply"
  BY DEF AgentGetsReply
<1>2. EInv /\ RunFacts /\ Onward /\ Driven' /\ pc = "inferring"
  BY <1>1 DEF Before, EInv, Driven
<1>3. /\ log' = log /\ sub' = "none" /\ at' = (IF pc' = "idle" THEN "record" ELSE "step")
      /\ pc' \in {"idle", "returned"} /\ ended' = (pc' = "idle")
      /\ UNCHANGED <<failure, settling, sealed, recorded, notified, published, finished,
                     modelCalls, executions, cancelRequested>>
      /\ pc' = "idle" => status' = "FAILED"
  BY <1>1 DEF AgentGetsReply, ledger, Agent!ModelReplies, Agent!Finish, Agent!stats
<1>4. Grown({}) /\ pc # "returned" /\ ~Agent!Terminal
  BY <1>1, <1>2, <1>3, StepFacts, NotGrown DEF Before
<1>5. Beginning' /\ Results' /\ Ends'
  <2>1. at' \notin Unstarted
    BY <1>3 DEF Unstarted
  <2>2. QED
    BY <1>1, <1>2, <1>3, <1>4, <2>1, StepFacts, InStep
<1>6. Ending'
  <2>1. at' = "step" => pc' = "returned"
    BY <1>3
  <2>2. ended' => Agent!Terminal' /\ at' = "record"
    BY <1>3 DEF Agent!Terminal, Agent!TerminalStatus
  <2>3. QED
    BY <1>1, <1>2, <1>3, <2>1, <2>2, StepFacts, EndingInStep DEF EInv
<1>7. StepRows'
  BY <1>2, <1>3, <1>4, StepRowsStay DEF EInv
<1>8. Sealing'
  <2>1. Waiting = {}
    BY <1>2 DEF EInv, Driven
  <2>2. \A c \in CallIds : executions'[c] > 0 => c \in sealed
    BY <1>2, <1>3 DEF EInv, Sealing, Executed
  <2>3. pc' # "policing" /\ sub' # "hook"
    BY <1>3
  <2>4. \A c \in Waiting' : c \notin sealed
    <3>1. \A c \in Waiting' : c \in CallIds /\ calls[c] \in {"absent", "PENDING"}
      BY <1>2 DEF Waiting, Onward
    <3>2. \A c \in Waiting' : calls[c] = "absent"
      BY <2>1, <3>1 DEF Waiting
    <3>3. QED
      BY <1>2, <3>2 DEF EInv, Sealing
  <2>5. QED
    BY <1>2, <1>3, <1>4, <2>1, <2>2, <2>3, <2>4, SealingStays DEF EInv
<1>9. QED
  BY <1>5, <1>6, <1>7, <1>8 DEF Kept

LEMMA SamePending == ASSUME UNCHANGED <<calls, order>> PROVE Pending' = Pending
BY DEF Pending, Agent!Pending, Agent!FirstPending

\* The first call that waits.
LEMMA FirstWaits ==
  ASSUME RunFacts, Pending # <<>>
  PROVE  Head(Pending) = Pending[1] /\ Pending[1] \in Waiting
<1>1. Pending \in Seq(CallIds) /\ 1 \in 1..Len(Pending) /\ Head(Pending) = Pending[1]
  BY DEF RunFacts
<1>2. Pending[1] \in CallIds
  BY <1>1
<1>3. QED
  BY <1>1, <1>2 DEF RunFacts

\* The session's own steps before a tool.
LEMMA PolicyKeeps ==
  ASSUME Before, log' = log, at = "step", at' = "step",
         UNCHANGED <<status, calls, order, modelCalls, cancelRequested, pc, executions,
                     failure, settling, ended, sealed, recorded, notified, published,
                     finished>>,
         pc = "policing", sub = "delta", sub' \in {"disclose", "seal"}
  PROVE  Kept'
<1>1. EInv /\ RunFacts /\ Onward /\ Driven'
  BY DEF Before
<1>2. Grown({})
  BY StepFacts, NotGrown
<1>3. Beginning' /\ Results' /\ Ends'
  <2>1. at' \notin Unstarted
    BY DEF Unstarted
  <2>2. QED
    BY <1>1, <1>2, <2>1, StepFacts, InStep
<1>4. Ending'
  <2>1. ToRecord' = {}
    BY StepFacts DEF ToRecord, Settled
  <2>2. QED
    BY <1>1, <2>1, StepFacts, EndingInStep DEF EInv
<1>5. StepRows'
  <2>1. modelCalls \in Nat /\ ~Agent!Terminal /\ pc # "returned" /\ StepRows
    BY <1>1, StepFacts DEF EInv
  <2>2. QED
    BY <1>1, <1>2, <2>1, StepRowsGrow
<1>6. Sealing'
  <2>1. Waiting' = Waiting
    BY DEF Waiting
  <2>2. \A c \in CallIds : executions'[c] > 0 => c \in sealed
    BY <1>1 DEF EInv, Sealing, Executed
  <2>3. Pending' = Pending /\ Pending[1] \notin sealed
    BY <1>1, SamePending DEF EInv, Sealing
  <2>4. QED
    BY <1>1, <1>2, <2>1, <2>2, <2>3, SealingStays DEF EInv
<1>7. QED
  BY <1>3, <1>4, <1>5, <1>6 DEF Kept

LEMMA LookAtWorldKeeps == ASSUME Before, LookAtWorld PROVE Kept'
<1>1. /\ at = "step" /\ at' = "step" /\ sub = "delta" /\ log' = log
      /\ sub' \in {"disclose", IF pc = "policing" THEN "seal" ELSE "reply"}
      /\ UNCHANGED <<status, calls, order, modelCalls, cancelRequested, pc, executions,
                     failure, settling, ended, sealed, recorded, notified, published,
                     finished>>
  BY DEF LookAtWorld, ledger, agentVars
<1>2. EInv /\ Types /\ Driven /\ RunFacts
  BY DEF Before, EInv
<1>3. CASE pc = "policing"
  BY <1>1, <1>3, PolicyKeeps
<1>4. CASE pc = "inferring"
  <2>1. Grown({})
    BY <1>1, <1>2, NotGrown DEF Types
  <2>2. sub' \in {"disclose", "reply"}
    BY <1>1, <1>4
  <2>3. \A kind \in ModelKinds : sub' \in Until(kind) => sub \in Until(kind)
    BY <1>1, <2>2 DEF Until, ModelKinds
  <2>4. QED
    BY <1>1, <1>4, <2>1, <2>2, <2>3, CallKeeps
<1>5. QED
  BY <1>1, <1>2, <1>3, <1>4 DEF Driven

\* A step that settles calls that were not recorded, and makes none wait.
LEMMA OutcomeKeeps ==
  ASSUME Before, at = "step", pc # "returned", sub' = "none", at' = "step",
         pc' \in {"returned", "executing"}, pc' = "executing" => ToRecord' = {},
         NEW S, Grown(S),
         \A r \in S : /\ r.kind = "tool.delta" /\ r.ref \in CallIds /\ calls[r.ref] # "absent"
                      /\ r.ref \in Waiting' => pc' = "returned" /\ cancelRequested',
         UNCHANGED <<failure, settling, ended, sealed, recorded, notified, published,
                     finished, modelCalls>>,
         Waiting' \subseteq Waiting,
         \A c \in CallIds : executions'[c] > 0 => c \in sealed
  PROVE  Kept'
<1>1. EInv /\ RunFacts /\ Onward /\ Driven'
  BY DEF Before
<1>2. Beginning' /\ Results' /\ Ends'
  <2>1. at' \notin Unstarted
    BY DEF Unstarted
  <2>2. QED
    BY <1>1, <2>1, StepFacts, InStep
<1>3. Ending'
  BY <1>1, StepFacts, EndingInStep DEF EInv
<1>4. StepRows'
  <2>1. modelCalls \in Nat /\ ~Agent!Terminal /\ StepRows
    BY <1>1, StepFacts DEF EInv
  <2>2. \A r \in S : r.kind \notin ModelKinds \cup {"tool.requested"}
    BY DEF ModelKinds
  <2>3. \A kind \in ModelKinds : ~(pc' = "inferring" /\ sub' \in Until(kind))
    OBVIOUS
  <2>4. QED
    BY <1>1, <2>1, <2>2, <2>3, StepRowsGrow
<1>5. Sealing'
  <2>1. pc' # "policing" /\ sub' # "hook"
    OBVIOUS
  <2>2. QED
    BY <1>1, <2>1, SealingStays DEF EInv
<1>6. QED
  BY <1>2, <1>3, <1>4, <1>5 DEF Kept

LEMMA BeginToolKeeps == ASSUME Before, BeginTool PROVE Kept'
<1>1. at = "step"
  BY DEF BeginTool
<1>2. EInv /\ RunFacts /\ Onward /\ Driven'
  BY DEF Before
<1>3. /\ log' = log /\ at' = "step" /\ pc = "advance" /\ Pending # <<>>
      /\ ended' = FALSE
      /\ UNCHANGED <<failure, settling, sealed, recorded, notified, published, finished,
                     modelCalls, executions, cancelRequested, order, status>>
      /\ \/ pc' = "returned" /\ sub' = "none" /\ Agent!RecordOutput(<<Head(Pending)>>, TRUE)
         \/ /\ pc' = "policing" /\ calls' = calls
            /\ Pending[1] \in Catalog
            /\ sub' = (IF Pending[1] \in sealed THEN "hook" ELSE FirstLook)
  BY <1>1, StepFacts DEF BeginTool, Stepped, ledger, Agent!BeginToolStep, Agent!ending, Pending
<1>4. Grown({}) /\ pc # "returned" /\ ~Agent!Terminal /\ ended' = ended
  BY <1>1, <1>3, StepFacts, NotGrown DEF Before, EInv, Types, TypeOK
<1>5. \A c \in CallIds : executions'[c] > 0 => c \in sealed
  BY <1>2, <1>3 DEF EInv, Sealing, Executed
<1>6. CASE pc' = "returned"
  <2>1. Agent!RecordOutput(<<Head(Pending)>>, TRUE) /\ sub' = "none"
    BY <1>3, <1>6
  <2>2. Waiting' \subseteq Waiting
    BY <2>1 DEF Waiting, Agent!RecordOutput
  <2>3. QED
    BY <1>1, <1>3, <1>4, <1>5, <1>6, <2>1, <2>2, OutcomeKeeps
<1>7. CASE pc' = "policing"
  <2>1. /\ calls' = calls /\ Pending[1] \in Catalog
        /\ sub' \in {"hook", "seal", "delta"}
        /\ (sub' = "hook") = (Pending[1] \in sealed)
    BY <1>3, <1>7 DEF FirstLook
  <2>2. Waiting' = Waiting /\ Pending' = Pending
    BY <1>3, <2>1, SamePending DEF Waiting
  <2>3. Beginning' /\ Results' /\ Ends'
    <3>1. at' \notin Unstarted
      BY <1>3 DEF Unstarted
    <3>2. QED
      BY <1>1, <1>2, <1>3, <1>4, <3>1, StepFacts, InStep
  <2>4. Ending'
    <3>1. ToRecord' = {}
      BY <1>1, <1>3, <1>4, <2>1, StepFacts DEF ToRecord, Settled
    <3>2. QED
      BY <1>1, <1>2, <1>3, <3>1, StepFacts, EndingInStep DEF EInv
  <2>5. StepRows'
    <3>1. modelCalls \in Nat /\ StepRows
      BY <1>1, <1>2, StepFacts DEF EInv
    <3>2. \A kind \in ModelKinds : ~(pc' = "inferring" /\ sub' \in Until(kind))
      BY <1>7
    <3>3. sub' # "model"
      BY <2>1
    <3>4. QED
      BY <1>2, <1>3, <1>4, <3>1, <3>2, <3>3, StepRowsGrow
  <2>6. Sealing'
    <3>1. ASSUME NEW c \in sealed PROVE c \in CallIds /\ calls[c] # "absent" /\ Requested(c)
      BY <1>2 DEF EInv, Sealing
    <3>2. \A c \in sealed : Requested(c)'
      BY <1>3, <3>1 DEF Requested
    <3>3. (\E c \in Waiting \cap Catalog : c \in sealed) => Waiting \cap Catalog \subseteq sealed
      BY <1>2 DEF EInv, Sealing
    <3>4. QED
      BY <1>3, <1>5, <2>1, <2>2, <3>1, <3>2, <3>3 DEF Sealing, Executed
  <2>7. QED
    BY <2>3, <2>4, <2>5, <2>6 DEF Kept
<1>8. QED
  BY <1>3, <1>6, <1>7

LEMMA DiscloseKeeps == ASSUME Before, Disclose PROVE Kept'
<1>1. at = "step" /\ sub = "disclose" /\ Land(Writing)
  BY DEF Disclose, Append1
<1>2. EInv /\ Types /\ Driven /\ RunFacts /\ log \in Seq(Rows)
  BY DEF Before, EInv, Types
<1>3. CASE pc = "inferring"
  <2> DEFINE row == Commit("model.delta", modelCalls, {}, Cardinality(disclosed))
  <2>1. /\ at' = "step" /\ sub' = "reply" /\ ended' = FALSE
        /\ UNCHANGED <<status, calls, order, modelCalls, cancelRequested, pc, executions,
                       failure, settling, sealed, recorded, notified, published, finished>>
    BY <1>1, <1>3 DEF Disclose, Stepped, ledger, Agent!AppendMessage, Agent!ending, Agent!record,
       Agent!stats
  <2>2. Writing = <<row>> /\ row \in Rows
    BY <1>1, <1>2, <1>3, WritingValue, OneRow
  <2>3. row.kind = "model.delta" /\ row.ref = modelCalls
    BY DEF Commit
  <2> HIDE DEF row
  <2>4. Grown({row})
    BY <1>1, <1>2, <2>2, LandsOne
  <2>5. /\ \A kind \in ModelKinds : sub' \notin Until(kind)
    BY <2>1 DEF Until, ModelKinds
  <2>6. \A r \in {row} : r.kind \in ModelKinds /\ r.ref = modelCalls /\ sub' \notin Until(r.kind)
    BY <2>3, <2>5 DEF ModelKinds
  <2>7. ended' = ended
    BY <1>1, <2>1, StepFacts DEF Before, EInv, Types, TypeOK
  <2>8. QED
    BY <1>1, <1>3, <2>1, <2>4, <2>5, <2>6, <2>7, CallKeeps
<1>4. CASE pc = "policing"
  <2> DEFINE row == Commit("tool.delta", Pending[1], {}, Cardinality(disclosed))
  <2>1. /\ at' = "step" /\ sub' = "none" /\ ended' = FALSE /\ pc' = "returned"
        /\ UNCHANGED <<executions, modelCalls, cancelRequested,
                       failure, settling, sealed, recorded, notified, published, finished>>
        /\ \/ cancelRequested /\ calls' = calls
           \/ Agent!RecordOutput(Pending, TRUE)
    BY <1>1, <1>4 DEF Disclose, Stepped, ledger, Agent!PolicyDecides, Agent!AbandonStep,
       Agent!Refused, Pending
  <2>2. Writing = <<row>> /\ row \in Rows
    BY <1>1, <1>2, <1>4, WritingValue, OneRow
  <2>3. row.kind = "tool.delta" /\ row.ref = Pending[1]
    BY DEF Commit
  <2> HIDE DEF row
  <2>4. Grown({row})
    BY <1>1, <1>2, <2>2, LandsOne
  <2>5. Pending[1] \in Waiting /\ Pending \in Seq(CallIds) /\ 1 \in DOMAIN Pending
    BY <1>2, <1>4, FirstWaits DEF RunFacts
  <2>6. Pending[1] \in CallIds /\ calls[Pending[1]] # "absent"
    BY <2>5 DEF Waiting
  <2>7. Waiting' \subseteq Waiting
    BY <2>1 DEF Waiting, Agent!RecordOutput
  <2>8. Pending[1] \in Waiting' => pc' = "returned" /\ cancelRequested'
    <3>1. CASE cancelRequested
      BY <2>1, <3>1
    <3>2. CASE ~cancelRequested
      <4>1. Agent!RecordOutput(Pending, TRUE)
        BY <2>1, <3>2
      <4>2. Pending[1] \in ToSet(Pending)
        BY <2>5 DEF ToSet
      <4>3. calls'[Pending[1]] = "FAILED"
        BY <2>6, <4>1, <4>2 DEF Agent!RecordOutput, ToSet, Agent!ToSet
      <4>4. QED
        BY <4>3 DEF Waiting
    <3>3. QED
      BY <3>1, <3>2
  <2>9. \A r \in {row} :
          /\ r.kind = "tool.delta" /\ r.ref \in CallIds /\ calls[r.ref] # "absent"
          /\ r.ref \in Waiting' => pc' = "returned" /\ cancelRequested'
    BY <2>3, <2>6, <2>8
  <2>10. \A c \in CallIds : executions'[c] > 0 => c \in sealed
    BY <1>2, <2>1 DEF EInv, Sealing, Executed
  <2>11. ended' = ended
    BY <1>1, <2>1, StepFacts DEF Before, EInv, Types, TypeOK
  <2>12. QED
    BY <1>1, <1>4, <2>1, <2>4, <2>7, <2>9, <2>10, <2>11, OutcomeKeeps
<1>5. QED
  BY <1>1, <1>2, <1>3, <1>4 DEF Driven

LEMMA SealKeeps == ASSUME Before, Seal PROVE Kept'
<1>1. /\ at = "step" /\ at' = "step" /\ sub = "seal" /\ sub' = "hook" /\ Land(Writing)
      /\ sealed' = sealed \cup ToSet(Visible)
      /\ UNCHANGED <<status, calls, order, modelCalls, cancelRequested, pc, executions,
                     failure, settling, ended, recorded, notified, published, finished>>
  BY DEF Seal, Append1, agentVars
<1>2. EInv /\ RunFacts /\ Onward /\ Types /\ Driven /\ log \in Seq(Rows)
  BY DEF Before, EInv, Types
<1>3. pc = "policing"
  BY <1>1, <1>2 DEF Driven
<1>4. Writing = Sealable
  BY <1>1, WritingValue DEF Sealable
<1>5. /\ Sealable \in Seq(Rows) /\ Len(Sealable) = Len(Visible)
      /\ \A n \in 1..Len(Visible) : Sealable[n].kind = "tool.requested" /\ Sealable[n].ref = Visible[n]
  BY <1>2, SealableFacts
<1>6. /\ Visible \in Seq(CallIds)
      /\ \A n \in 1..Len(Visible) : Visible[n] \in Waiting \cap Catalog
      /\ \A c \in Waiting \cap Catalog : \E n \in 1..Len(Visible) : Visible[n] = c
  BY <1>2, VisibleFacts
<1>7. ToSet(Visible) = Waiting \cap Catalog
  BY <1>6 DEF ToSet
<1> DEFINE S == {Sealable[n] : n \in 1..Len(Sealable)}
<1>8. /\ Grown(S)
      /\ \A n \in 1..Len(Sealable) : \E i \in 1..Len(log') : log'[i] = Sealable[n]
  BY <1>1, <1>2, <1>4, <1>5, Lands
<1>9. \A r \in S : r.kind = "tool.requested" /\ r.ref \in Waiting \cap Catalog
  BY <1>5, <1>6
<1> HIDE DEF S
<1>10. Beginning' /\ Results' /\ Ends'
  <2>1. at' \notin Unstarted
    BY <1>1 DEF Unstarted
  <2>2. \A r \in S : r.kind \notin {"started", "tool.result", "output", "finished"}
    BY <1>9
  <2>3. QED
    BY <1>1, <1>2, <1>8, <2>1, <2>2, StepFacts, InStep
<1>11. Ending'
  <2>1. ToRecord' = {}
    BY <1>1, <1>3, StepFacts DEF ToRecord, Settled
  <2>2. QED
    BY <1>1, <1>2, <2>1, StepFacts, EndingInStep DEF EInv
<1>12. StepRows'
  <2>1. modelCalls \in Nat /\ ~Agent!Terminal /\ pc # "returned" /\ StepRows
    BY <1>1, <1>2, <1>3, StepFacts DEF EInv
  <2>2. \A r \in S : r.kind \notin ModelKinds \cup {"tool.delta"}
    BY <1>9 DEF ModelKinds
  <2>3. \A r \in S : r.ref \in sealed'
    BY <1>1, <1>7, <1>9
  <2>4. sub' # "model" /\ pc' # "inferring" /\ sealed \subseteq sealed' /\ modelCalls' = modelCalls
    BY <1>1, <1>3
  <2>5. QED
    BY <1>2, <1>8, <2>1, <2>2, <2>3, <2>4, StepRowsGrow
<1>13. Sealing'
  <2>1. Waiting' = Waiting /\ Pending' = Pending
    BY <1>1, SamePending DEF Waiting
  <2>2. ASSUME NEW c \in sealed' PROVE c \in CallIds /\ calls'[c] # "absent" /\ Requested(c)'
    <3>1. CASE c \in sealed
      <4>1. c \in CallIds /\ calls[c] # "absent" /\ Requested(c)
        BY <1>2, <3>1 DEF EInv, Sealing
      <4>2. Requested(c)'
        <5>1. PICK i \in 1..Len(log) : log[i].kind = "tool.requested" /\ log[i].ref = c
          BY <4>1 DEF Requested
        <5>2. i \in 1..Len(log') /\ log'[i] = log[i]
          BY <1>8 DEF Grown
        <5>3. QED
          BY <5>1, <5>2 DEF Requested
      <4>3. QED
        BY <1>1, <4>1, <4>2
    <3>2. CASE c \in ToSet(Visible)
      <4>1. c \in Waiting \cap Catalog
        BY <1>7, <3>2
      <4>2. PICK n \in 1..Len(Visible) : Visible[n] = c
        BY <1>6, <4>1
      <4>3. PICK i \in 1..Len(log') : log'[i] = Sealable[n]
        BY <1>5, <1>8, <4>2
      <4>4. log'[i].kind = "tool.requested" /\ log'[i].ref = c
        BY <1>5, <4>2, <4>3
      <4>5. Requested(c)'
        BY <4>4 DEF Requested
      <4>6. QED
        BY <1>1, <4>1, <4>5 DEF Waiting
    <3>3. QED
      BY <1>1, <2>2, <3>1, <3>2
  <2>3. Waiting \cap Catalog \subseteq sealed'
    BY <1>1, <1>7
  <2>4. Pending[1] \in Catalog /\ Pending[1] \in Waiting
    BY <1>2, <1>3, FirstWaits DEF EInv, Sealing, RunFacts
  <2>5. \A c \in CallIds : Executed(c)' => c \in sealed'
    BY <1>1, <1>2 DEF EInv, Sealing, Executed
  <2>6. QED
    BY <1>1, <2>1, <2>2, <2>3, <2>4, <2>5 DEF Sealing
<1>14. QED
  BY <1>10, <1>11, <1>12, <1>13 DEF Kept

LEMMA ToolAllowedKeeps == ASSUME Before, ToolAllowed PROVE Kept'
<1>1. at = "step" /\ sub = "hook"
  BY DEF ToolAllowed
<1>2. EInv /\ RunFacts /\ Driven
  BY DEF Before, EInv
<1>3. pc = "policing" /\ Pending # <<>> /\ Pending[1] \in sealed
  BY <1>1, <1>2 DEF EInv, Driven, RunFacts, Sealing
<1>4. /\ log' = log /\ at' = "step" /\ sub' = "none" /\ ended' = FALSE
      /\ UNCHANGED <<failure, settling, sealed, recorded, notified, published, finished,
                     modelCalls, cancelRequested>>
      /\ \/ pc' = "returned" /\ UNCHANGED <<calls, executions>>
         \/ pc' = "executing" /\ Agent!StartTool(Head(Pending))
  BY <1>1 DEF ToolAllowed, Stepped, ledger, Agent!PolicyDecides, Agent!StartTool, Pending
<1>5. Grown({}) /\ ended' = ended /\ ToRecord = {}
      /\ calls \in [CallIds -> Agent!CallStatus \cup {"absent"}]
      /\ executions \in [CallIds -> Nat]
  BY <1>1, <1>3, <1>4, StepFacts, NotGrown DEF Before, EInv, Types, TypeOK
<1>6. Head(Pending) = Pending[1] /\ Pending[1] \in Waiting
  BY <1>2, <1>3, FirstWaits
<1>7. \A c \in CallIds : executions[c] > 0 => c \in sealed
  BY <1>2 DEF EInv, Sealing, Executed
<1>8. CASE pc' = "returned"
  <2>1. UNCHANGED <<calls, executions>>
    BY <1>4, <1>8
  <2>2. Waiting' \subseteq Waiting
    BY <2>1 DEF Waiting
  <2>3. QED
    BY <1>1, <1>3, <1>4, <1>5, <1>7, <1>8, <2>1, <2>2, OutcomeKeeps
<1>9. CASE pc' = "executing"
  <2> DEFINE c0 == Pending[1]
  <2>1. /\ calls' = [calls EXCEPT ![c0] = "RUNNING"]
        /\ executions' = [executions EXCEPT ![c0] = @ + 1] /\ c0 \in sealed
    BY <1>3, <1>4, <1>6, <1>9 DEF Agent!StartTool
  <2> HIDE DEF c0
  <2>2. Waiting' \subseteq Waiting
    BY <1>5, <2>1 DEF Waiting
  <2>3. \A c \in CallIds : executions'[c] > 0 => c \in sealed
    BY <1>5, <1>7, <2>1
  <2>4. ToRecord' = {}
    BY <1>4, <1>5, <2>1 DEF ToRecord, Settled
  <2>5. QED
    BY <1>1, <1>3, <1>4, <1>5, <1>9, <2>2, <2>3, <2>4, OutcomeKeeps
<1>10. QED
  BY <1>4, <1>8, <1>9

LEMMA ToolEndsKeeps == ASSUME Before, ToolEnds PROVE Kept'
<1>1. at = "step" /\ pc = "executing"
  BY DEF ToolEnds, Agent!ToolReturns, Agent!ToolEffectUnknown
<1>2. EInv /\ RunFacts /\ Driven
  BY DEF Before, EInv
<1>3. /\ log' = log /\ at' = "step" /\ sub' = "none" /\ ended' = FALSE /\ pc' = "returned"
      /\ UNCHANGED <<failure, settling, sealed, recorded, notified, published, finished,
                     modelCalls, executions>>
      /\ \/ \E c \in CallIds : \E error \in BOOLEAN : Agent!RecordOutput(<<c>>, error)
         \/ calls' = Agent!MarkUnknown
  BY <1>1 DEF ToolEnds, Stepped, ledger, Agent!ToolReturns, Agent!ToolEffectUnknown,
     Agent!stats, Agent!Running
<1>4. Grown({}) /\ ended' = ended
  BY <1>1, <1>3, StepFacts, NotGrown DEF Before, EInv, Types, TypeOK
<1>5. \A c \in CallIds : executions'[c] > 0 => c \in sealed
  BY <1>2, <1>3 DEF EInv, Sealing, Executed
<1>6. Waiting' \subseteq Waiting
  BY <1>3 DEF Waiting, Agent!RecordOutput, Agent!MarkUnknown
<1>7. QED
  BY <1>1, <1>3, <1>4, <1>5, <1>6, OutcomeKeeps

\* A step that does not return ends the run.
LEMMA BrokenKeeps ==
  ASSUME Before, at = "step", at' = "record", sub' = "none", pc' = "idle", ended',
         Agent!Terminal', pc # "returned", modelCalls' = modelCalls,
         ~settling' => failure' = "none", calls' = Agent!MarkUnknown, executions' = executions,
         UNCHANGED <<sealed, recorded, notified, published, finished>>,
         NEW S, Grown(S),
         \A r \in S : r.kind \in StepKinds /\ (r.kind \in ModelKinds => r.ref = modelCalls)
                      /\ (r.kind = "tool.delta" => r.ref \in CallIds /\ calls[r.ref] # "absent")
  PROVE  Kept'
<1>1. EInv /\ RunFacts /\ Onward /\ Driven'
  BY DEF Before
<1>2. Beginning' /\ Results' /\ Ends'
  <2>1. at' \notin Unstarted
    BY DEF Unstarted
  <2>2. \A r \in S : r.kind \notin {"started", "tool.result", "output", "finished"}
    BY DEF StepKinds, ModelKinds
  <2>3. QED
    BY <1>1, <2>1, <2>2, StepFacts, InStep
<1>3. Ending'
  BY <1>1, StepFacts, EndingInStep DEF EInv
<1>4. StepRows'
  <2>1. modelCalls \in Nat /\ ~Agent!Terminal /\ StepRows
    BY <1>1, StepFacts DEF EInv
  <2>2. \A kind \in ModelKinds : sub' \notin Until(kind)
    BY DEF Until, ModelKinds
  <2>3. QED
    BY <1>1, <2>1, <2>2, StepRowsGrow
<1>5. Sealing'
  <2>1. pc' # "policing" /\ sub' # "hook"
    OBVIOUS
  <2>2. Waiting' \subseteq Waiting
    BY DEF Waiting, Agent!MarkUnknown
  <2>3. \A c \in CallIds : executions'[c] > 0 => c \in sealed
    BY <1>1 DEF EInv, Sealing, Executed
  <2>4. QED
    BY <1>1, <2>1, <2>2, <2>3, SealingStays DEF EInv
<1>6. QED
  BY <1>2, <1>3, <1>4, <1>5 DEF Kept

\* What a step writes.
LEMMA StepWrites ==
  ASSUME Types, Driven, RunFacts, at = "step"
  PROVE  \A n \in 1..Len(Writing) :
           /\ Writing[n].kind \in StepKinds
           /\ Writing[n].kind \in ModelKinds => Writing[n].ref = modelCalls
           /\ Writing[n].kind = "tool.delta" =>
                Writing[n].ref \in CallIds /\ calls[Writing[n].ref] # "absent"
<1> DEFINE Good(r) == /\ r.kind \in StepKinds
                      /\ r.kind \in ModelKinds => r.ref = modelCalls
                      /\ r.kind = "tool.delta" => r.ref \in CallIds /\ calls[r.ref] # "absent"
<1>1. /\ Good(Commit("model.requested", modelCalls, {}, ""))
      /\ Good(Commit("model.failed", modelCalls, {}, ""))
      /\ Good(Commit("model.completed", modelCalls, {}, Len(reply)))
      /\ Good(Commit("model.delta", modelCalls, {}, Cardinality(disclosed)))
  BY DEF Commit, StepKinds, ModelKinds
<1>2. pc = "policing" => Good(Commit("tool.delta", Pending[1], {}, Cardinality(disclosed)))
  <2>1. pc = "policing" => Pending[1] \in CallIds /\ calls[Pending[1]] # "absent"
    BY FirstWaits DEF Waiting, RunFacts
  <2>2. QED
    BY <2>1 DEF Commit, StepKinds, ModelKinds
<1>3. \A n \in 1..Len(Sealable) : Good(Sealable[n])
  BY SealableFacts DEF StepKinds, ModelKinds
<1> HIDE DEF Good
<1>4. \A r : Good(r) => \A n \in 1..Len(<<r>>) : Good(<<r>>[n])
  OBVIOUS
<1>5. \/ Writing = <<>>
      \/ Writing = <<Commit("model.requested", modelCalls, {}, "")>>
      \/ Writing = <<Commit("model.failed", modelCalls, {}, "")>>
      \/ Writing = <<Commit("model.completed", modelCalls, {}, Len(reply))>>
      \/ Writing = <<Commit("model.delta", modelCalls, {}, Cardinality(disclosed))>>
      \/ pc = "policing" /\ Writing = <<Commit("tool.delta", Pending[1], {}, Cardinality(disclosed))>>
      \/ Writing = Sealable
  BY WritingValue DEF Sealable, Driven
<1>6. \/ Writing = <<>>
      \/ \E r : Good(r) /\ Writing = <<r>>
      \/ Writing = Sealable
  BY <1>1, <1>2, <1>5, Zenon
<1>7. \A n \in 1..Len(Writing) : Good(Writing[n])
  <2>1. CASE Writing = <<>>
    BY <2>1
  <2>2. CASE \E r : Good(r) /\ Writing = <<r>>
    BY <1>4, <2>2
  <2>3. CASE Writing = Sealable
    BY <1>3, <2>3
  <2>4. QED
    BY <1>6, <2>1, <2>2, <2>3
<1>8. QED
  BY <1>7 DEF Good

LEMMA StepInterruptedKeeps == ASSUME Before, StepRaises \/ StepCancelled PROVE Kept'
<1>1. /\ at = "step" /\ at' = "record" /\ sub' = "none" /\ pc' = "idle" /\ ended'
      /\ pc \in Agent!Awaits
      /\ status' \in {"FAILED", "CANCELLED"} /\ modelCalls' = modelCalls
      /\ failure' \in {failure, "error", "cancelled"}
      /\ failure' # failure => settling'
      /\ calls' = Agent!MarkUnknown /\ executions' = executions
      /\ UNCHANGED <<sealed, recorded, notified, published, finished>>
      /\ log' = log \/ Land(Writing)
  BY DEF StepRaises, StepCancelled, Stepped, EnterSettlement, Agent!AwaitRaises,
     Agent!DriverCancelled, Agent!Finish, Agent!stats, Agent!TerminalStatus, MayHaveLanded,
     Append1, ledger
<1>2. pc # "returned" /\ Agent!Terminal' /\ (~settling' => failure' = "none")
  BY <1>1, StepFacts DEF Agent!Awaits, Agent!Terminal, Agent!TerminalStatus
<1>3. EInv /\ RunFacts /\ Types /\ Driven
  BY DEF Before, EInv
<1> DEFINE S == {Writing[n] : n \in 1..Len(Writing)}
<1>4. Grown(S)
  <2>1. Writing \in Seq(Rows) /\ log \in Seq(Rows)
    BY <1>3, WritingType DEF Types
  <2>2. CASE log' = log
    BY <2>1, <2>2 DEF Grown
  <2>3. CASE Land(Writing)
    BY <2>1, <2>3, Lands
  <2>4. QED
    BY <1>1, <2>2, <2>3
<1>5. \A r \in S : r.kind \in StepKinds /\ (r.kind \in ModelKinds => r.ref = modelCalls)
                   /\ (r.kind = "tool.delta" => r.ref \in CallIds /\ calls[r.ref] # "absent")
  BY <1>1, <1>3, StepWrites
<1> HIDE DEF S
<1>6. QED
  BY <1>1, <1>2, <1>4, <1>5, BrokenKeeps

\* Every step of the run.
LEMMA StepsKeep == ASSUME Before, Steps PROVE Kept'
BY AgentAdvancesKeeps, AssembledKeeps, RequestModelKeeps, ModelReturnsKeeps, RecordAnswerKeeps,
   AgentGetsReplyKeeps, BeginToolKeeps, LookAtWorldKeeps, DiscloseKeeps, SealKeeps,
   ToolAllowedKeeps, ToolEndsKeeps DEF Steps

-----------------------------------------------------------------------------
\* The loop around the steps, and its settlement.

\* Outside of steps no call changes.
LEMMA OutsideKeeps ==
  ASSUME Before, at # "step", NEW S, Grown(S), \A r \in S : r.kind \notin StepKinds,
         UNCHANGED <<calls, executions, modelCalls, sealed, sub>>,
         pc' \in {"idle", "advance"}, Agent!Terminal => Agent!Terminal'
  PROVE  StepRows' /\ Sealing'
<1>1. EInv /\ Onward /\ pc = "idle" /\ sub = "none"
  BY DEF Before, EInv, Driven, Types, TypeOK
<1>2. StepRows'
  BY <1>1, StepRowsStay DEF EInv
<1>3. Waiting' = Waiting
  BY DEF Waiting
<1>4. \A c \in CallIds : executions'[c] > 0 => c \in sealed
  BY <1>1 DEF EInv, Sealing, Executed
<1>5. pc' # "policing" /\ sub' # "hook"
  BY <1>1
<1>6. Sealing'
  BY <1>1, <1>3, <1>4, <1>5, SealingStays DEF EInv
<1>7. QED
  BY <1>2, <1>6

LEMMA SameRecords ==
  ASSUME UNCHANGED <<calls, recorded>>
  PROVE  /\ ToRecord' = ToRecord
         /\ UNCHANGED <<frontier, order, sealed>> => ResultRecord' = ResultRecord
<1>1. ToRecord' = ToRecord
  BY DEF ToRecord, Settled
<1>2. ASSUME UNCHANGED <<frontier, order, sealed>> PROVE ResultRecord' = ResultRecord
  <2>1. NextToRecord' = NextToRecord
    BY <1>1, <1>2 DEF NextToRecord
  <2>2. PublishOf(NextToRecord)' = PublishOf(NextToRecord)
    BY <1>2, <2>1 DEF PublishOf
  <2>3. QED
    BY <1>2, <2>1, <2>2 DEF ResultRecord, Commit
<1>3. QED
  BY <1>1, <1>2

\* A move of the loop alone.
LEMMA MoveKeeps ==
  ASSUME Before, at # "step", at' # "step",
         UNCHANGED <<log, status, calls, order, executions, modelCalls, pc, sub, failure,
                     settling, ended, frontier, sealed, recorded, notified, published,
                     finished>>,
         at \in Unstarted => at' \in Unstarted, at \notin Unstarted => at' \notin Unstarted,
         Ending',
         settling /\ at' # "unsettled" /\ at = "record" /\ ToRecord = {} /\ ~published /\
           status = "COMPLETED" => at' \in {"record", "output"},
         settling /\ at' # "unsettled" /\ at = "record" /\ ToRecord = {} /\ ~finished =>
           at' \in {"record", "output", "finish"} /\ (at' = "output" => ~published),
         at = "record" /\ ToRecord # {} => at' \in {"record", "unsettled"},
         at = "output" => at' = "unsettled", at = "finish" => at' = "unsettled",
         at # "unsettled"
  PROVE  Kept'
<1>1. EInv /\ Onward /\ pc = "idle" /\ log \in Seq(Rows)
  BY DEF Before, EInv, Driven, Types
<1>2. Grown({})
  BY <1>1, NotGrown
<1>3. StepRows' /\ Sealing'
  <2>1. Agent!Terminal' = Agent!Terminal
    BY DEF Agent!Terminal
  <2>2. QED
    BY <1>1, <1>2, <2>1, OutsideKeeps
<1>4. ToRecord' = ToRecord /\ ResultRecord' = ResultRecord
  BY SameRecords
<1>5. /\ RunStatusRecorded' = RunStatusRecorded
      /\ Commit("output", "run", {}, "")' = Commit("output", "run", {}, "")
      /\ Commit("finished", "run", {}, RunStatusRecorded)' =
           Commit("finished", "run", {}, RunStatusRecorded)
  BY DEF RunStatusRecorded, Commit
<1>6. Beginning'
  BY <1>1 DEF EInv, Beginning
<1>7. Results'
  <2>1. \A c \in recorded : c \in CallIds
    BY <1>1 DEF EInv, Types, TypeOK
  <2>2. ASSUME NEW c \in recorded'
        PROVE  Settled(c)' /\ Told(c)' /\ (Executed(c)' => c \in notified')
    BY <1>1, <2>2 DEF EInv, Results, Settled, Told, Executed
  <2>3. ASSUME NEW i \in 1..Len(log'), log'[i].kind = "tool.result", log'[i].ref \notin recorded'
        PROVE  settling' /\ (at' # "unsettled" =>
                 at' = "record" /\ ToRecord' # {} /\ log'[i] = ResultRecord')
    <3>1. settling /\ at = "record" /\ ToRecord # {} /\ log[i] = ResultRecord
      BY <1>1, <2>3 DEF EInv, Results
    <3>2. QED
      BY <1>4, <3>1
  <2>4. QED
    BY <2>2, <2>3 DEF Results
<1>8. Ends'
  <2>1. Ends
    BY <1>1 DEF EInv
  <2>2. ASSUME NEW i \in 1..Len(log'), log'[i].kind = "output"
        PROVE  /\ status' = "COMPLETED" /\ ended' /\ log'[i].ref = "run"
               /\ published' \/ (/\ settling'
                                 /\ at' # "unsettled" =>
                                      /\ at' \in {"record", "output"} /\ ToRecord' = {}
                                      /\ log'[i] = Commit("output", "run", {}, "")')
    <3>1. /\ status = "COMPLETED" /\ ended /\ log[i].ref = "run"
          /\ published \/ (/\ settling /\ at \in {"record", "output"} /\ ToRecord = {}
                           /\ log[i] = Commit("output", "run", {}, ""))
      BY <2>1, <2>2 DEF Ends
    <3>2. QED
      BY <1>4, <1>5, <3>1
  <2>3. ASSUME NEW i \in 1..Len(log'), log'[i].kind = "finished"
        PROVE  /\ ended' /\ log'[i].ref = "run" /\ ToRecord' = {}
               /\ status' = "COMPLETED" => published'
               /\ finished' \/ (/\ settling'
                                /\ at' # "unsettled" =>
                                     /\ at' \in {"record", "finish"}
                                     /\ log'[i] = Commit("finished", "run", {}, RunStatusRecorded)')
    <3>1. /\ ended /\ log[i].ref = "run" /\ ToRecord = {}
          /\ status = "COMPLETED" => published
          /\ finished \/ (/\ settling /\ at \in {"record", "finish"}
                          /\ log[i] = Commit("finished", "run", {}, RunStatusRecorded))
      BY <2>1, <2>3 DEF Ends
    <3>2. at' = "output" => status = "COMPLETED"
      BY DEF Ending
    <3>3. QED
      BY <1>4, <1>5, <3>1, <3>2
  <2>4. QED
    <3>1. /\ published' => \E i \in 1..Len(log') : log'[i].kind = "output"
          /\ finished' => \E i \in 1..Len(log') : log'[i].kind = "finished"
          /\ \A i \in 1..Len(log') : log'[i].kind = "finished" =>
               (log'[i].result = "COMPLETED" <=> \E j \in 1..i : log'[j].kind = "output")
      BY <1>1, <2>1 DEF Ends
    <3>2. QED
      BY <2>2, <2>3, <3>1 DEF Ends
<1>9. QED
  BY <1>3, <1>6, <1>7, <1>8 DEF Kept

LEMMA LookupKeeps == ASSUME Before, Lookup PROVE Kept'
<1>1. /\ at = "lookup" /\ at' \in {"refused", "claim"}
      /\ UNCHANGED <<log, status, calls, order, executions, modelCalls, pc, sub, failure,
                     settling, ended, frontier, sealed, recorded, notified, published,
                     finished>>
  BY DEF Lookup, GoTo, agentVars, world, ledger
<1>2. ToRecord' = ToRecord
  BY <1>1, SameRecords
<1>3. Ending'
  BY <1>1, <1>2 DEF Before, EInv, Ending, Unstarted
<1>4. QED
  BY <1>1, <1>3, MoveKeeps DEF Unstarted

LEMMA NotifyReturnsKeeps == ASSUME Before, NotifyReturns PROVE Kept'
<1>1. /\ at = "notify" /\ at' = "record"
      /\ UNCHANGED <<log, status, calls, order, executions, modelCalls, pc, sub, failure,
                     settling, ended, frontier, sealed, recorded, notified, published,
                     finished>>
  BY DEF NotifyReturns, GoTo, agentVars, world, ledger
<1>2. ToRecord' = ToRecord
  BY <1>1, SameRecords
<1>3. Agent!Terminal' = Agent!Terminal
  BY <1>1 DEF Agent!Terminal
<1>4. Ending'
  BY <1>1, <1>2, <1>3 DEF Before, EInv, Ending, Unstarted
<1>5. QED
  BY <1>1, <1>4, MoveKeeps DEF Unstarted

LEMMA SettlementFailsKeeps == ASSUME Before, SettlementFails PROVE Kept'
<1>1. /\ settling /\ at' = "unsettled"
      /\ at \in {"notify", "output", "finish"} \/ (at = "record" /\ ToRecord # {})
      /\ UNCHANGED <<log, status, calls, order, executions, modelCalls, pc, sub, failure,
                     settling, ended, frontier, sealed, recorded, notified, published,
                     finished>>
  BY DEF SettlementFails, GoTo, agentVars, world, ledger
<1>2. ToRecord' = ToRecord
  BY <1>1, SameRecords
<1>3. Agent!Terminal' = Agent!Terminal
  BY <1>1 DEF Agent!Terminal
<1>4. Ending'
  BY <1>1, <1>2, <1>3 DEF Before, EInv, Ending, Unstarted
<1>5. QED
  BY <1>1, <1>4, MoveKeeps DEF Unstarted

LEMMA RecordsDoneKeeps == ASSUME Before, RecordsDone PROVE Kept'
<1>1. /\ at = "record" /\ ToRecord = {}
      /\ UNCHANGED <<log, status, calls, order, executions, modelCalls, pc, sub, failure,
                     settling, ended, frontier, sealed, recorded, notified, published,
                     finished>>
      /\ IF finished \/ ~ended
         THEN \/ ~settling /\ at' = "after"
              \/ settling /\ at' \in {"returned", "raised"}
         ELSE at' = (IF status = "COMPLETED" /\ ~published THEN "output" ELSE "finish")
  BY DEF RecordsDone, GoTo, Leave, Closing, agentVars, ledger
<1>2. ToRecord' = {}
  BY <1>1, SameRecords
<1>3. Agent!Terminal' = Agent!Terminal
  BY <1>1 DEF Agent!Terminal
<1>4. EInv /\ Ending /\ Ends /\ Types
  BY DEF Before, EInv
<1>5. settling => ended
  BY <1>4 DEF Ending
<1>6. Ending'
  BY <1>1, <1>2, <1>3, <1>4 DEF Ending, Unstarted
<1>7. finished /\ status = "COMPLETED" => published
  BY <1>4 DEF Ends
<1>8. QED
  BY <1>1, <1>5, <1>6, <1>7, MoveKeeps DEF Unstarted

LEMMA BeforeStepKeeps == ASSUME Before, BeforeStep PROVE Kept'
<1>1. at = "before"
  BY DEF BeforeStep
<1>2. EInv /\ RunFacts /\ Onward /\ pc = "idle" /\ log \in Seq(Rows) /\ ~ended
  BY <1>1 DEF Before, EInv, Driven, Types, Ending
<1>3. ~settling /\ failure = "none" /\ ~published /\ ~finished /\ ToRecord = {}
  BY <1>1, <1>2 DEF EInv, Ending
<1>4. /\ log' = log
      /\ UNCHANGED <<calls, order, executions, modelCalls, sub, failure, settling, frontier,
                     sealed, recorded, notified, published, finished>>
      /\ \/ at' = "record" /\ ended' /\ status' = status /\ pc' = pc /\ Agent!Terminal
         \/ at' = "step" /\ ended' = ended /\ pc' = "advance" /\ ~Agent!Terminal
  BY <1>1 DEF BeforeStep, GoTo, agentVars, world, ledger, Agent!Drive, Agent!record, Agent!stats
<1>5. Grown({}) /\ at # "step" /\ at \notin Unstarted /\ at' \notin Unstarted
  BY <1>1, <1>2, <1>4, NotGrown DEF Unstarted
<1>6. Beginning' /\ Results' /\ Ends'
  BY <1>2, <1>4, <1>5, InStep
<1>7. Agent!Terminal => Agent!Terminal'
  BY <1>4 DEF Agent!Terminal
<1>8. StepRows' /\ Sealing'
  BY <1>2, <1>4, <1>5, <1>7, OutsideKeeps
<1>9. Ending'
  <2>1. ToRecord' = {}
    BY <1>3, <1>4, SameRecords
  <2>2. QED
    BY <1>2, <1>3, <1>4, <1>7, <2>1 DEF Ending, Unstarted
<1>10. QED
  BY <1>6, <1>8, <1>9 DEF Kept

LEMMA RecordKeeps == ASSUME Before, Record PROVE Kept'
<1> DEFINE c == NextToRecord
           row == ResultRecord
<1>1. /\ at = "record" /\ ToRecord # {} /\ Land(Writing)
      /\ recorded' = recorded \cup {c}
      /\ UNCHANGED <<status, calls, order, executions, modelCalls, pc, sub, failure,
                     settling, ended, sealed, published, finished>>
      /\ at' \in {"record", "notify"}
      /\ notified' \in {notified, notified \cup {c}}
      /\ Executed(c) => c \in notified'
  BY DEF Record, Append1, GoTo, agentVars, control
<1>2. EInv /\ Types /\ Driven /\ RunFacts /\ Onward /\ log \in Seq(Rows) /\ pc = "idle"
  BY <1>1 DEF Before, EInv, Driven, Types
<1>3. c \in ToRecord
  BY <1>1, <1>2, NextIsUnrecorded
<1>4. c \in CallIds /\ Settled(c) /\ c \notin recorded
  BY <1>3 DEF ToRecord
<1>5. Writing = <<row>> /\ row \in Rows
  BY <1>1, <1>2, WritingValue, OneRow
<1>6. row.kind = "tool.result" /\ row.ref = c /\ row.result = calls[c]
  BY DEF ResultRecord, Commit
<1> HIDE DEF c, row
<1>7. /\ Grown({row})
      /\ \E i \in 1..Len(log') : log'[i] = row
  BY <1>1, <1>2, <1>5, LandsOne
<1>8. at # "step" /\ at \notin Unstarted /\ at' \notin Unstarted
  BY <1>1 DEF Unstarted
<1>9. StepRows' /\ Sealing'
  <2>1. Agent!Terminal' = Agent!Terminal
    BY <1>1 DEF Agent!Terminal
  <2>2. \A r \in {row} : r.kind \notin StepKinds
    BY <1>6 DEF StepKinds, ModelKinds
  <2>3. QED
    BY <1>1, <1>2, <1>7, <1>8, <2>1, <2>2, OutsideKeeps
<1>10. Beginning'
  <2>1. \A r \in {row} : r.kind # "started"
    BY <1>6
  <2>2. QED
    BY <1>2, <1>7, <1>8, <2>1, BeginningStays DEF EInv
<1>11. ~finished
  BY <1>1, <1>2 DEF EInv, Ending
<1>12. Ending'
  <2>1. Agent!Terminal' = Agent!Terminal
    BY <1>1 DEF Agent!Terminal
  <2>2. QED
    BY <1>1, <1>2, <1>11, <2>1 DEF EInv, Ending, Unstarted
<1>13. Results'
  <2>1. ASSUME NEW d \in recorded'
        PROVE  Settled(d)' /\ Told(d)' /\ (Executed(d)' => d \in notified')
    <3>1. CASE d = c
      <4>1. Told(d)'
        <5>1. PICK i \in 1..Len(log') : log'[i] = row
          BY <1>7
        <5>2. log'[i].kind = "tool.result" /\ log'[i].ref = d /\ log'[i].result = calls'[d]
          BY <1>1, <1>6, <3>1, <5>1
        <5>3. QED
          BY <5>2 DEF Told
      <4>2. Settled(d)' /\ (Executed(d)' => d \in notified')
        BY <1>1, <1>4, <3>1 DEF Settled, Executed
      <4>3. QED
        BY <4>1, <4>2
    <3>2. CASE d \in recorded
      <4>1. d \in CallIds /\ Settled(d) /\ Told(d) /\ (Executed(d) => d \in notified)
        BY <1>2, <3>2 DEF EInv, Results, Types, TypeOK
      <4>2. Settled(d)' /\ Told(d)'
        BY <1>2, <1>7, <4>1, ToldStays
      <4>3. Executed(d)' => d \in notified'
        BY <1>1, <4>1 DEF Executed
      <4>4. QED
        BY <4>2, <4>3
    <3>3. QED
      BY <1>1, <2>1, <3>1, <3>2
  <2>2. ASSUME NEW i \in 1..Len(log'), log'[i].kind = "tool.result", log'[i].ref \notin recorded'
        PROVE  FALSE
    <3>1. log'[i] # row
      BY <1>1, <1>6, <2>2
    <3>2. i \in 1..Len(log) /\ log'[i] = log[i]
      BY <1>7, <3>1 DEF Grown
    <3>3. log[i] = ResultRecord
      BY <1>1, <1>2, <2>2, <3>2 DEF EInv, Results
    <3>4. QED
      BY <3>1, <3>2, <3>3 DEF row
  <2>3. QED
    BY <2>1, <2>2 DEF Results
<1>14. Ends'
  <2>1. /\ \A i \in 1..Len(log) : log[i].kind = "output" =>
             status = "COMPLETED" /\ ended /\ log[i].ref = "run" /\ published
        /\ \A i \in 1..Len(log) : log[i].kind # "finished"
        /\ published => \E i \in 1..Len(log) : log[i].kind = "output"
    BY <1>1, <1>2 DEF EInv, Ends
  <2>2. ASSUME NEW i \in 1..Len(log'), log'[i].kind \in {"output", "finished"}
        PROVE  i \in 1..Len(log) /\ log'[i] = log[i]
    BY <1>6, <1>7, <2>2 DEF Grown
  <2>3. \A i \in 1..Len(log') : log'[i].kind = "output" =>
          status' = "COMPLETED" /\ ended' /\ log'[i].ref = "run" /\ published'
    BY <1>1, <2>1, <2>2
  <2>4. \A i \in 1..Len(log') : log'[i].kind # "finished"
    BY <2>1, <2>2
  <2>5. published' => \E i \in 1..Len(log') : log'[i].kind = "output"
    BY <1>1, <1>7, <2>1, StillThere
  <2>6. ~finished'
    BY <1>1, <1>11
  <2>7. QED
    BY <2>3, <2>4, <2>5, <2>6 DEF Ends
<1>15. QED
  BY <1>9, <1>10, <1>12, <1>13, <1>14 DEF Kept

LEMMA CommitOutputKeeps == ASSUME Before, CommitOutput PROVE Kept'
<1> DEFINE row == Commit("output", "run", {}, "")
<1>1. /\ at = "output" /\ at' = "finish" /\ Land(Writing) /\ published' = TRUE
      /\ UNCHANGED <<status, calls, order, executions, modelCalls, pc, sub, failure,
                     settling, ended, sealed, recorded, notified, finished>>
  BY DEF CommitOutput, Append1, GoTo, agentVars
<1>2. EInv /\ Types /\ Driven /\ RunFacts /\ Onward /\ log \in Seq(Rows) /\ pc = "idle"
  BY <1>1 DEF Before, EInv, Driven, Types
<1>3. Writing = <<row>> /\ row \in Rows
  BY <1>1, <1>2, WritingValue, OneRow
<1>4. row.kind = "output" /\ row.ref = "run"
  BY DEF Commit
<1> HIDE DEF row
<1>5. /\ Grown({row})
      /\ \E i \in 1..Len(log') : log'[i] = row
  BY <1>1, <1>2, <1>3, LandsOne
<1>6. at # "step" /\ at \notin Unstarted /\ at' \notin Unstarted
  BY <1>1 DEF Unstarted
<1>7. Agent!Terminal' = Agent!Terminal /\ ToRecord' = ToRecord
  BY <1>1, SameRecords DEF Agent!Terminal
<1>8. StepRows' /\ Sealing'
  <2>1. \A r \in {row} : r.kind \notin StepKinds
    BY <1>4 DEF StepKinds, ModelKinds
  <2>2. QED
    BY <1>1, <1>2, <1>5, <1>6, <1>7, <2>1, OutsideKeeps
<1>9. Beginning'
  <2>1. \A r \in {row} : r.kind # "started"
    BY <1>4
  <2>2. QED
    BY <1>2, <1>5, <1>6, <2>1, BeginningStays DEF EInv
<1>10. ended /\ status = "COMPLETED" /\ ~finished /\ ToRecord = {}
  BY <1>1, <1>2 DEF EInv, Ending
<1>11. Ending'
  BY <1>1, <1>2, <1>7, <1>10 DEF EInv, Ending, Unstarted
<1>12. \A i \in 1..Len(log) : log[i].kind = "tool.result" => log[i].ref \in recorded
  BY <1>1, <1>2 DEF EInv, Results
<1>13. Results'
  <2>1. ASSUME NEW d \in recorded'
        PROVE  Settled(d)' /\ Told(d)' /\ (Executed(d)' => d \in notified')
    <3>1. d \in CallIds /\ Settled(d) /\ Told(d) /\ (Executed(d) => d \in notified)
      BY <1>1, <1>2, <2>1 DEF EInv, Results, Types, TypeOK
    <3>2. Settled(d)' /\ Told(d)'
      BY <1>2, <1>5, <3>1, ToldStays
    <3>3. QED
      BY <1>1, <3>1, <3>2 DEF Executed
  <2>2. \A i \in 1..Len(log') : log'[i].kind = "tool.result" => log'[i].ref \in recorded'
    <3>1. ASSUME NEW i \in 1..Len(log'), log'[i].kind = "tool.result"
          PROVE  i \in 1..Len(log) /\ log'[i] = log[i]
      BY <1>4, <1>5, <3>1 DEF Grown
    <3>2. QED
      BY <1>1, <1>12, <3>1
  <2>3. QED
    BY <2>1, <2>2 DEF Results
<1>14. Ends'
  <2>1. \A i \in 1..Len(log) : log[i].kind # "finished"
    BY <1>1, <1>2, <1>10 DEF EInv, Ends
  <2>2. \A i \in 1..Len(log') : log'[i].kind # "finished"
    BY <1>4, <1>5, <2>1 DEF Grown
  <2>3. \A i \in 1..Len(log) : log[i].kind = "output" => log[i].ref = "run"
    BY <1>2 DEF EInv, Ends
  <2>4. \A i \in 1..Len(log') : log'[i].kind = "output" => log'[i].ref = "run"
    BY <1>4, <1>5, <2>3 DEF Grown
  <2>5. \E i \in 1..Len(log') : log'[i].kind = "output"
    BY <1>4, <1>5
  <2>6. QED
    BY <1>1, <1>10, <2>2, <2>4, <2>5 DEF Ends
<1>15. QED
  BY <1>8, <1>9, <1>11, <1>13, <1>14 DEF Kept

LEMMA FinishKeeps == ASSUME Before, Finish PROVE Kept'
<1> DEFINE row == Commit("finished", "run", {}, RunStatusRecorded)
<1>1. /\ at = "finish" /\ Land(Writing) /\ finished' = TRUE
      /\ \/ ~settling /\ at' = "after"
         \/ settling /\ at' \in {"returned", "raised"}
      /\ UNCHANGED <<status, calls, order, executions, modelCalls, pc, sub, failure,
                     settling, ended, sealed, recorded, notified, published>>
  BY DEF Finish, Leave, Append1, GoTo, agentVars
<1>2. EInv /\ Types /\ Driven /\ RunFacts /\ Onward /\ log \in Seq(Rows) /\ pc = "idle"
  BY <1>1 DEF Before, EInv, Driven, Types
<1>3. Writing = <<row>> /\ row \in Rows
  BY <1>1, <1>2, WritingValue, OneRow
<1>4. row.kind = "finished" /\ row.ref = "run" /\ row.result = RunStatusRecorded
  BY DEF Commit
<1> HIDE DEF row
<1>5. /\ Grown({row})
      /\ \A i \in 1..Len(log') : i \notin 1..Len(log) => log'[i] = row
      /\ \E i \in 1..Len(log') : log'[i] = row
  BY <1>1, <1>2, <1>3, LandsOne
<1>6. at # "step" /\ at \notin Unstarted /\ at' \notin Unstarted
  BY <1>1 DEF Unstarted
<1>7. Agent!Terminal' = Agent!Terminal /\ ToRecord' = ToRecord
  BY <1>1, SameRecords DEF Agent!Terminal
<1>8. StepRows' /\ Sealing'
  <2>1. \A r \in {row} : r.kind \notin StepKinds
    BY <1>4 DEF StepKinds, ModelKinds
  <2>2. QED
    BY <1>1, <1>2, <1>5, <1>6, <1>7, <2>1, OutsideKeeps
<1>9. Beginning'
  <2>1. \A r \in {row} : r.kind # "started"
    BY <1>4
  <2>2. QED
    BY <1>2, <1>5, <1>6, <2>1, BeginningStays DEF EInv
<1>10. ended /\ ~finished /\ ToRecord = {} /\ (status = "COMPLETED" => published)
  BY <1>1, <1>2 DEF EInv, Ending
<1>11. Ending'
  BY <1>1, <1>2, <1>7, <1>10 DEF EInv, Ending, Unstarted
<1>12. \A i \in 1..Len(log) : log[i].kind = "tool.result" => log[i].ref \in recorded
  BY <1>1, <1>2 DEF EInv, Results
<1>13. Results'
  <2>1. ASSUME NEW d \in recorded'
        PROVE  Settled(d)' /\ Told(d)' /\ (Executed(d)' => d \in notified')
    <3>1. d \in CallIds /\ Settled(d) /\ Told(d) /\ (Executed(d) => d \in notified)
      BY <1>1, <1>2, <2>1 DEF EInv, Results, Types, TypeOK
    <3>2. Settled(d)' /\ Told(d)'
      BY <1>2, <1>5, <3>1, ToldStays
    <3>3. QED
      BY <1>1, <3>1, <3>2 DEF Executed
  <2>2. \A i \in 1..Len(log') : log'[i].kind = "tool.result" => log'[i].ref \in recorded'
    <3>1. ASSUME NEW i \in 1..Len(log'), log'[i].kind = "tool.result"
          PROVE  i \in 1..Len(log) /\ log'[i] = log[i]
      BY <1>4, <1>5, <3>1 DEF Grown
    <3>2. QED
      BY <1>1, <1>12, <3>1
  <2>3. QED
    BY <2>1, <2>2 DEF Results
<1>14. Ends'
  <2>1. /\ published => \E i \in 1..Len(log) : log[i].kind = "output"
        /\ \A i \in 1..Len(log) : log[i].kind = "output" =>
             status = "COMPLETED" /\ ended /\ log[i].ref = "run" /\ published
        /\ \A i \in 1..Len(log) : log[i].kind = "finished" => log[i].ref = "run"
        /\ \A i \in 1..Len(log) : log[i].kind = "finished" =>
             (log[i].result = "COMPLETED" <=> \E j \in 1..i : log[j].kind = "output")
    BY <1>1, <1>2, <1>10 DEF EInv, Ends
  <2>2. /\ published' => \E i \in 1..Len(log') : log'[i].kind = "output"
        /\ finished' => \E i \in 1..Len(log') : log'[i].kind = "finished"
    <3>1. (\E i \in 1..Len(log) : log[i].kind = "output") =>
            \E i \in 1..Len(log') : log'[i].kind = "output"
      BY <1>5 DEF Grown
    <3>2. QED
      BY <1>1, <1>4, <1>5, <2>1, <3>1
  <2>3. \A i \in 1..Len(log') : log'[i].kind = "output" =>
          status' = "COMPLETED" /\ ended' /\ log'[i].ref = "run" /\ published'
    BY <1>1, <1>4, <1>5, <2>1 DEF Grown
  <2>4. \A i \in 1..Len(log') : log'[i].kind = "finished" =>
          ended' /\ log'[i].ref = "run" /\ ToRecord' = {} /\ (status' = "COMPLETED" => published')
    BY <1>1, <1>4, <1>5, <1>7, <1>10, <2>1 DEF Grown
  <2>5. ASSUME NEW i \in 1..Len(log'), log'[i].kind = "finished"
        PROVE  log'[i].result = "COMPLETED" <=> \E j \in 1..i : log'[j].kind = "output"
    <3>1. CASE i \in 1..Len(log)
      <4>1. \A j \in 1..i : j \in 1..Len(log) /\ log'[j] = log[j]
        BY <1>2, <1>5, <3>1 DEF Grown
      <4>2. log'[i] = log[i] /\ log[i].kind = "finished"
        BY <1>5, <2>5, <3>1 DEF Grown
      <4>3. QED
        BY <2>1, <3>1, <4>1, <4>2
    <3>2. CASE i \notin 1..Len(log)
      <4>1. log'[i].result = RunStatusRecorded
        BY <1>4, <1>5, <3>2
      <4>2. RunStatusRecorded = "COMPLETED" <=> status = "COMPLETED"
        BY DEF RunStatusRecorded
      <4>3. status = "COMPLETED" => \E j \in 1..i : log'[j].kind = "output"
        <5>1. SUFFICES ASSUME status = "COMPLETED" PROVE \E j \in 1..i : log'[j].kind = "output"
          OBVIOUS
        <5>2. PICK j \in 1..Len(log) : log[j].kind = "output"
          BY <1>10, <2>1, <5>1
        <5>3. j \in 1..i /\ log'[j] = log[j]
          BY <1>2, <1>5, <3>2 DEF Grown
        <5>4. QED
          BY <5>2, <5>3
      <4>4. (\E j \in 1..i : log'[j].kind = "output") => status = "COMPLETED"
        <5>1. \A j \in 1..i : j \in 1..Len(log')
          BY <1>5 DEF Grown
        <5>2. QED
          BY <1>1, <2>3, <5>1
      <4>5. QED
        BY <4>1, <4>2, <4>3, <4>4
    <3>3. QED
      BY <3>1, <3>2
  <2>6. QED
    BY <1>1, <2>2, <2>3, <2>4, <2>5 DEF Ends
<1>15. QED
  BY <1>8, <1>9, <1>11, <1>13, <1>14 DEF Kept

\* The settlement leaves everything but the end of the run alone.
LEMMA SettleEnters ==
  ASSUME RunFacts, pc = "idle", NEW cause, Settle(cause)
  PROVE  /\ at' = "record" /\ sub' = "none" /\ failure' = cause /\ settling' /\ ended'
         /\ Agent!Terminal'
         /\ UNCHANGED <<calls, order, executions, modelCalls, pc>>
         /\ Agent!Terminal => status' = status
BY DEF Settle, EnterSettlement, EndAgent, Agent!Cancel, Agent!Finish, Agent!Terminal,
   Agent!TerminalStatus, Agent!record, Agent!stats, Agent!ending, agentVars

\* What an append that was interrupted may leave to the settlement.
Leaves(S) ==
  \A r \in S :
    \/ at = "record" /\ ToRecord # {} /\ r = ResultRecord
    \/ at = "output" /\ r = Commit("output", "run", {}, "")
    \/ at = "finish" /\ r = Commit("finished", "run", {}, RunStatusRecorded)

LEMMA LoopWrites ==
  ASSUME Types, Driven, RunFacts, at \in {"before", "record", "notify", "output", "finish", "after"}
  PROVE  Leaves({Writing[r] : r \in 1..Len(Writing)})
<1>1. \/ Writing = <<>>
      \/ at = "record" /\ ToRecord # {} /\ Writing = <<ResultRecord>>
      \/ at = "output" /\ Writing = <<Commit("output", "run", {}, "")>>
      \/ at = "finish" /\ Writing = <<Commit("finished", "run", {}, RunStatusRecorded)>>
  BY WritingValue
<1>2. \A r : \A n \in 1..Len(<<r>>) : <<r>>[n] = r
  OBVIOUS
<1>3. ASSUME NEW n \in 1..Len(Writing)
      PROVE  \/ at = "record" /\ ToRecord # {} /\ Writing[n] = ResultRecord
             \/ at = "output" /\ Writing[n] = Commit("output", "run", {}, "")
             \/ at = "finish" /\ Writing[n] = Commit("finished", "run", {}, RunStatusRecorded)
  <2>1. Writing # <<>>
    BY <1>3
  <2>2. QED
    BY <1>1, <1>2, <2>1
<1>4. QED
  BY <1>3 DEF Leaves

\* The settlement begins, after an append that may have been made.
LEMMA SettlementKeeps ==
  ASSUME Before, ~settling, at \notin Unstarted, at # "step", NEW cause \in {"none", "error", "cancelled"},
         Settle(cause), UNCHANGED <<frontier, sealed, recorded, notified, published, finished>>,
         NEW S, Grown(S), Leaves(S), S # {} => cause = "cancelled"
  PROVE  Kept'
<1>1. EInv /\ Types /\ Driven /\ RunFacts /\ Onward /\ log \in Seq(Rows) /\ pc = "idle"
  BY DEF Before, EInv, Driven, Types
<1>2. /\ at' = "record" /\ sub' = "none" /\ failure' = cause /\ settling' /\ ended'
      /\ Agent!Terminal'
      /\ UNCHANGED <<calls, order, executions, modelCalls, pc>>
      /\ Agent!Terminal => status' = status
  BY <1>1, SettleEnters
<1>3. sub = "none" /\ failure = "none"
  BY <1>1 DEF EInv, Ending, Types, TypeOK
<1>4. ToRecord' = ToRecord /\ ResultRecord' = ResultRecord
  BY <1>2, SameRecords
<1>5. at \in {"output", "finish"} => ended /\ ToRecord = {} /\ ~finished
  BY <1>1 DEF EInv, Ending
<1>6. ended => Agent!Terminal /\ status' = status
  BY <1>1, <1>2 DEF EInv, Ending
<1> DEFINE output == Commit("output", "run", {}, "")
           end == Commit("finished", "run", {}, RunStatusRecorded)
           result == ResultRecord
<1>7. ended /\ S # {} => output' = output /\ end' = end
  BY <1>2, <1>3, <1>6 DEF Commit, RunStatusRecorded
<1>8. /\ output.kind = "output" /\ output.ref = "run"
      /\ end.kind = "finished" /\ end.ref = "run" /\ end.result = RunStatusRecorded
      /\ result.kind = "tool.result"
  BY DEF Commit, ResultRecord
<1>9. \A r \in S : \/ at = "record" /\ ToRecord # {} /\ r = result
                   \/ at = "output" /\ r = output
                   \/ at = "finish" /\ r = end
  BY DEF Leaves
<1>10. RunStatusRecorded = status
  BY <1>3 DEF RunStatusRecorded
<1> HIDE DEF output, end, result
<1>11. \A r \in S : r.kind \in {"tool.result", "output", "finished"}
  BY <1>8, <1>9
<1>12. StepRows' /\ Sealing'
  <2>1. \A r \in S : r.kind \notin StepKinds
    BY <1>11 DEF StepKinds, ModelKinds
  <2>2. pc' \in {"idle", "advance"} /\ sub' = sub
    BY <1>1, <1>2, <1>3
  <2>3. QED
    BY <1>2, <2>1, <2>2, OutsideKeeps
<1>13. Beginning'
  <2>1. at' \notin Unstarted
    BY <1>2 DEF Unstarted
  <2>2. \A r \in S : r.kind # "started"
    BY <1>11
  <2>3. QED
    BY <1>1, <2>1, <2>2, BeginningStays DEF EInv
<1>14. Ending'
  BY <1>1, <1>2, <1>4, <1>6 DEF EInv, Ending, Unstarted
<1>15. /\ \A i \in 1..Len(log) : log[i].kind = "tool.result" => log[i].ref \in recorded
       /\ \A i \in 1..Len(log) : log[i].kind = "output" =>
            status = "COMPLETED" /\ ended /\ log[i].ref = "run" /\ published
       /\ \A i \in 1..Len(log) : log[i].kind = "finished" =>
            /\ ended /\ log[i].ref = "run" /\ ToRecord = {} /\ finished
            /\ status = "COMPLETED" => published
       /\ \A i \in 1..Len(log) : log[i].kind = "finished" =>
            (log[i].result = "COMPLETED" <=> \E j \in 1..i : log[j].kind = "output")
       /\ published => \E i \in 1..Len(log) : log[i].kind = "output"
       /\ finished => \E i \in 1..Len(log) : log[i].kind = "finished"
  BY <1>1 DEF EInv, Results, Ends
<1>16. ASSUME NEW i \in 1..Len(log'), i \notin 1..Len(log) PROVE log'[i] \in S
  BY <1>16 DEF Grown
<1>17. \A i \in 1..Len(log) : i \in 1..Len(log') /\ log'[i] = log[i]
  BY DEF Grown
<1>18. Results'
  <2>1. ASSUME NEW d \in recorded'
        PROVE  Settled(d)' /\ Told(d)' /\ (Executed(d)' => d \in notified')
    <3>1. d \in CallIds /\ Settled(d) /\ Told(d) /\ (Executed(d) => d \in notified)
      BY <1>1, <2>1 DEF EInv, Results, Types, TypeOK
    <3>2. Settled(d)' /\ Told(d)'
      BY <1>1, <3>1, ToldStays
    <3>3. QED
      BY <1>2, <3>1, <3>2 DEF Executed
  <2>2. ASSUME NEW i \in 1..Len(log'), log'[i].kind = "tool.result", log'[i].ref \notin recorded'
        PROVE  ToRecord' # {} /\ log'[i] = ResultRecord'
    <3>1. i \notin 1..Len(log)
      BY <1>15, <1>17, <2>2
    <3>2. ToRecord # {} /\ log'[i] = result
      BY <1>8, <1>9, <1>16, <2>2, <3>1
    <3>3. QED
      BY <1>4, <3>2 DEF result
  <2>3. QED
    BY <1>2, <2>1, <2>2 DEF Results
<1>19. Ends'
  <2>1. /\ published' => \E i \in 1..Len(log') : log'[i].kind = "output"
        /\ finished' => \E i \in 1..Len(log') : log'[i].kind = "finished"
    BY <1>15, StillThere
  <2>2. ASSUME NEW i \in 1..Len(log'), log'[i].kind = "output"
        PROVE  /\ status' = "COMPLETED" /\ log'[i].ref = "run"
               /\ published' \/ (ToRecord' = {} /\ log'[i] = output')
    <3>1. CASE i \in 1..Len(log)
      BY <1>6, <1>15, <1>17, <2>2, <3>1
    <3>2. CASE i \notin 1..Len(log)
      <4>1. at = "output" /\ log'[i] = output /\ S # {}
        BY <1>8, <1>9, <1>16, <2>2, <3>2
      <4>2. status = "COMPLETED" /\ ended /\ ToRecord = {}
        BY <1>1, <4>1 DEF EInv, Ending
      <4>3. QED
        BY <1>4, <1>6, <1>7, <1>8, <4>1, <4>2
    <3>3. QED
      BY <3>1, <3>2
  <2>3. ASSUME NEW i \in 1..Len(log'), log'[i].kind = "finished"
        PROVE  /\ log'[i].ref = "run" /\ ToRecord' = {}
               /\ status' = "COMPLETED" => published'
               /\ finished' \/ log'[i] = end'
    <3>1. CASE i \in 1..Len(log)
      BY <1>4, <1>6, <1>15, <1>17, <2>3, <3>1
    <3>2. CASE i \notin 1..Len(log)
      <4>1. at = "finish" /\ log'[i] = end /\ S # {}
        BY <1>8, <1>9, <1>16, <2>3, <3>2
      <4>2. ended /\ ToRecord = {} /\ (status = "COMPLETED" => published)
        BY <1>1, <4>1 DEF EInv, Ending
      <4>3. QED
        BY <1>4, <1>6, <1>7, <1>8, <4>1, <4>2
    <3>3. QED
      BY <3>1, <3>2
  <2>4. ASSUME NEW i \in 1..Len(log'), log'[i].kind = "finished"
        PROVE  log'[i].result = "COMPLETED" <=> \E j \in 1..i : log'[j].kind = "output"
    <3>1. CASE i \in 1..Len(log)
      <4>1. \A j \in 1..i : j \in 1..Len(log) /\ log'[j] = log[j]
        BY <1>1, <1>17, <3>1
      <4>2. log'[i] = log[i] /\ log[i].kind = "finished"
        BY <1>17, <2>4, <3>1
      <4>3. QED
        BY <1>15, <3>1, <4>1, <4>2
    <3>2. CASE i \notin 1..Len(log)
      <4>1. at = "finish" /\ log'[i].result = status
        BY <1>8, <1>9, <1>10, <1>16, <2>4, <3>2
      <4>2. status = "COMPLETED" => published
        BY <1>1, <4>1 DEF EInv, Ending
      <4>3. status = "COMPLETED" => \E j \in 1..i : log'[j].kind = "output"
        <5>1. SUFFICES ASSUME status = "COMPLETED" PROVE \E j \in 1..i : log'[j].kind = "output"
          OBVIOUS
        <5>2. PICK j \in 1..Len(log) : log[j].kind = "output"
          BY <1>15, <4>2, <5>1
        <5>3. j \in 1..i /\ log'[j] = log[j]
          BY <1>1, <1>17, <3>2 DEF Grown
        <5>4. QED
          BY <5>2, <5>3
      <4>4. (\E j \in 1..i : log'[j].kind = "output") => status = "COMPLETED"
        <5>1. SUFFICES ASSUME NEW j \in 1..i, log'[j].kind = "output" PROVE status = "COMPLETED"
          OBVIOUS
        <5>2. j \in 1..Len(log')
          BY DEF Grown
        <5>3. j \in 1..Len(log)
          BY <1>8, <1>9, <1>16, <4>1, <5>1, <5>2
        <5>4. QED
          BY <1>15, <1>17, <5>1, <5>3
      <4>5. QED
        BY <4>1, <4>3, <4>4
    <3>3. QED
      BY <3>1, <3>2
  <2>5. QED
    BY <1>2, <2>1, <2>2, <2>3, <2>4 DEF Ends, output, end
<1>20. QED
  BY <1>12, <1>13, <1>14, <1>18, <1>19 DEF Kept

LEMMA AfterStepKeeps == ASSUME Before, AfterStep PROVE Kept'
<1>1. at = "after" /\ log' = log
      /\ UNCHANGED <<frontier, sealed, recorded, notified, published, finished>>
  BY DEF AfterStep, world, ledger
<1>2. EInv /\ Types /\ Driven /\ RunFacts /\ Onward /\ log \in Seq(Rows) /\ pc = "idle"
  BY <1>1 DEF Before, EInv, Driven, Types
<1>3. ~settling /\ at # "step" /\ at \notin Unstarted
  BY <1>1, <1>2 DEF EInv, Ending, Unstarted
<1>4. Grown({})
  BY <1>1, <1>2, NotGrown
<1>5. CASE Settle("none")
  BY <1>1, <1>3, <1>4, <1>5, SettlementKeeps DEF Leaves
<1>6. CASE ~Settle("none")
  <2>1. /\ at' = "before" /\ ~Agent!Terminal
        /\ UNCHANGED <<status, calls, order, executions, modelCalls, pc, sub, failure,
                       settling, ended>>
    BY <1>6 DEF AfterStep, KeepsLooping, GoTo, agentVars
  <2>2. ~ended
    BY <1>2, <2>1 DEF EInv, Ending
  <2>3. at' \notin Unstarted
    BY <2>1 DEF Unstarted
  <2>4. Beginning' /\ Results' /\ Ends'
    BY <1>1, <1>2, <1>3, <1>4, <2>1, <2>2, <2>3, InStep
  <2>5. StepRows' /\ Sealing'
    BY <1>1, <1>2, <1>3, <1>4, <2>1, OutsideKeeps
  <2>6. ToRecord' = {}
    BY <1>1, <1>2, <2>1, SameRecords DEF EInv, Ending
  <2>7. Ending'
    BY <1>1, <1>2, <1>3, <2>1, <2>2, <2>6 DEF EInv, Ending, Unstarted
  <2>8. QED
    BY <2>4, <2>5, <2>7 DEF Kept
<1>7. QED
  BY <1>5, <1>6

LEMMA LoopInterruptedKeeps ==
  ASSUME Before, NEW cause \in {"error", "cancelled"}, LoopInterrupted(cause)
  PROVE  Kept'
<1>1. /\ ~settling /\ at \in {"before", "record", "notify", "output", "finish", "after"}
      /\ Settle(cause)
      /\ (cause = "cancelled" /\ MayHaveLanded) \/ log' = log
      /\ UNCHANGED <<frontier, sealed, recorded, notified, published, finished>>
  BY DEF LoopInterrupted, world, ledger
<1>2. EInv /\ Types /\ Driven /\ RunFacts /\ log \in Seq(Rows)
  BY DEF Before, EInv, Types
<1>3. at \notin Unstarted /\ at # "step"
  BY <1>1 DEF Unstarted
<1>4. CASE log' = log
  <2>1. Grown({})
    BY <1>2, <1>4, NotGrown
  <2>2. QED
    BY <1>1, <1>3, <2>1, SettlementKeeps DEF Leaves
<1>5. CASE cause = "cancelled" /\ MayHaveLanded
  <2> DEFINE S == {Writing[r] : r \in 1..Len(Writing)}
  <2>1. Grown(S)
    BY <1>2, <1>5, MayLand
  <2>2. Leaves(S)
    BY <1>1, <1>2, LoopWrites
  <2> HIDE DEF S
  <2>3. QED
    BY <1>1, <1>3, <1>5, <2>1, <2>2, SettlementKeeps
<1>6. QED
  BY <1>1, <1>4, <1>5

\* Before the claim the journal has nothing of this execution; a claim that
\* lands is the only one.
LEMMA Claims ==
  ASSUME Beginning, at \in Unstarted, log \in Seq(Rows), NEW claim \in Rows,
         claim.kind = "started", claim.ref = "run",
         \/ Land(<<claim>>)
         \/ ~Stored(claim) /\ log' = Append(log, claim)
  PROVE  /\ Grown({claim})
         /\ \A i \in 1..Len(log') : log'[i].kind \in {"started", "world"}
         /\ \A i, j \in 1..Len(log') :
              log'[i].kind = "started" /\ log'[j].kind = "started" => i = j
         /\ \A i \in 1..Len(log') : log'[i].kind = "started" => log'[i].ref = "run"
         /\ Land(<<claim>>) => \E i \in 1..Len(log') : log'[i] = claim
<1>1. /\ Grown({claim})
      /\ \A i \in 1..Len(log') : i \notin 1..Len(log) =>
           log'[i] = claim /\ ~Stored(claim) /\ i = Len(log) + 1
      /\ Land(<<claim>>) => \E i \in 1..Len(log') : log'[i] = claim
  <2>1. CASE Land(<<claim>>)
    <3>1. /\ Grown({claim})
          /\ \A i \in 1..Len(log') : i \notin 1..Len(log) => log'[i] = claim /\ ~Stored(claim)
          /\ \E i \in 1..Len(log') : log'[i] = claim
      BY <2>1, LandsOne
    <3>2. Len(log') <= Len(log) + 1
      <4> DEFINE keep == {r \in ToSet(<<claim>>) : ~Stored(r)}
                 new == Chosen(<<claim>>, keep)
      <4>1. log' = log \o new
        BY <2>1 DEF Land
      <4>2. new \in Seq(Rows) /\ Len(new) <= 1
        <5>1. Chosen(<<claim>>, keep) = IF claim \in keep THEN <<claim>> ELSE <<>>
          <6> HIDE DEF keep
          <6>1. QED
            BY ChosenOne
        <5> DEFINE either == {<<claim>>, <<>>}
        <5>2. \A t \in either : t \in Seq(Rows) /\ Len(t) <= 1
          <6>1. <<claim>> \in Seq(Rows) /\ Len(<<claim>>) = 1
            OBVIOUS
          <6>2. <<>> \in Seq(Rows) /\ Len(<<>>) = 0
            OBVIOUS
          <6> TAKE t \in either
          <6>3. CASE t = <<claim>>
            BY ONLY <6>1, <6>3
          <6>4. CASE t = <<>>
            BY ONLY <6>2, <6>4
          <6>5. QED
            BY <6>3, <6>4
        <5>3. new \in either
          BY <5>1
        <5>4. QED
          <6> HIDE DEF new, either
          <6>1. QED
            BY <5>2, <5>3
      <4> HIDE DEF new
      <4>3. Len(log') = Len(log) + Len(new)
        BY <4>1, <4>2, ConcatProperties
      <4>4. Len(log) \in Nat /\ Len(new) \in Nat
        BY <4>2
      <4>5. QED
        BY <4>2, <4>3, <4>4
    <3>3. Len(log) \in Nat /\ Len(log') \in Nat
      BY <3>1 DEF Grown
    <3>4. QED
      BY <3>1, <3>2, <3>3
  <2>2. CASE ~Land(<<claim>>)
    <3>1. Grown({claim}) /\ Len(log') = Len(log) + 1 /\ ~Stored(claim)
      BY <2>2, GrownByOne
    <3>2. Len(log) \in Nat
      OBVIOUS
    <3>3. QED
      BY <2>2, <3>1, <3>2 DEF Grown
  <2>3. QED
    BY <2>1, <2>2
<1>2. /\ \A i \in 1..Len(log) : log[i].kind \in {"started", "world"}
      /\ \A i, j \in 1..Len(log) : log[i].kind = "started" /\ log[j].kind = "started" => i = j
      /\ \A i \in 1..Len(log) : log[i].kind = "started" => log[i].ref = "run"
  BY DEF Beginning
<1>3. ASSUME ~Stored(claim) PROVE \A i \in 1..Len(log) : log[i].kind # "started"
  BY <1>2, <1>3 DEF Stored, SameId
<1>4. \A i \in 1..Len(log') : \/ i \in 1..Len(log) /\ log'[i] = log[i]
                              \/ i \notin 1..Len(log) /\ log'[i] = claim
  BY <1>1 DEF Grown
<1>5. ASSUME NEW i \in 1..Len(log'), NEW j \in 1..Len(log'),
             log'[i].kind = "started", log'[j].kind = "started"
      PROVE  i = j
  BY <1>1, <1>2, <1>3, <1>4, <1>5
<1>6. /\ \A i \in 1..Len(log') : log'[i].kind \in {"started", "world"}
      /\ \A i \in 1..Len(log') : log'[i].kind = "started" => log'[i].ref = "run"
  BY <1>2, <1>4
<1>7. QED
  BY <1>1, <1>5, <1>6

\* What follows when only the beginning of the journal is there.
LEMMA NothingElse ==
  ASSUME \A i \in 1..Len(log') : log'[i].kind \in {"started", "world"},
         ~published', ~finished', recorded' = {}
  PROVE  Results' /\ Ends'
<1>1. \A i \in 1..Len(log') : log'[i].kind \notin {"tool.result", "output", "finished"}
  OBVIOUS
<1>2. QED
  BY <1>1 DEF Results, Ends

LEMMA UnstartedFacts ==
  ASSUME Before, at \in {"lookup", "claim"}
  PROVE  /\ EInv /\ Types /\ Driven /\ RunFacts /\ Onward /\ log \in Seq(Rows)
         /\ pc = "idle" /\ at # "step" /\ at \in Unstarted
         /\ ~ended /\ ~settling /\ failure = "none" /\ ~published /\ ~finished
         /\ \A c \in CallIds : calls[c] = "absent"
         /\ sealed = {} /\ recorded = {} /\ ToRecord = {}
<1>1. EInv /\ Types /\ Driven /\ RunFacts /\ Onward /\ log \in Seq(Rows) /\ pc = "idle"
  BY DEF Before, EInv, Driven, Types
<1>2. at # "step" /\ at \in Unstarted
  BY DEF Unstarted
<1>3. ~ended /\ ~settling /\ failure = "none"
  BY <1>1, <1>2 DEF EInv, Ending
<1>4. /\ \A c \in CallIds : calls[c] = "absent"
      /\ sealed = {} /\ recorded = {} /\ ~published /\ ~finished
  BY <1>1, <1>2 DEF EInv, Beginning
<1>5. ToRecord = {}
  BY <1>4 DEF ToRecord, Settled
<1>6. QED
  BY <1>1, <1>2, <1>3, <1>4, <1>5

LEMMA ClaimKeeps == ASSUME Before, Claim PROVE Kept'
<1>1. at = "claim" /\ UNCHANGED <<sealed, recorded, notified, published, finished>>
  BY DEF Claim, ledger
<1>2. /\ EInv /\ Types /\ Driven /\ RunFacts /\ Onward /\ log \in Seq(Rows)
      /\ pc = "idle" /\ at # "step" /\ at \in Unstarted
      /\ ~ended /\ ~settling /\ failure = "none" /\ ~published /\ ~finished
      /\ recorded = {} /\ ToRecord = {}
  BY <1>1, UnstartedFacts
<1>3. CASE at' = "refused" /\ UNCHANGED <<agentVars, log, frontier, sub, failure, settling, ended>>
  <2>1. UNCHANGED <<status, calls, order, executions, modelCalls, pc>>
    BY <1>3 DEF agentVars
  <2>2. Ending'
    BY <1>1, <1>2, <1>3, <2>1 DEF EInv, Ending, Unstarted
  <2>3. QED
    BY <1>1, <1>2, <1>3, <2>1, <2>2, MoveKeeps DEF Unstarted
<1>4. CASE /\ Append1(Writing)
           /\ IF KeepsLooping THEN GoTo("before") /\ UNCHANGED agentVars ELSE Settle("none")
  <2>1. Writing = <<ClaimRecord>> /\ ClaimRecord \in Rows
    BY <1>1, <1>2, WritingValue, OneRow
  <2>2. ClaimRecord.kind = "started" /\ ClaimRecord.ref = "run" /\ ClaimRecord.result = "us"
    BY DEF ClaimRecord, Commit
  <2>3. Land(<<ClaimRecord>>)
    BY <1>4, <2>1 DEF Append1
  <2>4. Beginning
    BY <1>2 DEF EInv
  <2> DEFINE claim == ClaimRecord
  <2>5. /\ Grown({claim})
        /\ \A i \in 1..Len(log') : log'[i].kind \in {"started", "world"}
        /\ \A i, j \in 1..Len(log') :
             log'[i].kind = "started" /\ log'[j].kind = "started" => i = j
        /\ \A i \in 1..Len(log') : log'[i].kind = "started" => log'[i].ref = "run"
        /\ \E i \in 1..Len(log') : log'[i] = claim
    BY <1>2, <2>1, <2>2, <2>3, <2>4, Claims
  <2>6. /\ claim.kind = "started" /\ claim.result = "us"
    BY <2>2
  <2> HIDE DEF claim
  <2>7. /\ at' \in {"before", "record"} /\ sub' = sub
        /\ at' = "before" => ended' = ended /\ settling' = settling /\ failure' = failure
        /\ at' = "record" => ended' /\ settling' /\ Agent!Terminal'
        /\ UNCHANGED <<calls, order, executions, modelCalls, pc>>
        /\ Agent!Terminal => status' = status
    <3>1. CASE KeepsLooping
      BY <1>4, <3>1 DEF GoTo, agentVars
    <3>2. CASE ~KeepsLooping
      <4>1. Settle("none")
        BY <1>4, <3>2
      <4>2. sub = "none"
        BY <1>2 DEF Types, TypeOK
      <4>3. QED
        BY <1>2, <4>1, <4>2, SettleEnters
    <3>3. QED
      BY <3>1, <3>2
  <2>8. ToRecord' = {}
    BY <1>1, <1>2, <2>7, SameRecords
  <2>9. Beginning'
    <3>1. at' \notin Unstarted
      BY <2>7 DEF Unstarted
    <3>2. \E i \in 1..Len(log') : log'[i].kind = "started" /\ log'[i].result = "us"
      BY <2>5, <2>6
    <3>3. QED
      BY <2>5, <3>1, <3>2 DEF Beginning
  <2>10. Results' /\ Ends'
    BY <1>1, <1>2, <2>5, NothingElse
  <2>11. StepRows' /\ Sealing'
    <3>1. \A r \in {claim} : r.kind \notin StepKinds
      BY <2>6 DEF StepKinds, ModelKinds
    <3>2. Agent!Terminal => Agent!Terminal'
      BY <2>7 DEF Agent!Terminal
    <3>3. QED
      BY <1>1, <1>2, <2>5, <2>7, <3>1, <3>2, OutsideKeeps
  <2>12. Ending'
    BY <1>1, <1>2, <2>7, <2>8 DEF Ending, Unstarted
  <2>13. QED
    BY <2>9, <2>10, <2>11, <2>12 DEF Kept
<1>5. QED
  BY <1>3, <1>4 DEF Claim, GoTo

LEMMA InterruptClaimKeeps == ASSUME Before, InterruptClaim PROVE Kept'
<1>1. /\ at \in {"lookup", "claim"} /\ at' = "abandoned" /\ MayHaveLanded
      /\ UNCHANGED <<status, calls, order, executions, modelCalls, pc, sub, failure,
                     settling, ended, frontier, sealed, recorded, notified, published,
                     finished>>
  BY DEF InterruptClaim, GoTo, agentVars, world, ledger
<1>2. /\ EInv /\ Types /\ Driven /\ RunFacts /\ Onward /\ log \in Seq(Rows)
      /\ pc = "idle" /\ at # "step" /\ at \in Unstarted
      /\ ~ended /\ ~settling /\ failure = "none" /\ ~published /\ ~finished
      /\ \A c \in CallIds : calls[c] = "absent"
      /\ sealed = {} /\ recorded = {} /\ ToRecord = {}
  BY <1>1, UnstartedFacts
<1>3. Ending'
  BY <1>1, <1>2 DEF EInv, Ending, Unstarted
<1>4. CASE log' = log
  BY <1>1, <1>2, <1>3, <1>4, MoveKeeps DEF Unstarted
<1>5. CASE log' # log
  <2>1. at = "claim" /\ Land(<<ClaimRecord>>)
    BY <1>1, <1>5, WritingValue DEF MayHaveLanded
  <2>2. ClaimRecord \in Rows
    BY <1>2, OneRow
  <2>3. ClaimRecord.kind = "started" /\ ClaimRecord.ref = "run"
    BY DEF ClaimRecord, Commit
  <2>4. Beginning
    BY <1>2 DEF EInv
  <2> DEFINE claim == ClaimRecord
  <2>5. /\ Grown({claim})
        /\ \A i \in 1..Len(log') : log'[i].kind \in {"started", "world"}
        /\ \A i, j \in 1..Len(log') :
             log'[i].kind = "started" /\ log'[j].kind = "started" => i = j
        /\ \A i \in 1..Len(log') : log'[i].kind = "started" => log'[i].ref = "run"
    BY <1>2, <2>1, <2>2, <2>3, <2>4, Claims
  <2>6. claim.kind = "started"
    BY <2>3
  <2> HIDE DEF claim
  <2>7. Beginning'
    BY <1>1, <1>2, <2>5 DEF Beginning, Unstarted
  <2>8. Results' /\ Ends'
    BY <1>1, <1>2, <2>5, NothingElse
  <2>9. StepRows' /\ Sealing'
    <3>1. \A r \in {claim} : r.kind \notin StepKinds
      BY <2>6 DEF StepKinds, ModelKinds
    <3>2. Agent!Terminal' = Agent!Terminal
      BY <1>1 DEF Agent!Terminal
    <3>3. QED
      BY <1>1, <1>2, <2>5, <3>1, <3>2, OutsideKeeps
  <2>10. QED
    BY <1>3, <2>7, <2>8, <2>9 DEF Kept
<1>6. QED
  BY <1>4, <1>5

LEMMA RivalStartsKeeps == ASSUME Before, RivalStarts PROVE Kept'
<1> DEFINE claim == Commit("started", "run", {}, "rival")
<1>1. /\ at \in {"lookup", "claim"} /\ ~Stored(claim) /\ log' = Append(log, claim)
      /\ UNCHANGED <<at, status, calls, order, executions, modelCalls, pc, sub, failure,
                     settling, ended, frontier, sealed, recorded, notified, published,
                     finished>>
  BY DEF RivalStarts, agentVars, world, ledger, control
<1>2. /\ EInv /\ Types /\ Driven /\ RunFacts /\ Onward /\ log \in Seq(Rows)
      /\ pc = "idle" /\ at # "step" /\ at \in Unstarted
      /\ ~ended /\ ~settling /\ failure = "none" /\ ~published /\ ~finished
      /\ \A c \in CallIds : calls[c] = "absent"
      /\ sealed = {} /\ recorded = {} /\ ToRecord = {}
  BY <1>1, UnstartedFacts
<1>3. claim \in Rows
  BY <1>2, CommitType DEF Types, TypeOK, Kinds, Outcomes
<1>4. claim.kind = "started" /\ claim.ref = "run"
  BY DEF Commit
<1> HIDE DEF claim
<1>5. Beginning
  BY <1>2 DEF EInv
<1>6. /\ Grown({claim})
      /\ \A i \in 1..Len(log') : log'[i].kind \in {"started", "world"}
      /\ \A i, j \in 1..Len(log') :
           log'[i].kind = "started" /\ log'[j].kind = "started" => i = j
      /\ \A i \in 1..Len(log') : log'[i].kind = "started" => log'[i].ref = "run"
  BY <1>1, <1>2, <1>3, <1>4, <1>5, Claims
<1>7. Beginning'
  BY <1>1, <1>2, <1>6 DEF Beginning
<1>8. Results' /\ Ends'
  BY <1>1, <1>2, <1>6, NothingElse
<1>9. StepRows' /\ Sealing'
  <2>1. \A r \in {claim} : r.kind \notin StepKinds
    BY <1>4 DEF StepKinds, ModelKinds
  <2>2. Agent!Terminal' = Agent!Terminal
    BY <1>1 DEF Agent!Terminal
  <2>3. QED
    BY <1>1, <1>2, <1>6, <2>1, <2>2, OutsideKeeps
<1>10. Ending'
  BY <1>1, <1>2 DEF EInv, Ending, Unstarted
<1>11. QED
  BY <1>7, <1>8, <1>9, <1>10 DEF Kept

\* What other actors do leaves this execution's records alone.
LEMMA OtherActorKeeps ==
  ASSUME Before, NEW S, Grown(S), \A r \in S : r.kind = "world",
         UNCHANGED <<at, calls, order, executions, modelCalls, pc, sub, failure, settling,
                     ended, frontier, sealed, recorded, notified, published, finished>>,
         ended => status' = status,
         Agent!Terminal => Agent!Terminal' /\ status' = status,
         status = "COMPLETED" <=> status' = "COMPLETED",
         cancelRequested => cancelRequested'
  PROVE  Kept'
<1>1. EInv /\ Types /\ Driven /\ RunFacts /\ Onward /\ log \in Seq(Rows)
  BY DEF Before, EInv, Types
<1>2. ToRecord' = ToRecord /\ ResultRecord' = ResultRecord
  BY SameRecords
<1>3. ASSUME NEW i \in 1..Len(log'), log'[i].kind # "world"
      PROVE  i \in 1..Len(log) /\ log'[i] = log[i]
  BY <1>3 DEF Grown
<1>4. \A i \in 1..Len(log) : i \in 1..Len(log') /\ log'[i] = log[i]
  BY DEF Grown
<1>5. Beginning'
  <2>1. ASSUME NEW i \in 1..Len(log'), NEW j \in 1..Len(log'),
               log'[i].kind = "started", log'[j].kind = "started"
        PROVE  i = j
    BY <1>1, <1>3, <2>1 DEF EInv, Beginning
  <2>2. \A i \in 1..Len(log') : log'[i].kind = "started" => log'[i].ref = "run"
    BY <1>1, <1>3 DEF EInv, Beginning
  <2>3. at \in Unstarted => \A i \in 1..Len(log') : log'[i].kind \in {"started", "world"}
    BY <1>1, <1>3 DEF EInv, Beginning
  <2>4. at \notin Unstarted =>
          \E i \in 1..Len(log') : log'[i].kind = "started" /\ log'[i].result = "us"
    <3>1. at \notin Unstarted => \E i \in 1..Len(log) : log[i].kind = "started" /\ log[i].result = "us"
      BY <1>1 DEF EInv, Beginning
    <3>2. QED
      BY <1>4, <3>1
  <2>5. /\ at \in Unstarted => \A c \in CallIds : calls[c] = "absent"
        /\ at \in Unstarted => sealed = {} /\ recorded = {} /\ ~published /\ ~finished
    BY <1>1 DEF EInv, Beginning
  <2>6. QED
    BY <2>1, <2>2, <2>3, <2>4, <2>5 DEF Beginning
<1>6. StepRows'
  <2>1. \A r \in S : r.kind \notin StepKinds
    BY DEF StepKinds, ModelKinds
  <2>2. QED
    BY <1>1, <2>1, StepRowsStay DEF EInv
<1>7. Sealing'
  <2>1. Waiting' = Waiting /\ Pending' = Pending
    BY SamePending DEF Waiting
  <2>2. \A c \in CallIds : executions'[c] > 0 => c \in sealed
    BY <1>1 DEF EInv, Sealing, Executed
  <2>3. sub' = "hook" => pc' = "policing"
    BY <1>1 DEF Driven
  <2>4. QED
    BY <1>1, <2>1, <2>2, <2>3, SealingStays DEF EInv
<1>8. Ending'
  BY <1>1, <1>2 DEF EInv, Ending
<1>9. Results'
  <2>1. ASSUME NEW d \in recorded'
        PROVE  Settled(d)' /\ Told(d)' /\ (Executed(d)' => d \in notified')
    <3>1. d \in CallIds /\ Settled(d) /\ Told(d) /\ (Executed(d) => d \in notified)
      BY <1>1, <2>1 DEF EInv, Results, Types, TypeOK
    <3>2. Settled(d)' /\ Told(d)'
      BY <1>1, <3>1, ToldStays
    <3>3. QED
      BY <3>1, <3>2 DEF Executed
  <2>2. ASSUME NEW i \in 1..Len(log'), log'[i].kind = "tool.result", log'[i].ref \notin recorded'
        PROVE  settling' /\ (at' # "unsettled" =>
                 at' = "record" /\ ToRecord' # {} /\ log'[i] = ResultRecord')
    <3>1. i \in 1..Len(log) /\ log'[i] = log[i]
      BY <1>3, <2>2
    <3>2. settling /\ (at # "unsettled" =>
            at = "record" /\ ToRecord # {} /\ log[i] = ResultRecord)
      BY <1>1, <2>2, <3>1 DEF EInv, Results
    <3>3. QED
      BY <1>2, <3>1, <3>2
  <2>3. QED
    BY <2>1, <2>2 DEF Results
<1>10. Ends'
  <2>1. Ends
    BY <1>1 DEF EInv
  <2>2. ASSUME ended
        PROVE  /\ RunStatusRecorded' = RunStatusRecorded
               /\ Commit("output", "run", {}, "")' = Commit("output", "run", {}, "")
               /\ Commit("finished", "run", {}, RunStatusRecorded)' =
                    Commit("finished", "run", {}, RunStatusRecorded)
    BY <2>2 DEF RunStatusRecorded, Commit
  <2>3. /\ published' => \E i \in 1..Len(log') : log'[i].kind = "output"
        /\ finished' => \E i \in 1..Len(log') : log'[i].kind = "finished"
    BY <2>1, StillThere DEF Ends
  <2>4. ASSUME NEW i \in 1..Len(log'), log'[i].kind = "output"
        PROVE  /\ status' = "COMPLETED" /\ ended' /\ log'[i].ref = "run"
               /\ published' \/ (/\ settling'
                                 /\ at' # "unsettled" =>
                                      /\ at' \in {"record", "output"} /\ ToRecord' = {}
                                      /\ log'[i] = Commit("output", "run", {}, "")')
    <3>1. i \in 1..Len(log) /\ log'[i] = log[i]
      BY <1>3, <2>4
    <3>2. /\ status = "COMPLETED" /\ ended /\ log[i].ref = "run"
          /\ published \/ (/\ settling
                           /\ at # "unsettled" =>
                                /\ at \in {"record", "output"} /\ ToRecord = {}
                                /\ log[i] = Commit("output", "run", {}, ""))
      BY <2>1, <2>4, <3>1 DEF Ends
    <3>3. QED
      BY <1>2, <2>2, <3>1, <3>2
  <2>5. ASSUME NEW i \in 1..Len(log'), log'[i].kind = "finished"
        PROVE  /\ ended' /\ log'[i].ref = "run" /\ ToRecord' = {}
               /\ status' = "COMPLETED" => published'
               /\ finished' \/ (/\ settling'
                                /\ at' # "unsettled" =>
                                     /\ at' \in {"record", "finish"}
                                     /\ log'[i] = Commit("finished", "run", {}, RunStatusRecorded)')
    <3>1. i \in 1..Len(log) /\ log'[i] = log[i]
      BY <1>3, <2>5
    <3>2. /\ ended /\ log[i].ref = "run" /\ ToRecord = {}
          /\ status = "COMPLETED" => published
          /\ finished \/ (/\ settling
                          /\ at # "unsettled" =>
                               /\ at \in {"record", "finish"}
                               /\ log[i] = Commit("finished", "run", {}, RunStatusRecorded))
      BY <2>1, <2>5, <3>1 DEF Ends
    <3>3. QED
      BY <1>2, <2>2, <3>1, <3>2
  <2>6. ASSUME NEW i \in 1..Len(log'), log'[i].kind = "finished"
        PROVE  log'[i].result = "COMPLETED" <=> \E j \in 1..i : log'[j].kind = "output"
    <3>1. i \in 1..Len(log) /\ log'[i] = log[i]
      BY <1>3, <2>6
    <3>2. \A j \in 1..i : log'[j] = log[j]
      BY <1>1, <1>4, <3>1
    <3>3. log[i].result = "COMPLETED" <=> \E j \in 1..i : log[j].kind = "output"
      BY <2>1, <2>6, <3>1 DEF Ends
    <3>4. QED
      BY <3>1, <3>2, <3>3
  <2>7. QED
    BY <2>3, <2>4, <2>5, <2>6 DEF Ends
<1>11. QED
  BY <1>5, <1>6, <1>7, <1>8, <1>9, <1>10 DEF Kept

LEMMA OthersKeep == ASSUME Before, Others \/ UNCHANGED vars PROVE Kept'
<1>1. EInv /\ Types /\ Driven /\ RunFacts /\ log \in Seq(Rows)
  BY DEF Before, EInv, Types
<1>2. CASE \E scopes \in SUBSET Scopes \ {{}} : WorldCommit(scopes)
  <2>1. PICK scopes \in SUBSET Scopes \ {{}} : WorldCommit(scopes)
    BY <1>2
  <2>2. UNCHANGED <<at, status, calls, order, executions, modelCalls, pc, sub, failure,
                    settling, ended, frontier, sealed, recorded, notified, published,
                    finished, cancelRequested>>
    BY <2>1 DEF WorldCommit, agentVars, world, ledger, control
  <2>3. PICK row \in Rows : row.kind = "world" /\ Grown({row})
    BY <1>1, <2>1, WorldGrows
  <2>4. Agent!Terminal' = Agent!Terminal
    BY <2>2 DEF Agent!Terminal
  <2>5. QED
    BY <2>2, <2>3, <2>4, OtherActorKeeps
<1>3. CASE HostCancels
  <2>1. /\ log' = log /\ ~Agent!Terminal /\ cancelRequested'
        /\ UNCHANGED <<at, calls, order, executions, modelCalls, pc, sub, failure, settling,
                       ended, frontier, sealed, recorded, notified, published, finished>>
        /\ status' \in {status, "CANCELLED"}
    BY <1>3 DEF HostCancels, world, ledger, control, Agent!Cancel, Agent!Finish, Agent!record,
       Agent!stats, Agent!ending
  <2>2. ~ended /\ status # "COMPLETED"
    BY <1>1, <2>1 DEF EInv, Ending, Agent!Terminal, Agent!TerminalStatus
  <2>3. Grown({})
    BY <1>1, <2>1, NotGrown
  <2>4. QED
    BY <2>1, <2>2, <2>3, OtherActorKeeps
<1>4. CASE HostAppends \/ UNCHANGED vars
  <2>1. /\ log' = log
        /\ UNCHANGED <<at, status, calls, order, executions, modelCalls, pc, sub, failure,
                       settling, ended, frontier, sealed, recorded, notified, published,
                       finished, cancelRequested>>
    BY <1>4 DEF HostAppends, world, ledger, control, vars, agentVars, Agent!AppendMessage,
       Agent!record, Agent!stats, Agent!ending
  <2>2. Grown({}) /\ Agent!Terminal' = Agent!Terminal
    BY <1>1, <2>1, NotGrown DEF Agent!Terminal
  <2>3. QED
    BY <2>1, <2>2, OtherActorKeeps
<1>5. QED
  BY <1>2, <1>3, <1>4, RivalStartsKeeps DEF Others

LEMMA Inductive ==
  ASSUME EInv, RunFacts, RunFacts', Onward, [Next]_vars
  PROVE  EInv'
<1>1. Types' /\ Driven'
  BY TypesStep DEF EInv
<1>2. Before
  BY <1>1 DEF Before
<1>3. Loop => Kept'
  BY <1>2, LookupKeeps, ClaimKeeps, BeforeStepKeeps, RecordKeeps, NotifyReturnsKeeps,
     RecordsDoneKeeps, CommitOutputKeeps, FinishKeeps, AfterStepKeeps DEF Loop
<1>4. Interruption => Kept'
  BY <1>2, InterruptClaimKeeps, StepInterruptedKeeps, LoopInterruptedKeeps,
     SettlementFailsKeeps DEF Interruption
<1>5. Kept'
  BY <1>2, <1>3, <1>4, StepsKeep, OthersKeep DEF Next
<1>6. QED
  BY <1>1, <1>5 DEF EInv, Kept

LEMMA Initially == Init => EInv
<1> SUFFICES ASSUME Init PROVE EInv
  OBVIOUS
<1>1. /\ Agent!Init /\ policed /\ ~continuous /\ pc = "idle" /\ log = <<>> /\ at = "lookup"
      /\ sub = "none" /\ failure = "none" /\ settling = FALSE /\ ended = FALSE
      /\ sealed = {} /\ recorded = {} /\ notified = {} /\ published = FALSE
      /\ finished = FALSE /\ modelCalls = 0
      /\ calls = [c \in CallIds |-> "absent"] /\ executions = [c \in CallIds |-> 0]
  BY DEF Init, Agent!Init
<1>2. Types
  <2>1. Agent!TypeOK
    <3>1. Proven!Init
      BY <1>1, SameAgent
    <3>2. Proven!HInv
      <4>1. Proven!IInv
        BY <3>1, Assumed, Proven!InitIInv
      <4>2. Proven!Told
        BY <3>1, Assumed, Proven!InitTold
      <4>3. QED
        BY <4>1, <4>2 DEF Proven!HInv
    <3>3. QED
      BY <3>2, FactsOfRun DEF RunFacts
  <2>2. log \in Seq(Rows) /\ Len(log) = 0 /\ DOMAIN log = {}
    BY <1>1
  <2>3. reply = <<>> /\ reply \in Seq(CallIds) /\ reply \in Replies
    BY AskedInit DEF Init, Asked
  <2>4. frontier \in [Scopes -> Nat]
    BY DEF Init
  <2>5. /\ RequestScopes \subseteq observed /\ observed \subseteq Scopes
        /\ reviewed \in BOOLEAN /\ moreToCome \in BOOLEAN
        /\ disclosed \subseteq 1..Len(log) /\ arrived \in 0..Len(log)
    <3>1. /\ observed = RequestScopes /\ reviewed = FALSE /\ moreToCome = FALSE
          /\ disclosed = {} /\ arrived = 0
      BY DEF Init
    <3>2. Len(log) \in Nat /\ 0 \in 0..Len(log)
      BY <2>2
    <3>3. QED
      BY <3>1, <3>2, EngineAssumption
  <2>6. QED
    BY <1>1, <2>1, <2>2, <2>3, <2>4, <2>5 DEF Types, TypeOK, Places, Subs
<1>3. Waiting = {} /\ ToRecord = {}
  BY <1>1 DEF Waiting, ToRecord, Settled
<1>4. Driven
  BY <1>1, <1>3 DEF Driven
<1>5. Ending
  BY <1>1, <1>3 DEF Ending, Unstarted
<1>6. 1..Len(log) = {}
  BY <1>1
<1>7. Beginning
  BY <1>1, <1>6 DEF Beginning, Unstarted
<1>8. StepRows
  BY <1>1, <1>6 DEF StepRows
<1>9. Sealing
  BY <1>1, <1>3 DEF Sealing, Executed
<1>10. Results /\ Ends
  BY <1>1, <1>6 DEF Results, Ends
<1>11. QED
  BY <1>2, <1>4, <1>5, <1>7, <1>8, <1>9, <1>10 DEF EInv

-----------------------------------------------------------------------------
\* What the invariant says.

LEMMA InLog == ASSUME Types PROVE DOMAIN log = 1..Len(log) /\ Len(log) \in Nat
BY DEF Types

LEMMA Brackets == ASSUME EInv, RunFacts PROVE EffectsBracketed
<1>1. Types /\ DOMAIN log = 1..Len(log)
  BY InLog DEF EInv
<1>2. TypeOK
  BY <1>1 DEF Types
<1>3. RequestsPrecedeEffects
  <2>1. \A c \in CallIds : Executed(c) => Requested(c)
    BY DEF EInv, Sealing
  <2>2. sub = "model" =>
          \E i \in 1..Len(log) : log[i].kind = "model.requested" /\ log[i].ref = modelCalls
    BY DEF EInv, StepRows
  <2>3. QED
    BY <1>1, <2>1, <2>2 DEF RequestsPrecedeEffects, Logged, Requested
<1>4. ResultsPrecedeProgress
  <2>1. ASSUME at \in {"before", "after", "returned"} \/ (at = "step" /\ pc # "returned"),
               NEW c \in CallIds, Settled(c)
        PROVE  Told(c) /\ (Executed(c) => c \in notified)
    <3>1. ToRecord = {}
      BY <2>1 DEF EInv, Ending
    <3>2. c \in recorded
      BY <2>1, <3>1 DEF ToRecord
    <3>3. QED
      BY <3>2 DEF EInv, Results
  <2>2. QED
    BY <1>1, <2>1 DEF ResultsPrecedeProgress, Told
<1>5. QED
  BY <1>2, <1>3, <1>4 DEF EffectsBracketed

LEMMA EndIsRecorded == ASSUME EInv, RunFacts PROVE EndRecorded
<1>1. DOMAIN log = 1..Len(log)
  BY InLog DEF EInv
<1>2. Ends /\ Ending
  BY DEF EInv
<1>3. (at = "after" /\ ended) \/ at \in {"returned", "raised"} => Logged("finished", "run")
  <2>1. finished => \E i \in 1..Len(log) : log[i].kind = "finished" /\ log[i].ref = "run"
    BY <1>2 DEF Ends
  <2>2. QED
    BY <1>1, <1>2, <2>1 DEF Ending, Logged
<1>4. ASSUME NEW i \in DOMAIN log, log[i].kind = "finished"
      PROVE  (log[i].result = "COMPLETED") = (\E j \in 1..i : log[j].kind = "output")
  BY <1>1, <1>2, <1>4 DEF Ends
<1>5. Logged("output", "run") => status = "COMPLETED"
  BY <1>1, <1>2 DEF Ends, Logged
<1>6. QED
  BY <1>3, <1>4, <1>5 DEF EndRecorded

LEMMA OneClaims == ASSUME EInv, RunFacts PROVE OneExecution
<1>1. DOMAIN log = 1..Len(log)
  BY InLog DEF EInv
<1>2. Beginning /\ Driven
  BY DEF EInv
<1>3. pc # "idle" => at \notin Unstarted
  BY <1>2 DEF Driven, Unstarted
<1>4. (\E i \in 1..Len(log) : log[i].kind \notin {"started", "world"}) => at \notin Unstarted
  BY <1>2 DEF Beginning
<1>5. at \notin Unstarted => \E i \in 1..Len(log) : log[i].kind = "started" /\ log[i].result = "us"
  BY <1>2 DEF Beginning
<1>6. \A i, j \in 1..Len(log) : log[i].kind = "started" /\ log[j].kind = "started" => i = j
  BY <1>2 DEF Beginning
<1>7. QED
  BY <1>1, <1>3, <1>4, <1>5, <1>6 DEF OneExecution

\* What a step is about to write, nothing in the journal contradicts.
LEMMA StepMatches ==
  ASSUME EInv, RunFacts, at = "step", NEW n \in 1..Len(Writing), NEW i \in 1..Len(log)
  PROVE  ~SameId(log[i], Writing[n])
<1>1. Types /\ Driven /\ StepRows /\ Sealing
  BY DEF EInv
<1> DEFINE Free(r) == ~SameId(log[i], r)
<1>2. pc \in {"inferring", "policing"} => ~Agent!Terminal
  BY DEF RunFacts
<1>3. \A kind \in ModelKinds : \A result :
        pc = "inferring" /\ sub \in Until(kind) => Free(Commit(kind, modelCalls, {}, result))
  BY <1>1 DEF StepRows, SameId, Commit
<1>4. /\ sub = "request" => Free(Commit("model.requested", modelCalls, {}, ""))
      /\ sub = "failed" => Free(Commit("model.failed", modelCalls, {}, ""))
      /\ sub = "completed" => Free(Commit("model.completed", modelCalls, {}, Len(reply)))
      /\ sub = "disclose" /\ pc = "inferring" =>
           Free(Commit("model.delta", modelCalls, {}, Cardinality(disclosed)))
  <2>1. sub \in {"request", "failed", "completed"} => pc = "inferring"
    BY <1>1 DEF Driven
  <2> HIDE DEF Free
  <2>2. QED
    BY <1>3, <2>1 DEF ModelKinds, Until
<1>5. sub = "disclose" /\ pc = "policing" =>
        Free(Commit("tool.delta", Pending[1], {}, Cardinality(disclosed)))
  <2>1. pc = "policing" => Pending[1] \in Waiting
    BY FirstWaits DEF RunFacts
  <2>2. QED
    BY <1>1, <1>2, <2>1 DEF StepRows, SameId, Commit
<1>6. sub = "seal" => \A m \in 1..Len(Sealable) : Free(Sealable[m])
  <2> SUFFICES ASSUME sub = "seal", NEW m \in 1..Len(Sealable) PROVE Free(Sealable[m])
    OBVIOUS
  <2>1. Sealable[m].kind = "tool.requested" /\ Sealable[m].ref \in Waiting \cap Catalog
    BY <1>1, SealableFacts, VisibleFacts
  <2>2. pc = "policing"
    BY <1>1 DEF Driven
  <2>3. Pending[1] \in Waiting \cap Catalog /\ Pending[1] \notin sealed
    <3>1. Pending[1] \in Waiting
      BY <2>2, FirstWaits DEF RunFacts
    <3>2. Pending[1] \in Catalog /\ Pending[1] \notin sealed
      BY <1>1, <2>2 DEF Sealing
    <3>3. QED
      BY <3>1, <3>2
  <2>4. Sealable[m].ref \notin sealed
    BY <1>1, <2>1, <2>3 DEF Sealing
  <2>5. QED
    BY <1>1, <1>2, <2>1, <2>2, <2>4 DEF StepRows, SameId
<1> HIDE DEF Free
<1>7. \A r : Free(r) => \A m \in 1..Len(<<r>>) : Free(<<r>>[m])
  OBVIOUS
<1>8. sub = "disclose" => pc \in {"inferring", "policing"}
  BY <1>1 DEF Driven
<1>9. \/ Writing = <<>>
      \/ \E r : Free(r) /\ Writing = <<r>>
      \/ sub = "seal" /\ Writing = Sealable
  <2>1. CASE sub \notin {"disclose", "seal", "request", "failed", "completed"}
    BY <2>1, WritingValue
  <2>2. CASE sub \in {"request", "failed", "completed", "disclose"}
    <3>1. \/ /\ sub = "request"
             /\ Writing = <<Commit("model.requested", modelCalls, {}, "")>>
          \/ /\ sub = "failed"
             /\ Writing = <<Commit("model.failed", modelCalls, {}, "")>>
          \/ /\ sub = "completed"
             /\ Writing = <<Commit("model.completed", modelCalls, {}, Len(reply))>>
          \/ /\ sub = "disclose" /\ pc = "inferring"
             /\ Writing = <<Commit("model.delta", modelCalls, {}, Cardinality(disclosed))>>
          \/ /\ sub = "disclose" /\ pc = "policing"
             /\ Writing = <<Commit("tool.delta", Pending[1], {}, Cardinality(disclosed))>>
      BY <1>8, <2>2, WritingValue
    <3>2. QED
      BY <1>4, <1>5, <3>1, Zenon
  <2>3. CASE sub = "seal"
    BY <2>3, WritingValue DEF Sealable
  <2>4. QED
    BY <2>1, <2>2, <2>3
<1>10. Free(Writing[n])
  <2>1. CASE Writing = <<>>
    BY <2>1
  <2>2. CASE \E r : Free(r) /\ Writing = <<r>>
    BY <1>7, <2>2
  <2>3. CASE sub = "seal" /\ Writing = Sealable
    BY <1>6, <2>3
  <2>4. QED
    BY <1>9, <2>1, <2>2, <2>3
<1>11. QED
  BY <1>10 DEF Free

\* Outside of steps what is about to be written is new, or there as it is.
LEMMA SettlementMatches ==
  ASSUME EInv, RunFacts, at \notin {"claim", "step"},
         NEW n \in 1..Len(Writing), NEW i \in 1..Len(log), SameId(log[i], Writing[n])
  PROVE  log[i] = Writing[n]
<1>1. Types /\ Ending /\ Results /\ Ends
  BY DEF EInv
<1>2. \/ Writing = <<>>
      \/ at = "record" /\ ToRecord # {} /\ Writing = <<ResultRecord>>
      \/ at = "output" /\ Writing = <<Commit("output", "run", {}, "")>>
      \/ at = "finish" /\ Writing = <<Commit("finished", "run", {}, RunStatusRecorded)>>
  BY WritingValue
<1>3. \A r : \A m \in 1..Len(<<r>>) : <<r>>[m] = r
  OBVIOUS
<1>4. \/ at = "record" /\ ToRecord # {} /\ Writing[n] = ResultRecord
      \/ at = "output" /\ Writing[n] = Commit("output", "run", {}, "")
      \/ at = "finish" /\ Writing[n] = Commit("finished", "run", {}, RunStatusRecorded)
  <2>1. Writing # <<>>
    OBVIOUS
  <2>2. CASE at = "record" /\ ToRecord # {} /\ Writing = <<ResultRecord>>
    BY <1>3, <2>2
  <2>3. CASE at = "output" /\ Writing = <<Commit("output", "run", {}, "")>>
    BY <1>3, <2>3
  <2>4. CASE at = "finish" /\ Writing = <<Commit("finished", "run", {}, RunStatusRecorded)>>
    BY <1>3, <2>4
  <2>5. QED
    BY <1>2, <2>1, <2>2, <2>3, <2>4
<1>5. CASE at = "record" /\ ToRecord # {} /\ Writing[n] = ResultRecord
  <2>1. NextToRecord \notin recorded
    BY <1>5, NextIsUnrecorded DEF ToRecord
  <2>2. ResultRecord.kind = "tool.result" /\ ResultRecord.ref = NextToRecord
    BY DEF ResultRecord, Commit
  <2>3. log[i].kind = "tool.result" /\ log[i].ref \notin recorded
    BY <1>5, <2>1, <2>2 DEF SameId
  <2>4. QED
    BY <1>1, <1>5, <2>3 DEF Results
<1>6. CASE at = "output" /\ Writing[n] = Commit("output", "run", {}, "")
  <2>1. log[i].kind = "output"
    <3>1. Commit("output", "run", {}, "").kind = "output"
      BY DEF Commit
    <3>2. QED
      BY <1>6, <3>1 DEF SameId
  <2>2. ~published
    BY <1>1, <1>6 DEF Ending
  <2>3. QED
    BY <1>1, <1>6, <2>1, <2>2 DEF Ends
<1>7. CASE at = "finish" /\ Writing[n] = Commit("finished", "run", {}, RunStatusRecorded)
  <2>1. log[i].kind = "finished"
    <3>1. Commit("finished", "run", {}, RunStatusRecorded).kind = "finished"
      BY DEF Commit
    <3>2. QED
      BY <1>7, <3>1 DEF SameId
  <2>2. ~finished
    BY <1>1, <1>7 DEF Ending
  <2>3. QED
    BY <1>1, <1>7, <2>1, <2>2 DEF Ends
<1>8. QED
  BY <1>4, <1>5, <1>6, <1>7

LEMMA RetriesAreTheSame == ASSUME EInv, RunFacts PROVE RetriesMatch
<1>1. Types /\ Driven /\ DOMAIN log = 1..Len(log)
  BY InLog DEF EInv
<1>2. DOMAIN Writing = 1..Len(Writing)
  BY <1>1, WritingType
<1>3. ASSUME at # "claim", NEW n \in DOMAIN Writing, NEW i \in DOMAIN log,
             SameId(log[i], Writing[n])
      PROVE  log[i] = Writing[n]
  <2>1. CASE at = "step"
    BY <1>1, <1>2, <1>3, <2>1, StepMatches
  <2>2. CASE at # "step"
    BY <1>1, <1>2, <1>3, <2>2, SettlementMatches
  <2>3. QED
    BY <2>1, <2>2
<1>4. QED
  BY <1>3 DEF RetriesMatch, Differs

\* Once the end is in the journal this execution adds nothing to it.
LEMMA NothingAfterTheEnd ==
  ASSUME EInv, RunFacts, [Next]_vars, Logged("finished", "run")
  PROVE  \A i \in Len(log) + 1..Len(log') : log'[i].kind = "world"
<1>1. Types /\ Driven /\ Ending /\ Ends /\ log \in Seq(Rows) /\ DOMAIN log = 1..Len(log)
  BY InLog DEF EInv, Types
<1>2. PICK e \in 1..Len(log) : log[e].kind = "finished" /\ log[e].ref = "run"
  BY <1>1 DEF Logged
<1>3. ended /\ ToRecord = {} /\ (finished \/ (settling /\ (at # "unsettled" =>
        at \in {"record", "finish"} /\ log[e] = Commit("finished", "run", {}, RunStatusRecorded))))
  BY <1>1, <1>2 DEF Ends
<1>4. at \notin {"lookup", "claim", "step", "output"}
  BY <1>1, <1>3 DEF Ending, Unstarted
<1>5. Len(log) \in Nat /\ \A i \in Len(log) + 1..Len(log') : i \notin 1..Len(log)
  BY <1>1
<1>6. CASE log' = log
  BY <1>1, <1>6
<1>7. CASE Land(Writing)
  <2>1. Writing \in Seq(Rows)
    BY <1>1, WritingType
  <2>2. /\ Grown({Writing[r] : r \in 1..Len(Writing)})
        /\ \A i \in 1..Len(log') : i \notin 1..Len(log) => ~Stored(log'[i])
    BY <1>1, <1>7, <2>1, Lands
  <2>3. \/ Writing = <<>>
        \/ /\ at = "finish"
           /\ Writing = <<Commit("finished", "run", {}, RunStatusRecorded)>>
    BY <1>3, <1>4, WritingValue
  <2>4. \A r : \A m \in 1..Len(<<r>>) : <<r>>[m] = r
    OBVIOUS
  <2>5. ASSUME NEW m \in 1..Len(Writing) PROVE Stored(Writing[m])
    <3>1. Writing[m] = Commit("finished", "run", {}, RunStatusRecorded)
      <4>1. Writing # <<>>
        BY <2>5
      <4>2. QED
        BY <2>3, <2>4, <4>1
    <3>2. QED
      BY <1>1, <1>2, <3>1 DEF Stored, SameId, Commit
  <2>6. ASSUME NEW i \in Len(log) + 1..Len(log') PROVE FALSE
    <3>1. i \in 1..Len(log') /\ i \notin 1..Len(log)
      BY <1>5, <2>2 DEF Grown
    <3>2. \E m \in 1..Len(Writing) : log'[i] = Writing[m]
      BY <2>2, <3>1 DEF Grown
    <3>3. QED
      BY <2>2, <2>5, <3>1, <3>2
  <2>7. QED
    BY <2>6
<1>8. CASE \E scopes \in SUBSET Scopes \ {{}} : WorldCommit(scopes)
  <2>1. PICK scopes \in SUBSET Scopes \ {{}} : WorldCommit(scopes)
    BY <1>8
  <2>2. PICK r \in Rows : r.kind = "world" /\ Grown({r})
    BY <1>1, <2>1, WorldGrows
  <2>3. QED
    BY <1>5, <2>2 DEF Grown
<1>9. CASE RivalStarts
  BY <1>4, <1>9 DEF RivalStarts
<1>10. QED
  BY <1>6, <1>7, <1>8, <1>9, Written

-----------------------------------------------------------------------------
\* The journal accounts for the run.

\* The invariant holds in every reachable state.
THEOREM JournalInvariance == Spec => [](EInv /\ RunFacts)
<1>1. Init => EInv
  BY Initially
<1>2. Proven!HInv => RunFacts
  BY FactsOfRun
<1>3. EInv /\ Proven!HInv /\ RunFacts' /\ [Next]_vars => EInv'
  <2> SUFFICES ASSUME EInv, Proven!HInv, RunFacts', [Next]_vars PROVE EInv'
    OBVIOUS
  <2>1. Onward
    BY CallsGoOnward DEF EInv, Types, Asked
  <2>2. QED
    BY <1>2, <2>1, Inductive
<1>4. QED
  BY <1>1, <1>2, <1>3, RunInvariance, PTL DEF Spec

\* No effect without its record and no progress without the records of what has
\* happened; the end is recorded, with an output if and only if the run was
\* completed; one execution of a run id acts; and what is written again after an
\* interrupted append is what is already there.  RunSession and RunLedger.
THEOREM RecordsAreSound == Spec => []RecordsSound
<1>1. EInv /\ RunFacts => RecordsSound
  BY Brackets, EndIsRecorded, OneClaims, RetriesAreTheSame DEF RecordsSound, RecordsAgree
<1>2. QED
  BY <1>1, JournalInvariance, PTL

\* The end record is the last word of a run: RunLedger.finish writes it once, and
\* nothing of this execution comes after it.
THEOREM EndIsFinal == Spec => EndIsLast
<1>1. EInv /\ RunFacts /\ [Next]_vars =>
        [Logged("finished", "run") =>
           \A i \in Len(log) + 1..Len(log') : log'[i].kind = "world"]_vars
  BY NothingAfterTheEnd
<1>2. QED
  BY <1>1, JournalInvariance, PTL DEF Spec, EndIsLast

-----------------------------------------------------------------------------
\* The frontier and the commits of others.

\* Positions count the rows of a scope.
LEMMA Positions ==
  ASSUME NEW rows, NEW s, NEW i \in Nat, NEW j \in Nat, i <= j
  PROVE  /\ Position(rows, i, s) \in Nat /\ Position(rows, j, s) \in Nat
         /\ Position(rows, i, s) <= Position(rows, j, s)
         /\ i < j /\ s \in rows[j].scopes => Position(rows, i, s) < Position(rows, j, s)
<1> DEFINE Of(n) == {m \in 1..n : s \in rows[m].scopes}
<1>1. Position(rows, i, s) = Cardinality(Of(i)) /\ Position(rows, j, s) = Cardinality(Of(j))
  BY DEF Position
<1>2. Of(i) \subseteq Of(j)
  OBVIOUS
<1>3. i < j /\ s \in rows[j].scopes => j \in Of(j) /\ j \notin Of(i)
  OBVIOUS
<1>4. IsFiniteSet(Of(j)) /\ IsFiniteSet(Of(i))
  <2>1. IsFiniteSet(1..j) /\ IsFiniteSet(1..i) /\ Of(j) \subseteq 1..j /\ Of(i) \subseteq 1..i
    BY FS_Interval
  <2> HIDE DEF Of
  <2>2. QED
    BY <2>1, FS_Subset
<1> HIDE DEF Of
<1>5. Cardinality(Of(i)) \in Nat /\ Cardinality(Of(j)) \in Nat
  BY <1>4, FS_CardinalityType
<1>6. Cardinality(Of(i)) <= Cardinality(Of(j))
  BY <1>2, <1>4, FS_Subset
<1>7. ASSUME i < j, s \in rows[j].scopes PROVE Cardinality(Of(i)) # Cardinality(Of(j))
  <2>1. Of(i) # Of(j)
    BY <1>3, <1>7
  <2>2. QED
    BY <1>2, <1>4, <2>1, FS_Subset
<1>8. QED
  BY <1>1, <1>5, <1>6, <1>7

\* Rows that follow do not move those before them.
LEMMA PositionsStay ==
  ASSUME NEW S, Grown(S), NEW i \in 0..Len(log), Len(log) \in Nat, NEW s
  PROVE  Position(log', i, s) = Position(log, i, s)
<1>1. \A j \in 1..i : log'[j] = log[j]
  BY DEF Grown
<1>2. {j \in 1..i : s \in log'[j].scopes} = {j \in 1..i : s \in log[j].scopes}
  BY <1>1
<1>3. QED
  BY <1>2 DEF Position

\* The scopes that only others write to.
Foreign == Scopes \ PublishedScopes

\* For those the frontier is behind the journal, at the beginning as long as
\* nothing is observed, and what it has passed was shown.
Seen ==
  /\ \A s \in Foreign : frontier[s] <= Position(log, Len(log), s)
  /\ \A s \in Foreign : s \notin observed => frontier[s] = 0
  /\ NothingSkippedElsewhere

\* What is written goes to scopes that the run publishes to.
LEMMA WritesPublished ==
  ASSUME Types, Driven, RunFacts
  PROVE  \A n \in 1..Len(Writing) : Writing[n].scopes \subseteq PublishedScopes
<1> DEFINE Good(r) == r.scopes \subseteq PublishedScopes
<1>1. /\ Good(ClaimRecord)
      /\ Good(Commit("model.requested", modelCalls, {}, ""))
      /\ Good(Commit("model.failed", modelCalls, {}, ""))
      /\ Good(Commit("model.completed", modelCalls, {}, Len(reply)))
      /\ Good(Commit("model.delta", modelCalls, {}, Cardinality(disclosed)))
      /\ Good(Commit("tool.delta", Pending[1], {}, Cardinality(disclosed)))
      /\ Good(Commit("output", "run", {}, ""))
      /\ Good(Commit("finished", "run", {}, RunStatusRecorded))
  BY DEF Commit, ClaimRecord
<1>2. \A c \in CallIds : Publish[c] \subseteq PublishedScopes
  BY DEF PublishedScopes
<1>3. ToRecord # {} => Good(ResultRecord)
  <2>1. ToRecord # {} => NextToRecord \in CallIds
    BY NextIsUnrecorded DEF ToRecord
  <2>2. ToRecord # {} => PublishOf(NextToRecord) \subseteq PublishedScopes
    BY <1>2, <2>1 DEF PublishOf
  <2>3. ResultRecord.scopes = PublishOf(NextToRecord)
    BY DEF ResultRecord, Commit
  <2>4. QED
    BY <2>2, <2>3
<1>4. ASSUME NEW n \in 1..Len(Sealable) PROVE Good(Sealable[n])
  <2>1. n \in DOMAIN Visible /\ Visible[n] \in CallIds
    BY VisibleFacts, SealableFacts
  <2> DEFINE c == Visible[n]
             row == Sealable[n]
             scopes == Publish[c]
  <2>2. row = Commit("tool.requested", c, scopes, "") /\ scopes \subseteq PublishedScopes
    BY <1>2, <2>1 DEF Sealable
  <2> HIDE DEF c, row, scopes
  <2>3. row.scopes \subseteq PublishedScopes
    BY <2>2 DEF Commit
  <2>4. QED
    BY <2>3 DEF row
<1> HIDE DEF Good
<1>5. \A r : Good(r) => \A n \in 1..Len(<<r>>) : Good(<<r>>[n])
  OBVIOUS
<1>6. \/ Writing = <<>>
      \/ Writing = <<ClaimRecord>>
      \/ Writing = <<Commit("model.requested", modelCalls, {}, "")>>
      \/ Writing = <<Commit("model.failed", modelCalls, {}, "")>>
      \/ Writing = <<Commit("model.completed", modelCalls, {}, Len(reply))>>
      \/ Writing = <<Commit("model.delta", modelCalls, {}, Cardinality(disclosed))>>
      \/ Writing = <<Commit("tool.delta", Pending[1], {}, Cardinality(disclosed))>>
      \/ Writing = Sealable
      \/ ToRecord # {} /\ Writing = <<ResultRecord>>
      \/ Writing = <<Commit("output", "run", {}, "")>>
      \/ Writing = <<Commit("finished", "run", {}, RunStatusRecorded)>>
  <2>1. sub = "disclose" => pc \in {"inferring", "policing"}
    BY DEF Driven
  <2>2. QED
    BY <2>1, WritingValue DEF Sealable
<1>7. \/ Writing = <<>>
      \/ \E r : Good(r) /\ Writing = <<r>>
      \/ Writing = Sealable
  BY <1>1, <1>3, <1>6, Zenon
<1>8. \A n \in 1..Len(Writing) : Good(Writing[n])
  <2>1. CASE Writing = <<>>
    BY <2>1
  <2>2. CASE \E r : Good(r) /\ Writing = <<r>>
    BY <1>5, <2>2
  <2>3. CASE Writing = Sealable
    BY <1>4, <2>3
  <2>4. QED
    BY <1>7, <2>1, <2>2, <2>3
<1>9. QED
  BY <1>8 DEF Good

\* An append of this execution leaves the frontier of other scopes where it is.
LEMMA AppendLeavesForeign ==
  ASSUME Types, Driven, RunFacts, Append1(Writing)
  PROVE  \A s \in Foreign : frontier'[s] = frontier[s]
<1>1. Writing \in Seq(Rows) /\ log \in Seq(Rows)
  BY WritingType DEF Types
<1>2. /\ Land(Writing) /\ frontier' = Advanced(log', Writing)
      /\ \A r \in DOMAIN Writing : ~Differs(Writing[r])
  BY DEF Append1, Land
<1>3. Grown({Writing[r] : r \in 1..Len(Writing)})
  BY <1>1, <1>2, Lands
<1>4. /\ DOMAIN log = 1..Len(log) /\ DOMAIN log' = 1..Len(log')
      /\ DOMAIN Writing = 1..Len(Writing)
  BY <1>1, <1>3 DEF Grown
<1>5. ASSUME NEW i \in 1..Len(log'), NEW r \in 1..Len(Writing), SameId(log'[i], Writing[r])
      PROVE  log'[i].scopes \subseteq PublishedScopes
  <2>1. CASE i \in 1..Len(log)
    <3>1. log[i] = log'[i]
      BY <1>3, <2>1 DEF Grown
    <3>2. log[i] = Writing[r]
      BY <1>2, <1>4, <1>5, <2>1, <3>1 DEF Differs
    <3>3. QED
      BY <3>1, <3>2, WritesPublished
  <2>2. CASE i \notin 1..Len(log)
    <3>1. PICK k \in 1..Len(Writing) : log'[i] = Writing[k]
      BY <1>3, <2>2 DEF Grown
    <3>2. QED
      BY <3>1, WritesPublished
  <2>3. QED
    BY <2>1, <2>2
<1>6. ASSUME NEW s \in Foreign PROVE frontier'[s] = frontier[s]
  <2> DEFINE mine == {i \in DOMAIN log' : s \in log'[i].scopes /\
                        \E r \in DOMAIN Writing : SameId(log'[i], Writing[r])}
             top == CHOOSE i \in mine : \A j \in mine : j <= i
  <2>1. s \in Scopes /\ s \notin PublishedScopes
    BY DEF Foreign
  <2>2. frontier'[s] = IF mine = {} THEN frontier[s] ELSE Position(log', top, s)
    BY <1>2, <2>1 DEF Advanced
  <2>3. mine = {}
    BY <1>4, <1>5, <2>1
  <2>4. QED
    BY <2>2, <2>3
<1>7. QED
  BY <1>6

\* What grows behind the frontier is ahead of it.
LEMMA SeenStays ==
  ASSUME Seen, Types, Types', NEW S, Grown(S), observed \subseteq observed',
         disclosed \subseteq disclosed', \A s \in Foreign : frontier'[s] = frontier[s]
  PROVE  Seen'
<1>1. /\ Len(log) \in Nat /\ Len(log') \in Nat
      /\ DOMAIN log = 1..Len(log) /\ DOMAIN log' = 1..Len(log')
      /\ frontier \in [Scopes -> Nat] /\ observed' \subseteq Scopes
  BY DEF Types, TypeOK
<1>2. Len(log) <= Len(log')
  <2>1. CASE Len(log) = 0
    BY <1>1, <2>1
  <2>2. CASE Len(log) # 0
    <3>1. Len(log) \in 1..Len(log)
      BY <1>1, <2>2
    <3>2. Len(log) \in 1..Len(log')
      BY <3>1 DEF Grown
    <3>3. QED
      BY <1>1, <3>2
  <2>3. QED
    BY <2>1, <2>2
<1>3. \A s : Position(log', Len(log), s) = Position(log, Len(log), s)
  BY <1>1, PositionsStay
<1>4. ASSUME NEW s \in Foreign
      PROVE  frontier'[s] <= Position(log', Len(log'), s)
  <2>1. frontier'[s] <= Position(log, Len(log), s) /\ frontier'[s] \in Nat
    BY <1>1 DEF Seen, Foreign
  <2>2. /\ Position(log', Len(log), s) <= Position(log', Len(log'), s)
        /\ Position(log', Len(log), s) \in Nat /\ Position(log', Len(log'), s) \in Nat
    BY <1>1, <1>2, Positions
  <2>3. Position(log', Len(log), s) = Position(log, Len(log), s)
    BY <1>3
  <2>4. QED
    BY <2>1, <2>2, <2>3
<1>5. \A s \in Foreign : s \notin observed' => frontier'[s] = 0
  BY DEF Seen
<1>6. ASSUME NEW i \in 1..Len(log'), NEW s \in observed', s \in log'[i].scopes,
             s \notin PublishedScopes
      PROVE  i \in disclosed' \/ Position(log', i, s) > frontier'[s]
  <2>1. s \in Foreign /\ i \in Nat /\ frontier'[s] = frontier[s] /\ frontier[s] \in Nat
    BY <1>1, <1>6 DEF Foreign
  <2>2. CASE i \in 1..Len(log) /\ s \in observed
    <3>1. log'[i] = log[i] /\ Position(log', i, s) = Position(log, i, s)
      <4>1. i \in 0..Len(log)
        BY <1>1, <2>2
      <4>2. QED
        BY <1>1, <2>2, <4>1, PositionsStay DEF Grown
    <3>2. i \in disclosed \/ Position(log, i, s) > frontier[s]
      BY <1>1, <1>6, <2>2, <3>1 DEF Seen, NothingSkippedElsewhere
    <3>3. QED
      BY <2>1, <3>1, <3>2
  <2>3. CASE s \notin observed
    <3>1. frontier[s] = 0
      BY <2>1, <2>3 DEF Seen
    <3>2. /\ Position(log', 0, s) \in Nat /\ Position(log', i, s) \in Nat
          /\ Position(log', 0, s) < Position(log', i, s)
      <4>1. 0 \in Nat /\ 0 <= i /\ 0 < i
        BY <1>1
      <4>2. QED
        BY <1>6, <2>1, <4>1, Positions
    <3>3. QED
      BY <2>1, <3>1, <3>2
  <2>4. CASE i \notin 1..Len(log)
    <3>1. Len(log) < i /\ Len(log) <= i
      BY <1>1, <2>4
    <3>2. /\ Position(log', Len(log), s) \in Nat /\ Position(log', i, s) \in Nat
          /\ Position(log', Len(log), s) < Position(log', i, s)
      BY <1>1, <1>6, <2>1, <3>1, Positions
    <3>3. frontier[s] <= Position(log', Len(log), s)
      BY <1>3, <2>1 DEF Seen
    <3>4. QED
      BY <2>1, <3>2, <3>3
  <2>5. QED
    BY <2>2, <2>3, <2>4
<1>7. NothingSkippedElsewhere'
  BY <1>1, <1>6 DEF NothingSkippedElsewhere, PublishedScopes
<1>8. QED
  BY <1>4, <1>5, <1>7 DEF Seen

\* A page is what is first ahead: it leaves nothing behind its last row.
LEMMA PageIsFirst ==
  ASSUME Types, NEW p \in Page, NEW i \in Ahead(frontier), i <= p
  PROVE  i \in Page
<1> DEFINE ahead == Ahead(frontier)
           Earlier(n) == {j \in ahead : j < n}
<1>1. Len(log) \in Nat /\ ahead \subseteq 1..Len(log)
  BY DEF Types, Ahead
<1>2. \A n \in ahead : n \in Page <=> Cardinality(Earlier(n)) < PageSize
  BY DEF Page
<1>3. p \in ahead /\ i \in ahead
  BY DEF Page
<1> HIDE DEF ahead
<1>4. Earlier(i) \subseteq Earlier(p)
  <2>1. ASSUME NEW j \in ahead, j < i PROVE j < p
    <3>1. j \in 1..Len(log) /\ i \in 1..Len(log) /\ p \in 1..Len(log)
      BY <1>1, <1>3
    <3>2. QED
      BY <1>1, <2>1, <3>1
  <2>2. QED
    BY <2>1
<1>5. IsFiniteSet(Earlier(p)) /\ IsFiniteSet(Earlier(i))
  <2>1. Earlier(p) \subseteq 1..Len(log) /\ Earlier(i) \subseteq 1..Len(log)
    BY <1>1
  <2>2. IsFiniteSet(1..Len(log))
    BY <1>1, FS_Interval
  <2> HIDE DEF Earlier
  <2>3. QED
    BY <2>1, <2>2, FS_Subset
<1> HIDE DEF Earlier
<1>6. /\ Cardinality(Earlier(i)) <= Cardinality(Earlier(p))
      /\ Cardinality(Earlier(i)) \in Nat /\ Cardinality(Earlier(p)) \in Nat
  BY <1>4, <1>5, FS_Subset, FS_CardinalityType
<1>7. Cardinality(Earlier(p)) < PageSize /\ PageSize \in Nat
  BY <1>2, <1>3, EngineAssumption
<1>8. QED
  BY <1>2, <1>3, <1>6, <1>7

\* A look at the world passes only what it shows.
LEMMA LookShows ==
  ASSUME Seen, Types, Types', log' = log, observed' = observed,
         disclosed' = disclosed \cup Page, frontier' = PageEnd(Page)
  PROVE  Seen'
<1>1. /\ Len(log) \in Nat /\ DOMAIN log = 1..Len(log)
      /\ frontier \in [Scopes -> Nat] /\ observed \subseteq Scopes
      /\ Page \subseteq 1..Len(log)
  BY DEF Types, TypeOK, Page, Ahead
<1> DEFINE Shown(s) == {i \in Page : s \in observed /\ s \in log[i].scopes}
           Best(s) == CHOOSE i \in Shown(s) : \A j \in Shown(s) : j <= i
           Top(s) == Position(log, Best(s), s)
<1>2. \A s \in Scopes :
        frontier'[s] = IF Shown(s) # {} /\ Top(s) > frontier[s] THEN Top(s) ELSE frontier[s]
  BY DEF PageEnd
<1>3. ASSUME NEW s, Shown(s) # {}
      PROVE  Best(s) \in Shown(s) /\ \A j \in Shown(s) : j <= Best(s)
  <2>1. \A i \in Shown(s) : i \in 1..Len(log)
    BY <1>1
  <2> HIDE DEF Shown
  <2>2. QED
    BY <1>1, <1>3, <2>1, HighestOf
<1> HIDE DEF Best
<1>4. ASSUME NEW s \in Foreign
      PROVE  /\ frontier'[s] <= Position(log, Len(log), s)
             /\ s \notin observed => frontier'[s] = 0
  <2>1. s \in Scopes
    BY DEF Foreign
  <2>2. CASE Shown(s) # {}
    <3>1. PICK b \in Page : b = Best(s) /\ s \in observed
      BY <1>3, <2>2
    <3>2. b \in 1..Len(log)
      BY ONLY <1>1, b \in Page
    <3>3. Top(s) <= Position(log, Len(log), s)
      <4>1. b \in Nat /\ b <= Len(log)
        BY <1>1, <3>2
      <4>2. Position(log, b, s) <= Position(log, Len(log), s)
        BY <1>1, <4>1, Positions
      <4>3. QED
        BY <3>1, <4>2
    <3>4. frontier'[s] = Top(s) \/ frontier'[s] = frontier[s]
      BY <1>2, <2>1
    <3>5. QED
      BY <3>1, <3>3, <3>4 DEF Seen
  <2>3. CASE Shown(s) = {}
    BY <1>2, <2>1, <2>3 DEF Seen
  <2>4. QED
    BY <2>2, <2>3
<1>5. ASSUME NEW i \in 1..Len(log), NEW s \in observed, s \in log[i].scopes,
             s \notin PublishedScopes, i \notin disclosed \cup Page
      PROVE  Position(log, i, s) > frontier'[s]
  <2>1. s \in Scopes /\ i \in Nat /\ Position(log, i, s) \in Nat /\ frontier[s] \in Nat
    BY <1>1, PositionType
  <2>2. Position(log, i, s) > frontier[s]
    BY <1>1, <1>5 DEF Seen, NothingSkippedElsewhere
  <2>3. i \in Ahead(frontier)
    BY <1>1, <1>5, <2>2 DEF Ahead, Beyond
  <2>4. CASE Shown(s) # {}
    <3>1. PICK b \in Page : b = Best(s)
      BY <1>3, <2>4
    <3>2. b \in 1..Len(log)
      BY ONLY <1>1, b \in Page
    <3>3. Top(s) < Position(log, i, s) /\ Top(s) \in Nat
      <4>1. ~(i <= b)
        BY <1>5, <2>3, PageIsFirst
      <4>2. b \in Nat /\ b < i /\ b <= i
        BY <2>1, <3>2, <4>1
      <4>3. Position(log, b, s) < Position(log, i, s) /\ Position(log, b, s) \in Nat
        BY <1>5, <2>1, <4>2, Positions
      <4>4. QED
        BY <3>1, <4>3
    <3>4. frontier'[s] = Top(s) \/ frontier'[s] = frontier[s]
      BY <1>2, <2>1
    <3>5. QED
      BY <2>1, <2>2, <3>3, <3>4
  <2>5. CASE Shown(s) = {}
    BY <1>2, <2>1, <2>2, <2>5
  <2>6. QED
    BY <2>4, <2>5
<1> HIDE DEF Top, Shown
<1>6. NothingSkippedElsewhere'
  BY <1>1, <1>5 DEF NothingSkippedElsewhere, PublishedScopes
<1>7. QED
  BY <1>4, <1>6 DEF Seen

LEMMA SeenStep ==
  ASSUME Seen, Types, Types', Driven, RunFacts, [Next]_vars
  PROVE  Seen'
<1>1. PICK S : Grown(S)
  BY Grows
<1>2. \/ frontier' = frontier
      \/ Append1(Writing)
      \/ LookAtWorld /\ Page # {}
  <2>1. CASE Loop
    BY <2>1 DEF Loop, Lookup, Claim, BeforeStep, Record, NotifyReturns, RecordsDone,
       CommitOutput, Finish, AfterStep, world
  <2>2. CASE Steps
    BY <2>2 DEF Steps, AgentAdvances, Assembled, RequestModel, ModelAnswers, ModelFails,
       RecordAnswer, AgentGetsReply, BeginTool, LookAtWorld, Disclose, Seal, ToolAllowed,
       ToolEnds, world
  <2>3. CASE Interruption
    BY <2>3 DEF Interruption, InterruptClaim, StepRaises, StepCancelled, LoopInterrupted,
       SettlementFails, world
  <2>4. CASE Others \/ UNCHANGED vars
    BY <2>4 DEF Others, WorldCommit, RivalStarts, HostCancels, HostAppends, vars, world
  <2>5. QED
    BY <2>1, <2>2, <2>3, <2>4 DEF Next
<1>3. observed \subseteq observed' /\ disclosed \subseteq disclosed'
  <2>1. CASE Loop
    BY <2>1 DEF Loop, Lookup, Claim, BeforeStep, Record, NotifyReturns, RecordsDone,
       CommitOutput, Finish, AfterStep, world
  <2>2. CASE Steps
    BY <2>2 DEF Steps, AgentAdvances, Assembled, RequestModel, ModelAnswers, ModelFails,
       RecordAnswer, AgentGetsReply, BeginTool, LookAtWorld, Disclose, Seal, ToolAllowed,
       ToolEnds, world
  <2>3. CASE Interruption
    BY <2>3 DEF Interruption, InterruptClaim, StepRaises, StepCancelled, LoopInterrupted,
       SettlementFails, world
  <2>4. CASE Others \/ UNCHANGED vars
    BY <2>4 DEF Others, WorldCommit, RivalStarts, HostCancels, HostAppends, vars, world
  <2>5. QED
    BY <2>1, <2>2, <2>3, <2>4 DEF Next
<1>4. CASE frontier' = frontier
  BY <1>1, <1>3, <1>4, SeenStays
<1>5. CASE Append1(Writing)
  BY <1>1, <1>3, <1>5, AppendLeavesForeign, SeenStays
<1>6. CASE LookAtWorld /\ Page # {}
  <2>1. /\ log' = log /\ observed' = observed
        /\ disclosed' = disclosed \cup Page /\ frontier' = PageEnd(Page)
    BY <1>6 DEF LookAtWorld
  <2>2. QED
    BY <2>1, LookShows
<1>7. QED
  BY <1>2, <1>4, <1>5, <1>6

\* No commit that another writer adds to a scope which the run observes and does
\* not publish to is lost between two looks: the frontier never passes what was not
\* disclosed, however commits interleave with looks, pages and the run's own
\* appends.  WorldDelta pages and the frontier of RunLedger.
THEOREM NothingIsSkipped == Spec => []NothingSkippedElsewhere
<1>1. Init => Seen
  <2> SUFFICES ASSUME Init PROVE Seen
    OBVIOUS
  <2>1. /\ log = <<>> /\ Len(log) = 0 /\ DOMAIN log = {} /\ frontier = [s \in Scopes |-> 0]
    BY DEF Init
  <2>2. \A s \in Foreign : frontier[s] = 0 /\ 0 <= Position(log, Len(log), s)
    BY <2>1, PositionType DEF Foreign
  <2>3. QED
    BY <2>1, <2>2 DEF Seen, NothingSkippedElsewhere
<1>2. EInv => Types /\ Driven
  BY DEF EInv
<1>3. Seen /\ Types /\ Types' /\ Driven /\ RunFacts /\ [Next]_vars => Seen'
  BY SeenStep
<1>4. Seen => NothingSkippedElsewhere
  BY DEF Seen
<1>5. QED
  BY <1>1, <1>2, <1>3, <1>4, JournalInvariance, PTL DEF Spec
=============================================================================
