--------------------------- MODULE AgentRunProofs ---------------------------
(***************************************************************************)
(* Theorems of AgentRun for every set of call ids and every limit.         *)
(***************************************************************************)
EXTENDS AgentRun, ProofLemmas

-----------------------------------------------------------------------------
\* The first pending call.

LEMMA FirstPendingProperties ==
  ASSUME TypeOK
  PROVE  /\ FirstPending \in 1..Len(order) + 1
         /\ FirstPending <= Len(order) => calls[order[FirstPending]] = "PENDING"
<1> DEFINE T == {n \in 1..Len(order) + 1 :
                   n <= Len(order) => calls[order[n]] = "PENDING"}
<1>1. T \in SUBSET Nat /\ Len(order) + 1 \in T
  BY DEF TypeOK
<1>2. PICK x \in T : \A y \in T : x <= y
  BY <1>1, LeastNatural
<1>3. \A i \in 1..x - 1 : calls[order[i]] # "PENDING"
  BY <1>1, <1>2 DEF TypeOK
<1>4. \E n \in 1..Len(order) + 1 :
         /\ \A i \in 1..n - 1 : calls[order[i]] # "PENDING"
         /\ n <= Len(order) => calls[order[n]] = "PENDING"
  BY <1>2, <1>3
<1>5. QED
  BY <1>4 DEF FirstPending

LEMMA PendingProperties ==
  ASSUME TypeOK
  PROVE  /\ Pending \in Seq(CallIds)
         /\ ToSet(Pending) \subseteq ToSet(order)
         /\ Pending # <<>> => /\ Head(Pending) \in CallIds
                              /\ calls[Head(Pending)] = "PENDING"
<1> DEFINE f == FirstPending
           n == Len(order)
<1>1. f \in 1..n + 1 /\ n \in Nat /\ \A i \in f..n : order[i] \in CallIds
  BY FirstPendingProperties DEF TypeOK
<1>2. /\ Pending \in Seq(CallIds)
      /\ Len(Pending) = IF f <= n THEN n - f + 1 ELSE 0
      /\ \A i \in 1..n - f + 1 : Pending[i] = order[f + i - 1]
  BY <1>1, SubSeqProperties DEF Pending
<1>3. ASSUME Pending # <<>>
      PROVE  Head(Pending) \in CallIds /\ calls[Head(Pending)] = "PENDING"
  <2>1. f <= n
    BY <1>1, <1>2, <1>3, EmptySeq
  <2>2. Head(Pending) = order[f]
    BY <1>1, <1>2, <2>1
  <2>3. QED
    BY <1>1, <2>1, <2>2, FirstPendingProperties
<1>4. ToSet(Pending) \subseteq ToSet(order)
  <2>1. \A i \in 1..Len(Pending) : i \in 1..n - f + 1 /\ f + i - 1 \in 1..n
    BY <1>1, <1>2
  <2>2. \A i \in 1..Len(Pending) : \E j \in 1..n : Pending[i] = order[j]
    BY <1>2, <2>1
  <2>3. DOMAIN order = 1..n /\ DOMAIN Pending = 1..Len(Pending)
    BY <1>2 DEF TypeOK
  <2>4. QED
    BY <2>2, <2>3 DEF ToSet
<1>5. QED
  BY <1>2, <1>3, <1>4

-----------------------------------------------------------------------------
\* Histories.

LEMMA MessageTypes ==
  /\ \A n \in Nat : Input(n) \in MessageOf
  /\ \A ids \in Seq(CallIds) : Assistant(ids) \in MessageOf
  /\ \A c \in CallIds, error \in BOOLEAN : ToolResult(c, error) \in MessageOf
<1>1. \A n \in Nat : Input(n) \in MessageOf
  BY DEF Input, MessageOf
<1>2. \A ids \in Seq(CallIds) : Assistant(ids) \in MessageOf
  BY DEF Assistant, MessageOf
<1>3. ASSUME NEW c \in CallIds, NEW error \in BOOLEAN
      PROVE  ToolResult(c, error) \in MessageOf
  <2>1. <<c>> \in Seq(CallIds)
    OBVIOUS
  <2>2. QED
    BY <2>1 DEF ToolResult, MessageOf
<1>4. QED
  BY <1>1, <1>2, <1>3

\* What was proposed stays proposed when a history grows.
LEMMA ProposedGrows ==
  ASSUME NEW h \in Seq(MessageOf), NEW t \in Seq(MessageOf)
  PROVE  Proposed(h, Len(h)) \subseteq Proposed(h \o t, Len(h \o t))
<1>1. /\ Len(h) \in Nat /\ Len(t) \in Nat
      /\ Len(h \o t) = Len(h) + Len(t)
      /\ \A i \in 1..Len(h) : (h \o t)[i] = h[i]
  BY ConcatPrefix
<1>2. QED
  BY <1>1 DEF Proposed

\* A valid reply proposes fresh calls, and proposes them.
LEMMA ReplyProposes ==
  ASSUME NEW h \in Seq(MessageOf), NEW ids \in Seq(CallIds),
         ValidHistory(Append(h, Assistant(ids)))
  PROVE  LET updated == Append(h, Assistant(ids)) IN
         /\ updated \in Seq(MessageOf)
         /\ Proposed(h, Len(h)) \subseteq Proposed(updated, Len(updated))
         /\ ToSet(ids) \subseteq Proposed(updated, Len(updated))
         /\ ToSet(ids) \cap Proposed(h, Len(h)) = {}
<1> DEFINE updated == Append(h, Assistant(ids))
           n == Len(h)
<1>1. /\ n \in Nat
      /\ updated \in Seq(MessageOf)
      /\ Len(updated) = n + 1
      /\ \A i \in 1..n : updated[i] = h[i]
      /\ updated[n + 1] = Assistant(ids)
  BY MessageTypes, AppendProperties
<1>2. Proposed(updated, n) = Proposed(h, n)
  BY <1>1 DEF Proposed
<1>3. Assistant(ids).role = "assistant" /\ Assistant(ids).calls = ids
  BY DEF Assistant
<1>4. ToSet(ids) \cap Proposed(updated, n) = {}
  <2>1. n + 1 \in DOMAIN updated /\ (n + 1) - 1 = n
    BY <1>1
  <2>2. updated[n + 1].role = "assistant" /\ updated[n + 1].calls = ids
    BY <1>1, <1>3
  <2>3. updated[n + 1].role # "tool"
    BY <2>2
  <2>4. ToSet(updated[n + 1].calls) \cap Proposed(updated, (n + 1) - 1) = {}
    BY <2>1, <2>2, <2>3, Zenon DEF ValidHistory
  <2>5. QED
    BY <2>1, <2>2, <2>4
<1>5. ToSet(ids) \subseteq Proposed(updated, n + 1)
  BY <1>1, <1>3 DEF Proposed
<1>6. Proposed(h, n) \subseteq Proposed(updated, n + 1)
  BY <1>1 DEF Proposed
<1>7. QED
  BY <1>1, <1>2, <1>4, <1>5, <1>6

LEMMA RepliesType == Replies \subseteq Seq(CallIds)
BY RunAssumption, SeqDef DEF Replies

\* Answers keep the types and only touch the calls they answer.
LEMMA RecordOutputProperties ==
  ASSUME TypeOK, NEW ids \in Seq(CallIds), NEW error \in BOOLEAN,
         RecordOutput(ids, error)
  PROVE  /\ calls' \in [CallIds -> CallStatus \cup {"absent"}]
         /\ messages' \in Seq(MessageOf)
         /\ Proposed(messages, Len(messages)) \subseteq
              Proposed(messages', Len(messages'))
         /\ \A c \in CallIds :
              calls'[c] = IF c \in ToSet(ids)
                          THEN IF error THEN "FAILED" ELSE "SUCCEEDED"
                          ELSE calls[c]
<1> DEFINE answers == [i \in 1..Len(ids) |-> ToolResult(ids[i], error)]
<1>1. answers \in Seq(MessageOf)
  BY MessageTypes, IsASeq
<1>2. messages \in Seq(MessageOf) /\ messages' = messages \o answers
  BY DEF TypeOK, RecordOutput
<1>3. messages' \in Seq(MessageOf)
  BY <1>1, <1>2, ConcatProperties
<1>4. Proposed(messages, Len(messages)) \subseteq
        Proposed(messages', Len(messages'))
  BY <1>1, <1>2, ProposedGrows
<1>5. calls' = [c \in CallIds |->
                  IF c \in ToSet(ids)
                  THEN IF error THEN "FAILED" ELSE "SUCCEEDED"
                  ELSE calls[c]]
  BY DEF RecordOutput
<1>6. calls' \in [CallIds -> CallStatus \cup {"absent"}]
  BY <1>5 DEF TypeOK, CallStatus
<1>7. QED
  BY <1>3, <1>4, <1>5, <1>6

-----------------------------------------------------------------------------
\* The inductive invariant.

LEMMA InitIInv == Init => IInv
<1> SUFFICES ASSUME Init PROVE IInv
  OBVIOUS
<1>1. messages \in Seq(MessageOf)
  <2>1. Input(0) \in MessageOf
    BY MessageTypes
  <2>2. QED
    BY <2>1 DEF Init
<1>2. TypeOK
  <2>1. queued \in Seq(MessageOf) /\ batch \in Seq(MessageOf) /\ order \in Seq(CallIds)
    BY EmptySeq DEF Init
  <2>2. calls \in [CallIds -> CallStatus \cup {"absent"}]
    BY DEF Init
  <2>3. executions \in [CallIds -> Nat]
    BY DEF Init
  <2>4. modelCalls \in 0..MaxModelCalls /\ toolCalls \in 0..MaxToolCalls
        /\ accepted \in 0..MaxInputs /\ finishes \in Nat
    BY RunAssumption DEF Init
  <2>5. QED
    BY <1>1, <2>1, <2>2, <2>3, <2>4 DEF Init, TypeOK, RunStatus
<1>3. BudgetHeld /\ ControlPoints /\ EntriesMatchCalls /\ RecordsProposed
  <2>1. ToSet(order) = {}
    BY DEF Init, ToSet
  <2>2. QED
    BY <2>1 DEF Init, BudgetHeld, ControlPoints, EntriesMatchCalls,
                RecordsProposed, Terminal, TerminalStatus
<1>4. UncertainEffectEndsRun
  BY DEF Init, UncertainEffectEndsRun, Running
<1>5. QED
  BY <1>2, <1>3, <1>4 DEF IInv

\* Actions that leave calls, order and the history alone disturb only the
\* control part of the invariant.
LEMMA RecordUnchanged ==
  ASSUME IInv, UNCHANGED record
  PROVE  /\ Pending' = Pending
         /\ EntriesMatchCalls'
         /\ RecordsProposed'
         /\ Running' = Running
BY DEF IInv, record, Pending, FirstPending, EntriesMatchCalls,
       RecordsProposed, Proposed, Running

LEMMA AppendMessageStep == IInv /\ AppendMessage => IInv'
<1> SUFFICES ASSUME IInv, AppendMessage PROVE IInv'
  OBVIOUS
<1> USE DEF AppendMessage, IInv, ending, stats, local
<1>1. UNCHANGED record
  OBVIOUS
<1>2. TypeOK'
  <2>1. accepted + 1 \in Nat /\ accepted + 1 \in 0..MaxInputs
    BY RunAssumption DEF TypeOK
  <2>2. queued' \in Seq(MessageOf)
    BY <2>1, MessageTypes, AppendProperties DEF TypeOK
  <2>3. QED
    BY <1>1, <2>1, <2>2 DEF TypeOK, record
<1>3. BudgetHeld' /\ ControlPoints'
  BY <1>1, RecordUnchanged
     DEF BudgetHeld, ControlPoints, ModelBudgetLeft, ToolBudgetLeft, Terminal
<1>4. UncertainEffectEndsRun'
  BY <1>1, RecordUnchanged DEF UncertainEffectEndsRun, record
<1>5. QED
  BY <1>1, <1>2, <1>3, <1>4, RecordUnchanged

LEMMA CancelStep == IInv /\ Cancel => IInv'
<1> SUFFICES ASSUME IInv, Cancel PROVE IInv'
  OBVIOUS
<1> USE DEF Cancel, IInv, ending, stats, local, intake, Finish
<1>1. UNCHANGED record
  OBVIOUS
<1>2. TypeOK'
  BY DEF TypeOK, record, RunStatus, TerminalStatus
<1>3. BudgetHeld' /\ ControlPoints'
  BY <1>1, RecordUnchanged
     DEF BudgetHeld, ControlPoints, ModelBudgetLeft, ToolBudgetLeft, Terminal,
         TerminalStatus, AtAwait, Awaits
<1>4. UncertainEffectEndsRun'
  BY <1>1, RecordUnchanged DEF UncertainEffectEndsRun, record
<1>5. QED
  BY <1>1, <1>2, <1>3, <1>4, RecordUnchanged

LEMMA DriveStep == ASSUME NEW mode \in BOOLEAN PROVE IInv /\ Drive(mode) => IInv'
<1> SUFFICES ASSUME IInv, Drive(mode) PROVE IInv'
  OBVIOUS
<1> USE DEF Drive, IInv, stats, intake
<1>1. UNCHANGED record
  OBVIOUS
<1>2. TypeOK'
  BY DEF TypeOK, record, RunStatus, TerminalStatus
<1>3. BudgetHeld' /\ ControlPoints'
  BY <1>1, RecordUnchanged
     DEF BudgetHeld, ControlPoints, Terminal, TerminalStatus
<1>4. UncertainEffectEndsRun'
  BY <1>1, RecordUnchanged
     DEF UncertainEffectEndsRun, record, Terminal, TerminalStatus
<1>5. QED
  BY <1>1, <1>2, <1>3, <1>4, RecordUnchanged

LEMMA AdvanceReturnsStep == IInv /\ AdvanceReturns => IInv'
<1> SUFFICES ASSUME IInv, AdvanceReturns PROVE IInv'
  OBVIOUS
<1> USE DEF AdvanceReturns, IInv, stats, intake, local, ending, Finish,
            EndCancelled, NextAdvance
<1>1. UNCHANGED record
  OBVIOUS
<1>2. TypeOK'
  BY DEF TypeOK, record, RunStatus, TerminalStatus
<1>3. BudgetHeld' /\ ControlPoints'
  BY <1>1, RecordUnchanged
     DEF BudgetHeld, ControlPoints, Terminal, TerminalStatus, TypeOK, RunStatus
<1>4. UncertainEffectEndsRun'
  BY <1>1, RecordUnchanged
     DEF UncertainEffectEndsRun, record, Terminal, TerminalStatus
<1>5. QED
  BY <1>1, <1>2, <1>3, <1>4, RecordUnchanged

LEMMA LimitReachedStep == IInv /\ LimitReached => IInv'
<1> SUFFICES ASSUME IInv, LimitReached PROVE IInv'
  OBVIOUS
<1> USE DEF LimitReached, IInv, stats, intake, local, Finish
<1>1. UNCHANGED record
  OBVIOUS
<1>2. TypeOK'
  BY DEF TypeOK, record, RunStatus, TerminalStatus
<1>3. BudgetHeld' /\ ControlPoints'
  BY <1>1, RecordUnchanged
     DEF BudgetHeld, ControlPoints, Terminal, TerminalStatus
<1>4. UncertainEffectEndsRun'
  BY <1>1, RecordUnchanged
     DEF UncertainEffectEndsRun, ControlPoints, record, Terminal, TerminalStatus
<1>5. QED
  BY <1>1, <1>2, <1>3, <1>4, RecordUnchanged

LEMMA BeginModelStepStep == IInv /\ BeginModelStep => IInv'
<1> SUFFICES ASSUME IInv, BeginModelStep PROVE IInv'
  OBVIOUS
<1> USE DEF BeginModelStep, IInv, ending, stats, intake
<1>1. UNCHANGED record
  OBVIOUS
<1>2. TypeOK'
  BY DEF TypeOK, record, Awaits
<1>3. BudgetHeld' /\ ControlPoints'
  BY <1>1, RecordUnchanged
     DEF BudgetHeld, ControlPoints, Terminal, TerminalStatus, ModelBudgetLeft
<1>4. UncertainEffectEndsRun'
  BY <1>1, RecordUnchanged DEF UncertainEffectEndsRun, record
<1>5. QED
  BY <1>1, <1>2, <1>3, <1>4, RecordUnchanged

LEMMA AssembleReturnsStep == IInv /\ AssembleReturns => IInv'
<1> SUFFICES ASSUME IInv, AssembleReturns PROVE IInv'
  OBVIOUS
<1> USE DEF AssembleReturns, IInv, ending, local, AbandonStep
<1>1. UNCHANGED <<calls, order, executions>>
  OBVIOUS
<1>2. /\ messages' \in Seq(MessageOf)
      /\ Proposed(messages, Len(messages)) \subseteq
           Proposed(messages', Len(messages'))
  <2>1. messages \in Seq(MessageOf) /\ batch \in Seq(MessageOf)
    BY DEF TypeOK
  <2>2. CASE messages' = messages
    BY <2>1, <2>2
  <2>3. CASE messages' = messages \o batch
    BY <2>1, <2>3, ProposedGrows, ConcatPrefix
  <2>4. QED
    BY <2>2, <2>3
<1>3. queued' \in Seq(MessageOf)
  <2>1. Len(batch) \in Nat /\ Len(queued) \in Nat
    BY DEF TypeOK
  <2>2. \A i \in Len(batch) + 1..Len(queued) : queued[i] \in MessageOf
    BY <2>1 DEF TypeOK
  <2>3. LeftInQueue \in Seq(MessageOf)
    BY <2>1, <2>2, SubSeqProperties DEF LeftInQueue
  <2>4. QED
    BY <2>3 DEF TypeOK
<1>4. modelCalls' \in 0..MaxModelCalls
  BY RunAssumption DEF TypeOK, BudgetHeld, ModelBudgetLeft
<1>5. TypeOK'
  BY <1>1, <1>2, <1>3, <1>4 DEF TypeOK, Awaits
<1>6. Pending' = Pending /\ Running' = Running
  BY <1>1 DEF Pending, FirstPending, Running
<1>7. BudgetHeld' /\ ControlPoints'
  BY <1>1, <1>6 DEF BudgetHeld, ControlPoints, Terminal, TerminalStatus, TypeOK
<1>8. EntriesMatchCalls' /\ RecordsProposed'
  BY <1>1, <1>2 DEF EntriesMatchCalls, RecordsProposed
<1>9. UncertainEffectEndsRun'
  BY <1>1, <1>6 DEF UncertainEffectEndsRun
<1>10. QED
  BY <1>5, <1>7, <1>8, <1>9

LEMMA ModelRepliesStep ==
  ASSUME NEW ids \in Replies PROVE IInv /\ ModelReplies(ids) => IInv'
<1> SUFFICES ASSUME IInv, ModelReplies(ids) PROVE IInv'
  OBVIOUS
<1> DEFINE updated == Append(messages, Assistant(ids))
<1> USE DEF ModelReplies, IInv, intake, stats, local
<1>1. ids \in Seq(CallIds)
  BY RepliesType
<1>2. CASE ~ValidHistory(updated)
  <2>1. UNCHANGED record /\ Finish("FAILED") /\ pc' = "idle"
    BY <1>2 DEF record
  <2>2. TypeOK'
    BY <2>1 DEF TypeOK, record, Finish, RunStatus, TerminalStatus
  <2>3. BudgetHeld' /\ ControlPoints'
    BY <2>1, RecordUnchanged
       DEF BudgetHeld, ControlPoints, Terminal, TerminalStatus, Finish
  <2>4. UncertainEffectEndsRun'
    BY <2>1, RecordUnchanged DEF UncertainEffectEndsRun, record, Finish
  <2>5. QED
    BY <2>1, <2>2, <2>3, <2>4, RecordUnchanged
<1>3. CASE ValidHistory(updated)
  <2>1. /\ messages' = updated
        /\ order' = order \o ids
        /\ calls' = [c \in CallIds |->
                       IF c \in ToSet(ids) THEN "PENDING" ELSE calls[c]]
        /\ pc' = "returned"
        /\ Finish("COMPLETED") \/ UNCHANGED ending
        /\ UNCHANGED executions
    BY <1>3
  <2>2. /\ messages' \in Seq(MessageOf)
        /\ Proposed(messages, Len(messages)) \subseteq
             Proposed(messages', Len(messages'))
        /\ ToSet(ids) \subseteq Proposed(messages', Len(messages'))
        /\ ToSet(ids) \cap Proposed(messages, Len(messages)) = {}
    BY <1>1, <1>3, <2>1, ReplyProposes DEF TypeOK
  <2>3. order' \in Seq(CallIds)
    BY <1>1, <2>1, ConcatProperties DEF TypeOK
  <2>4. calls' \in [CallIds -> CallStatus \cup {"absent"}]
    BY <2>1 DEF TypeOK, CallStatus
  <2>5. status' \in RunStatus /\ finishes' \in Nat
    BY <2>1 DEF TypeOK, Finish, ending, RunStatus, TerminalStatus
  <2>6. TypeOK'
    BY <2>1, <2>2, <2>3, <2>4, <2>5 DEF TypeOK
  <2>7. BudgetHeld' /\ ControlPoints'
    BY <2>1 DEF BudgetHeld, ControlPoints, Terminal, TerminalStatus, Finish,
                ending, TypeOK
  <2>8. \A c \in ToSet(ids) : c \in CallIds => calls[c] = "absent"
    BY <2>2 DEF RecordsProposed
  <2>9. EntriesMatchCalls'
    BY <2>1, <2>8 DEF EntriesMatchCalls
  <2>10. RecordsProposed'
    <3>1. ToSet(order') = ToSet(order) \cup ToSet(ids)
      BY <1>1, <2>1, ConcatElements DEF TypeOK
    <3>2. QED
      BY <2>1, <2>2, <3>1 DEF RecordsProposed
  <2>11. Running = {}
    BY DEF UncertainEffectEndsRun, Running
  <2>12. UncertainEffectEndsRun'
    BY <2>1, <2>11 DEF UncertainEffectEndsRun, Running, ControlPoints
  <2>13. QED
    BY <2>6, <2>7, <2>9, <2>10, <2>12
<1>4. QED
  BY <1>2, <1>3

\* Starting the first pending call.
LEMMA StartToolStep ==
  ASSUME IInv, Pending # <<>>, ToolBudgetLeft, status = "RUNNING",
         ~(\E c \in CallIds : calls[c] = "RUNNING"),
         StartTool(Head(Pending)),
         UNCHANGED <<ending, intake, local, order, modelCalls, cancelRequested>>
  PROVE  IInv'
<1> DEFINE h == Head(Pending)
<1> USE DEF IInv, StartTool, ending, intake, local
<1>1. h \in CallIds /\ calls[h] = "PENDING"
  BY PendingProperties
<1>2. /\ calls' \in [CallIds -> CallStatus \cup {"absent"}]
      /\ executions' \in [CallIds -> Nat]
      /\ \A c \in CallIds : calls'[c] = IF c = h THEN "RUNNING" ELSE calls[c]
      /\ \A c \in CallIds :
           executions'[c] = IF c = h THEN executions[c] + 1 ELSE executions[c]
  BY <1>1 DEF TypeOK, CallStatus
<1>3. toolCalls' \in 0..MaxToolCalls
  BY RunAssumption DEF TypeOK, ToolBudgetLeft
<1>4. TypeOK'
  BY <1>2, <1>3 DEF TypeOK, Awaits
<1>5. BudgetHeld' /\ ControlPoints'
  BY DEF BudgetHeld, ControlPoints, Terminal, TerminalStatus
<1>6. EntriesMatchCalls'
  BY <1>1, <1>2 DEF EntriesMatchCalls
<1>7. RecordsProposed'
  BY <1>1, <1>2 DEF RecordsProposed
<1>8. UncertainEffectEndsRun'
  BY <1>1, <1>2 DEF UncertainEffectEndsRun, Running
<1>9. QED
  BY <1>4, <1>5, <1>6, <1>7, <1>8

\* Answering proposed calls; only a call that ran is answered with success.
LEMMA AnswerStep ==
  ASSUME IInv, NEW ids \in Seq(CallIds), NEW error \in BOOLEAN,
         RecordOutput(ids, error),
         ToSet(ids) \subseteq Proposed(messages, Len(messages)),
         \A c \in ToSet(ids) : error \/ calls[c] = "RUNNING",
         \A c \in CallIds : calls[c] = "RUNNING" => c \in ToSet(ids),
         status = "RUNNING", pc' = "returned",
         UNCHANGED <<ending, intake, local, order, stats, cancelRequested,
                     executions>>
  PROVE  IInv'
<1> USE DEF IInv, ending, intake, local, stats
<1>1. /\ calls' \in [CallIds -> CallStatus \cup {"absent"}]
      /\ messages' \in Seq(MessageOf)
      /\ Proposed(messages, Len(messages)) \subseteq
           Proposed(messages', Len(messages'))
      /\ \A c \in CallIds :
           calls'[c] = IF c \in ToSet(ids)
                       THEN IF error THEN "FAILED" ELSE "SUCCEEDED"
                       ELSE calls[c]
  BY RecordOutputProperties
<1>2. TypeOK'
  BY <1>1 DEF TypeOK
<1>3. BudgetHeld' /\ ControlPoints'
  BY DEF BudgetHeld, ControlPoints, Terminal, TerminalStatus
<1>4. EntriesMatchCalls'
  <2> SUFFICES ASSUME NEW c \in CallIds
               PROVE  /\ calls'[c] \in {"absent", "PENDING"} => executions[c] = 0
                      /\ calls'[c] \in {"RUNNING", "SUCCEEDED", "UNKNOWN"} =>
                           executions[c] = 1
                      /\ calls'[c] = "FAILED" => executions[c] \in {0, 1}
    BY DEF EntriesMatchCalls
  <2>1. executions[c] \in {0, 1}
    BY DEF EntriesMatchCalls, TypeOK, CallStatus
  <2>2. calls[c] = "RUNNING" => executions[c] = 1
    BY DEF EntriesMatchCalls
  <2>3. CASE c \in ToSet(ids)
    BY <1>1, <2>1, <2>2, <2>3
  <2>4. CASE c \notin ToSet(ids)
    BY <1>1, <2>4 DEF EntriesMatchCalls
  <2>5. QED
    BY <2>3, <2>4
<1>5. RecordsProposed'
  BY <1>1 DEF RecordsProposed
<1>6. UncertainEffectEndsRun'
  BY <1>1 DEF UncertainEffectEndsRun, Running
<1>7. QED
  BY <1>2, <1>3, <1>4, <1>5, <1>6

\* Pending calls were proposed, the head of them in particular.
LEMMA PendingProposed ==
  ASSUME IInv, Pending # <<>>
  PROVE  /\ Pending \in Seq(CallIds)
         /\ ToSet(Pending) \subseteq Proposed(messages, Len(messages))
         /\ <<Head(Pending)>> \in Seq(CallIds)
         /\ ToSet(<<Head(Pending)>>) \subseteq Proposed(messages, Len(messages))
<1>1. ToSet(<<Head(Pending)>>) = {Head(Pending)}
  BY DEF ToSet
<1>2. Pending \in Seq(CallIds) /\ Head(Pending) \in CallIds
      /\ calls[Head(Pending)] = "PENDING" /\ ToSet(Pending) \subseteq ToSet(order)
  BY PendingProperties DEF IInv
<1>3. QED
  BY <1>1, <1>2 DEF IInv, RecordsProposed

LEMMA BeginToolStepStep == IInv /\ BeginToolStep => IInv'
<1> SUFFICES ASSUME IInv, BeginToolStep PROVE IInv'
  OBVIOUS
<1>1. /\ pc = "advance" /\ Pending # <<>> /\ ToolBudgetLeft
      /\ UNCHANGED <<ending, intake, local, order, modelCalls, cancelRequested>>
  BY DEF BeginToolStep
<1>2. status = "RUNNING" /\ ~(\E c \in CallIds : calls[c] = "RUNNING")
  BY <1>1 DEF IInv, ControlPoints, UncertainEffectEndsRun, Running
<1>3. CASE /\ RecordOutput(<<Head(Pending)>>, TRUE)
           /\ pc' = "returned"
           /\ UNCHANGED <<toolCalls, executions>>
  BY <1>1, <1>2, <1>3, PendingProposed, AnswerStep DEF stats
<1>4. CASE pc' = "policing" /\ UNCHANGED <<messages, calls, toolCalls, executions>>
  <2>1. UNCHANGED record /\ UNCHANGED <<ending, intake, stats, local, cancelRequested>>
    BY <1>1, <1>4 DEF record, stats
  <2>2. TypeOK'
    BY <1>4, <2>1
       DEF IInv, TypeOK, record, ending, intake, stats, local, Awaits
  <2>3. BudgetHeld' /\ ControlPoints'
    BY <1>1, <1>2, <1>4, <2>1, RecordUnchanged
       DEF IInv, BudgetHeld, ControlPoints, Terminal, TerminalStatus,
           ToolBudgetLeft, ending, stats
  <2>4. UncertainEffectEndsRun'
    BY <1>2, <2>1, RecordUnchanged
       DEF IInv, UncertainEffectEndsRun, record, ending, Running
  <2>5. QED
    BY <2>2, <2>3, <2>4, <2>1, RecordUnchanged DEF IInv
<1>5. CASE StartTool(Head(Pending))
  BY <1>1, <1>2, <1>5, StartToolStep
<1>6. QED
  BY <1>3, <1>4, <1>5 DEF BeginToolStep

LEMMA PolicyDecidesStep ==
  ASSUME NEW action \in {"ALLOW", "DENY", "RECONSIDER"}
  PROVE  IInv /\ PolicyDecides(action) => IInv'
<1> SUFFICES ASSUME IInv, PolicyDecides(action) PROVE IInv'
  OBVIOUS
<1>1. /\ pc = "policing" /\ Pending # <<>> /\ ToolBudgetLeft
      /\ UNCHANGED <<ending, intake, local, order, modelCalls, cancelRequested>>
  BY DEF PolicyDecides, IInv, BudgetHeld, ControlPoints
<1>2. status = "RUNNING" /\ ~(\E c \in CallIds : calls[c] = "RUNNING")
  BY <1>1 DEF IInv, ControlPoints, UncertainEffectEndsRun, Running
<1>3. CASE AbandonStep
  <2>1. /\ pc' = "returned" /\ UNCHANGED record
        /\ UNCHANGED <<ending, intake, stats, local, cancelRequested>>
    BY <1>1, <1>3 DEF PolicyDecides, record, stats
  <2>2. TypeOK'
    BY <2>1 DEF IInv, TypeOK, record, ending, intake, stats, local
  <2>3. BudgetHeld' /\ ControlPoints'
    BY <1>2, <2>1, RecordUnchanged
       DEF IInv, BudgetHeld, ControlPoints, Terminal, TerminalStatus, ending
  <2>4. UncertainEffectEndsRun'
    BY <1>2, <2>1, RecordUnchanged
       DEF IInv, UncertainEffectEndsRun, record, ending, Running
  <2>5. QED
    BY <2>2, <2>3, <2>4, <2>1, RecordUnchanged DEF IInv
<1>4. CASE StartTool(Head(Pending))
  BY <1>1, <1>2, <1>4, StartToolStep
<1>5. CASE /\ RecordOutput(Refused(action), TRUE)
           /\ pc' = "returned"
           /\ UNCHANGED <<toolCalls, executions>>
  <2>1. /\ Refused(action) \in Seq(CallIds)
        /\ ToSet(Refused(action)) \subseteq Proposed(messages, Len(messages))
    BY <1>1, PendingProposed DEF Refused
  <2>2. QED
    BY <1>1, <1>2, <1>5, <2>1, AnswerStep DEF stats
<1>6. QED
  BY <1>3, <1>4, <1>5 DEF PolicyDecides

LEMMA ToolReturnsStep ==
  ASSUME NEW error \in BOOLEAN PROVE IInv /\ ToolReturns(error) => IInv'
<1> SUFFICES ASSUME IInv, ToolReturns(error) PROVE IInv'
  OBVIOUS
<1>1. PICK c \in Running : RecordOutput(<<c>>, error)
  BY DEF ToolReturns
<1>2. c \in CallIds /\ calls[c] = "RUNNING" /\ status = "RUNNING"
  BY <1>1 DEF IInv, Running, UncertainEffectEndsRun
<1>3. <<c>> \in Seq(CallIds) /\ ToSet(<<c>>) = {c}
  BY <1>2 DEF ToSet
<1>4. /\ c \in Proposed(messages, Len(messages))
      /\ \A d \in CallIds : calls[d] = "RUNNING" => d = c
  BY <1>1, <1>2 DEF IInv, RecordsProposed, UncertainEffectEndsRun, Running
<1>5. QED
  BY <1>1, <1>2, <1>3, <1>4, AnswerStep DEF ToolReturns

-----------------------------------------------------------------------------
\* Ends that leave a running call without an outcome.

LEMMA InterruptedStep ==
  ASSUME IInv, pc \in Awaits, calls' = MarkUnknown,
         Finish("FAILED") \/ Finish("CANCELLED"),
         pc' \in {"idle", "returned"}, cancelRequested' \in BOOLEAN,
         UNCHANGED <<intake, stats, local, messages, order, executions>>
  PROVE  IInv'
<1> USE DEF IInv, intake, stats, local, Finish, TerminalStatus
<1>1. calls' \in [CallIds -> CallStatus \cup {"absent"}]
      /\ \A c \in CallIds :
           calls'[c] = IF calls[c] = "RUNNING" THEN "UNKNOWN" ELSE calls[c]
  BY DEF MarkUnknown, TypeOK, CallStatus
<1>2. TypeOK'
  BY <1>1 DEF TypeOK, RunStatus
<1>3. BudgetHeld' /\ ControlPoints'
  BY DEF BudgetHeld, ControlPoints, Terminal, Awaits
<1>4. EntriesMatchCalls'
  BY <1>1 DEF EntriesMatchCalls
<1>5. RecordsProposed'
  BY <1>1 DEF RecordsProposed
<1>6. UncertainEffectEndsRun'
  BY <1>1 DEF UncertainEffectEndsRun, Running
<1>7. QED
  BY <1>2, <1>3, <1>4, <1>5, <1>6

LEMMA InterruptionSteps ==
  IInv /\ (ToolEffectUnknown \/ AwaitRaises \/ DriverCancelled) => IInv'
<1> SUFFICES ASSUME IInv, ToolEffectUnknown \/ AwaitRaises \/ DriverCancelled
             PROVE  IInv'
  OBVIOUS
<1>1. CASE ToolEffectUnknown
  BY <1>1, InterruptedStep DEF ToolEffectUnknown, Awaits, IInv, TypeOK
<1>2. CASE AwaitRaises
  BY <1>2, InterruptedStep DEF AwaitRaises, IInv, TypeOK
<1>3. CASE DriverCancelled
  BY <1>3, InterruptedStep DEF DriverCancelled
<1>4. QED
  BY <1>1, <1>2, <1>3

-----------------------------------------------------------------------------
\* The invariant is inductive.

LEMMA StutterStep == IInv /\ UNCHANGED vars => IInv'
<1> SUFFICES ASSUME IInv, UNCHANGED vars PROVE IInv'
  OBVIOUS
<1> USE DEF vars, ending, record, intake, stats, local
<1>1. TypeOK'
  BY DEF IInv, TypeOK
<1>2. Pending' = Pending /\ EntriesMatchCalls' /\ RecordsProposed' /\ Running' = Running
  BY RecordUnchanged
<1>3. BudgetHeld' /\ ControlPoints'
  BY <1>2 DEF IInv, BudgetHeld, ControlPoints, Terminal, ModelBudgetLeft,
              ToolBudgetLeft
<1>4. UncertainEffectEndsRun'
  BY <1>2 DEF IInv, UncertainEffectEndsRun
<1>5. QED
  BY <1>1, <1>2, <1>3, <1>4 DEF IInv

LEMMA IInvInductive == IInv /\ [Next]_vars => IInv'
<1> SUFFICES ASSUME IInv, [Next]_vars PROVE IInv'
  OBVIOUS
<1>1. CASE AppendMessage \/ Cancel \/ \E mode \in BOOLEAN : Drive(mode)
  BY <1>1, AppendMessageStep, CancelStep, DriveStep
<1>2. CASE AdvanceReturns \/ LimitReached \/ BeginModelStep \/ BeginToolStep
  BY <1>2, AdvanceReturnsStep, LimitReachedStep, BeginModelStepStep,
     BeginToolStepStep
<1>3. CASE AssembleReturns \/ \E ids \in Replies : ModelReplies(ids)
  BY <1>3, AssembleReturnsStep, ModelRepliesStep
<1>4. CASE \E action \in {"ALLOW", "DENY", "RECONSIDER"} : PolicyDecides(action)
  BY <1>4, PolicyDecidesStep
<1>5. CASE \E error \in BOOLEAN : ToolReturns(error)
  BY <1>5, ToolReturnsStep
<1>6. CASE ToolEffectUnknown \/ AwaitRaises \/ DriverCancelled
  BY <1>6, InterruptionSteps
<1>7. CASE UNCHANGED vars
  BY <1>7, StutterStep
<1>8. QED
  BY <1>1, <1>2, <1>3, <1>4, <1>5, <1>6, <1>7
     DEF Next, Driver, Host, AwaitReturns

\* Every reachable state satisfies the inductive invariant.
THEOREM Invariance == Spec => []IInv
<1>1. Init => IInv
  BY InitIInv
<1>2. IInv /\ [Next]_vars => IInv'
  BY IInvInductive
<1>3. QED
  BY <1>1, <1>2, PTL DEF Spec

\* The variables keep their types, and no run exceeds max_model_calls or
\* max_tool_calls.
THEOREM TypeCorrect == Spec => []TypeOK
<1>1. IInv => TypeOK
  BY DEF IInv
<1>2. QED
  BY <1>1, Invariance, PTL

\* A call is running only while its tool is awaited, and an unknown effect has
\* ended the run (run.py _mark_unknown).
THEOREM UncertainEffects == Spec => []UncertainEffectEndsRun
<1>1. IInv => UncertainEffectEndsRun
  BY DEF IInv
<1>2. QED
  BY <1>1, Invariance, PTL

\* No tool is entered twice for one call.
THEOREM NoReplay == Spec => []ExecutedAtMostOnce
<1>1. IInv => ExecutedAtMostOnce
  BY DEF IInv, EntriesMatchCalls, ExecutedAtMostOnce, TypeOK, CallStatus
<1>2. QED
  BY <1>1, Invariance, PTL

\* After a cancellation request no model call and no tool is started any more,
\* whichever await the request arrived at.
THEOREM CancelStopsWork == Spec => NoNewWorkAfterCancel
<1> DEFINE Work == UNCHANGED <<modelCalls, toolCalls, executions>>
<1>1. IInv /\ [Next]_vars => [cancelRequested => Work]_vars
  <2> SUFFICES ASSUME IInv, [Next]_vars, cancelRequested PROVE Work
    OBVIOUS
  <2> USE DEF intake, stats, local, ending, record
  <2>1. pc # "advance"
    BY DEF IInv, ControlPoints
  <2>2. CASE AppendMessage \/ Cancel \/ \E mode \in BOOLEAN : Drive(mode)
    BY <2>2 DEF AppendMessage, Cancel, Drive
  <2>3. CASE AdvanceReturns \/ LimitReached \/ BeginModelStep \/ BeginToolStep
    BY <2>1, <2>3 DEF AdvanceReturns, LimitReached, BeginModelStep, BeginToolStep
  <2>4. CASE AssembleReturns \/ \E ids \in Replies : ModelReplies(ids)
    BY <2>4 DEF AssembleReturns, ModelReplies, AbandonStep
  <2>5. CASE \E action \in {"ALLOW", "DENY", "RECONSIDER"} : PolicyDecides(action)
    BY <2>5 DEF PolicyDecides, AbandonStep
  <2>6. CASE \/ \E error \in BOOLEAN : ToolReturns(error)
             \/ ToolEffectUnknown \/ AwaitRaises \/ DriverCancelled
    BY <2>6 DEF ToolReturns, ToolEffectUnknown, AwaitRaises, DriverCancelled
  <2>7. CASE UNCHANGED vars
    BY <2>7 DEF vars
  <2>8. QED
    BY <2>2, <2>3, <2>4, <2>5, <2>6, <2>7 DEF Next, Driver, Host, AwaitReturns
<1>2. QED
  BY <1>1, Invariance, PTL DEF Spec, NoNewWorkAfterCancel

\* A run that has ended never changes again: no late answer, no queued message
\* and no second driver reaches its history, its records or its status.
THEOREM EndIsFinal == Spec => TerminalAbsorbing
<1> DEFINE Frozen == UNCHANGED <<status, messages, queued, calls, modelCalls,
                                 toolCalls, executions, finishes>>
<1>1. IInv /\ [Next]_vars => [Terminal => Frozen]_vars
  <2> SUFFICES ASSUME IInv, [Next]_vars, Terminal PROVE Frozen
    OBVIOUS
  <2> USE DEF intake, stats, local, ending, record
  <2>1. pc \in {"idle", "returned"}
    BY DEF IInv, ControlPoints
  <2>2. CASE AppendMessage \/ Cancel \/ \E mode \in BOOLEAN : Drive(mode)
    BY <2>2 DEF AppendMessage, Cancel, Drive
  <2>3. CASE AdvanceReturns
    BY <2>3 DEF AdvanceReturns, EndCancelled
  <2>4. CASE LimitReached \/ BeginModelStep \/ BeginToolStep
    BY <2>1, <2>4 DEF LimitReached, BeginModelStep, BeginToolStep
  <2>5. CASE \/ AssembleReturns
             \/ \E ids \in Replies : ModelReplies(ids)
             \/ \E action \in {"ALLOW", "DENY", "RECONSIDER"} : PolicyDecides(action)
    BY <2>1, <2>5 DEF AssembleReturns, ModelReplies, PolicyDecides
  <2>6. CASE \/ \E error \in BOOLEAN : ToolReturns(error)
             \/ ToolEffectUnknown \/ AwaitRaises \/ DriverCancelled
    BY <2>1, <2>6
       DEF ToolReturns, ToolEffectUnknown, AwaitRaises, DriverCancelled, Awaits
  <2>7. CASE UNCHANGED vars
    BY <2>7 DEF vars
  <2>8. QED
    BY <2>2, <2>3, <2>4, <2>5, <2>6, <2>7 DEF Next, Driver, Host, AwaitReturns
<1>2. QED
  BY <1>1, Invariance, PTL DEF Spec, TerminalAbsorbing

-----------------------------------------------------------------------------
(***************************************************************************)
(* The history: calls and answers stay paired, accepted input is kept in   *)
(* order, a completed run has answered all it accepted, and the run        *)
(* implements RunContract.                                                 *)
(***************************************************************************)

-----------------------------------------------------------------------------
\* The inductive invariant.

\* The history is valid, and leaves open what the records leave unsettled.
Paired ==
  /\ ValidHistory(messages)
  /\ Open(messages, Len(messages)) =
       {c \in CallIds : calls[c] \in {"PENDING", "RUNNING", "UNKNOWN"}}
  /\ Proposed(messages, Len(messages)) = ToSet(order)

\* Each recorded call stands once in the order of proposal, and calls are settled
\* from the front.
Ordered ==
  /\ \A c \in CallIds : calls[c] = "absent" <=> c \notin ToSet(order)
  /\ \A i, j \in 1..Len(order) : order[i] = order[j] => i = j
  /\ \A i, j \in 1..Len(order) :
       i < j /\ calls[order[i]] = "PENDING" => calls[order[j]] = "PENDING"

\* What the assembler was given is the head of the queue, and no call waits.
Assembling ==
  pc = "assembling" =>
    /\ Len(batch) <= Len(queued)
    /\ \A i \in 1..Len(batch) : batch[i] = queued[i]
    /\ \A c \in CallIds : calls[c] # "PENDING"

\* What the history adds to IInv.
Told ==
  /\ Paired /\ Ordered
  /\ InputsKeptInOrder /\ Assembling
  /\ CompletedMeansAnswered
HInv == IInv /\ Told

-----------------------------------------------------------------------------
\* Histories that grow.

LEMMA HistoryTypes ==
  ASSUME NEW h \in Seq(MessageOf), NEW i \in 1..Len(h)
  PROVE  h[i].calls \in Seq(CallIds)
         /\ h[i].role \in {"message", "assistant", "tool"}
         /\ (h[i].role = "message" => h[i].calls = <<>> /\ h[i].input \in Nat)
<1>1. h[i] \in MessageOf
  OBVIOUS
<1>2. <<>> \in Seq(CallIds)
  OBVIOUS
<1>3. QED
  BY <1>1, <1>2 DEF MessageOf

\* What a concatenation proposes and answers is what its parts do.
LEMMA Grown ==
  ASSUME NEW h \in Seq(MessageOf), NEW t \in Seq(MessageOf)
  PROVE  /\ \A n \in 0..Len(h) : /\ Proposed(h \o t, n) = Proposed(h, n)
                                 /\ Answered(h \o t, n) = Answered(h, n)
         /\ \A k \in 0..Len(t) :
              /\ Proposed(h \o t, Len(h) + k) = Proposed(h, Len(h)) \cup Proposed(t, k)
              /\ Answered(h \o t, Len(h) + k) = Answered(h, Len(h)) \cup Answered(t, k)
<1>1. /\ Len(h) \in Nat /\ Len(t) \in Nat
      /\ \A i \in 1..Len(h) : (h \o t)[i] = h[i]
      /\ \A i \in 1..Len(t) : (h \o t)[Len(h) + i] = t[i]
  BY ConcatProperties
<1> DEFINE g == h \o t
           m == Len(h)
<1> HIDE DEF g
<1>5. /\ \A i \in 1..m : g[i] = h[i]
      /\ \A i \in 1..Len(t) : g[m + i] = t[i]
  BY <1>1 DEF g
<1>2. ASSUME NEW n \in 0..m
      PROVE  Proposed(g, n) = Proposed(h, n) /\ Answered(g, n) = Answered(h, n)
  <2>1. \A i \in 1..n : g[i] = h[i]
    BY <1>1, <1>5
  <2>2. QED
    BY <2>1 DEF Proposed, Answered
<1>3. ASSUME NEW k \in 0..Len(t)
      PROVE  /\ Proposed(g, m + k) = Proposed(h, m) \cup Proposed(t, k)
             /\ Answered(g, m + k) = Answered(h, m) \cup Answered(t, k)
  <2>1. \A i : i \in 1..m + k <=> i \in 1..m \/ (i - m \in 1..k /\ i = m + (i - m))
    BY <1>1
  <2>2. \A i \in 1..m : g[i] = h[i] /\ i \in 1..m + k
    BY <1>1, <1>5
  <2>3. \A i \in 1..k : g[m + i] = t[i] /\ m + i \in 1..m + k
    BY <1>1, <1>5
  <2>4. ASSUME NEW c
        PROVE  /\ c \in Proposed(g, m + k) <=> c \in Proposed(h, m) \cup Proposed(t, k)
               /\ c \in Answered(g, m + k) <=> c \in Answered(h, m) \cup Answered(t, k)
    <3>1. /\ c \in Proposed(g, m + k) <=>
               \E i \in 1..m + k : g[i].role = "assistant" /\ c \in ToSet(g[i].calls)
          /\ c \in Answered(g, m + k) <=>
               \E i \in 1..m + k : g[i].role = "tool" /\ c \in ToSet(g[i].calls)
      BY DEF Proposed, Answered
    <3>2. /\ c \in Proposed(h, m) <=>
               \E i \in 1..m : h[i].role = "assistant" /\ c \in ToSet(h[i].calls)
          /\ c \in Answered(h, m) <=>
               \E i \in 1..m : h[i].role = "tool" /\ c \in ToSet(h[i].calls)
      BY DEF Proposed, Answered
    <3>3. /\ c \in Proposed(t, k) <=>
               \E i \in 1..k : t[i].role = "assistant" /\ c \in ToSet(t[i].calls)
          /\ c \in Answered(t, k) <=>
               \E i \in 1..k : t[i].role = "tool" /\ c \in ToSet(t[i].calls)
      BY DEF Proposed, Answered
    <3>4. \A r : (\E i \in 1..m + k : g[i].role = r /\ c \in ToSet(g[i].calls)) <=>
                   \/ \E i \in 1..m : h[i].role = r /\ c \in ToSet(h[i].calls)
                   \/ \E i \in 1..k : t[i].role = r /\ c \in ToSet(t[i].calls)
      <4> TAKE r
      <4>1. ASSUME NEW i \in 1..m + k, g[i].role = r, c \in ToSet(g[i].calls)
            PROVE  \/ \E j \in 1..m : h[j].role = r /\ c \in ToSet(h[j].calls)
                   \/ \E j \in 1..k : t[j].role = r /\ c \in ToSet(t[j].calls)
        <5>1. CASE i \in 1..m
          BY <2>2, <4>1, <5>1
        <5>2. CASE i - m \in 1..k /\ i = m + (i - m)
          <6>1. g[i] = t[i - m]
            BY <2>3, <5>2
          <6>2. QED
            BY <4>1, <5>2, <6>1
        <5>3. QED
          BY <2>1, <5>1, <5>2
      <4>2. ASSUME NEW i \in 1..m, h[i].role = r, c \in ToSet(h[i].calls)
            PROVE  \E j \in 1..m + k : g[j].role = r /\ c \in ToSet(g[j].calls)
        BY <2>2, <4>2
      <4>3. ASSUME NEW i \in 1..k, t[i].role = r, c \in ToSet(t[i].calls)
            PROVE  \E j \in 1..m + k : g[j].role = r /\ c \in ToSet(g[j].calls)
        BY <2>3, <4>3
      <4>4. QED
        BY <4>1, <4>2, <4>3
    <3>5. QED
      BY <3>1, <3>2, <3>3, <3>4, ZenonT(60)
  <2>5. QED
    BY <2>4
<1>6. QED
  BY <1>2, <1>3 DEF g

LEMMA GrownBefore ==
  ASSUME NEW h \in Seq(MessageOf), NEW t \in Seq(MessageOf), NEW n \in 0..Len(h)
  PROVE  /\ Proposed(h \o t, n) = Proposed(h, n)
         /\ Answered(h \o t, n) = Answered(h, n)
BY Grown

LEMMA GrownAfter ==
  ASSUME NEW h \in Seq(MessageOf), NEW t \in Seq(MessageOf), NEW k \in 0..Len(t)
  PROVE  /\ Proposed(h \o t, Len(h) + k) = Proposed(h, Len(h)) \cup Proposed(t, k)
         /\ Answered(h \o t, Len(h) + k) = Answered(h, Len(h)) \cup Answered(t, k)
BY Grown

\* A valid history stays one when what follows is valid after it.
LEMMA ValidGrown ==
  ASSUME NEW h \in Seq(MessageOf), NEW t \in Seq(MessageOf), ValidHistory(h),
         \A k \in 1..Len(t) :
           LET g == h \o t
               n == Len(h) + (k - 1)
           IN  IF t[k].role = "tool"
               THEN ToSet(t[k].calls) \subseteq Open(g, n)
               ELSE /\ Open(g, n) = {}
                    /\ t[k].role = "assistant" =>
                         /\ ToSet(t[k].calls) \cap Proposed(g, n) = {}
                         /\ IsInjective(t[k].calls)
  PROVE  ValidHistory(h \o t)
<1> DEFINE g == h \o t
           m == Len(h)
           Valid(f, i) ==
             IF f[i].role = "tool"
             THEN ToSet(f[i].calls) \subseteq Open(f, i - 1)
             ELSE /\ Open(f, i - 1) = {}
                  /\ f[i].role = "assistant" =>
                       /\ ToSet(f[i].calls) \cap Proposed(f, i - 1) = {}
                       /\ IsInjective(f[i].calls)
<1>1. /\ m \in Nat /\ Len(t) \in Nat /\ DOMAIN h = 1..m /\ DOMAIN g = 1..m + Len(t)
      /\ \A i \in 1..m : g[i] = h[i]
      /\ \A i \in 1..Len(t) : g[m + i] = t[i]
  BY ConcatProperties
<1>2. ASSUME NEW i \in 1..m PROVE Valid(g, i)
  <2>1. g[i] = h[i] /\ i - 1 \in 0..m
    BY <1>1
  <2>2. Proposed(g, i - 1) = Proposed(h, i - 1) /\ Answered(g, i - 1) = Answered(h, i - 1)
    BY <2>1, Grown
  <2>3. Open(g, i - 1) = Open(h, i - 1)
    BY <2>2 DEF Open
  <2>4. Valid(h, i)
    BY <1>1 DEF ValidHistory
  <2> HIDE DEF g
  <2>5. QED
    BY <2>1, <2>2, <2>3, <2>4
<1>3. ASSUME NEW k \in 1..Len(t) PROVE Valid(g, m + k)
  <2>1. g[m + k] = t[k] /\ (m + k) - 1 = m + (k - 1)
    BY <1>1
  <2> HIDE DEF g
  <2>2. QED
    BY <2>1 DEF g
<1>4. \A i \in 1..m + Len(t) : i \in 1..m \/ (i - m \in 1..Len(t) /\ i = m + (i - m))
  BY <1>1
<1>5. \A i \in DOMAIN g : Valid(g, i)
  <2> SUFFICES ASSUME NEW i \in 1..m + Len(t) PROVE Valid(g, i)
    BY <1>1
  <2> HIDE DEF g, Valid
  <2>1. CASE i \in 1..m
    BY <1>2, <2>1
  <2>2. CASE i - m \in 1..Len(t) /\ i = m + (i - m)
    <3>1. Valid(g, m + (i - m))
      BY <1>3, <2>2
    <3>2. QED
      BY <2>2, <3>1
  <2>3. QED
    BY <1>4, <2>1, <2>2
<1>6. QED
  BY <1>5 DEF ValidHistory

\* Only proposed calls are answered.
LEMMA AnsweredWasProposed ==
  ASSUME NEW h \in Seq(MessageOf), ValidHistory(h)
  PROVE  Answered(h, Len(h)) \subseteq Proposed(h, Len(h))
<1> SUFFICES ASSUME NEW i \in 1..Len(h), h[i].role = "tool", NEW c \in ToSet(h[i].calls)
             PROVE  c \in Proposed(h, Len(h))
  BY DEF Answered
<1>1. Len(h) \in Nat /\ DOMAIN h = 1..Len(h)
  OBVIOUS
<1>2. c \in Open(h, i - 1)
  BY <1>1 DEF ValidHistory
<1>3. c \in Proposed(h, i - 1)
  BY <1>2 DEF Open
<1>4. \A j \in 1..i - 1 : j \in 1..Len(h)
  BY <1>1
<1>5. QED
  BY <1>3, <1>4 DEF Proposed

\* Input is taken when no call is open, and opens none.
LEMMA InputsFollow ==
  ASSUME NEW h \in Seq(MessageOf), NEW t \in Seq(MessageOf), ValidHistory(h),
         Open(h, Len(h)) = {}, \A i \in 1..Len(t) : t[i].role = "message"
  PROVE  /\ ValidHistory(h \o t)
         /\ Open(h \o t, Len(h \o t)) = {}
         /\ Proposed(h \o t, Len(h \o t)) = Proposed(h, Len(h))
<1>1. Len(t) \in Nat /\ Len(h) \in Nat /\ Len(h \o t) = Len(h) + Len(t)
  BY ConcatProperties
<1>2. ASSUME NEW k \in 0..Len(t)
      PROVE  /\ Proposed(h \o t, Len(h) + k) = Proposed(h, Len(h))
             /\ Answered(h \o t, Len(h) + k) = Answered(h, Len(h))
  <2>1. \A i \in 1..k : i \in 1..Len(t)
    BY <1>1
  <2>2. Proposed(t, k) = {} /\ Answered(t, k) = {}
    BY <2>1 DEF Proposed, Answered
  <2>3. /\ Proposed(h \o t, Len(h) + k) = Proposed(h, Len(h)) \cup Proposed(t, k)
        /\ Answered(h \o t, Len(h) + k) = Answered(h, Len(h)) \cup Answered(t, k)
    BY GrownAfter
  <2>4. QED
    BY <2>2, <2>3
<1>3. \A k \in 0..Len(t) : Open(h \o t, Len(h) + k) = {}
  BY <1>2 DEF Open
<1>4. \A k \in 1..Len(t) : k - 1 \in 0..Len(t)
  BY <1>1
<1>5. ValidHistory(h \o t)
  BY <1>3, <1>4, ValidGrown
<1>6. Len(t) \in 0..Len(t)
  BY <1>1
<1>7. QED
  BY <1>1, <1>2, <1>3, <1>5, <1>6

\* Answers of distinct open calls close them.
LEMMA AnswersFollow ==
  ASSUME NEW h \in Seq(MessageOf), ValidHistory(h), NEW ids \in Seq(CallIds),
         NEW error \in BOOLEAN, ToSet(ids) \subseteq Open(h, Len(h)),
         \A i, j \in 1..Len(ids) : ids[i] = ids[j] => i = j,
         NEW t \in Seq(MessageOf), Len(t) = Len(ids),
         \A i \in 1..Len(t) : t[i] = ToolResult(ids[i], error)
  PROVE  /\ ValidHistory(h \o t)
         /\ Open(h \o t, Len(h \o t)) = Open(h, Len(h)) \ ToSet(ids)
         /\ Proposed(h \o t, Len(h \o t)) = Proposed(h, Len(h))
<1>0. Len(ids) \in Nat /\ DOMAIN ids = 1..Len(ids) /\ \A i \in 1..Len(ids) : ids[i] \in CallIds
  OBVIOUS
<1>1. t \in Seq(MessageOf) /\ Len(t) = Len(ids)
  OBVIOUS
<1>2. Len(h) \in Nat /\ Len(h \o t) = Len(h) + Len(t)
  <2>1. Len(h \o t) = Len(h) + Len(t)
    BY ConcatPrefix, Zenon
  <2>2. QED
    BY <2>1
<1>3. \A i \in 1..Len(t) : t[i].role = "tool" /\ ToSet(t[i].calls) = {ids[i]}
  <2> TAKE i \in 1..Len(t)
  <2>1. t[i] = ToolResult(ids[i], error)
    BY <1>1
  <2>2. t[i].role = "tool" /\ t[i].calls = <<ids[i]>>
    BY <2>1 DEF ToolResult
  <2>3. ToSet(<<ids[i]>>) = {ids[i]}
    BY DEF ToSet
  <2>4. QED
    BY <2>2, <2>3
<1>4. ASSUME NEW k \in 0..Len(t)
      PROVE  /\ Proposed(h \o t, Len(h) + k) = Proposed(h, Len(h))
             /\ Answered(h \o t, Len(h) + k) = Answered(h, Len(h)) \cup {ids[i] : i \in 1..k}
  <2>1. \A i \in 1..k : i \in 1..Len(t)
    BY <1>0, <1>1
  <2>2. Proposed(t, k) = {}
    BY <1>3, <2>1 DEF Proposed
  <2>3. Answered(t, k) = {ids[i] : i \in 1..k}
    <3>1. ASSUME NEW c PROVE c \in Answered(t, k) <=> \E i \in 1..k : c \in ToSet(t[i].calls)
      BY <1>3, <2>1 DEF Answered
    <3>2. ASSUME NEW c PROVE c \in Answered(t, k) <=> \E i \in 1..k : c = ids[i]
      <4>1. \A i \in 1..k : ToSet(t[i].calls) = {ids[i]}
        BY <1>3, <2>1
      <4>2. \A i \in 1..k : c \in ToSet(t[i].calls) <=> c = ids[i]
        BY <4>1, Zenon
      <4>3. QED
        BY <3>1, <4>2, Zenon
    <3>3. QED
      BY <3>2
  <2>4. /\ Proposed(h \o t, Len(h) + k) = Proposed(h, Len(h)) \cup Proposed(t, k)
        /\ Answered(h \o t, Len(h) + k) = Answered(h, Len(h)) \cup Answered(t, k)
    BY GrownAfter
  <2>5. QED
    BY <2>2, <2>3, <2>4
<1>5. ASSUME NEW k \in 1..Len(t)
      PROVE  ToSet(t[k].calls) \subseteq Open(h \o t, Len(h) + (k - 1))
  <2>1. k \in 1..Len(ids) /\ k - 1 \in 0..Len(t)
    BY <1>0, <1>1
  <2>2. \A i \in 1..k - 1 : i \in 1..Len(ids) /\ i # k
    BY <1>0, <2>1
  <2>3. ids[k] \notin {ids[i] : i \in 1..k - 1}
    BY <2>1, <2>2
  <2>4. ids[k] \in Open(h, Len(h))
    BY <1>0, <2>1 DEF ToSet
  <2>5. ids[k] \in Open(h \o t, Len(h) + (k - 1))
    BY <1>4, <2>1, <2>3, <2>4 DEF Open
  <2>6. QED
    BY <1>3, <2>5
<1>6. ValidHistory(h \o t)
  BY <1>1, <1>3, <1>5, ValidGrown
<1>7. Len(t) \in 0..Len(t) /\ {ids[i] : i \in 1..Len(t)} = ToSet(ids)
  BY <1>0, <1>1 DEF ToSet
<1>8. /\ Proposed(h \o t, Len(h \o t)) = Proposed(h, Len(h))
      /\ Answered(h \o t, Len(h \o t)) = Answered(h, Len(h)) \cup ToSet(ids)
  <2>1. Len(t) \in 0..Len(t)
    BY <1>7
  <2>2. /\ Proposed(h \o t, Len(h) + Len(t)) = Proposed(h, Len(h))
        /\ Answered(h \o t, Len(h) + Len(t)) = Answered(h, Len(h)) \cup {ids[i] : i \in 1..Len(t)}
    BY <1>4, <2>1, Zenon
  <2>3. QED
    BY <1>2, <1>7, <2>2, Zenon
<1>9. Open(h \o t, Len(h \o t)) = Open(h, Len(h)) \ ToSet(ids)
  BY <1>8 DEF Open
<1>10. QED
  BY <1>1, <1>6, <1>8, <1>9

\* A valid reply comes when no call is open, and opens the calls it proposes,
\* which are new.
LEMMA ReplyFollows ==
  ASSUME NEW h \in Seq(MessageOf), ValidHistory(h), NEW ids \in Seq(CallIds),
         ValidHistory(Append(h, Assistant(ids)))
  PROVE  LET g == Append(h, Assistant(ids)) IN
         /\ g \in Seq(MessageOf) /\ Len(g) = Len(h) + 1
         /\ Open(h, Len(h)) = {}
         /\ ToSet(ids) \cap Proposed(h, Len(h)) = {}
         /\ \A i, j \in 1..Len(ids) : ids[i] = ids[j] => i = j
         /\ Open(g, Len(g)) = ToSet(ids)
         /\ Proposed(g, Len(g)) = Proposed(h, Len(h)) \cup ToSet(ids)
<1> DEFINE a == Assistant(ids)
           t == <<a>>
           g == Append(h, a)
           m == Len(h)
<1>1. a \in MessageOf /\ a.role = "assistant" /\ a.calls = ids
  BY MessageTypes DEF Assistant
<1> HIDE DEF a
<1>2. t \in Seq(MessageOf) /\ Len(t) = 1 /\ t[1] = a
  BY <1>1
<1>3. /\ g \in Seq(MessageOf) /\ Len(g) = m + 1 /\ m \in Nat
      /\ \A i \in 1..m : g[i] = h[i]
      /\ g[m + 1] = a
  BY <1>1, AppendProperties
<1>4. g = h \o t
  BY <1>1, AppendIsConcat
<1> HIDE DEF g, t
<1>5. /\ Open(g, m) = {}
      /\ ToSet(ids) \cap Proposed(g, m) = {}
      /\ IsInjective(ids)
  <2>1. m + 1 \in DOMAIN g /\ (m + 1) - 1 = m
    BY <1>3
  <2>2. g[m + 1].role = "assistant" /\ g[m + 1].calls = ids /\ g[m + 1].role # "tool"
    BY <1>1, <1>3
  <2>3. ValidHistory(g)
    BY DEF g, a
  <2>4. /\ Open(g, (m + 1) - 1) = {}
        /\ ToSet(g[m + 1].calls) \cap Proposed(g, (m + 1) - 1) = {}
        /\ IsInjective(g[m + 1].calls)
    BY <2>1, <2>2, <2>3, Zenon DEF ValidHistory
  <2>5. QED
    BY <2>1, <2>2, <2>4
<1>6. Proposed(g, m) = Proposed(h, m) /\ Answered(g, m) = Answered(h, m)
  <2>1. m \in 0..m
    BY <1>3
  <2>2. QED
    BY <1>2, <1>4, <2>1, GrownBefore
<1>7. Open(h, m) = {} /\ ToSet(ids) \cap Proposed(h, m) = {}
  BY <1>5, <1>6 DEF Open
<1>8. \A i, j \in 1..Len(ids) : ids[i] = ids[j] => i = j
  BY <1>5 DEF IsInjective
<1>9. Proposed(t, 1) = ToSet(ids) /\ Answered(t, 1) = {}
  BY <1>1, <1>2 DEF Proposed, Answered, t
<1>10. /\ Proposed(g, m + 1) = Proposed(h, m) \cup ToSet(ids)
       /\ Answered(g, m + 1) = Answered(h, m)
  <2>1. /\ Proposed(h \o t, m + 1) = Proposed(h, m) \cup Proposed(t, 1)
        /\ Answered(h \o t, m + 1) = Answered(h, m) \cup Answered(t, 1)
    <3>1. 1 \in 0..Len(t)
      BY <1>2
    <3>2. ASSUME NEW k \in 0..Len(t)
          PROVE  /\ Proposed(h \o t, m + k) = Proposed(h, m) \cup Proposed(t, k)
                 /\ Answered(h \o t, m + k) = Answered(h, m) \cup Answered(t, k)
      BY <1>2, GrownAfter, ZenonT(60)
    <3>3. QED
      BY <3>1, <3>2
  <2>2. QED
    BY <1>4, <1>9, <2>1
<1>11. Answered(h, m) \subseteq Proposed(h, m)
  BY AnsweredWasProposed
<1>12. Open(g, m + 1) = ToSet(ids)
  BY <1>7, <1>10, <1>11 DEF Open
<1>13. QED
  BY <1>3, <1>7, <1>8, <1>10, <1>12 DEF g, a

-----------------------------------------------------------------------------
\* The calls that wait.

LEMMA PendingFacts ==
  ASSUME TypeOK, Ordered
  PROVE  /\ ToSet(Pending) = {c \in CallIds : calls[c] = "PENDING"}
         /\ Pending \in Seq(CallIds)
         /\ \A i, j \in 1..Len(Pending) : Pending[i] = Pending[j] => i = j
         /\ Pending # <<>> =>
              \E f \in 1..Len(order) :
                /\ Head(Pending) = order[f]
                /\ \A i \in 1..Len(order) : calls[order[i]] = "PENDING" <=> f <= i
<1> DEFINE n == Len(order)
           f == FirstPending
           First(k) ==
             /\ \A i \in 1..k - 1 : calls[order[i]] # "PENDING"
             /\ k <= Len(order) => calls[order[k]] = "PENDING"
           T == {k \in 1..n + 1 : k <= n => calls[order[k]] = "PENDING"}
<1>1. n \in Nat /\ DOMAIN order = 1..n /\ \A i \in 1..n : order[i] \in CallIds
  BY DEF TypeOK
<1>2. \E k \in 1..n + 1 : First(k)
  <2>1. T \in SUBSET Nat /\ n + 1 \in T
    BY <1>1
  <2>2. PICK x \in T : \A y \in T : x <= y
    BY <2>1, LeastNatural
  <2>3. \A i \in 1..x - 1 : calls[order[i]] # "PENDING"
    BY <1>1, <2>1, <2>2
  <2>4. QED
    BY <2>2, <2>3
<1>3. f \in 1..n + 1 /\ First(f)
  BY <1>2 DEF FirstPending
<1> HIDE DEF f
<1>4. \A i \in 1..n : calls[order[i]] = "PENDING" <=> f <= i
  <2> TAKE i \in 1..n
  <2>1. CASE i < f
    <3>1. i \in 1..f - 1
      BY <1>1, <1>3, <2>1
    <3>2. QED
      BY <1>1, <1>3, <2>1, <3>1
  <2>2. CASE i = f
    BY <1>1, <1>3, <2>2
  <2>3. CASE f < i
    <3>1. f \in 1..n /\ calls[order[f]] = "PENDING"
      BY <1>1, <1>3, <2>3
    <3>2. QED
      BY <1>1, <2>3, <3>1 DEF Ordered
  <2>4. QED
    BY <1>1, <1>3, <2>1, <2>2, <2>3
<1>5. /\ Pending \in Seq(CallIds)
      /\ Len(Pending) = n + 1 - f
      /\ \A i \in 1..n + 1 - f : Pending[i] = order[f + (i - 1)]
  <2>1. \A i \in f..n : order[i] \in CallIds
    BY <1>1, <1>3
  <2>2. /\ SubSeq(order, f, n) \in Seq(CallIds)
        /\ Len(SubSeq(order, f, n)) = IF f <= n THEN n - f + 1 ELSE 0
        /\ \A i \in 1..n - f + 1 : SubSeq(order, f, n)[i] = order[f + i - 1]
    BY <1>1, <1>3, <2>1, SubSeqProperties
  <2>3. Len(SubSeq(order, f, n)) = n + 1 - f
    BY <1>1, <1>3, <2>2
  <2>4. \A i \in 1..n + 1 - f : SubSeq(order, f, n)[i] = order[f + (i - 1)]
    BY <1>1, <1>3, <2>2
  <2>5. QED
    BY <2>2, <2>3, <2>4 DEF Pending, f
<1>6. \A i \in 1..n + 1 - f : f + (i - 1) \in 1..n /\ f <= f + (i - 1)
  BY <1>1, <1>3
<1>7. ASSUME NEW i \in 1..Len(Pending), NEW j \in 1..Len(Pending), Pending[i] = Pending[j]
      PROVE  i = j
  <2>1. order[f + (i - 1)] = order[f + (j - 1)]
    BY <1>5, <1>7
  <2>2. i \in 1..n + 1 - f /\ j \in 1..n + 1 - f
    BY <1>5
  <2>3. f + (i - 1) \in 1..n /\ f + (j - 1) \in 1..n
    BY <1>6, <2>2
  <2>4. f + (i - 1) = f + (j - 1)
    BY <2>1, <2>3 DEF Ordered
  <2>5. QED
    BY <1>3, <2>2, <2>4
<1>8. ToSet(Pending) \subseteq {c \in CallIds : calls[c] = "PENDING"}
  <2>1. \A i \in 1..n + 1 - f : Pending[i] \in CallIds /\ calls[Pending[i]] = "PENDING"
    BY <1>1, <1>4, <1>5, <1>6
  <2>2. DOMAIN Pending = 1..n + 1 - f
    BY <1>5
  <2>3. QED
    BY <2>1, <2>2 DEF ToSet
<1>9. ASSUME NEW c \in CallIds, calls[c] = "PENDING" PROVE c \in ToSet(Pending)
  <2>1. PICK j \in 1..n : c = order[j]
    BY <1>1, <1>9 DEF Ordered, ToSet
  <2>2. f <= j
    BY <1>4, <1>9, <2>1
  <2>3. j - f + 1 \in 1..n + 1 - f /\ f + ((j - f + 1) - 1) = j
    BY <1>1, <1>3, <2>2
  <2>4. DOMAIN Pending = 1..n + 1 - f /\ Pending[j - f + 1] = c
    BY <1>5, <2>1, <2>3
  <2>5. QED
    BY <2>3, <2>4 DEF ToSet
<1>10. ASSUME Pending # <<>> PROVE f \in 1..n /\ Head(Pending) = order[f]
  <2>1. Len(Pending) # 0
    BY <1>5, <1>10, EmptySeq
  <2>2. f \in 1..n /\ 1 \in 1..n + 1 - f
    BY <1>1, <1>3, <1>5, <2>1
  <2>3. f + (1 - 1) = f
    BY <1>3
  <2>4. Head(Pending) = Pending[1] /\ Pending[1] = order[f]
    BY <1>5, <2>2, <2>3
  <2>5. QED
    BY <2>2, <2>4
<1>11. QED
  BY <1>4, <1>5, <1>7, <1>8, <1>9, <1>10

-----------------------------------------------------------------------------
\* What steps do to records and messages.

\* The calls that history and records leave open.
Unsettled == {c \in CallIds : calls[c] \in {"PENDING", "RUNNING", "UNKNOWN"}}

LEMMA SameRecord ==
  ASSUME Paired, Ordered, UNCHANGED <<messages, calls, order>>
  PROVE  Paired' /\ Ordered'
BY DEF Paired, Ordered

LEMMA SameIntake ==
  ASSUME InputsKeptInOrder, UNCHANGED <<messages, queued, accepted>>
  PROVE  InputsKeptInOrder'
BY DEF InputsKeptInOrder, Delivered

\* A call in execution that is given up stays open.
LEMMA MarkedUnknown ==
  ASSUME TypeOK, Paired, Ordered, calls' = MarkUnknown, UNCHANGED <<messages, order>>
  PROVE  Paired' /\ Ordered'
<1>1. \A c \in CallIds :
        /\ calls'[c] \in {"PENDING", "RUNNING", "UNKNOWN"} <=>
             calls[c] \in {"PENDING", "RUNNING", "UNKNOWN"}
        /\ calls'[c] = "PENDING" <=> calls[c] = "PENDING"
        /\ calls'[c] = "absent" <=> calls[c] = "absent"
  BY DEF MarkUnknown
<1>2. Paired'
  BY <1>1 DEF Paired
<1>3. Ordered'
  <2>1. \A i \in 1..Len(order) : order[i] \in CallIds
    BY DEF TypeOK
  <2>2. QED
    BY <1>1, <2>1 DEF Ordered
<1>4. QED
  BY <1>2, <1>3

\* The first call that waits is started.
LEMMA Started ==
  ASSUME TypeOK, Paired, Ordered, Pending # <<>>,
         calls' = [calls EXCEPT ![Head(Pending)] = "RUNNING"], UNCHANGED <<messages, order>>
  PROVE  Paired' /\ Ordered'
<1>1. PICK f \in 1..Len(order) :
        /\ Head(Pending) = order[f]
        /\ \A i \in 1..Len(order) : calls[order[i]] = "PENDING" <=> f <= i
  BY PendingFacts
<1>2. /\ \A i \in 1..Len(order) : order[i] \in CallIds
      /\ Len(order) \in Nat
      /\ calls \in [CallIds -> CallStatus \cup {"absent"}]
  BY DEF TypeOK
<1>3. calls[order[f]] = "PENDING" /\ order[f] \in CallIds
  BY <1>1, <1>2
<1>4. \A c \in CallIds : calls'[c] = IF c = order[f] THEN "RUNNING" ELSE calls[c]
  BY <1>1, <1>2, <1>3
<1>5. \A c \in CallIds :
        /\ calls'[c] \in {"PENDING", "RUNNING", "UNKNOWN"} <=>
             calls[c] \in {"PENDING", "RUNNING", "UNKNOWN"}
        /\ calls'[c] = "absent" <=> calls[c] = "absent"
  BY <1>3, <1>4
<1>6. Paired'
  BY <1>5 DEF Paired
<1>7. \A i, j \in 1..Len(order) :
        i < j /\ calls'[order[i]] = "PENDING" => calls'[order[j]] = "PENDING"
  <2> TAKE i, j \in 1..Len(order)
  <2> SUFFICES ASSUME i < j, calls'[order[i]] = "PENDING" PROVE calls'[order[j]] = "PENDING"
    OBVIOUS
  <2>1. order[i] # order[f] /\ calls[order[i]] = "PENDING"
    BY <1>2, <1>4
  <2>2. f <= i
    BY <1>1, <2>1
  <2>3. f <= j /\ j # f
    BY <1>2, <2>2
  <2>4. calls[order[j]] = "PENDING" /\ order[j] # order[f]
    BY <1>1, <2>3 DEF Ordered
  <2>5. QED
    BY <1>2, <1>4, <2>4
<1>8. Ordered'
  BY <1>5, <1>7 DEF Ordered
<1>9. QED
  BY <1>6, <1>8

\* Some open calls are answered, none that waits behind one that still does.
LEMMA Settled ==
  ASSUME TypeOK, Paired, Ordered, NEW ids \in Seq(CallIds), NEW error \in BOOLEAN,
         RecordOutput(ids, error), order' = order,
         ToSet(ids) \subseteq Unsettled,
         \A i, j \in 1..Len(ids) : ids[i] = ids[j] => i = j,
         \A i, j \in 1..Len(order) :
           i < j /\ calls[order[i]] = "PENDING" /\ order[i] \notin ToSet(ids)
             => order[j] \notin ToSet(ids)
  PROVE  Paired' /\ Ordered'
<1> DEFINE t == [i \in 1..Len(ids) |-> ToolResult(ids[i], error)]
<1>1. /\ t \in Seq(MessageOf) /\ Len(t) = Len(ids)
      /\ \A i \in 1..Len(t) : t[i] = ToolResult(ids[i], error)
  BY MessageTypes, IsASeq
<1>2. messages' = messages \o t /\ messages \in Seq(MessageOf)
  BY DEF RecordOutput, TypeOK
<1> HIDE DEF t
<1>3. Open(messages, Len(messages)) = Unsettled /\ ValidHistory(messages)
  BY DEF Paired, Unsettled
<1>4. /\ ValidHistory(messages')
      /\ Open(messages', Len(messages')) = Unsettled \ ToSet(ids)
      /\ Proposed(messages', Len(messages')) = Proposed(messages, Len(messages))
  BY <1>1, <1>2, <1>3, AnswersFollow, SMTT(30)
<1>5. \A c \in CallIds : calls'[c] = IF c \in ToSet(ids)
                                     THEN IF error THEN "FAILED" ELSE "SUCCEEDED"
                                     ELSE calls[c]
  BY DEF RecordOutput
<1>6. Unsettled \ ToSet(ids) = {c \in CallIds : calls'[c] \in {"PENDING", "RUNNING", "UNKNOWN"}}
  BY <1>5 DEF Unsettled
<1>7. Paired'
  BY <1>4, <1>6 DEF Paired
<1>8. \A c \in CallIds : calls'[c] = "absent" <=> calls[c] = "absent"
  BY <1>5 DEF Unsettled
<1>9. \A i \in 1..Len(order) : order[i] \in CallIds
  BY DEF TypeOK
<1>10. \A i, j \in 1..Len(order) :
         i < j /\ calls'[order[i]] = "PENDING" => calls'[order[j]] = "PENDING"
  <2> TAKE i, j \in 1..Len(order)
  <2> SUFFICES ASSUME i < j, calls'[order[i]] = "PENDING" PROVE calls'[order[j]] = "PENDING"
    OBVIOUS
  <2>1. order[i] \notin ToSet(ids) /\ calls[order[i]] = "PENDING"
    BY <1>5, <1>9
  <2>2. order[j] \notin ToSet(ids) /\ calls[order[j]] = "PENDING"
    BY <2>1 DEF Ordered
  <2>3. QED
    BY <1>5, <1>9, <2>2
<1>11. Ordered'
  BY <1>8, <1>10 DEF Ordered
<1>12. QED
  BY <1>7, <1>11

\* What is no input does not disturb the inputs.
LEMMA InputsApart ==
  ASSUME TypeOK, InputsKeptInOrder, NEW t \in Seq(MessageOf), messages' = messages \o t,
         \A i \in 1..Len(t) : t[i].role # "message", UNCHANGED <<queued, accepted>>
  PROVE  InputsKeptInOrder'
<1>1. messages \in Seq(MessageOf) /\ Len(messages) \in Nat /\ DOMAIN messages = 1..Len(messages)
  BY DEF TypeOK
<1>2. /\ messages' \in Seq(MessageOf) /\ Len(messages') = Len(messages) + Len(t)
      /\ DOMAIN messages' = 1..Len(messages) + Len(t) /\ Len(t) \in Nat
      /\ \A i \in 1..Len(messages) : messages'[i] = messages[i]
      /\ \A i \in 1..Len(t) : messages'[Len(messages) + i] = t[i]
  BY <1>1, ConcatProperties
<1>3. \A i \in DOMAIN messages' : IsInput(messages'[i]) => i \in DOMAIN messages
  <2> SUFFICES ASSUME NEW i \in DOMAIN messages', i \notin DOMAIN messages
               PROVE  ~IsInput(messages'[i])
    OBVIOUS
  <2>1. i - Len(messages) \in 1..Len(t) /\ i = Len(messages) + (i - Len(messages))
    BY <1>1, <1>2
  <2>2. messages'[i] = t[i - Len(messages)]
    BY <1>2, <2>1
  <2>3. QED
    BY <2>1, <2>2 DEF IsInput
<1>4. \A i \in DOMAIN messages : i \in DOMAIN messages' /\ messages'[i] = messages[i]
  BY <1>1, <1>2
<1>5. Delivered' = Delivered
  BY DEF Delivered
<1>6. QED
  BY <1>3, <1>4, <1>5 DEF InputsKeptInOrder

\* Answers leave the whole history in order.
LEMMA AnswersKeep ==
  ASSUME TypeOK, Told, NEW ids \in Seq(CallIds), NEW error \in BOOLEAN,
         RecordOutput(ids, error), UNCHANGED <<order, queued, accepted>>,
         ToSet(ids) \subseteq Unsettled,
         \A i, j \in 1..Len(ids) : ids[i] = ids[j] => i = j,
         \A i, j \in 1..Len(order) :
           i < j /\ calls[order[i]] = "PENDING" /\ order[i] \notin ToSet(ids)
             => order[j] \notin ToSet(ids)
  PROVE  Paired' /\ Ordered' /\ InputsKeptInOrder'
<1> DEFINE t == [i \in 1..Len(ids) |-> ToolResult(ids[i], error)]
<1>1. /\ t \in Seq(MessageOf) /\ messages' = messages \o t
      /\ \A i \in 1..Len(t) : t[i] = ToolResult(ids[i], error)
  BY MessageTypes, IsASeq DEF RecordOutput
<1> HIDE DEF t
<1>2. \A i \in 1..Len(t) : t[i].role # "message"
  <2> TAKE i \in 1..Len(t)
  <2>1. t[i] = ToolResult(ids[i], error)
    BY <1>1
  <2>2. QED
    BY <2>1 DEF ToolResult
<1>3. InputsKeptInOrder'
  BY <1>1, <1>2, InputsApart DEF Told
<1>4. Paired' /\ Ordered'
  BY Settled DEF Told
<1>5. QED
  BY <1>3, <1>4

-----------------------------------------------------------------------------
\* Each action.

LEMMA AppendMessageTold == HInv /\ AppendMessage => Told'
<1> SUFFICES ASSUME HInv, AppendMessage PROVE Told'
  OBVIOUS
<1>1. /\ ~Terminal /\ accepted' = accepted + 1 /\ queued' = Append(queued, Input(accepted + 1))
      /\ status' = status /\ pc' = pc /\ batch' = batch
      /\ UNCHANGED <<messages, calls, order>>
  BY DEF AppendMessage, ending, record, local
<1>2. queued \in Seq(MessageOf) /\ Len(queued) \in Nat /\ DOMAIN queued = 1..Len(queued) /\ accepted \in Nat
      /\ Input(accepted + 1) \in MessageOf
  BY MessageTypes, RunAssumption DEF HInv, IInv, TypeOK
<1>3. /\ Len(queued') = Len(queued) + 1 /\ DOMAIN queued' = 1..Len(queued) + 1
      /\ \A i \in 1..Len(queued) : queued'[i] = queued[i]
      /\ queued'[Len(queued) + 1] = Input(accepted + 1)
  BY <1>1, <1>2, AppendProperties
<1>4. Paired' /\ Ordered'
  BY <1>1, SameRecord DEF HInv, Told
<1>5. Delivered' = Delivered /\ Delivered \in Nat /\ Delivered + (Len(queued) + 1) = accepted + 1
  BY <1>1, <1>2, <1>3 DEF Delivered, HInv, Told, InputsKeptInOrder
<1>6. InputsKeptInOrder'
  <2>1. \A i \in 1..Len(queued) + 1 : queued'[i] = Input(Delivered + i)
    <3> TAKE i \in 1..Len(queued) + 1
    <3>1. CASE i \in 1..Len(queued)
      BY <1>2, <1>3, <3>1 DEF HInv, Told, InputsKeptInOrder
    <3>2. CASE i = Len(queued) + 1
      BY <1>3, <1>5, <3>2
    <3>3. QED
      BY <1>2, <3>1, <3>2
  <2>2. Len(queued') <= accepted'
    BY <1>1, <1>2, <1>3 DEF HInv, Told, InputsKeptInOrder
  <2>3. QED
    BY <1>1, <1>3, <1>5, <2>1, <2>2 DEF HInv, Told, InputsKeptInOrder
<1>7. Assembling'
  <2>1. ASSUME pc = "assembling"
        PROVE  /\ Len(batch) <= Len(queued')
               /\ \A i \in 1..Len(batch) : batch[i] = queued'[i]
    <3>1. Len(batch) \in Nat /\ Len(batch) <= Len(queued)
          /\ \A i \in 1..Len(batch) : batch[i] = queued[i]
      BY <2>1 DEF HInv, IInv, TypeOK, Told, Assembling
    <3>2. QED
      BY <1>2, <1>3, <3>1
  <2>2. QED
    BY <1>1, <2>1 DEF HInv, Told, Assembling
<1>8. CompletedMeansAnswered'
  BY <1>1 DEF CompletedMeansAnswered, Terminal, TerminalStatus
<1>9. QED
  BY <1>4, <1>6, <1>7, <1>8 DEF Told

\* A step that touches neither records nor inputs keeps what was told.
LEMMA QuietTold ==
  ASSUME HInv, UNCHANGED <<messages, calls, order, queued, accepted>>,
         Assembling', CompletedMeansAnswered'
  PROVE  Told'
<1>1. Paired' /\ Ordered'
  BY SameRecord DEF HInv, Told
<1>2. InputsKeptInOrder'
  BY SameIntake DEF HInv, Told
<1>3. QED
  BY <1>1, <1>2 DEF Told

LEMMA CancelTold == HInv /\ Cancel => Told'
<1> SUFFICES ASSUME HInv, Cancel PROVE Told'
  OBVIOUS
<1>1. /\ UNCHANGED <<messages, calls, order, queued, accepted>> /\ pc' = pc /\ batch' = batch
      /\ status # "COMPLETED" /\ status' \in {status, "CANCELLED"}
  BY DEF Cancel, Finish, Terminal, TerminalStatus, record, intake, local, ending
<1>2. Assembling' /\ CompletedMeansAnswered'
  BY <1>1 DEF Assembling, CompletedMeansAnswered, HInv, Told
<1>3. QED
  BY <1>1, <1>2, QuietTold

LEMMA DriveTold == ASSUME NEW mode \in BOOLEAN PROVE HInv /\ Drive(mode) => Told'
<1> SUFFICES ASSUME HInv, Drive(mode) PROVE Told'
  OBVIOUS
<1>1. UNCHANGED <<messages, calls, order, queued, accepted>>
  BY DEF Drive, record, intake
<1>2. Assembling' /\ CompletedMeansAnswered'
  BY DEF Drive, Assembling, CompletedMeansAnswered
<1>3. QED
  BY <1>1, <1>2, QuietTold

LEMMA AdvanceReturnsTold == HInv /\ AdvanceReturns => Told'
<1> SUFFICES ASSUME HInv, AdvanceReturns PROVE Told'
  OBVIOUS
<1>1. /\ UNCHANGED <<messages, calls, order, queued, accepted, cancelRequested>>
      /\ pc' \in {"idle", "advance"} /\ status' \in {status, "CANCELLED"}
  BY DEF AdvanceReturns, Finish, record, intake, ending
<1>2. Assembling' /\ CompletedMeansAnswered'
  BY <1>1 DEF Assembling, CompletedMeansAnswered, HInv, Told
<1>3. QED
  BY <1>1, <1>2, QuietTold

LEMMA LimitReachedTold == HInv /\ LimitReached => Told'
<1> SUFFICES ASSUME HInv, LimitReached PROVE Told'
  OBVIOUS
<1>1. UNCHANGED <<messages, calls, order, queued, accepted>>
  BY DEF LimitReached, record, intake
<1>2. Assembling' /\ CompletedMeansAnswered'
  BY DEF LimitReached, Finish, Assembling, CompletedMeansAnswered
<1>3. QED
  BY <1>1, <1>2, QuietTold

\* The driver works on a run that has not completed.
LEMMA DriverRuns ==
  ASSUME HInv, pc \notin {"idle", "returned"}
  PROVE  status = "RUNNING"
BY DEF HInv, IInv, ControlPoints

LEMMA BeginModelStepTold == HInv /\ BeginModelStep => Told'
<1> SUFFICES ASSUME HInv, BeginModelStep PROVE Told'
  OBVIOUS
<1>1. /\ UNCHANGED <<messages, calls, order, queued, accepted, status>>
      /\ pc = "advance" /\ Pending = <<>> /\ batch' = queued
  BY DEF BeginModelStep, record, intake, ending
<1>2. \A c \in CallIds : calls[c] # "PENDING"
  <2>1. ToSet(Pending) = {c \in CallIds : calls[c] = "PENDING"}
    BY PendingFacts DEF HInv, IInv, Told
  <2>2. ToSet(<<>>) = {}
    BY DEF ToSet
  <2>3. QED
    BY <1>1, <2>1, <2>2
<1>3. Len(queued) \in Nat
  BY DEF HInv, IInv, TypeOK
<1>4. Assembling'
  BY <1>1, <1>2, <1>3 DEF Assembling
<1>5. CompletedMeansAnswered'
  BY <1>1, DriverRuns DEF CompletedMeansAnswered
<1>6. QED
  BY <1>1, <1>4, <1>5, QuietTold

\* The first call that waits, or all of them, may be answered.
LEMMA HeadAnswered ==
  ASSUME HInv, Pending # <<>>, RecordOutput(<<Head(Pending)>>, TRUE),
         UNCHANGED <<order, queued, accepted>>
  PROVE  Paired' /\ Ordered' /\ InputsKeptInOrder'
<1> DEFINE ids == <<Head(Pending)>>
<1>0. TypeOK /\ Told /\ Ordered
  BY DEF HInv, IInv, Told
<1>1. PICK f \in 1..Len(order) :
        /\ Head(Pending) = order[f]
        /\ \A i \in 1..Len(order) : calls[order[i]] = "PENDING" <=> f <= i
  BY <1>0, PendingFacts
<1>2. order[f] \in CallIds /\ Len(order) \in Nat
  BY <1>0 DEF TypeOK
<1>3. calls[order[f]] = "PENDING"
  BY <1>1, <1>2
<1>4. ids \in Seq(CallIds) /\ Len(ids) = 1 /\ ToSet(ids) = {order[f]}
  BY <1>1, <1>2 DEF ToSet
<1>5. ToSet(ids) \subseteq Unsettled
  BY <1>2, <1>3, <1>4 DEF Unsettled
<1>6. \A i, j \in 1..Len(ids) : ids[i] = ids[j] => i = j
  BY <1>4
<1>7. \A i, j \in 1..Len(order) :
        i < j /\ calls[order[i]] = "PENDING" /\ order[i] \notin ToSet(ids)
          => order[j] \notin ToSet(ids)
  <2> SUFFICES ASSUME NEW i \in 1..Len(order), NEW j \in 1..Len(order), i < j,
                      calls[order[i]] = "PENDING"
               PROVE  order[j] # order[f]
    BY <1>4
  <2>1. f <= i
    BY <1>1
  <2>2. j # f
    BY <1>2, <2>1
  <2>3. QED
    BY <1>0, <2>2 DEF Ordered
<1> HIDE DEF ids
<1>8. RecordOutput(ids, TRUE)
  BY DEF ids
<1>9. QED
  BY <1>0, <1>4, <1>5, <1>6, <1>7, <1>8, AnswersKeep

LEMMA AllAnswered ==
  ASSUME HInv, RecordOutput(Pending, TRUE), UNCHANGED <<order, queued, accepted>>
  PROVE  Paired' /\ Ordered' /\ InputsKeptInOrder'
<1>0. TypeOK /\ Told /\ Ordered
  BY DEF HInv, IInv, Told
<1>1. /\ ToSet(Pending) = {c \in CallIds : calls[c] = "PENDING"}
      /\ Pending \in Seq(CallIds)
      /\ \A i, j \in 1..Len(Pending) : Pending[i] = Pending[j] => i = j
  BY <1>0, PendingFacts
<1>2. ToSet(Pending) \subseteq Unsettled
  BY <1>1 DEF Unsettled
<1>3. \A i \in 1..Len(order) : order[i] \in CallIds
  BY <1>0 DEF TypeOK
<1>4. \A i \in 1..Len(order) : calls[order[i]] = "PENDING" => order[i] \in ToSet(Pending)
  BY <1>1, <1>3
<1>5. QED
  BY <1>0, <1>1, <1>2, <1>4, AnswersKeep

LEMMA BeginToolStepTold == HInv /\ BeginToolStep => Told'
<1> SUFFICES ASSUME HInv, BeginToolStep PROVE Told'
  OBVIOUS
<1>1. /\ UNCHANGED <<order, queued, accepted, status>> /\ Pending # <<>> /\ pc = "advance"
  BY DEF BeginToolStep, intake, ending
<1>2. CompletedMeansAnswered'
  BY <1>1, DriverRuns DEF CompletedMeansAnswered
<1>3. Assembling'
  BY DEF BeginToolStep, StartTool, Assembling
<1>4. CASE RecordOutput(<<Head(Pending)>>, TRUE)
  BY <1>1, <1>2, <1>3, <1>4, HeadAnswered DEF Told
<1>5. CASE UNCHANGED <<messages, calls>>
  BY <1>1, <1>2, <1>3, <1>5, QuietTold
<1>6. CASE StartTool(Head(Pending))
  <2>1. Paired' /\ Ordered'
    BY <1>1, <1>6, Started DEF StartTool, HInv, IInv, Told
  <2>2. InputsKeptInOrder'
    BY <1>1, <1>6, SameIntake DEF StartTool, HInv, Told
  <2>3. QED
    BY <1>2, <1>3, <2>1, <2>2 DEF Told
<1>7. QED
  BY <1>4, <1>5, <1>6 DEF BeginToolStep

LEMMA PolicyDecidesTold ==
  ASSUME NEW action \in {"ALLOW", "DENY", "RECONSIDER"}
  PROVE  HInv /\ PolicyDecides(action) => Told'
<1> SUFFICES ASSUME HInv, PolicyDecides(action) PROVE Told'
  OBVIOUS
<1>1. /\ UNCHANGED <<order, queued, accepted, status>> /\ pc = "policing"
  BY DEF PolicyDecides, intake, ending
<1>2. Pending # <<>>
  BY <1>1 DEF HInv, IInv, ControlPoints
<1>3. CompletedMeansAnswered'
  BY <1>1, DriverRuns DEF CompletedMeansAnswered
<1>4. Assembling'
  BY DEF PolicyDecides, StartTool, Assembling
<1>5. CASE RecordOutput(Refused(action), TRUE)
  <2>1. CASE action = "RECONSIDER"
    BY <1>1, <1>3, <1>4, <1>5, <2>1, AllAnswered DEF Told, Refused
  <2>2. CASE action # "RECONSIDER"
    BY <1>1, <1>2, <1>3, <1>4, <1>5, <2>2, HeadAnswered DEF Told, Refused
  <2>3. QED
    BY <2>1, <2>2
<1>6. CASE UNCHANGED <<messages, calls>>
  BY <1>1, <1>3, <1>4, <1>6, QuietTold
<1>7. CASE StartTool(Head(Pending))
  <2>1. Paired' /\ Ordered'
    BY <1>1, <1>2, <1>7, Started DEF StartTool, HInv, IInv, Told
  <2>2. InputsKeptInOrder'
    BY <1>1, <1>7, SameIntake DEF StartTool, HInv, Told
  <2>3. QED
    BY <1>3, <1>4, <2>1, <2>2 DEF Told
<1>8. QED
  BY <1>5, <1>6, <1>7 DEF PolicyDecides

LEMMA ToolReturnsTold ==
  ASSUME NEW error \in BOOLEAN PROVE HInv /\ ToolReturns(error) => Told'
<1> SUFFICES ASSUME HInv, ToolReturns(error) PROVE Told'
  OBVIOUS
<1>1. PICK c \in Running : RecordOutput(<<c>>, error)
  BY DEF ToolReturns
<1>2. /\ UNCHANGED <<order, queued, accepted, status>> /\ pc = "executing" /\ pc' = "returned"
  BY DEF ToolReturns, intake, ending
<1>3. CompletedMeansAnswered' /\ Assembling'
  BY <1>2, DriverRuns DEF CompletedMeansAnswered, Assembling
<1>4. TypeOK /\ Told /\ Ordered
  BY DEF HInv, IInv, Told
<1>5. c \in CallIds /\ calls[c] = "RUNNING"
  BY DEF Running
<1> DEFINE ids == <<c>>
<1>6. ids \in Seq(CallIds) /\ ToSet(ids) = {c} /\ Len(ids) = 1
  BY <1>5 DEF ToSet
<1>7. ToSet(ids) \subseteq Unsettled /\ \A i, j \in 1..Len(ids) : ids[i] = ids[j] => i = j
  BY <1>5, <1>6 DEF Unsettled
<1>8. \A i, j \in 1..Len(order) :
        i < j /\ calls[order[i]] = "PENDING" /\ order[i] \notin ToSet(ids)
          => order[j] \notin ToSet(ids)
  BY <1>4, <1>5, <1>6 DEF Ordered
<1> HIDE DEF ids
<1>9. RecordOutput(ids, error)
  BY <1>1 DEF ids
<1>10. Paired' /\ Ordered' /\ InputsKeptInOrder'
  BY <1>2, <1>4, <1>6, <1>7, <1>8, <1>9, AnswersKeep
<1>11. QED
  BY <1>3, <1>10 DEF Told

LEMMA InterruptionsTold ==
  HInv /\ (ToolEffectUnknown \/ AwaitRaises \/ DriverCancelled) => Told'
<1> SUFFICES ASSUME HInv, ToolEffectUnknown \/ AwaitRaises \/ DriverCancelled PROVE Told'
  OBVIOUS
<1>1. /\ UNCHANGED <<messages, order, queued, accepted>> /\ calls' = MarkUnknown
      /\ status' \in {"FAILED", "CANCELLED"} /\ pc' \in {"idle", "returned"}
  BY DEF ToolEffectUnknown, AwaitRaises, DriverCancelled, Finish, intake
<1>2. Paired' /\ Ordered'
  BY <1>1, MarkedUnknown DEF HInv, IInv, Told
<1>3. InputsKeptInOrder'
  BY <1>1, SameIntake DEF HInv, Told
<1>4. CompletedMeansAnswered' /\ Assembling'
  BY <1>1 DEF CompletedMeansAnswered, Assembling
<1>5. QED
  BY <1>2, <1>3, <1>4 DEF Told

\* What the assembler returns is the next accepted messages, and no call is open.
LEMMA AssembledInputs ==
  ASSUME HInv, AssembleReturns, ~AbandonStep
  PROVE  /\ messages \in Seq(MessageOf) /\ batch \in Seq(MessageOf)
         /\ messages' = messages \o batch
         /\ Delivered \in Nat /\ Delivered' = Delivered + Len(batch)
         /\ \A i \in 1..Len(batch) : batch[i] = Input(Delivered + i)
         /\ Len(queued') \in Nat /\ DOMAIN queued' = 1..Len(queued') /\ Len(queued') <= accepted'
         /\ \A i \in 1..Len(queued') : queued'[i] = Input((Delivered + Len(batch)) + i)
<1>1. /\ messages' = messages \o batch /\ queued' = LeftInQueue /\ pc = "assembling"
      /\ accepted' = accepted
  BY DEF AssembleReturns
<1>2. /\ messages \in Seq(MessageOf) /\ batch \in Seq(MessageOf) /\ queued \in Seq(MessageOf)
      /\ accepted \in Nat
  BY RunAssumption DEF HInv, IInv, TypeOK
<1>3. /\ Len(batch) \in Nat /\ Len(queued) \in Nat /\ Len(batch) <= Len(queued)
      /\ \A i \in 1..Len(batch) : batch[i] = queued[i]
  BY <1>1, <1>2 DEF HInv, Told, Assembling
<1>4. Delivered \in Nat /\ Len(queued) <= accepted /\ Delivered = accepted - Len(queued)
  BY <1>2, <1>3 DEF HInv, Told, InputsKeptInOrder, Delivered
<1>5. \A i \in 1..Len(queued) : queued[i] = Input(Delivered + i)
  BY <1>2 DEF HInv, Told, InputsKeptInOrder
<1>6. \A i \in 1..Len(batch) : batch[i] = Input(Delivered + i)
  BY <1>3, <1>5
<1> DEFINE f == Len(batch) + 1
           n == Len(queued)
<1>7. \A i \in f..n : queued[i] \in MessageOf
  BY <1>2, <1>3
<1>8. /\ SubSeq(queued, f, n) \in Seq(MessageOf)
      /\ Len(SubSeq(queued, f, n)) = IF f <= n THEN n - f + 1 ELSE 0
      /\ \A i \in 1..n - f + 1 : SubSeq(queued, f, n)[i] = queued[f + i - 1]
  BY <1>3, <1>7, SubSeqProperties
<1>9. queued' \in Seq(MessageOf) /\ Len(queued') = n - Len(batch)
  BY <1>1, <1>3, <1>8 DEF LeftInQueue
<1>10. \A i \in 1..n - Len(batch) : queued'[i] = Input((Delivered + Len(batch)) + i)
  <2> TAKE i \in 1..n - Len(batch)
  <2>1. i \in 1..n - f + 1 /\ f + i - 1 = Len(batch) + i /\ Len(batch) + i \in 1..n
    BY <1>3
  <2>2. queued'[i] = queued[Len(batch) + i]
    BY <1>1, <1>8, <2>1 DEF LeftInQueue
  <2>3. queued[Len(batch) + i] = Input(Delivered + (Len(batch) + i))
    BY <1>5, <2>1
  <2>4. Delivered + (Len(batch) + i) = (Delivered + Len(batch)) + i
    BY <1>3, <1>4
  <2>5. QED
    BY <2>2, <2>3, <2>4
<1>11. Delivered' = Delivered + Len(batch)
  <2>1. Delivered' = accepted - (n - Len(batch))
    BY <1>1, <1>9 DEF Delivered
  <2>2. QED
    BY <1>2, <1>3, <1>4, <2>1
<1>12. QED
  BY <1>1, <1>2, <1>3, <1>4, <1>6, <1>9, <1>10, <1>11

LEMMA AssembleReturnsTold == HInv /\ AssembleReturns => Told'
<1> SUFFICES ASSUME HInv, AssembleReturns PROVE Told'
  OBVIOUS
<1>1. /\ UNCHANGED <<calls, order, accepted, status>> /\ pc = "assembling"
      /\ pc' \in {"returned", "inferring"}
  BY DEF AssembleReturns, ending
<1>2. CompletedMeansAnswered' /\ Assembling'
  BY <1>1, DriverRuns DEF CompletedMeansAnswered, Assembling
<1>3. CASE AbandonStep
  <2>1. UNCHANGED <<messages, queued>>
    BY <1>3 DEF AssembleReturns
  <2>2. QED
    BY <1>1, <1>2, <2>1, QuietTold
<1>4. CASE ~AbandonStep
  <2> DEFINE m == Len(messages)
             k == Len(batch)
             d == Delivered
  <2>1. /\ messages \in Seq(MessageOf) /\ batch \in Seq(MessageOf)
        /\ messages' = messages \o batch
        /\ d \in Nat /\ Delivered' = d + k
        /\ \A i \in 1..k : batch[i] = Input(d + i)
        /\ Len(queued') \in Nat /\ DOMAIN queued' = 1..Len(queued') /\ Len(queued') <= accepted'
        /\ \A i \in 1..Len(queued') : queued'[i] = Input((d + k) + i)
    BY <1>4, AssembledInputs, Zenon
  <2> HIDE DEF d
  <2>2. \A i \in 1..k : batch[i].role = "message" /\ batch[i].input = d + i
    <3> TAKE i \in 1..k
    <3>1. batch[i] = Input(d + i)
      BY <2>1
    <3>2. QED
      BY <3>1 DEF Input
  <2>3. \A c \in CallIds : calls[c] \notin {"PENDING", "RUNNING", "UNKNOWN"}
    <3>1. status = "RUNNING" /\ \A c \in CallIds : calls[c] # "PENDING"
      BY <1>1, DriverRuns DEF HInv, Told, Assembling
    <3>2. QED
      BY <1>1, <3>1 DEF HInv, IInv, UncertainEffectEndsRun, Running
  <2>4. Paired'
    <3>1. ValidHistory(messages) /\ Open(messages, m) = {} /\ Proposed(messages, m) = ToSet(order)
      BY <2>3 DEF HInv, Told, Paired
    <3>2. /\ ValidHistory(messages \o batch)
          /\ Open(messages \o batch, Len(messages \o batch)) = {}
          /\ Proposed(messages \o batch, Len(messages \o batch)) = Proposed(messages, m)
      BY <2>1, <2>2, <3>1, InputsFollow
    <3>3. QED
      BY <1>1, <2>1, <2>3, <3>1, <3>2 DEF Paired
  <2>5. Ordered'
    BY <1>1 DEF Ordered, HInv, Told
  <2>6. /\ m \in Nat /\ k \in Nat /\ DOMAIN messages = 1..m
        /\ DOMAIN messages' = 1..m + k
        /\ \A i \in 1..m : messages'[i] = messages[i]
        /\ \A i \in 1..k : messages'[m + i] = batch[i]
    BY <2>1, ConcatProperties
  <2> HIDE DEF m, k
  <2>7. \A i \in 1..m + k : i \in 1..m \/ (i - m \in 1..k /\ i = m + (i - m))
    BY <2>6
  <2>8. /\ \A i \in 1..m : IsInput(messages[i]) =>
               messages[i].input \in Nat /\ messages[i].input <= d
        /\ \A n \in 0..d : \E i \in 1..m : messages[i] = Input(n)
        /\ \A i, j \in 1..m :
             IsInput(messages[i]) /\ IsInput(messages[j]) /\ i < j =>
               messages[i].input < messages[j].input
    BY <2>1, <2>6, HistoryTypes DEF HInv, Told, InputsKeptInOrder, IsInput, d, m
  <2>9. \A i \in 1..m + k : i \notin 1..m =>
          /\ i - m \in 1..k /\ messages'[i] = Input(d + (i - m))
          /\ messages'[i].input = d + (i - m)
    <3> SUFFICES ASSUME NEW i \in 1..m + k, i \notin 1..m
                 PROVE  /\ i - m \in 1..k /\ messages'[i] = Input(d + (i - m))
                        /\ messages'[i].input = d + (i - m)
      OBVIOUS
    <3>1. i - m \in 1..k /\ i = m + (i - m)
      BY <2>7
    <3>2. messages'[i] = batch[i - m]
      BY <2>6, <3>1
    <3>3. batch[i - m] = Input(d + (i - m)) /\ batch[i - m].input = d + (i - m)
      BY <2>1, <2>2, <3>1 DEF k
    <3>4. QED
      BY <3>1, <3>2, <3>3
  <2>10. \A i \in 1..m + k : IsInput(messages'[i]) => messages'[i].input <= d + k
    <3> SUFFICES ASSUME NEW i \in 1..m + k, IsInput(messages'[i])
                 PROVE  messages'[i].input <= d + k
      OBVIOUS
    <3>1. CASE i \in 1..m
      BY <2>1, <2>6, <2>8, <3>1
    <3>2. CASE i \notin 1..m
      <4>1. i - m \in 1..k /\ messages'[i].input = d + (i - m)
        BY <2>9, <3>2
      <4>2. QED
        BY <2>1, <2>6, <4>1
    <3>3. QED
      BY <3>1, <3>2
  <2>11. \A n \in 0..d + k : \E i \in 1..m + k : messages'[i] = Input(n)
    <3> TAKE n \in 0..d + k
    <3>1. CASE n \in 0..d
      <4>1. PICK i \in 1..m : messages[i] = Input(n)
        BY <2>8, <3>1
      <4>2. i \in 1..m + k /\ messages'[i] = Input(n)
        BY <2>6, <4>1
      <4>3. QED
        BY <4>2
    <3>2. CASE n \notin 0..d
      <4>1. n - d \in 1..k /\ m + (n - d) \in 1..m + k /\ n = d + (n - d)
        BY <2>1, <2>6, <3>2
      <4>2. messages'[m + (n - d)] = batch[n - d] /\ batch[n - d] = Input(d + (n - d))
        BY <2>1, <2>6, <4>1 DEF k
      <4>3. QED
        BY <4>1, <4>2
    <3>3. QED
      BY <3>1, <3>2
  <2>12. ASSUME NEW i \in 1..m + k, NEW j \in 1..m + k, IsInput(messages'[i]),
                IsInput(messages'[j]), i < j
         PROVE  messages'[i].input < messages'[j].input
    <3>1. CASE j \in 1..m
      <4>1. i \in 1..m
        BY <2>6, <2>12, <3>1
      <4>2. QED
        BY <2>6, <2>8, <2>12, <3>1, <4>1
    <3>2. CASE j \notin 1..m
      <4>1. j - m \in 1..k /\ messages'[j].input = d + (j - m)
        BY <2>9, <3>2
      <4>2. CASE i \in 1..m
        <5>1. messages'[i].input \in Nat /\ messages'[i].input <= d
          BY <2>6, <2>8, <2>12, <4>2
        <5>2. ASSUME NEW a \in Nat, NEW e \in Int, a <= d, e \in 1..k
              PROVE  a < d + e
          BY <2>1, <2>6, <5>2
        <5>3. QED
          BY <4>1, <5>1, <5>2
      <4>3. CASE i \notin 1..m
        <5>1. i - m \in 1..k /\ messages'[i].input = d + (i - m)
          BY <2>9, <4>3
        <5>2. QED
          BY <2>1, <2>6, <2>12, <4>1, <5>1, SMTT(30)
      <4>4. QED
        BY <4>2, <4>3
    <3>3. QED
      BY <3>1, <3>2
  <2>13. InputsKeptInOrder'
    <3>1. Delivered' = d + k
      BY <2>1 DEF k
    <3>2. Len(queued') <= accepted' /\ \A i \in DOMAIN queued' : queued'[i] = Input((d + k) + i)
      BY <2>1 DEF k
    <3>3. QED
      BY <2>6, <2>10, <2>11, <2>12, <3>1, <3>2 DEF InputsKeptInOrder
  <2>14. QED
    BY <1>2, <2>4, <2>5, <2>13 DEF Told
<1>5. QED
  BY <1>3, <1>4

LEMMA ModelRepliesTold ==
  ASSUME NEW ids \in Replies PROVE HInv /\ ModelReplies(ids) => Told'
<1> SUFFICES ASSUME HInv, ModelReplies(ids) PROVE Told'
  OBVIOUS
<1> DEFINE g == Append(messages, Assistant(ids))
           m == Len(messages)
           n == Len(order)
<1>1. ids \in Seq(CallIds)
  BY RepliesType
<1>2. /\ UNCHANGED <<queued, accepted, cancelRequested>> /\ pc = "inferring"
      /\ pc' \in {"idle", "returned"}
  BY DEF ModelReplies, intake
<1>3. /\ TypeOK /\ Told /\ Ordered /\ InputsKeptInOrder /\ ValidHistory(messages)
      /\ Open(messages, m) = Unsettled /\ Proposed(messages, m) = ToSet(order)
      /\ status = "RUNNING"
  BY <1>2, DriverRuns DEF HInv, IInv, Told, Paired, Unsettled
<1>4. Assembling'
  BY <1>2 DEF Assembling
<1>5. CASE ~ValidHistory(g)
  <2>1. UNCHANGED <<messages, calls, order>> /\ status' = "FAILED"
    BY <1>5 DEF ModelReplies, Finish
  <2>2. QED
    BY <1>2, <1>4, <2>1, QuietTold DEF CompletedMeansAnswered
<1>6. CASE ValidHistory(g)
  <2>1. /\ messages' = g /\ order' = order \o ids
        /\ calls' = [c \in CallIds |->
                       IF c \in ToSet(ids) THEN "PENDING" ELSE calls[c]]
        /\ status' = IF FinalAnswer(ids) THEN "COMPLETED" ELSE status
    BY <1>6 DEF ModelReplies, Finish, ending
  <2>2. messages \in Seq(MessageOf) /\ order \in Seq(CallIds)
    BY <1>3 DEF TypeOK
  <2>3. /\ g \in Seq(MessageOf) /\ Len(g) = m + 1
        /\ Open(messages, m) = {}
        /\ ToSet(ids) \cap Proposed(messages, m) = {}
        /\ \A i, j \in 1..Len(ids) : ids[i] = ids[j] => i = j
        /\ Open(g, Len(g)) = ToSet(ids)
        /\ Proposed(g, Len(g)) = Proposed(messages, m) \cup ToSet(ids)
    BY <1>1, <1>3, <1>6, <2>2, ReplyFollows
  <2>4. \A c \in CallIds : calls[c] \notin {"PENDING", "RUNNING", "UNKNOWN"}
    BY <1>3, <2>3 DEF Unsettled
  <2>5. \A c \in CallIds : calls'[c] = IF c \in ToSet(ids) THEN "PENDING" ELSE calls[c]
    BY <2>1
  <2>6. ToSet(ids) \subseteq CallIds /\ ToSet(ids) \cap ToSet(order) = {}
    BY <1>1, <1>3, <2>3, ToSetType
  <2>7. ToSet(ids) = {c \in CallIds : calls'[c] \in {"PENDING", "RUNNING", "UNKNOWN"}}
    BY <2>4, <2>5, <2>6
  <2>8. ToSet(order \o ids) = ToSet(order) \cup ToSet(ids)
    BY <1>1, <2>2, ConcatElements
  <2>9. Paired'
    BY <1>3, <1>6, <2>1, <2>3, <2>7, <2>8 DEF Paired
  <2>10. Ordered'
    <3>1. \A c \in CallIds : calls'[c] = "absent" <=> c \notin ToSet(order')
      BY <1>3, <2>1, <2>5, <2>8 DEF Ordered
    <3>2. /\ n \in Nat /\ Len(ids) \in Nat /\ Len(order') = n + Len(ids)
          /\ \A i \in 1..n : order'[i] = order[i]
          /\ \A i \in 1..Len(ids) : order'[n + i] = ids[i]
          /\ DOMAIN order = 1..n /\ DOMAIN ids = 1..Len(ids)
      BY <1>1, <2>1, <2>2, ConcatProperties
    <3>3. \A i \in 1..n : order'[i] \in ToSet(order) /\ order'[i] \notin ToSet(ids)
      BY <2>6, <3>2 DEF ToSet
    <3>4. \A i \in 1..n + Len(ids) : i \notin 1..n =>
            /\ i - n \in 1..Len(ids) /\ order'[i] = ids[i - n] /\ order'[i] \in ToSet(ids)
            /\ order'[i] \in CallIds
      <4> SUFFICES ASSUME NEW i \in 1..n + Len(ids), i \notin 1..n
                   PROVE  /\ i - n \in 1..Len(ids) /\ order'[i] = ids[i - n]
                          /\ order'[i] \in ToSet(ids) /\ order'[i] \in CallIds
        OBVIOUS
      <4>1. i - n \in 1..Len(ids) /\ i = n + (i - n)
        BY <3>2
      <4>2. order'[i] = ids[i - n]
        BY <3>2, <4>1
      <4>3. ids[i - n] \in ToSet(ids)
        BY <3>2, <4>1 DEF ToSet
      <4>4. QED
        BY <2>6, <4>1, <4>2, <4>3
    <3>5. ASSUME NEW i \in 1..n + Len(ids), NEW j \in 1..n + Len(ids), order'[i] = order'[j]
          PROVE  i = j
      <4>1. CASE i \in 1..n
        <5>1. j \in 1..n
          BY <3>3, <3>4, <3>5, <4>1
        <5>2. QED
          BY <1>3, <3>2, <3>5, <4>1, <5>1 DEF Ordered
      <4>2. CASE i \notin 1..n
        <5>1. j \notin 1..n
          BY <3>3, <3>4, <3>5, <4>2
        <5>2. i - n \in 1..Len(ids) /\ j - n \in 1..Len(ids) /\ ids[i - n] = ids[j - n]
          BY <3>4, <3>5, <4>2, <5>1
        <5>3. i - n = j - n
          BY <2>3, <5>2
        <5>4. QED
          BY <3>2, <5>3
      <4>3. QED
        BY <4>1, <4>2
    <3>6. ASSUME NEW i \in 1..n + Len(ids), NEW j \in 1..n + Len(ids), i < j,
                 calls'[order'[i]] = "PENDING"
          PROVE  calls'[order'[j]] = "PENDING"
      <4>1. i \notin 1..n
        <5> SUFFICES ASSUME i \in 1..n PROVE FALSE
          OBVIOUS
        <5>1. order'[i] \in CallIds
          BY <2>2, <3>2
        <5>2. QED
          BY <2>4, <2>5, <3>3, <3>6, <5>1
      <4>2. j \notin 1..n
        BY <3>2, <3>6, <4>1
      <4>3. QED
        BY <2>5, <3>4, <4>2
    <3>7. QED
      BY <3>1, <3>2, <3>5, <3>6 DEF Ordered
  <2>11. InputsKeptInOrder'
    <3>1. Assistant(ids) \in MessageOf /\ Assistant(ids).role = "assistant"
      BY <1>1, MessageTypes DEF Assistant
    <3> DEFINE a == Assistant(ids)
               t == <<a>>
    <3> HIDE DEF a
    <3>2. t \in Seq(MessageOf) /\ Len(t) = 1 /\ t[1].role # "message"
      BY <3>1 DEF a
    <3>3. messages' = messages \o t
      <4>1. a \in MessageOf
        BY <3>1 DEF a
      <4>2. Append(messages, a) = messages \o t
        BY <2>2, <4>1, AppendIsConcat
      <4>3. QED
        BY <2>1, <4>2 DEF a
    <3> HIDE DEF t
    <3>4. \A i \in 1..Len(t) : t[i].role # "message"
      BY <3>2
    <3>5. QED
      BY <1>2, <1>3, <3>2, <3>3, <3>4, InputsApart
  <2>12. CompletedMeansAnswered'
    <3> SUFFICES ASSUME FinalAnswer(ids)
                 PROVE  /\ queued' = <<>> /\ ~cancelRequested'
                        /\ \A c \in CallIds : calls'[c] \in {"absent", "SUCCEEDED", "FAILED"}
                        /\ messages'[Len(messages')] = Assistant(<<>>)
      BY <1>3, <2>1 DEF CompletedMeansAnswered
    <3>1. ids = <<>> /\ queued' = <<>> /\ ~cancelRequested'
      BY <1>2 DEF FinalAnswer
    <3>2. ToSet(ids) = {}
      BY <3>1 DEF ToSet
    <3>3. \A c \in CallIds : calls'[c] \in {"absent", "SUCCEEDED", "FAILED"}
      BY <1>3, <2>4, <2>5, <3>2 DEF TypeOK, CallStatus
    <3>4. messages'[Len(messages')] = Assistant(ids)
      <4>1. Assistant(ids) \in MessageOf
        BY <1>1, MessageTypes
      <4>2. g[m + 1] = Assistant(ids)
        BY <2>2, <4>1, AppendProperties
      <4>3. QED
        BY <2>1, <2>3, <4>2
    <3>5. QED
      BY <3>1, <3>3, <3>4
  <2>13. QED
    BY <1>4, <2>9, <2>10, <2>11, <2>12 DEF Told
<1>7. QED
  BY <1>5, <1>6

-----------------------------------------------------------------------------
\* The invariant is inductive.

LEMMA InitTold == Init => Told
<1> SUFFICES ASSUME Init PROVE Told
  OBVIOUS
<1>1. /\ messages = <<Input(0)>> /\ queued = <<>> /\ order = <<>> /\ accepted = 0
      /\ pc = "idle" /\ status = "READY"
      /\ \A c \in CallIds : calls[c] = "absent"
  BY DEF Init
<1>2. Input(0).role = "message" /\ Input(0).input = 0
  BY DEF Input
<1>3. Len(messages) = 1 /\ DOMAIN messages = 1..1 /\ messages[1] = Input(0)
  BY <1>1
<1>4. \A n \in {0, 1} : Proposed(messages, n) = {} /\ Answered(messages, n) = {}
  <2>1. \A n \in {0, 1} : \A i \in 1..n : messages[i].role = "message"
    BY <1>2, <1>3
  <2>2. QED
    BY <2>1 DEF Proposed, Answered
<1>5. \A n \in {0, 1} : Open(messages, n) = {}
  BY <1>4 DEF Open
<1>6. ValidHistory(messages)
  BY <1>2, <1>3, <1>5 DEF ValidHistory
<1>7. Len(order) = 0 /\ ToSet(order) = {}
  BY <1>1 DEF ToSet
<1>8. Paired
  BY <1>1, <1>3, <1>4, <1>5, <1>6, <1>7 DEF Paired
<1>9. Ordered
  BY <1>1, <1>7 DEF Ordered
<1>10. Len(queued) = 0 /\ DOMAIN queued = {} /\ Delivered = 0
  <2>1. queued \in Seq({}) /\ Len(queued) = 0
    BY <1>1
  <2>2. DOMAIN queued = 1..0
    BY <2>1
  <2>3. QED
    <3>1. \A i \in 1..0 : FALSE
      OBVIOUS
    <3>2. DOMAIN queued = {}
      BY <2>2, <3>1
    <3>3. accepted = 0 /\ Len(queued) = 0
      BY <1>1, <2>1
    <3>5. Delivered = 0
      BY <3>3 DEF Delivered
    <3>4. QED
      BY <2>1, <3>2, <3>5
<1>11. InputsKeptInOrder
  BY <1>1, <1>2, <1>3, <1>10 DEF InputsKeptInOrder
<1>12. Assembling /\ CompletedMeansAnswered
  BY <1>1 DEF Assembling, CompletedMeansAnswered
<1>13. QED
  BY <1>8, <1>9, <1>11, <1>12 DEF Told

LEMMA StutterTold == HInv /\ UNCHANGED vars => Told'
<1> SUFFICES ASSUME HInv, UNCHANGED vars PROVE Told'
  OBVIOUS
<1>1. /\ UNCHANGED <<messages, calls, order, queued, accepted>>
      /\ UNCHANGED <<pc, batch, status, cancelRequested>>
  BY DEF vars, record, intake, local, ending
<1>2. Assembling' /\ CompletedMeansAnswered'
  BY <1>1 DEF HInv, Told, Assembling, CompletedMeansAnswered
<1>3. QED
  BY <1>1, <1>2, QuietTold

LEMMA HInvInductive == HInv /\ [Next]_vars => HInv'
<1> SUFFICES ASSUME HInv, [Next]_vars PROVE HInv'
  OBVIOUS
<1>1. IInv'
  BY IInvInductive DEF HInv
<1>2. Told'
  <2>1. CASE AppendMessage \/ Cancel \/ \E mode \in BOOLEAN : Drive(mode)
    BY <2>1, AppendMessageTold, CancelTold, DriveTold
  <2>2. CASE AdvanceReturns \/ LimitReached \/ BeginModelStep \/ BeginToolStep
    BY <2>2, AdvanceReturnsTold, LimitReachedTold, BeginModelStepTold, BeginToolStepTold
  <2>3. CASE AssembleReturns \/ \E ids \in Replies : ModelReplies(ids)
    BY <2>3, AssembleReturnsTold, ModelRepliesTold
  <2>4. CASE \E action \in {"ALLOW", "DENY", "RECONSIDER"} : PolicyDecides(action)
    BY <2>4, PolicyDecidesTold
  <2>5. CASE \E error \in BOOLEAN : ToolReturns(error)
    BY <2>5, ToolReturnsTold
  <2>6. CASE ToolEffectUnknown \/ AwaitRaises \/ DriverCancelled
    BY <2>6, InterruptionsTold
  <2>7. CASE UNCHANGED vars
    BY <2>7, StutterTold
  <2>8. QED
    BY <2>1, <2>2, <2>3, <2>4, <2>5, <2>6, <2>7 DEF Next, Driver, Host, AwaitReturns
<1>3. QED
  BY <1>1, <1>2 DEF HInv

\* The history, the records and the queue agree in every reachable state.
THEOREM HistoryInvariance == Spec => []HInv
<1>1. Init => HInv
  BY InitIInv, InitTold DEF HInv
<1>2. HInv /\ [Next]_vars => HInv'
  BY HInvInductive
<1>3. QED
  BY <1>1, <1>2, PTL DEF Spec

\* At every await the history is one that validate_history accepts, its open
\* calls are those without a settled record, accepted input stands in it once
\* and in order, and a completed run has answered all it accepted.
THEOREM HistoryIsSound == Spec => []HistorySound
<1>1. HInv => HistorySound
  <2> SUFFICES ASSUME HInv PROVE HistorySound
    OBVIOUS
  <2>1. ToSet(Pending) = {c \in CallIds : calls[c] = "PENDING"}
    BY PendingFacts DEF HInv, IInv, Told
  <2>2. QED
    BY <2>1 DEF HInv, Told, Paired, HistorySound, HistoryMatchesCalls
<1>2. QED
  BY <1>1, HistoryInvariance, PTL

-----------------------------------------------------------------------------
\* What a step may do to the records of calls.

SettledStatus == {"SUCCEEDED", "FAILED", "UNKNOWN"}

\* A settled call keeps its outcome and is not entered again, no record is
\* dropped, and only a call without a record begins to wait.
Onward ==
  \A c \in CallIds :
    /\ calls[c] \in SettledStatus => calls'[c] = calls[c] /\ executions'[c] = executions[c]
    /\ calls[c] # "absent" => calls'[c] # "absent"
    /\ calls'[c] = "PENDING" => calls[c] \in {"absent", "PENDING"}

\* A call that waits has not been entered, nor has the head of those that wait.
LEMMA NotEntered ==
  ASSUME HInv
  PROVE  /\ \A c \in ToSet(Pending) : executions[c] = 0
         /\ Pending # <<>> => /\ Head(Pending) \in CallIds
                              /\ calls[Head(Pending)] = "PENDING"
                              /\ executions[Head(Pending)] = 0
<1>1. ToSet(Pending) = {c \in CallIds : calls[c] = "PENDING"}
  BY PendingFacts DEF HInv, IInv, Told
<1>2. Pending # <<>> => Head(Pending) \in CallIds /\ calls[Head(Pending)] = "PENDING"
  BY PendingProperties DEF HInv, IInv
<1>3. QED
  BY <1>1, <1>2 DEF HInv, IInv, EntriesMatchCalls

LEMMA SameOnward == ASSUME calls' = calls, executions' = executions PROVE Onward
BY DEF Onward

\* A tool is entered for a call that waits.
LEMMA StartOnward ==
  ASSUME HInv, Pending # <<>>, StartTool(Head(Pending))
  PROVE  Onward
<1> DEFINE c == Head(Pending)
<1>1. c \in CallIds /\ calls[c] = "PENDING"
  BY NotEntered
<1>2. calls' = [calls EXCEPT ![c] = "RUNNING"]
      /\ executions' = [executions EXCEPT ![c] = @ + 1]
      /\ calls \in [CallIds -> CallStatus \cup {"absent"}]
      /\ executions \in [CallIds -> Nat]
  BY DEF StartTool, HInv, IInv, TypeOK
<1> HIDE DEF c
<1>3. QED
  BY <1>1, <1>2 DEF Onward, SettledStatus

\* Answers are recorded of calls that have none.
LEMMA OutputOnward ==
  ASSUME HInv, NEW ids \in Seq(CallIds), NEW error \in BOOLEAN, RecordOutput(ids, error),
         executions' = executions,
         \A c \in ToSet(ids) : calls[c] \in {"PENDING", "RUNNING"}
  PROVE  Onward
<1>1. \A c \in CallIds : calls'[c] = IF c \in ToSet(ids)
                                     THEN IF error THEN "FAILED" ELSE "SUCCEEDED"
                                     ELSE calls[c]
  BY DEF RecordOutput
<1>2. QED
  BY <1>1 DEF Onward, SettledStatus

LEMMA HeadOnward ==
  ASSUME HInv, Pending # <<>>, executions' = executions,
         RecordOutput(<<Head(Pending)>>, TRUE)
  PROVE  Onward
<1> DEFINE ids == <<Head(Pending)>>
<1>1. ids \in Seq(CallIds) /\ ToSet(ids) = {Head(Pending)}
  BY NotEntered DEF ToSet
<1>2. \A c \in ToSet(ids) : calls[c] \in {"PENDING", "RUNNING"}
  BY <1>1, NotEntered
<1> HIDE DEF ids
<1>3. RecordOutput(ids, TRUE)
  BY DEF ids
<1>4. QED
  BY <1>1, <1>2, <1>3, OutputOnward

LEMMA RepliesOnward ==
  ASSUME HInv, NEW ids \in Replies, ModelReplies(ids)
  PROVE  Onward
<1>1. executions' = executions
  BY DEF ModelReplies
<1>2. CASE ~ValidHistory(Append(messages, Assistant(ids)))
  BY <1>1, <1>2, SameOnward DEF ModelReplies
<1>3. CASE ValidHistory(Append(messages, Assistant(ids)))
  <2>1. /\ ids \in Seq(CallIds) /\ messages \in Seq(MessageOf) /\ ValidHistory(messages)
        /\ Proposed(messages, Len(messages)) = ToSet(order)
    BY RepliesType DEF HInv, IInv, TypeOK, Told, Paired
  <2>2. ToSet(ids) \cap Proposed(messages, Len(messages)) = {}
    BY <1>3, <2>1, ReplyFollows
  <2>3. \A c \in CallIds : c \in ToSet(ids) => calls[c] = "absent"
    BY <2>1, <2>2 DEF HInv, Told, Ordered
  <2>4. \A c \in CallIds : calls'[c] = IF c \in ToSet(ids) THEN "PENDING" ELSE calls[c]
    BY <1>3 DEF ModelReplies
  <2>5. QED
    BY <1>1, <2>3, <2>4 DEF Onward, SettledStatus
<1>4. QED
  BY <1>2, <1>3

LEMMA PolicyOnward ==
  ASSUME HInv, NEW action, PolicyDecides(action)
  PROVE  Onward
<1>1. Pending # <<>>
  BY DEF PolicyDecides, HInv, IInv, ControlPoints
<1>2. CASE UNCHANGED <<calls, executions>>
  BY <1>2, SameOnward
<1>3. CASE StartTool(Head(Pending))
  BY <1>1, <1>3, StartOnward
<1>4. CASE RecordOutput(Refused(action), TRUE) /\ executions' = executions
  <2>1. CASE action = "RECONSIDER"
    <3>1. /\ Pending \in Seq(CallIds)
          /\ ToSet(Pending) = {c \in CallIds : calls[c] = "PENDING"}
      BY PendingFacts DEF HInv, IInv, Told
    <3>2. RecordOutput(Pending, TRUE)
      BY <1>4, <2>1 DEF Refused
    <3>3. QED
      BY <1>4, <3>1, <3>2, OutputOnward
  <2>2. CASE action # "RECONSIDER"
    BY <1>1, <1>4, <2>2, HeadOnward DEF Refused
  <2>3. QED
    BY <2>1, <2>2
<1>5. QED
  BY <1>2, <1>3, <1>4 DEF PolicyDecides

LEMMA GoesOnward == HInv /\ [Next]_vars => Onward
<1> SUFFICES ASSUME HInv, [Next]_vars PROVE Onward
  OBVIOUS
<1>1. CASE \/ AppendMessage \/ Cancel \/ (\E mode \in BOOLEAN : Drive(mode))
           \/ AdvanceReturns \/ LimitReached \/ BeginModelStep \/ AssembleReturns
           \/ UNCHANGED vars
  BY <1>1, SameOnward
     DEF AppendMessage, Cancel, Drive, AdvanceReturns, LimitReached, BeginModelStep,
         AssembleReturns, record, vars
<1>2. CASE BeginToolStep
  <2>1. Pending # <<>>
    BY <1>2 DEF BeginToolStep
  <2>2. \/ RecordOutput(<<Head(Pending)>>, TRUE) /\ executions' = executions
        \/ UNCHANGED <<calls, executions>>
        \/ StartTool(Head(Pending))
    BY <1>2 DEF BeginToolStep
  <2>3. QED
    BY <2>1, <2>2, HeadOnward, SameOnward, StartOnward
<1>3. CASE \E ids \in Replies : ModelReplies(ids)
  BY <1>3, RepliesOnward
<1>4. CASE \E action \in {"ALLOW", "DENY", "RECONSIDER"} : PolicyDecides(action)
  BY <1>4, PolicyOnward
<1>5. CASE \E error \in BOOLEAN : ToolReturns(error)
  <2>1. PICK error \in BOOLEAN : ToolReturns(error)
    BY <1>5
  <2>2. PICK c \in Running : RecordOutput(<<c>>, error)
    BY <2>1 DEF ToolReturns
  <2>3. executions' = executions /\ c \in CallIds /\ calls[c] = "RUNNING"
    BY <2>1 DEF ToolReturns, Running
  <2> DEFINE ids == <<c>>
  <2>4. ids \in Seq(CallIds) /\ ToSet(ids) = {c}
    BY <2>3 DEF ToSet
  <2> HIDE DEF ids
  <2>5. RecordOutput(ids, error)
    BY <2>2 DEF ids
  <2>6. \A d \in ToSet(ids) : calls[d] \in {"PENDING", "RUNNING"}
    BY <2>3, <2>4
  <2>7. QED
    BY <2>3, <2>4, <2>5, <2>6, OutputOnward
<1>6. CASE ToolEffectUnknown \/ AwaitRaises \/ DriverCancelled
  <2>1. /\ executions' = executions
        /\ calls' = [c \in CallIds |-> IF calls[c] = "RUNNING" THEN "UNKNOWN" ELSE calls[c]]
    BY <1>6 DEF ToolEffectUnknown, AwaitRaises, DriverCancelled, MarkUnknown
  <2>2. QED
    BY <2>1 DEF Onward, SettledStatus
<1>7. QED
  BY <1>1, <1>2, <1>3, <1>4, <1>5, <1>6 DEF Next, Driver, Host, AwaitReturns

\* A settled call keeps its outcome whatever happens to the run, and no call is
\* put back.
THEOREM OutcomeIsFinal == Spec => [][Onward]_vars
<1>1. HInv /\ [Next]_vars => [Onward]_vars
  BY GoesOnward
<1>2. QED
  BY <1>1, HistoryInvariance, PTL DEF Spec

-----------------------------------------------------------------------------
\* The run implements its contract.

\* The outcome a host sees.
Outcome == IF Terminal THEN status ELSE "open"

LEMMA EffectOf ==
  ASSUME EntriesMatchCalls, NEW c \in CallIds
  PROVE  ContractEffect[c] = IF executions[c] = 0 THEN "none"
                             ELSE IF calls[c] = "RUNNING" THEN "started"
                             ELSE IF calls[c] = "UNKNOWN" THEN "unknown" ELSE "certain"
<1>1. CASE executions[c] = 0
  BY <1>1 DEF ContractEffect, EntriesMatchCalls
<1>2. CASE executions[c] # 0 /\ calls[c] = "RUNNING"
  BY <1>2 DEF ContractEffect, EntriesMatchCalls
<1>3. CASE executions[c] # 0 /\ calls[c] = "UNKNOWN"
  BY <1>3 DEF ContractEffect, EntriesMatchCalls
<1>4. CASE executions[c] # 0 /\ calls[c] # "RUNNING" /\ calls[c] # "UNKNOWN"
  BY <1>4 DEF ContractEffect
<1>5. QED
  BY <1>1, <1>2, <1>3, <1>4

LEMMA EffectOfNext ==
  ASSUME EntriesMatchCalls', NEW c \in CallIds
  PROVE  ContractEffect'[c] = IF executions'[c] = 0 THEN "none"
                              ELSE IF calls'[c] = "RUNNING" THEN "started"
                              ELSE IF calls'[c] = "UNKNOWN" THEN "unknown" ELSE "certain"
<1>1. CASE executions'[c] = 0
  BY <1>1 DEF ContractEffect, EntriesMatchCalls
<1>2. CASE executions'[c] # 0 /\ calls'[c] = "RUNNING"
  BY <1>2 DEF ContractEffect, EntriesMatchCalls
<1>3. CASE executions'[c] # 0 /\ calls'[c] = "UNKNOWN"
  BY <1>3 DEF ContractEffect, EntriesMatchCalls
<1>4. CASE executions'[c] # 0 /\ calls'[c] # "RUNNING" /\ calls'[c] # "UNKNOWN"
  BY <1>4 DEF ContractEffect
<1>5. QED
  BY <1>1, <1>2, <1>3, <1>4

\* Effects are told by the records of the calls that were entered.
LEMMA SameEffect ==
  ASSUME EntriesMatchCalls, EntriesMatchCalls', executions' = executions,
         \A c \in CallIds : executions[c] # 0 => calls'[c] = calls[c]
  PROVE  ContractEffect' = ContractEffect
<1>1. \A c \in CallIds : ContractEffect'[c] = ContractEffect[c]
  BY EffectOf, EffectOfNext
<1>2. ContractEffect' = [c \in CallIds |-> ContractEffect'[c]]
      /\ ContractEffect = [c \in CallIds |-> ContractEffect[c]]
  BY DEF ContractEffect
<1>3. QED
  BY <1>1, <1>2

\* A run that ends gives up the call it has in execution, if any.
LEMMA Closes ==
  ASSUME IInv, IInv', ~Terminal, NEW end \in TerminalStatus, status' = end,
         executions' = executions, accepted' = accepted, Delivered' = Delivered,
         \/ calls' = MarkUnknown
         \/ Running = {} /\ \A c \in CallIds : executions[c] # 0 => calls'[c] = calls[c],
         end = "COMPLETED" =>
           Delivered = accepted /\ \A c \in CallIds : calls'[c] # "UNKNOWN"
  PROVE  Contract!ContractNext
<1> DEFINE Lost == [c \in CallIds |-> IF ContractEffect[c] = "started" THEN "unknown"
                                      ELSE ContractEffect[c]]
<1>0. EntriesMatchCalls /\ EntriesMatchCalls'
  BY DEF IInv
<1>1. \A c \in CallIds : ContractEffect'[c] = Lost[c]
  <2> TAKE c \in CallIds
  <2>1. Lost[c] = IF ContractEffect[c] = "started" THEN "unknown" ELSE ContractEffect[c]
    OBVIOUS
  <2>2. calls[c] = "RUNNING" => executions[c] = 1
    BY DEF IInv, EntriesMatchCalls
  <2>3. CASE calls' = MarkUnknown
    <3>1. calls'[c] = IF calls[c] = "RUNNING" THEN "UNKNOWN" ELSE calls[c]
      BY <2>3 DEF MarkUnknown
    <3>2. QED
      BY <2>1, <2>2, <3>1, <1>0, EffectOf, EffectOfNext
  <2>4. CASE Running = {} /\ (executions[c] # 0 => calls'[c] = calls[c])
    <3>1. calls[c] # "RUNNING"
      BY <2>4 DEF Running
    <3>2. QED
      BY <2>1, <2>4, <3>1, <1>0, EffectOf, EffectOfNext
  <2>5. QED
    BY <2>3, <2>4
<1>2. ContractEffect' = [c \in CallIds |-> ContractEffect'[c]]
  BY DEF ContractEffect
<1>3. ContractEffect' = Lost
  BY <1>1, <1>2
<1>4. \A c \in CallIds : calls'[c] # "UNKNOWN" => ContractEffect'[c] # "unknown"
  BY <1>0, EffectOfNext
<1>5. Outcome = "open" /\ Outcome' = end
  BY DEF Outcome, Terminal
<1>6. Contract!Close(end)
  BY <1>3, <1>4, <1>5 DEF Contract!Close, Outcome
<1>7. QED
  BY <1>5, <1>6 DEF Contract!ContractNext, Outcome

\* A step that the contract does not see.
LEMMA Unseen ==
  ASSUME IInv, IInv', accepted' = accepted, Delivered' = Delivered, Outcome' = Outcome,
         executions' = executions,
         \A c \in CallIds : executions[c] # 0 => calls'[c] = calls[c]
  PROVE  UNCHANGED Contract!contractVars
BY SameEffect DEF Contract!contractVars, Outcome, IInv

\* A tool is entered.
LEMMA Enters ==
  ASSUME IInv, IInv', ~Terminal, NEW c \in CallIds, StartTool(c),
         calls[c] = "PENDING", Running = {},
         accepted' = accepted, Delivered' = Delivered, status' = status
  PROVE  Contract!ContractNext
<1>0. EntriesMatchCalls /\ EntriesMatchCalls'
  BY DEF IInv
<1>1. /\ calls \in [CallIds -> CallStatus \cup {"absent"}] /\ executions \in [CallIds -> Nat]
      /\ executions[c] = 0
  BY DEF IInv, TypeOK, EntriesMatchCalls
<1>2. \A d \in CallIds :
        /\ calls'[d] = IF d = c THEN "RUNNING" ELSE calls[d]
        /\ executions'[d] = IF d = c THEN 1 ELSE executions[d]
  BY <1>1 DEF StartTool
<1>3. \A d \in CallIds : ContractEffect'[d] = IF d = c THEN "started" ELSE ContractEffect[d]
  BY <1>2, <1>0, EffectOf, EffectOfNext
<1>4. ContractEffect' = [d \in CallIds |-> ContractEffect'[d]]
      /\ ContractEffect = [d \in CallIds |-> ContractEffect[d]]
  BY DEF ContractEffect
<1>5. ContractEffect' = [ContractEffect EXCEPT ![c] = "started"]
  BY <1>3, <1>4
<1>6. ContractEffect[c] = "none" /\ \A d \in CallIds : ContractEffect[d] # "started"
  <2>1. \A d \in CallIds : calls[d] # "RUNNING"
    BY DEF Running
  <2>2. QED
    BY <1>1, <2>1, <1>0, EffectOf
<1>7. Outcome = "open" /\ Outcome' = Outcome
  BY DEF Outcome, Terminal
<1>8. Contract!Start(c)
  BY <1>5, <1>6, <1>7 DEF Contract!Start, Outcome
<1>9. QED
  BY <1>7, <1>8 DEF Contract!ContractNext, Outcome

\* A tool answers.
LEMMA Settles ==
  ASSUME IInv, IInv', ~Terminal, NEW c \in Running, NEW error \in BOOLEAN,
         RecordOutput(<<c>>, error), executions' = executions,
         accepted' = accepted, Delivered' = Delivered, status' = status
  PROVE  Contract!ContractNext
<1>0. EntriesMatchCalls /\ EntriesMatchCalls'
  BY DEF IInv
<1>1. c \in CallIds /\ calls[c] = "RUNNING" /\ executions[c] = 1
  BY <1>0 DEF Running, EntriesMatchCalls
<1>2. ToSet(<<c>>) = {c}
  BY DEF ToSet
<1>3. \A d \in CallIds :
        calls'[d] = IF d = c THEN IF error THEN "FAILED" ELSE "SUCCEEDED" ELSE calls[d]
  BY <1>2 DEF RecordOutput
<1>4. \A d \in CallIds : ContractEffect'[d] = IF d = c THEN "certain" ELSE ContractEffect[d]
  BY <1>0, <1>1, <1>3, EffectOf, EffectOfNext
<1>5. ContractEffect' = [d \in CallIds |-> ContractEffect'[d]]
      /\ ContractEffect = [d \in CallIds |-> ContractEffect[d]]
  BY DEF ContractEffect
<1>6. ContractEffect' = [ContractEffect EXCEPT ![c] = "certain"]
  BY <1>4, <1>5
<1>7. ContractEffect[c] = "started"
  BY <1>0, <1>1, EffectOf
<1>8. Outcome = "open" /\ Outcome' = Outcome
  BY DEF Outcome, Terminal
<1>9. Contract!Settle(c)
  BY <1>6, <1>7, <1>8 DEF Contract!Settle, Outcome
<1>10. QED
  BY <1>1, <1>8, <1>9 DEF Contract!ContractNext, Outcome

LEMMA NothingRuns ==
  ASSUME IInv, pc # "executing"
  PROVE  Running = {}
BY DEF IInv, UncertainEffectEndsRun

\* Refusing calls that were not entered changes nothing in the world.
LEMMA RefusalUnseen ==
  ASSUME IInv, IInv', NEW ids \in Seq(CallIds), NEW error \in BOOLEAN,
         RecordOutput(ids, error), \A c \in ToSet(ids) : executions[c] = 0,
         executions' = executions, accepted' = accepted, Delivered' = Delivered,
         status' = status
  PROVE  UNCHANGED Contract!contractVars
<1>1. \A c \in CallIds : executions[c] # 0 => calls'[c] = calls[c]
  BY DEF RecordOutput
<1>2. Outcome' = Outcome
  BY DEF Outcome, Terminal
<1>3. QED
  BY <1>1, <1>2, Unseen

LEMMA RefusedUnseen ==
  ASSUME HInv, HInv', Pending # <<>>,
         RecordOutput(<<Head(Pending)>>, TRUE) \/ RecordOutput(Pending, TRUE),
         executions' = executions, accepted' = accepted, Delivered' = Delivered,
         status' = status
  PROVE  UNCHANGED Contract!contractVars
<1>1. IInv /\ IInv'
  BY DEF HInv
<1>2. CASE RecordOutput(Pending, TRUE)
  <2>1. Pending \in Seq(CallIds)
    BY <1>1, PendingProperties DEF IInv
  <2>2. QED
    BY <1>1, <1>2, <2>1, NotEntered, RefusalUnseen
<1>3. CASE RecordOutput(<<Head(Pending)>>, TRUE)
  <2> DEFINE ids == <<Head(Pending)>>
  <2>1. ids \in Seq(CallIds) /\ ToSet(ids) = {Head(Pending)}
    BY NotEntered DEF ToSet
  <2>2. \A c \in ToSet(ids) : executions[c] = 0
    BY <2>1, NotEntered
  <2> HIDE DEF ids
  <2>3. RecordOutput(ids, TRUE)
    BY <1>3 DEF ids
  <2>4. QED
    BY <1>1, <2>1, <2>2, <2>3, RefusalUnseen
<1>4. QED
  BY <1>2, <1>3

\* A proposal reaches only calls that were never entered.
LEMMA ProposalUnseen ==
  ASSUME HInv, NEW ids \in Replies, ModelReplies(ids)
  PROVE  \A c \in CallIds : executions[c] # 0 => calls'[c] = calls[c]
<1>1. CASE ~ValidHistory(Append(messages, Assistant(ids)))
  BY <1>1 DEF ModelReplies
<1>2. CASE ValidHistory(Append(messages, Assistant(ids)))
  <2>1. /\ ids \in Seq(CallIds) /\ messages \in Seq(MessageOf) /\ ValidHistory(messages)
        /\ Proposed(messages, Len(messages)) = ToSet(order)
    BY RepliesType DEF HInv, IInv, TypeOK, Told, Paired
  <2>2. ToSet(ids) \cap Proposed(messages, Len(messages)) = {}
    BY <1>2, <2>1, ReplyFollows
  <2>3. \A c \in CallIds : c \in ToSet(ids) => calls[c] = "absent"
    BY <2>1, <2>2 DEF HInv, Told, Ordered
  <2>4. \A c \in CallIds : c \in ToSet(ids) => executions[c] = 0
    BY <2>3 DEF HInv, IInv, EntriesMatchCalls
  <2>5. calls' = [c \in CallIds |-> IF c \in ToSet(ids) THEN "PENDING" ELSE calls[c]]
    BY <1>2 DEF ModelReplies
  <2>6. QED
    BY <2>4, <2>5
<1>3. QED
  BY <1>1, <1>2

\* Every step of the run is a step of the contract or unseen by it.
LEMMA HostContract ==
  ASSUME HInv, HInv', AppendMessage \/ Cancel \/ (\E mode \in BOOLEAN : Drive(mode))
  PROVE  Contract!ContractNext \/ UNCHANGED Contract!contractVars
<1>0. IInv /\ IInv'
  BY DEF HInv
<1>1. CASE AppendMessage
  <2>1. /\ ~Terminal /\ status' = status /\ accepted' = accepted + 1
        /\ queued' = Append(queued, Input(accepted + 1))
        /\ executions' = executions /\ calls' = calls
    BY <1>1 DEF AppendMessage, ending, record
  <2>2. accepted \in Nat /\ queued \in Seq(MessageOf) /\ Input(accepted + 1) \in MessageOf
    BY <1>0, MessageTypes, RunAssumption DEF IInv, TypeOK
  <2>3. Len(queued') = Len(queued) + 1 /\ Len(queued) \in Nat
    BY <2>1, <2>2, AppendProperties
  <2>4. Delivered' = Delivered
    BY <2>1, <2>2, <2>3 DEF Delivered
  <2>5. ContractEffect' = ContractEffect
    BY <1>0, <2>1, SameEffect DEF IInv
  <2>6. Outcome = "open" /\ Outcome' = Outcome
    BY <2>1 DEF Outcome, Terminal
  <2>7. Contract!Accept
    BY <2>1, <2>4, <2>5, <2>6 DEF Contract!Accept, Outcome
  <2>8. QED
    BY <2>6, <2>7 DEF Contract!ContractNext, Outcome
<1>2. CASE Cancel
  <2>1. /\ ~Terminal /\ accepted' = accepted /\ queued' = queued
        /\ executions' = executions /\ calls' = calls
        /\ IF pc = "idle" THEN status' = "CANCELLED" ELSE status' = status
    BY <1>2 DEF Cancel, Finish, ending, record, intake
  <2>2. Delivered' = Delivered
    BY <2>1 DEF Delivered
  <2>3. CASE pc = "idle"
    BY <1>0, <2>1, <2>2, <2>3, NothingRuns, Closes DEF TerminalStatus
  <2>4. CASE pc # "idle"
    <3>1. Outcome' = Outcome
      BY <2>1, <2>4 DEF Outcome, Terminal
    <3>2. QED
      BY <1>0, <2>1, <2>2, <3>1, Unseen
  <2>5. QED
    BY <2>3, <2>4
<1>3. CASE \E mode \in BOOLEAN : Drive(mode)
  <2>1. /\ ~Terminal /\ status' = "RUNNING" /\ accepted' = accepted /\ queued' = queued
        /\ executions' = executions /\ calls' = calls
    BY <1>3 DEF Drive, record, intake
  <2>2. Delivered' = Delivered /\ Outcome' = Outcome
    BY <2>1 DEF Delivered, Outcome, Terminal, TerminalStatus
  <2>3. QED
    BY <1>0, <2>1, <2>2, Unseen
<1>4. QED
  BY <1>1, <1>2, <1>3

LEMMA AdvanceContract ==
  ASSUME HInv, HInv', AdvanceReturns \/ LimitReached \/ BeginModelStep \/ BeginToolStep
  PROVE  Contract!ContractNext \/ UNCHANGED Contract!contractVars
<1>0. IInv /\ IInv'
  BY DEF HInv
<1>1. accepted' = accepted /\ queued' = queued /\ pc \in {"returned", "advance"}
  BY DEF AdvanceReturns, LimitReached, BeginModelStep, BeginToolStep, intake
<1>2. Delivered' = Delivered /\ Running = {}
  BY <1>0, <1>1, NothingRuns DEF Delivered
<1>3. CASE AdvanceReturns
  <2>1. executions' = executions /\ calls' = calls
    BY <1>3 DEF AdvanceReturns, record
  <2>2. CASE EndCancelled
    <3>1. status' = "CANCELLED" /\ ~Terminal
      BY <1>3, <2>2 DEF AdvanceReturns, EndCancelled, Finish
    <3>2. QED
      BY <1>0, <1>1, <1>2, <2>1, <3>1, Closes DEF TerminalStatus
  <2>3. CASE ~EndCancelled
    <3>1. status' = status
      BY <1>3, <2>3 DEF AdvanceReturns, ending
    <3>2. Outcome' = Outcome
      BY <3>1 DEF Outcome, Terminal
    <3>3. QED
      BY <1>0, <1>1, <1>2, <2>1, <3>2, Unseen
  <2>4. QED
    BY <2>2, <2>3
<1>4. CASE LimitReached
  <2>1. /\ executions' = executions /\ calls' = calls /\ status' = "LIMIT_REACHED"
        /\ pc = "advance"
    BY <1>4 DEF LimitReached, Finish, record
  <2>2. ~Terminal
    BY <2>1, DriverRuns DEF Terminal, TerminalStatus
  <2>3. QED
    BY <1>0, <1>1, <1>2, <2>1, <2>2, Closes DEF TerminalStatus
<1>5. CASE BeginModelStep
  <2>1. executions' = executions /\ calls' = calls /\ status' = status
    BY <1>5 DEF BeginModelStep, record, ending
  <2>2. Outcome' = Outcome
    BY <2>1 DEF Outcome, Terminal
  <2>3. QED
    BY <1>0, <1>1, <1>2, <2>1, <2>2, Unseen
<1>6. CASE BeginToolStep
  <2>1. status' = status /\ Pending # <<>> /\ pc = "advance"
    BY <1>6 DEF BeginToolStep, ending
  <2>2. ~Terminal /\ Outcome' = Outcome
    BY <2>1, DriverRuns DEF Outcome, Terminal, TerminalStatus
  <2>3. CASE RecordOutput(<<Head(Pending)>>, TRUE) /\ executions' = executions
    BY <1>1, <1>2, <2>1, <2>3, RefusedUnseen
  <2>4. CASE calls' = calls /\ executions' = executions
    BY <1>0, <1>1, <1>2, <2>2, <2>4, Unseen
  <2>5. CASE StartTool(Head(Pending))
    BY <1>0, <1>1, <1>2, <2>1, <2>2, <2>5, NotEntered, Enters
  <2>6. QED
    BY <1>6, <2>3, <2>4, <2>5 DEF BeginToolStep
<1>7. QED
  BY <1>3, <1>4, <1>5, <1>6

LEMMA AwaitContract ==
  ASSUME HInv, HInv',
         \/ AssembleReturns
         \/ \E ids \in Replies : ModelReplies(ids)
         \/ \E action \in {"ALLOW", "DENY", "RECONSIDER"} : PolicyDecides(action)
         \/ \E error \in BOOLEAN : ToolReturns(error)
  PROVE  Contract!ContractNext \/ UNCHANGED Contract!contractVars
<1>0. IInv /\ IInv'
  BY DEF HInv
<1>1. pc \in Awaits /\ accepted' = accepted
  BY DEF AssembleReturns, ModelReplies, PolicyDecides, ToolReturns, Awaits, intake
<1>2. status = "RUNNING" /\ ~Terminal /\ Outcome = "open"
  BY <1>1, DriverRuns DEF Awaits, Outcome, Terminal, TerminalStatus
<1>3. CASE AssembleReturns
  <2>1. executions' = executions /\ calls' = calls /\ status' = status
    BY <1>3 DEF AssembleReturns, ending
  <2>2. Outcome' = Outcome
    BY <2>1 DEF Outcome, Terminal
  <2>3. CASE AbandonStep
    <3>1. Delivered' = Delivered
      BY <1>1, <1>3, <2>3 DEF AssembleReturns, Delivered
    <3>2. QED
      BY <1>0, <1>1, <2>1, <2>2, <3>1, Unseen
  <2>4. CASE ~AbandonStep
    <3>1. /\ Delivered \in Nat /\ Delivered' = Delivered + Len(batch)
          /\ batch \in Seq(MessageOf) /\ Len(queued') \in Nat
      BY <1>3, <2>4, AssembledInputs
    <3>2. Delivered' \in Delivered..accepted
      <4>1. accepted \in Nat /\ Delivered' = accepted - Len(queued')
        BY <1>0, <1>1, RunAssumption DEF IInv, TypeOK, Delivered
      <4>2. Delivered' \in Int /\ Delivered <= Delivered' /\ Delivered' <= accepted
        BY <3>1, <4>1
      <4>3. QED
        BY <3>1, <4>1, <4>2
    <3>3. ContractEffect' = ContractEffect
      BY <1>0, <2>1, SameEffect DEF IInv
    <3>4. Contract!Deliver
      BY <1>1, <2>2, <3>2, <3>3 DEF Contract!Deliver, Outcome
    <3>5. QED
      BY <1>2, <3>4 DEF Contract!ContractNext, Outcome
  <2>5. QED
    BY <2>3, <2>4
<1>4. CASE \E ids \in Replies : ModelReplies(ids)
  <2>1. PICK ids \in Replies : ModelReplies(ids)
    BY <1>4
  <2>2. /\ queued' = queued /\ executions' = executions /\ pc = "inferring"
        /\ status' \in {"FAILED", "COMPLETED", status}
        /\ status' = "COMPLETED" => status' = status \/ queued = <<>>
    BY <2>1 DEF ModelReplies, Finish, FinalAnswer, intake, ending
  <2>3. Delivered' = Delivered /\ Running = {}
    BY <1>0, <1>1, <2>2, NothingRuns DEF Delivered
  <2>4. \A c \in CallIds : executions[c] # 0 => calls'[c] = calls[c]
    BY <2>1, ProposalUnseen
  <2>5. CASE status' = "FAILED"
    BY <1>0, <1>1, <1>2, <2>2, <2>3, <2>4, <2>5, Closes DEF TerminalStatus
  <2>6. CASE status' = "COMPLETED"
    <3>1. Len(queued) = 0 /\ accepted \in Nat
      BY <1>0, <1>2, <2>2, <2>6, RunAssumption DEF IInv, TypeOK
    <3>2. Delivered = accepted
      BY <3>1 DEF Delivered
    <3>3. \A c \in CallIds : calls'[c] # "UNKNOWN"
      BY <2>6 DEF HInv, Told, CompletedMeansAnswered
    <3>4. QED
      BY <1>0, <1>1, <1>2, <2>2, <2>3, <2>4, <2>6, <3>2, <3>3, Closes DEF TerminalStatus
  <2>7. CASE status' = status
    <3>1. Outcome' = Outcome
      BY <2>7 DEF Outcome, Terminal
    <3>2. QED
      BY <1>0, <1>1, <2>2, <2>3, <2>4, <3>1, Unseen
  <2>8. QED
    BY <2>2, <2>5, <2>6, <2>7
<1>5. CASE \E action \in {"ALLOW", "DENY", "RECONSIDER"} : PolicyDecides(action)
  <2>1. PICK action \in {"ALLOW", "DENY", "RECONSIDER"} : PolicyDecides(action)
    BY <1>5
  <2>2. queued' = queued /\ status' = status /\ pc = "policing"
    BY <2>1 DEF PolicyDecides, intake, ending
  <2>3. Delivered' = Delivered /\ Running = {} /\ Pending # <<>> /\ Outcome' = Outcome
    <3>1. Delivered' = Delivered /\ Outcome' = Outcome
      BY <1>1, <2>2 DEF Delivered, Outcome, Terminal
    <3>2. QED
      BY <1>0, <2>2, <3>1, NothingRuns DEF IInv, ControlPoints
  <2>4. CASE RecordOutput(Refused(action), TRUE) /\ executions' = executions
    <3>1. RecordOutput(<<Head(Pending)>>, TRUE) \/ RecordOutput(Pending, TRUE)
      BY <2>4 DEF Refused
    <3>2. QED
      BY <1>1, <2>2, <2>3, <2>4, <3>1, RefusedUnseen
  <2>5. CASE calls' = calls /\ executions' = executions
    BY <1>0, <1>1, <2>3, <2>5, Unseen
  <2>6. CASE StartTool(Head(Pending))
    BY <1>0, <1>1, <1>2, <2>2, <2>3, <2>6, NotEntered, Enters
  <2>7. QED
    BY <2>1, <2>4, <2>5, <2>6 DEF PolicyDecides
<1>6. CASE \E error \in BOOLEAN : ToolReturns(error)
  <2>1. PICK error \in BOOLEAN : ToolReturns(error)
    BY <1>6
  <2>2. PICK c \in Running : RecordOutput(<<c>>, error)
    BY <2>1 DEF ToolReturns
  <2>3. queued' = queued /\ status' = status /\ executions' = executions
    BY <2>1 DEF ToolReturns, intake, ending
  <2>4. Delivered' = Delivered
    BY <1>1, <2>3 DEF Delivered
  <2>5. QED
    BY <1>0, <1>1, <1>2, <2>2, <2>3, <2>4, Settles
<1>7. QED
  BY <1>3, <1>4, <1>5, <1>6

LEMMA InterruptionContract ==
  ASSUME HInv, HInv', ToolEffectUnknown \/ AwaitRaises \/ DriverCancelled
  PROVE  Contract!ContractNext
<1>1. /\ pc \in Awaits /\ accepted' = accepted /\ queued' = queued /\ calls' = MarkUnknown
      /\ executions' = executions /\ status' \in {"FAILED", "CANCELLED"}
  BY DEF ToolEffectUnknown, AwaitRaises, DriverCancelled, Finish, Awaits, intake
<1>2. Delivered' = Delivered
  BY <1>1 DEF Delivered
<1>3. ~Terminal
  BY <1>1, DriverRuns DEF Awaits, Terminal, TerminalStatus
<1>4. QED
  BY <1>1, <1>2, <1>3, Closes DEF HInv, TerminalStatus

LEMMA ContractStep ==
  HInv /\ [Next]_vars => [Contract!ContractNext]_(Contract!contractVars)
<1> SUFFICES ASSUME HInv, [Next]_vars
             PROVE  Contract!ContractNext \/ UNCHANGED Contract!contractVars
  OBVIOUS
<1>1. HInv'
  BY HInvInductive
<1>2. CASE UNCHANGED vars
  <2>1. /\ status' = status /\ calls' = calls /\ queued' = queued /\ accepted' = accepted
        /\ executions' = executions
    BY <1>2 DEF vars, ending, record, intake
  <2>2. Delivered' = Delivered /\ Outcome' = Outcome
    BY <2>1 DEF Delivered, Outcome, Terminal
  <2>3. QED
    BY <1>1, <2>1, <2>2, Unseen DEF HInv
<1>3. CASE Next
  BY <1>1, <1>3, HostContract, AdvanceContract, AwaitContract, InterruptionContract
     DEF Next, Driver, Host, AwaitReturns
<1>4. QED
  BY <1>2, <1>3

\* The run keeps RunContract: accepted messages are handed over once and in
\* order, a call takes effect at most once and one at a time, a lost effect
\* closes the run, and a run that is closed stays as it is.
THEOREM ImplementsContract == Spec => KeepsContract
<1>1. Init => Contract!ContractInit
  <2> SUFFICES ASSUME Init PROVE Contract!ContractInit
    OBVIOUS
  <2>1. /\ accepted = 0 /\ Len(queued) = 0 /\ status = "READY"
        /\ \A c \in CallIds : executions[c] = 0 /\ calls[c] = "absent"
    BY DEF Init
  <2>2. Delivered = 0
    BY <2>1 DEF Delivered
  <2>3. ContractEffect = [c \in CallIds |-> "none"]
    <3>1. \A c \in CallIds : ContractEffect[c] = "none"
      BY <2>1, InitIInv, EffectOf DEF IInv
    <3>2. ContractEffect = [c \in CallIds |-> ContractEffect[c]]
      BY DEF ContractEffect
    <3>3. QED
      BY <3>1, <3>2
  <2>4. Outcome = "open"
    BY <2>1 DEF Outcome, Terminal, TerminalStatus
  <2>5. QED
    BY <2>1, <2>2, <2>3, <2>4 DEF Contract!ContractInit, Outcome
<1>2. HInv /\ [Next]_vars => [Contract!ContractNext]_(Contract!contractVars)
  BY ContractStep
<1>3. QED
  BY <1>1, <1>2, HistoryInvariance, PTL DEF Spec, KeepsContract, Contract!Contract
=============================================================================
