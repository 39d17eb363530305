------------------------------ MODULE AgentRun ------------------------------
(***************************************************************************)
(* The ReAct run of aurora_agent: one driver, one model call or one tool   *)
(* call per advance, and hosts that queue input or ask for cancellation at *)
(* any await.  The run lives on one event loop, so two handlers interleave *)
(* only where the driver awaits: the assembler, the model, the policy and  *)
(* the tool.  The control points "advance" and "returned" lie between two  *)
(* awaits; hosts cannot act there (AtAwait).                               *)
(***************************************************************************)
EXTENDS Naturals, Sequences, SequencesExt

CONSTANTS CallIds,        \* call identities the model may propose
          MaxModelCalls,  \* RunLimits.max_model_calls
          MaxToolCalls,   \* RunLimits.max_tool_calls
          MaxBatch,       \* bound: calls proposed by one reply
          MaxInputs       \* bound: messages a host appends

ASSUME RunAssumption ==
  /\ MaxModelCalls \in Nat
  /\ MaxToolCalls \in Nat
  /\ MaxBatch \in Nat
  /\ MaxInputs \in Nat

VARIABLES
  status,           \* RunStatus
  messages,         \* the recorded history
  queued,           \* accepted input not delivered yet
  calls,            \* call id -> CallStatus, "absent" when never proposed
  order,            \* the proposed call ids, oldest first (dict order)
  modelCalls,       \* RunStats.model_calls
  toolCalls,        \* RunStats.tool_calls
  cancelRequested,
  pc,               \* where the driver is; "idle" when nobody drives
  continuous,       \* TRUE for run(), FALSE for step()
  policed,          \* whether a ToolPolicy is configured
  batch,            \* the queue as read before the assembler was awaited
  accepted,         \* history: number of messages accepted
  executions,       \* history: how often each call's tool was entered
  finishes          \* history: number of FINISHED events

ending == <<status, finishes>>
record == <<messages, calls, order, executions>>
intake == <<queued, accepted>>
stats == <<modelCalls, toolCalls>>
local == <<continuous, policed, batch>>
vars == <<ending, record, intake, stats, local, cancelRequested, pc>>

TerminalStatus == {"COMPLETED", "FAILED", "CANCELLED", "LIMIT_REACHED"}
RunStatus == {"READY", "RUNNING"} \cup TerminalStatus
CallStatus == {"PENDING", "RUNNING", "SUCCEEDED", "FAILED", "UNKNOWN"}
Awaits == {"assembling", "inferring", "policing", "executing"}

Terminal == status \in TerminalStatus
AtAwait == pc \in {"idle"} \cup Awaits

-----------------------------------------------------------------------------
\* Messages.  A message keeps what histories are told apart by: its role, the
\* input or call it belongs to, the calls it proposes and the error flag.

Input(n) == [role |-> "message", input |-> n, calls |-> <<>>, error |-> FALSE]
Assistant(ids) ==
  [role |-> "assistant", input |-> 0, calls |-> ids, error |-> FALSE]
ToolResult(c, error) ==
  [role |-> "tool", input |-> 0, calls |-> <<c>>, error |-> error]

Proposed(history, n) ==
  UNION {ToSet(history[i].calls) :
           i \in {j \in 1..n : history[j].role = "assistant"}}
Answered(history, n) ==
  UNION {ToSet(history[i].calls) :
           i \in {j \in 1..n : history[j].role = "tool"}}
Open(history, n) == Proposed(history, n) \ Answered(history, n)

\* Results answer an open call; anything else waits until no call is open;
\* no call id is ever proposed twice.
ValidHistory(history) ==
  \A i \in DOMAIN history :
    IF history[i].role = "tool"
    THEN ToSet(history[i].calls) \subseteq Open(history, i - 1)
    ELSE /\ Open(history, i - 1) = {}
         /\ history[i].role = "assistant" =>
              /\ ToSet(history[i].calls) \cap Proposed(history, i - 1) = {}
              /\ IsInjective(history[i].calls)

\* Operators named Bug_... are one-slip variants of the operator that follows
\* them.  No action uses them; substituted for it, each breaks a property below.

\* Calls still to be run, in the order they were proposed.  Calls are settled
\* from the front, so the filter over all records is the part of order that
\* begins at the first pending one (HistoryMatchesCalls checks it).
FirstPending ==
  CHOOSE n \in 1..Len(order) + 1 :
    /\ \A i \in 1..n - 1 : calls[order[i]] # "PENDING"
    /\ n <= Len(order) => calls[order[n]] = "PENDING"
Pending == SubSeq(order, FirstPending, Len(order))

-----------------------------------------------------------------------------
Init ==
  /\ status = "READY"
  /\ messages = <<Input(0)>>
  /\ queued = <<>>
  /\ calls = [c \in CallIds |-> "absent"]
  /\ order = <<>>
  /\ modelCalls = 0
  /\ toolCalls = 0
  /\ cancelRequested = FALSE
  /\ pc = "idle"
  /\ continuous = FALSE
  /\ policed \in BOOLEAN
  /\ batch = <<>>
  /\ accepted = 0
  /\ executions = [c \in CallIds |-> 0]
  /\ finishes = 0

\* What max_model_calls and max_tool_calls still allow.
Bug_ModelBudgetLeft == modelCalls <= MaxModelCalls
ModelBudgetLeft == modelCalls < MaxModelCalls
ToolBudgetLeft == toolCalls < MaxToolCalls

Finish(outcome) ==
  /\ status' = outcome
  /\ finishes' = finishes + 1

Bug_MarkUnknownRetry == [c \in CallIds |-> IF calls[c] = "RUNNING" THEN "PENDING"
                                                               ELSE calls[c]]
MarkUnknown == [c \in CallIds |-> IF calls[c] = "RUNNING" THEN "UNKNOWN"
                                                          ELSE calls[c]]

\* The answers recorded for ids, all with the same error flag.
RecordOutput(ids, error) ==
  /\ calls' = [c \in CallIds |->
                 IF c \in ToSet(ids)
                 THEN IF error THEN "FAILED" ELSE "SUCCEEDED"
                 ELSE calls[c]]
  /\ messages' = messages \o [i \in 1..Len(ids) |-> ToolResult(ids[i], error)]

-----------------------------------------------------------------------------
\* Hosts.

AppendMessage ==
  /\ AtAwait
  /\ ~Terminal
  /\ accepted < MaxInputs
  /\ accepted' = accepted + 1
  /\ queued' = Append(queued, Input(accepted + 1))
  /\ UNCHANGED <<ending, record, stats, local, cancelRequested, pc>>

\* Cooperative: the call in progress is awaited; without a driver the run
\* ends at once.
Cancel ==
  /\ AtAwait
  /\ ~Terminal
  /\ ~cancelRequested
  /\ cancelRequested' = TRUE
  /\ IF pc = "idle" THEN Finish("CANCELLED") ELSE UNCHANGED <<ending>>
  /\ UNCHANGED <<record, intake, stats, local, pc>>

\* step() or run(); a second driver is refused and changes nothing.
Drive(mode) ==
  /\ pc = "idle"
  /\ ~Terminal
  /\ status' = "RUNNING"
  /\ continuous' = mode
  /\ pc' = "advance"
  /\ UNCHANGED <<record, intake, stats, cancelRequested, policed, batch, finishes>>

-----------------------------------------------------------------------------
\* The driver between awaits.

\* The end of _advance and the head of the next one: with no await between
\* them the two tests of the cancel flag are one decision.
EndCancelled == cancelRequested /\ ~Terminal
Bug_NextAdvance == ~continuous /\ ~Terminal
NextAdvance == continuous /\ ~Terminal

AdvanceReturns ==
  /\ pc = "returned"
  /\ IF EndCancelled
     THEN Finish("CANCELLED") /\ pc' = "idle"
     ELSE /\ pc' = IF NextAdvance THEN "advance" ELSE "idle"
          /\ UNCHANGED <<ending>>
  /\ UNCHANGED <<record, intake, stats, local, cancelRequested>>

LimitReached ==
  /\ pc = "advance"
  /\ \/ Pending = <<>> /\ ~ModelBudgetLeft
     \/ Pending # <<>> /\ ~ToolBudgetLeft
  /\ Finish("LIMIT_REACHED")
  /\ pc' = "returned"
  /\ UNCHANGED <<record, intake, stats, local, cancelRequested>>

BeginModelStep ==
  /\ pc = "advance"
  /\ Pending = <<>>
  /\ ModelBudgetLeft
  /\ batch' = queued
  /\ pc' = "assembling"
  /\ UNCHANGED <<ending, record, intake, stats, cancelRequested, continuous, policed>>

StartTool(c) ==
  /\ toolCalls' = toolCalls + 1
  /\ calls' = [calls EXCEPT ![c] = "RUNNING"]
  /\ executions' = [executions EXCEPT ![c] = @ + 1]
  /\ pc' = "executing"
  /\ UNCHANGED messages

\* An unknown tool or arguments outside its schema are answered without the
\* policy and without counting as a tool call.
BeginToolStep ==
  /\ pc = "advance"
  /\ Pending # <<>>
  /\ ToolBudgetLeft
  /\ \/ /\ RecordOutput(<<Head(Pending)>>, TRUE)
        /\ pc' = "returned"
        /\ UNCHANGED <<toolCalls, executions>>
     \/ /\ policed
        /\ pc' = "policing"
        /\ UNCHANGED <<messages, calls, toolCalls, executions>>
     \/ /\ ~policed
        /\ StartTool(Head(Pending))
  /\ UNCHANGED <<ending, intake, local, order, modelCalls, cancelRequested>>

-----------------------------------------------------------------------------
\* The driver when an await resolves.

\* Both the assembler and the policy are followed by a second look at the flag.
Bug_AbandonStep == FALSE
AbandonStep == cancelRequested

Bug_LeftInQueue == <<>>
LeftInQueue == SubSeq(queued, Len(batch) + 1, Len(queued))

\* Delivery is confirmed only after assembly and the context budget; input
\* that arrived meanwhile stays queued.
AssembleReturns ==
  /\ pc = "assembling"
  /\ IF AbandonStep
     THEN pc' = "returned" /\ UNCHANGED <<messages, queued, modelCalls>>
     ELSE /\ messages' = messages \o batch
          /\ queued' = LeftInQueue
          /\ modelCalls' = modelCalls + 1
          /\ pc' = "inferring"
  /\ UNCHANGED <<ending, local, calls, order, toolCalls, cancelRequested, accepted, executions>>

FinalAnswer(ids) == ids = <<>> /\ queued = <<>> /\ ~cancelRequested

\* A reply whose history is invalid (a reused call id) fails the run without
\* being recorded; a final answer completes it unless input or a cancellation
\* arrived during inference.
ModelReplies(ids) ==
  /\ pc = "inferring"
  /\ LET updated == Append(messages, Assistant(ids)) IN
     IF ~ValidHistory(updated)
     THEN /\ Finish("FAILED")
          /\ pc' = "idle"
          /\ UNCHANGED <<messages, calls, order>>
     ELSE /\ messages' = updated
          /\ order' = order \o ids
          /\ calls' = [c \in CallIds |->
                         IF c \in ToSet(ids) THEN "PENDING" ELSE calls[c]]
          /\ pc' = "returned"
          /\ IF FinalAnswer(ids)
             THEN Finish("COMPLETED")
             ELSE UNCHANGED <<ending>>
  /\ UNCHANGED <<intake, stats, local, cancelRequested, executions>>

\* RECONSIDER answers every pending call, DENY only the one asked about.
Refused(action) == IF action = "RECONSIDER" THEN Pending ELSE <<Head(Pending)>>

\* A cancellation during the policy leaves the call unanswered.
PolicyDecides(action) ==
  /\ pc = "policing"
  /\ IF AbandonStep
     THEN pc' = "returned" /\ UNCHANGED <<messages, calls, toolCalls, executions>>
     ELSE \/ action = "ALLOW" /\ StartTool(Head(Pending))
          \/ /\ action # "ALLOW"
             /\ RecordOutput(Refused(action), TRUE)
             /\ pc' = "returned"
             /\ UNCHANGED <<toolCalls, executions>>
  /\ UNCHANGED <<ending, intake, local, order, modelCalls, cancelRequested>>

Running == {c \in CallIds : calls[c] = "RUNNING"}

\* A confirmed result or a confirmed failure is recorded even when the run
\* was cancelled while the tool ran.
ToolReturns(error) ==
  /\ pc = "executing"
  /\ \E c \in Running : RecordOutput(<<c>>, error)
  /\ pc' = "returned"
  /\ UNCHANGED <<ending, intake, stats, local, order, cancelRequested, executions>>

ToolEffectUnknown ==
  /\ pc = "executing"
  /\ calls' = MarkUnknown
  /\ Finish("FAILED")
  /\ pc' = "returned"
  /\ UNCHANGED <<intake, stats, local, messages, order, cancelRequested, executions>>

\* Any exception of an awaited service, or a context over its budget.
AwaitRaises ==
  /\ pc \in Awaits
  /\ calls' = MarkUnknown
  /\ Finish("FAILED")
  /\ pc' = "idle"
  /\ UNCHANGED <<intake, stats, local, messages, order, cancelRequested, executions>>

\* The task that drives the run is cancelled at an await.
DriverCancelled ==
  /\ pc \in Awaits
  /\ cancelRequested' = TRUE
  /\ calls' = MarkUnknown
  /\ Finish("CANCELLED")
  /\ pc' = "idle"
  /\ UNCHANGED <<intake, stats, local, messages, order, executions>>

-----------------------------------------------------------------------------
Replies == UNION {[1..n -> CallIds] : n \in 0..MaxBatch}

AwaitReturns ==
  \/ AssembleReturns
  \/ \E ids \in Replies : ModelReplies(ids)
  \/ \E action \in {"ALLOW", "DENY", "RECONSIDER"} : PolicyDecides(action)
  \/ \E error \in BOOLEAN : ToolReturns(error)
  \/ ToolEffectUnknown

Driver ==
  \/ AdvanceReturns
  \/ LimitReached
  \/ BeginModelStep
  \/ BeginToolStep
  \/ AwaitReturns
  \/ AwaitRaises

Host ==
  \/ AppendMessage
  \/ Cancel
  \/ \E mode \in BOOLEAN : Drive(mode)
  \/ DriverCancelled

Next == Driver \/ Host

Spec == Init /\ [][Next]_vars

\* Awaited services answer or fail; hosts owe nothing.
FairSpec == Spec /\ WF_vars(Driver)
-----------------------------------------------------------------------------
\* Properties.

MessageOf ==
  [role : {"message"}, input : Nat, calls : {<<>>}, error : {FALSE}]
  \cup [role : {"assistant"}, input : {0}, calls : Seq(CallIds), error : {FALSE}]
  \cup [role : {"tool"}, input : {0}, calls : Seq(CallIds), error : BOOLEAN]

\* Types and limits: the counters of RunStats never exceed RunLimits, however
\* the model and the tools behave.
TypeOK ==
  /\ status \in RunStatus
  /\ messages \in Seq(MessageOf)
  /\ queued \in Seq(MessageOf)
  /\ batch \in Seq(MessageOf)
  /\ calls \in [CallIds -> CallStatus \cup {"absent"}]
  /\ order \in Seq(CallIds)
  /\ modelCalls \in 0..MaxModelCalls
  /\ toolCalls \in 0..MaxToolCalls
  /\ cancelRequested \in BOOLEAN
  /\ pc \in {"advance", "returned", "idle"} \cup Awaits
  /\ continuous \in BOOLEAN
  /\ policed \in BOOLEAN
  /\ accepted \in 0..MaxInputs
  /\ executions \in [CallIds -> Nat]
  /\ finishes \in Nat

\* At every await the recorded history is one that validate_history accepts
\* with pending calls, and the calls it leaves open are exactly those whose
\* record is not settled: queued input, policy answers and results interleave
\* without ever splitting a call from its answer.
HistoryMatchesCalls ==
  /\ ValidHistory(messages)
  /\ Open(messages, Len(messages)) =
       {c \in CallIds : calls[c] \in {"PENDING", "RUNNING", "UNKNOWN"}}
  /\ Proposed(messages, Len(messages)) = ToSet(order)
  /\ ToSet(Pending) = {c \in CallIds : calls[c] = "PENDING"}

\* Every message append_message accepted is in the history or in the queue,
\* exactly once and in the order of acceptance, whatever arrives while the
\* assembler or the model is awaited.
Delivered == accepted - Len(queued)
IsInput(m) == m.role = "message"
InputsKeptInOrder ==
  /\ Len(queued) <= accepted
  /\ \A i \in DOMAIN queued : queued[i] = Input(Delivered + i)
  /\ \A i \in DOMAIN messages : IsInput(messages[i]) => messages[i].input <= Delivered
  /\ \A n \in 0..Delivered : \E i \in DOMAIN messages : messages[i] = Input(n)
  /\ \A i, j \in DOMAIN messages :
       IsInput(messages[i]) /\ IsInput(messages[j]) /\ i < j =>
         messages[i].input < messages[j].input

\* A completed run has answered all it accepted: nothing queued, every call
\* settled, no cancellation requested, and its last message is the answer.
CompletedMeansAnswered ==
  status = "COMPLETED" =>
    /\ queued = <<>>
    /\ ~cancelRequested
    /\ \A c \in CallIds : calls[c] \in {"absent", "SUCCEEDED", "FAILED"}
    /\ messages[Len(messages)] = Assistant(<<>>)

\* The history is complete at every await: paired calls, every input in its
\* place, and an answer where the run claims to have completed.
HistorySound == HistoryMatchesCalls /\ InputsKeptInOrder /\ CompletedMeansAnswered

\* A call is RUNNING only while its tool is awaited, and a call whose effect
\* is unknown has ended the run.
UncertainEffectEndsRun ==
  /\ Running # {} => pc = "executing" /\ status = "RUNNING"
  /\ \A c, d \in Running : c = d
  /\ (\E c \in CallIds : calls[c] = "UNKNOWN") =>
       status \in {"FAILED", "CANCELLED"}

\* No call's tool is entered twice and a call is entered before it can be
\* running, succeeded or unknown: nothing is replayed.
ExecutedAtMostOnce ==
  \A c \in CallIds :
    /\ executions[c] <= 1
    /\ calls[c] \in {"absent", "PENDING"} => executions[c] = 0
    /\ calls[c] \in {"RUNNING", "SUCCEEDED", "UNKNOWN"} => executions[c] = 1

\* Once cancellation is requested no model call and no tool starts, and the
\* queue is not delivered any more.
NoNewWorkAfterCancel ==
  [][cancelRequested =>
       UNCHANGED <<modelCalls, toolCalls, executions>>]_vars

\* A terminal run never changes again: status, result, history, queue and
\* call records are frozen, and it finished exactly once.
TerminalAbsorbing ==
  [][Terminal => UNCHANGED <<status, messages, queued, calls, modelCalls,
                             toolCalls, executions, finishes>>]_vars

\* A requested cancellation ends the run once the awaited service answers.
CancelEnds == cancelRequested ~> Terminal

\* run() ends: every model and tool call is counted against a limit, and
\* calls that are not counted are used up.
RunEnds == (pc # "idle" /\ continuous) ~> Terminal

\* A run comes to an end by cancellation and by itself.
Ends == CancelEnds /\ RunEnds

\* The run keeps what RunContract promises.
ContractEffect ==
  [c \in CallIds |->
     CASE executions[c] = 0 -> "none"
       [] calls[c] = "RUNNING" -> "started"
       [] calls[c] = "UNKNOWN" -> "unknown"
       [] OTHER -> "certain"]
Contract ==
  INSTANCE RunContract WITH
    Outcomes <- TerminalStatus,
    given <- accepted,
    delivered <- Delivered,
    effect <- ContractEffect,
    outcome <- IF Terminal THEN status ELSE "open"
KeepsContract == Contract!Contract
-----------------------------------------------------------------------------
\* The inductive invariant behind TypeOK, UncertainEffectEndsRun,
\* ExecutedAtMostOnce, NoNewWorkAfterCancel and TerminalAbsorbing.

\* A budget tested before an await still holds after it.
BudgetHeld ==
  /\ pc = "assembling" => ModelBudgetLeft
  /\ pc = "policing" => ToolBudgetLeft

\* Where the driver may be in each status, and where a cancellation is pending.
ControlPoints ==
  /\ Terminal => pc \in {"idle", "returned"}
  /\ pc = "advance" => ~cancelRequested
  /\ pc = "idle" /\ cancelRequested => Terminal
  /\ pc \notin {"idle", "returned"} => status = "RUNNING"
  /\ pc = "returned" => status # "READY"
  /\ pc = "policing" => Pending # <<>>
  /\ finishes = IF Terminal THEN 1 ELSE 0

\* The call entered last is the only one without an outcome.
EntriesMatchCalls ==
  \A c \in CallIds :
    /\ calls[c] \in {"absent", "PENDING"} => executions[c] = 0
    /\ calls[c] \in {"RUNNING", "SUCCEEDED", "UNKNOWN"} => executions[c] = 1
    /\ calls[c] = "FAILED" => executions[c] \in {0, 1}

\* A call with a record was proposed in the history.
RecordsProposed ==
  /\ ToSet(order) \subseteq Proposed(messages, Len(messages))
  /\ \A c \in CallIds :
       calls[c] # "absent" => c \in Proposed(messages, Len(messages))

\* What makes every run finish once, act within its limits and never replay.
IInv ==
  /\ TypeOK
  /\ BudgetHeld
  /\ ControlPoints
  /\ EntriesMatchCalls
  /\ RecordsProposed
  /\ UncertainEffectEndsRun
=============================================================================
