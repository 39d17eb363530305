----------------------------- MODULE EngineRun -----------------------------
(***************************************************************************)
(* One execution of a cognition run by the engine: the loop that advances  *)
(* the ReAct run of AgentRun step by step, the hooks around the steps, and *)
(* the ledger that records requests, disclosures, results and the end of   *)
(* the run in the world journal while other writers append to the same     *)
(* scopes.                                                                 *)
(*                                                                         *)
(* The journal is the sequence WorldJournal specifies: a commit's number   *)
(* within a scope is its rank among the commits of that scope (there,      *)
(* DenseSequences).  An append is one step, because the journal holds its  *)
(* lock over it; what may happen to the appending task around that step is *)
(* modelled by the actions called Interrupt...                             *)
(***************************************************************************)
EXTENDS Naturals, Sequences, FiniteSets, SequencesExt

CONSTANTS CallIds, MaxModelCalls, MaxToolCalls, MaxBatch, MaxInputs,
          HostInputs,     \* bound: messages the host appends
          MaxWorld,       \* bound: commits of other writers
          Scopes,         \* world scopes, the run's own scope left out
          RequestScopes,  \* the scopes of the request's frontier
          Catalog,        \* the calls that name a tool of the agent's catalogue
          Observe,        \* call -> ToolScopes.observe
          Publish,        \* call -> ToolScopes.publish
          PageSize        \* page_size of the journal

ASSUME EngineAssumption ==
  /\ RequestScopes \subseteq Scopes
  /\ Catalog \subseteq CallIds
  /\ Observe \in [CallIds -> SUBSET Scopes]
  /\ Publish \in [CallIds -> SUBSET Scopes]
  /\ PageSize \in Nat \ {0}
  /\ MaxModelCalls \in Nat
  /\ MaxToolCalls \in Nat
  /\ MaxBatch \in Nat
  /\ HostInputs \in Nat
  /\ MaxWorld \in Nat
  /\ MaxInputs = HostInputs + MaxModelCalls  \* a model call adds one delta at most

VARIABLES
  status, messages, queued, calls, order, modelCalls, toolCalls,
  cancelRequested, pc, continuous, policed, batch, accepted, executions, finishes

agentVars == <<status, messages, queued, calls, order, modelCalls, toolCalls,
               cancelRequested, pc, continuous, policed, batch, accepted,
               executions, finishes>>

Agent == INSTANCE AgentRun

VARIABLES
  log,        \* the journal: commits of this run and of other writers
  at,         \* where execute() is, see Places
  sub,        \* inside a step: what the session does for the agent
  reply,      \* the calls of the model's answer, while it is being recorded
  failure,    \* "none", "error" or "cancelled": what broke the loop or step
  settling,   \* the shielded settlement runs
  ended,      \* whether the snapshot being recorded is terminal
  frontier,   \* RunLedger.frontier over Scopes
  observed,   \* RunLedger.observations
  reviewed,   \* RunLedger.reviewed
  moreToCome, \* has_more of the page being disclosed
  sealed,     \* keys of RunLedger.scopes
  recorded,   \* RunLedger.recorded
  notified,   \* RunSession.notified
  published,  \* RunLedger.output_committed
  finished,   \* RunLedger.finished
  disclosed,  \* history: positions in the log shown to the model
  arrived     \* history: Len(log) at the last look at the world

world == <<frontier, observed, reviewed, moreToCome, disclosed, arrived>>
ledger == <<sealed, recorded, notified, published, finished>>
control == <<at, sub, reply, failure, settling, ended>>
vars == <<agentVars, log, world, ledger, control>>

Places ==
  {"lookup", "claim",      \* execute() before the run is claimed
   "before",               \* engine:before_step
   "step",                 \* inside Run.step
   "record", "notify",     \* record_calls, and engine:after_tool in it
   "output", "finish",     \* RunLedger.finish
   "after",                \* observer called, engine:after_step
   "returned", "raised",   \* execute() is over, the run is settled
   "refused",              \* another execution owns the run id
   "abandoned",            \* interrupted before the claim was confirmed
   "unsettled"}            \* the settlement itself failed
Over == {"returned", "raised", "refused", "abandoned", "unsettled"}
Subs == {"none", "request", "model", "failed", "completed", "delta", "disclose",
         "reply", "seal", "hook"}

Statuses == Agent!RunStatus
Settled(c) == calls[c] \in {"SUCCEEDED", "FAILED", "UNKNOWN"}
Executed(c) == executions[c] > 0

-----------------------------------------------------------------------------
\* The journal.

Position(rows, i, s) == Cardinality({j \in 1..i : s \in rows[j].scopes})

Commit(kind, ref, scopes, result) ==
  [kind |-> kind, ref |-> ref, scopes |-> scopes, result |-> result,
   known |-> frontier]

\* The commit id is made of the kind and the reference.
SameId(r, q) == r.kind = q.kind /\ r.ref = q.ref
Stored(r) == \E i \in DOMAIN log : SameId(log[i], r)
Differs(r) == \E i \in DOMAIN log : SameId(log[i], r) /\ log[i] # r

\* The elements of a sequence that a set keeps, in their order.
Chosen(seq, keep) ==
  LET f[n \in 0..Len(seq)] ==
        IF n = 0 THEN <<>>
        ELSE IF seq[n] \in keep THEN Append(f[n - 1], seq[n]) ELSE f[n - 1]
  IN  f[Len(seq)]

\* Operators named Bug_... are one-slip variants of the operator that follows
\* them.  No action uses them; substituted for it, each breaks a property below.

\* RunLedger.append and seal: the frontier follows the scopes of the commit,
\* whoever wrote to them in the meantime.
Advanced(rows, recs) ==
  [s \in Scopes |->
     LET mine == {i \in DOMAIN rows : s \in rows[i].scopes /\
                    \E r \in DOMAIN recs : SameId(rows[i], recs[r])}
     IN  IF mine = {} THEN frontier[s]
         ELSE Position(rows, CHOOSE i \in mine : \A j \in mine : j <= i, s)]

\* Commits that are already there are kept, a different one under the same id
\* is an error.
Land(recs) ==
  /\ \A r \in DOMAIN recs : ~Differs(recs[r])
  /\ log' = log \o Chosen(recs, {r \in ToSet(recs) : ~Stored(r)})
Append1(recs) ==
  /\ Land(recs)
  /\ frontier' = Advanced(log', recs)

-----------------------------------------------------------------------------
\* What the ledger is about to write at each place that awaits an append.

\* A hook that breaks the loop makes a cancelled run a failed one.
RunStatusRecorded ==
  IF status = "CANCELLED" /\ failure = "error" THEN "FAILED" ELSE status

Bug_ToRecordLate ==
  {c \in CallIds : Settled(c) /\ c \notin recorded /\ (ended => settling)}
ToRecord == {c \in CallIds : Settled(c) /\ c \notin recorded}
NextToRecord ==
  CHOOSE c \in ToRecord :
    \E n \in DOMAIN order : /\ order[n] = c
                            /\ \A m \in 1..n - 1 : order[m] \notin ToRecord

Pending == Agent!Pending

\* The pending calls of the catalogue: only those are resolved and requested.
Visible == Chosen(Pending, Catalog)
PublishOf(c) == IF c \in sealed THEN Publish[c] ELSE {}

ClaimRecord == Commit("started", "run", {}, "us")

Writing ==
  CASE at = "claim" -> <<ClaimRecord>>
    [] at = "step" /\ sub = "request" ->
         <<Commit("model.requested", modelCalls, {}, "")>>
    [] at = "step" /\ sub = "failed" ->
         <<Commit("model.failed", modelCalls, {}, "")>>
    [] at = "step" /\ sub = "completed" ->
         <<Commit("model.completed", modelCalls, {}, Len(reply))>>
    [] at = "step" /\ sub = "disclose" /\ pc = "inferring" ->
         <<Commit("model.delta", modelCalls, {}, Cardinality(disclosed))>>
    [] at = "step" /\ sub = "disclose" /\ pc = "policing" ->
         <<Commit("tool.delta", Pending[1], {}, Cardinality(disclosed))>>
    [] at = "step" /\ sub = "seal" ->
         [n \in DOMAIN Visible |->
            Commit("tool.requested", Visible[n], Publish[Visible[n]], "")]
    [] at = "record" /\ ToRecord # {} ->
         LET c == NextToRecord
         IN  <<Commit("tool.result", c, PublishOf(c), calls[c])>>
    [] at = "output" -> <<Commit("output", "run", {}, "")>>
    [] at = "finish" -> <<Commit("finished", "run", {}, RunStatusRecorded)>>
    [] OTHER -> <<>>

-----------------------------------------------------------------------------
Init ==
  /\ Agent!Init
  /\ policed = TRUE
  /\ log = <<>>
  /\ at = "lookup"
  /\ sub = "none"
  /\ reply = <<>>
  /\ failure = "none"
  /\ settling = FALSE
  /\ ended = FALSE
  /\ frontier = [s \in Scopes |-> 0]
  /\ observed = RequestScopes
  /\ reviewed = FALSE
  /\ moreToCome = FALSE
  /\ sealed = {}
  /\ recorded = {}
  /\ notified = {}
  /\ published = FALSE
  /\ finished = FALSE
  /\ disclosed = {}
  /\ arrived = 0

-----------------------------------------------------------------------------
\* Other actors.  The control point sub = "reply" lies between two awaits.

AtAwait == at \notin Over /\ sub # "reply"

\* Another process appends to scopes the run may observe or publish to.
WorldCommit(scopes) ==
  /\ AtAwait
  /\ LET n == Cardinality({i \in DOMAIN log : log[i].kind = "world"}) IN
     /\ n < MaxWorld
     /\ log' = Append(log, [Commit("world", n + 1, scopes, "")
                              EXCEPT !.known = [s \in Scopes |-> 0]])
  /\ UNCHANGED <<agentVars, world, ledger, control>>

\* An execution of the same run id in another process.
RivalStarts ==
  /\ at \in {"lookup", "claim"}
  /\ LET claim == Commit("started", "run", {}, "rival") IN
     /\ ~Stored(claim)
     /\ log' = Append(log, claim)
  /\ UNCHANGED <<agentVars, world, ledger, control>>

HostCancels ==
  /\ AtAwait
  /\ Agent!Cancel
  /\ UNCHANGED <<log, world, ledger, control>>

HostAppends ==
  /\ AtAwait
  /\ accepted < HostInputs
  /\ Agent!AppendMessage
  /\ UNCHANGED <<log, world, ledger, control>>

-----------------------------------------------------------------------------
\* execute() outside of steps.

\* The settlement records what is missing, whatever broke the loop.
EnterSettlement(cause) ==
  /\ at' = "record"
  /\ sub' = "none"
  /\ failure' = cause
  /\ settling' = TRUE
  /\ ended' = TRUE
  /\ UNCHANGED reply

\* A run that has not ended is cancelled first.
Bug_EndAgent ==
  /\ IF Agent!Terminal THEN UNCHANGED <<status, finishes>> ELSE Agent!Finish("CANCELLED")
  /\ UNCHANGED <<messages, queued, calls, order, modelCalls, toolCalls,
                 cancelRequested, pc, continuous, policed, batch, accepted, executions>>
EndAgent == IF Agent!Terminal THEN UNCHANGED agentVars ELSE Agent!Cancel

Settle(cause) == EnterSettlement(cause) /\ EndAgent

Bug_KeepsLooping == TRUE
KeepsLooping == ~Agent!Terminal

GoTo(place) == at' = place /\ UNCHANGED <<sub, reply, failure, settling, ended>>

Lookup ==
  /\ at = "lookup"
  /\ GoTo(IF \E i \in DOMAIN log : log[i].kind = "started"
          THEN "refused" ELSE "claim")
  /\ UNCHANGED <<agentVars, log, world, ledger>>

\* The claim carries an identity of this execution: a rival's claim under the
\* same commit id is a conflict.
Claim ==
  /\ at = "claim"
  /\ \/ /\ Differs(Writing[1])
        /\ GoTo("refused")
        /\ UNCHANGED <<agentVars, log, frontier>>
     \/ /\ Append1(Writing)
        /\ IF KeepsLooping
           THEN GoTo("before") /\ UNCHANGED agentVars
           ELSE Settle("none")
  /\ UNCHANGED <<observed, reviewed, moreToCome, disclosed, arrived, ledger>>

\* A run cancelled during the hook is not stepped any more.
BeforeStep ==
  /\ at = "before"
  /\ IF Agent!Terminal
     THEN /\ at' = "record"
          /\ ended' = TRUE
          /\ UNCHANGED <<agentVars, sub, reply, failure, settling>>
     ELSE Agent!Drive(FALSE) /\ GoTo("step")
  /\ UNCHANGED <<log, world, ledger>>

Record ==
  /\ at = "record"
  /\ ToRecord # {}
  /\ LET c == NextToRecord IN
     /\ Append1(Writing)
     /\ recorded' = recorded \cup {c}
     /\ IF Executed(c) /\ c \notin notified
        THEN notified' = notified \cup {c} /\ GoTo("notify")
        ELSE UNCHANGED <<notified, control>>
  /\ UNCHANGED <<agentVars, observed, reviewed, moreToCome, disclosed, arrived,
                 sealed, published, finished>>

NotifyReturns ==
  /\ at = "notify"
  /\ GoTo("record")
  /\ UNCHANGED <<agentVars, log, world, ledger>>

\* Once finished, the caller is told; a cancellation that arrived during the
\* settlement is raised instead of the result.
Leave ==
  \/ ~settling /\ GoTo("after")
  \/ settling /\ failure = "none" /\ GoTo("returned")
  \/ settling /\ GoTo("raised")

\* The output comes before the end, and only a completed run has one.
Bug_Closing == "finish"
Closing == IF status = "COMPLETED" /\ ~published THEN "output" ELSE "finish"

RecordsDone ==
  /\ at = "record"
  /\ ToRecord = {}
  /\ reviewed' = (reviewed /\ ~(/\ Last(messages).role = "tool"
                                /\ sealed # {}
                                /\ Pending = <<>>))
  /\ IF finished \/ ~ended
     THEN Leave
     ELSE GoTo(Closing)
  /\ UNCHANGED <<agentVars, log, frontier, observed, moreToCome, disclosed,
                 arrived, ledger>>

CommitOutput ==
  /\ at = "output"
  /\ Append1(Writing)
  /\ published' = TRUE
  /\ GoTo("finish")
  /\ UNCHANGED <<agentVars, observed, reviewed, moreToCome, disclosed, arrived,
                 sealed, recorded, notified, finished>>

Finish ==
  /\ at = "finish"
  /\ Append1(Writing)
  /\ finished' = TRUE
  /\ Leave
  /\ UNCHANGED <<agentVars, observed, reviewed, moreToCome, disclosed, arrived,
                 sealed, recorded, notified, published>>

AfterStep ==
  /\ at = "after"
  /\ IF KeepsLooping
     THEN GoTo("before") /\ UNCHANGED agentVars
     ELSE Settle("none")
  /\ UNCHANGED <<log, world, ledger>>

-----------------------------------------------------------------------------
\* Inside a step.

\* The step is over when the driver of the run is idle again.
Stepped(next) ==
  /\ sub' = next
  /\ at' = IF pc' = "idle" THEN "record" ELSE "step"
  /\ ended' = (pc' = "idle" /\ status' \in Agent!TerminalStatus)
  /\ UNCHANGED <<reply, failure, settling>>

AgentAdvances ==
  /\ at = "step"
  /\ Agent!AdvanceReturns \/ Agent!LimitReached \/ Agent!BeginModelStep
  /\ Stepped("none")
  /\ UNCHANGED <<log, world, ledger>>

Assembled ==
  /\ at = "step"
  /\ Agent!AssembleReturns
  /\ Stepped(IF pc' = "inferring" THEN "request" ELSE "none")
  /\ UNCHANGED <<log, world, ledger>>

RequestModel ==
  /\ at = "step"
  /\ sub = "request"
  /\ Append1(Writing)
  /\ sub' = "model"
  /\ UNCHANGED <<agentVars, observed, reviewed, moreToCome, disclosed, arrived,
                 ledger, at, reply, failure, settling, ended>>

ModelAnswers(ids) ==
  /\ at = "step"
  /\ sub = "model"
  /\ reply' = ids
  /\ sub' = "completed"
  /\ UNCHANGED <<agentVars, log, world, ledger, at, failure, settling, ended>>

\* An error or a cancellation of the model call is recorded before it is raised.
ModelFails ==
  /\ at = "step"
  /\ sub = "model"
  /\ sub' = "failed"
  /\ UNCHANGED <<agentVars, log, world, ledger, at, reply, failure, settling, ended>>

\* Only a final answer makes the session look at the world again.
RecordAnswer ==
  /\ at = "step"
  /\ sub = "completed"
  /\ Append1(Writing)
  /\ sub' = IF reply = <<>> /\ ~reviewed THEN "delta" ELSE "reply"
  /\ UNCHANGED <<agentVars, observed, reviewed, moreToCome, disclosed, arrived,
                 ledger, at, reply, failure, settling, ended>>

AgentGetsReply ==
  /\ at = "step"
  /\ sub = "reply"
  /\ Agent!ModelReplies(reply)
  /\ sub' = "none"
  /\ at' = IF pc' = "idle" THEN "record" ELSE "step"
  /\ ended' = (pc' = "idle")
  /\ reply' = <<>>
  /\ UNCHANGED <<log, world, ledger, failure, settling>>

\* before_tool: a sealed call goes ahead; the others widen the observed scopes
\* and need a look at the world unless the model has just reviewed it.
Bug_FirstLook == IF reviewed THEN "hook" ELSE "delta"
FirstLook == IF reviewed THEN "seal" ELSE "delta"

BeginTool ==
  /\ at = "step"
  /\ Agent!BeginToolStep
  /\ pc' = "policing" => Pending[1] \in Catalog
  /\ IF pc' # "policing"
     THEN Stepped("none") /\ UNCHANGED observed
     ELSE IF Pending[1] \in sealed
          THEN Stepped("hook") /\ UNCHANGED observed
          ELSE /\ observed' = observed \cup UNION {Observe[c] : c \in ToSet(Visible)}
               /\ Stepped(FirstLook)
  /\ UNCHANGED <<log, frontier, reviewed, moreToCome, disclosed, arrived, ledger>>

Beyond(i, front) ==
  \E s \in observed : s \in log[i].scopes /\ Position(log, i, s) > front[s]
Ahead(front) == {i \in DOMAIN log : Beyond(i, front)}
Page == LET ahead == Ahead(frontier)
        IN  {i \in ahead : Cardinality({j \in ahead : j < i}) < PageSize}

\* The frontier at the end of a page.
Bug_PageEnd(page) ==
  [s \in Scopes |-> IF s \in observed THEN Position(log, Len(log), s) ELSE frontier[s]]
PageEnd(page) ==
  [s \in Scopes |->
     LET shown == {i \in page : s \in observed /\ s \in log[i].scopes}
         top == Position(log, CHOOSE i \in shown : \A j \in shown : j <= i, s)
     IN  IF shown # {} /\ top > frontier[s] THEN top ELSE frontier[s]]

LookAtWorld ==
  /\ at = "step"
  /\ sub = "delta"
  /\ arrived' = Len(log)
  /\ IF Page = {}
     THEN /\ sub' = IF pc = "policing" THEN "seal" ELSE "reply"
          /\ UNCHANGED <<frontier, moreToCome, disclosed>>
     ELSE /\ frontier' = PageEnd(Page)
          /\ moreToCome' = (Ahead(PageEnd(Page)) # {})
          /\ disclosed' = disclosed \cup Page
          /\ sub' = "disclose"
  /\ UNCHANGED <<agentVars, log, observed, reviewed, ledger, at, reply, failure,
                 settling, ended>>

\* Before a tool the news answers every pending call; before a final answer it
\* becomes one more message.
Disclose ==
  /\ at = "step"
  /\ sub = "disclose"
  /\ Append1(Writing)
  /\ reviewed' = ~moreToCome
  /\ IF pc = "policing"
     THEN Agent!PolicyDecides("RECONSIDER") /\ Stepped("none")
     ELSE Agent!AppendMessage /\ Stepped("reply")
  /\ UNCHANGED <<observed, moreToCome, disclosed, arrived, ledger>>

Seal ==
  /\ at = "step"
  /\ sub = "seal"
  /\ Append1(Writing)
  /\ sealed' = sealed \cup ToSet(Visible)
  /\ sub' = "hook"
  /\ UNCHANGED <<agentVars, observed, reviewed, moreToCome, disclosed, arrived,
                 recorded, notified, published, finished,
                 at, reply, failure, settling, ended>>

ToolAllowed ==
  /\ at = "step"
  /\ sub = "hook"
  /\ Agent!PolicyDecides("ALLOW")
  /\ Stepped("none")
  /\ UNCHANGED <<log, world, ledger>>

ToolEnds ==
  /\ at = "step"
  /\ (\E error \in BOOLEAN : Agent!ToolReturns(error)) \/ Agent!ToolEffectUnknown
  /\ Stepped("none")
  /\ UNCHANGED <<log, world, ledger>>

-----------------------------------------------------------------------------
\* Interruptions: an exception, or the cancellation of the task that executes
\* the run.  A cancelled append may have been committed.

MayHaveLanded == UNCHANGED log \/ (Writing # <<>> /\ Land(Writing))

InterruptClaim ==
  /\ at \in {"lookup", "claim"}
  /\ MayHaveLanded
  /\ GoTo("abandoned")
  /\ UNCHANGED <<agentVars, world, ledger>>

\* A ModelError or an exceeded budget ends the run without leaving step().
StepRaises ==
  /\ at = "step"
  /\ sub \notin {"model", "reply"}
  /\ Agent!AwaitRaises
  /\ \/ sub = "failed" /\ Append1(Writing)
     \/ UNCHANGED <<log, frontier>>
  /\ \/ Stepped("none")
     \/ EnterSettlement("error")
  /\ UNCHANGED <<observed, reviewed, moreToCome, disclosed, arrived, ledger>>

StepCancelled ==
  /\ at = "step"
  /\ sub \notin {"model", "reply"}
  /\ Agent!DriverCancelled
  /\ MayHaveLanded
  /\ EnterSettlement("cancelled")
  /\ UNCHANGED <<world, ledger>>

LoopInterrupted(cause) ==
  /\ ~settling
  /\ \/ at \in {"before", "notify", "output", "finish", "after"}
     \/ at = "record" /\ ToRecord # {}
  /\ IF cause = "cancelled" THEN MayHaveLanded ELSE UNCHANGED log
  /\ Settle(cause)
  /\ UNCHANGED <<world, ledger>>

SettlementFails ==
  /\ settling
  /\ \/ at \in {"notify", "output", "finish"}
     \/ at = "record" /\ ToRecord # {}
  /\ GoTo("unsettled")
  /\ UNCHANGED <<agentVars, log, world, ledger>>

-----------------------------------------------------------------------------
Replies == UNION {[1..n -> CallIds] : n \in 0..MaxBatch}

Others ==
  \/ \E scopes \in SUBSET Scopes \ {{}} : WorldCommit(scopes)
  \/ RivalStarts
  \/ HostCancels
  \/ HostAppends

Interruption ==
  \/ InterruptClaim
  \/ StepRaises
  \/ StepCancelled
  \/ \E cause \in {"error", "cancelled"} : LoopInterrupted(cause)
  \/ SettlementFails

Steps ==
  \/ AgentAdvances
  \/ Assembled
  \/ RequestModel
  \/ \E ids \in Replies : ModelAnswers(ids)
  \/ ModelFails
  \/ RecordAnswer
  \/ AgentGetsReply
  \/ BeginTool
  \/ LookAtWorld
  \/ Disclose
  \/ Seal
  \/ ToolAllowed
  \/ ToolEnds

Loop ==
  \/ Lookup
  \/ Claim
  \/ BeforeStep
  \/ Record
  \/ NotifyReturns
  \/ RecordsDone
  \/ CommitOutput
  \/ Finish
  \/ AfterStep

Next == Loop \/ Steps \/ Interruption \/ Others

Spec == Init /\ [][Next]_vars

\* Services, hooks and the journal answer or raise; nobody owes a commit, an
\* input or a cancellation.
FairSpec == Spec /\ WF_vars(Loop \/ Steps \/ Interruption)

-----------------------------------------------------------------------------
\* Properties.

\* Types; the observed scopes only start from the request's.
TypeOK ==
  /\ Agent!TypeOK
  /\ \A i \in DOMAIN log :
       log[i].scopes \subseteq Scopes /\ log[i].known \in [Scopes -> Nat]
  /\ at \in Places
  /\ sub \in Subs
  /\ sub # "none" => at = "step"
  /\ reply \in Seq(CallIds)
  /\ failure \in {"none", "error", "cancelled"}
  /\ settling \in BOOLEAN
  /\ ended \in BOOLEAN
  /\ frontier \in [Scopes -> Nat]
  /\ RequestScopes \subseteq observed /\ observed \subseteq Scopes
  /\ reviewed \in BOOLEAN
  /\ moreToCome \in BOOLEAN
  /\ sealed \subseteq CallIds
  /\ recorded \subseteq CallIds
  /\ notified \subseteq recorded
  /\ published \in BOOLEAN
  /\ finished \in BOOLEAN
  /\ disclosed \subseteq 1..Len(log)
  /\ arrived \in 0..Len(log)

Logged(kind, ref) == \E i \in DOMAIN log : log[i].kind = kind /\ log[i].ref = ref

\* No effect without its record: a tool was requested in the journal before it
\* was entered, and so was every model call that is in progress.
RequestsPrecedeEffects ==
  /\ \A c \in CallIds : Executed(c) => Logged("tool.requested", c)
  /\ sub = "model" => Logged("model.requested", modelCalls)

\* When the next step begins, or an observer is called, each call that has an
\* outcome has exactly that outcome in the journal, and whoever hooks
\* engine:after_tool has been told of each executed one.
ResultsPrecedeProgress ==
  at \in {"before", "after", "returned"} \/ (at = "step" /\ pc # "returned") =>
    \A c \in CallIds : Settled(c) =>
      /\ \E i \in DOMAIN log : /\ log[i].kind = "tool.result"
                               /\ log[i].ref = c
                               /\ log[i].result = calls[c]
      /\ Executed(c) => c \in notified

\* Every effect is bracketed by records.
EffectsBracketed == TypeOK /\ RequestsPrecedeEffects /\ ResultsPrecedeProgress

\* What the observer of a terminal snapshot, and whoever called execute(), can
\* rely on: the end of the run is in the journal, together with the output if
\* and only if the run completed; interruptions on the way change neither.
EndRecorded ==
  /\ (at = "after" /\ ended) \/ at \in {"returned", "raised"} =>
       Logged("finished", "run")
  /\ \A i \in DOMAIN log : log[i].kind = "finished" =>
       (log[i].result = "COMPLETED") = (\E j \in 1..i : log[j].kind = "output")
  /\ Logged("output", "run") => status = "COMPLETED"

\* The end record is the last word of a run.
EndIsLast ==
  [][Logged("finished", "run") =>
       \A i \in Len(log) + 1..Len(log') : log'[i].kind = "world"]_vars

\* Of several executions of a run id only the one whose claim is in the journal
\* records anything else or moves the run.
OneExecution ==
  /\ \A i, j \in DOMAIN log : log[i].kind = "started" /\ log[j].kind = "started" => i = j
  /\ pc # "idle" \/ (\E i \in DOMAIN log : log[i].kind \notin {"started", "world"}) =>
       \E i \in DOMAIN log : log[i].kind = "started" /\ log[i].result = "us"

\* A record written again after an append that was interrupted is the same
\* record, so the journal never refuses the settlement.
RetriesMatch ==
  at # "claim" => \A r \in DOMAIN Writing : ~Differs(Writing[r])

\* The records of a run tell one execution and its end, however often they are
\* written.
RecordsAgree == EndRecorded /\ OneExecution /\ RetriesMatch

\* The journal accounts for a run at every moment and for good: its effects
\* are bracketed, and its records agree.
RecordsSound == EffectsBracketed /\ RecordsAgree

\* A commit of another writer in a scope that the run observes and never
\* publishes to is either shown to the model or still ahead of the frontier.
PublishedScopes == UNION {Publish[c] : c \in CallIds}
NothingSkippedElsewhere ==
  \A i \in DOMAIN log : \A s \in (observed \cap log[i].scopes) \ PublishedScopes :
    i \in disclosed \/ Position(log, i, s) > frontier[s]

\* Before a tool goes ahead the model has seen every commit of others that had
\* arrived in the observed scopes when the session last looked at the world
\* (docs/rfc/0300-design-philosophy.md: what has arrived is disclosed before
\* the model acts).
ActsOnWhatArrived ==
  sub = "hook" =>
    \A i \in 1..arrived :
      log[i].kind = "world" /\ log[i].scopes \cap observed # {} => i \in disclosed

\* The engine drives the run only in ways AgentRun allows.
DrivesTheAgent == Agent!Spec

\* execute() ends.
ExecuteEnds == (at \notin Over) ~> (at \in Over)
=============================================================================
