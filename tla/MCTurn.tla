------------------------------- MODULE MCTurn -------------------------------
(***************************************************************************)
(* TLC instance of a run and of the memory its turns are given: EngineRun, *)
(* MemoryRecall and MemoryFeedback, the judgement of what was given.  They *)
(* share no state, so a behaviour is of one of them; part says of which.   *)
(***************************************************************************)
EXTENDS MCEngineRun

-----------------------------------------------------------------------------
\* MemoryRecall: a chain of facts of two scopes, recalled, replayed and asked
\* for by their source.
CONSTANTS RecallPage, Admitted, Window, PerScope, Budget, MaxFacts, MaxTime, MaxAsked
VARIABLES story, index, lock, reader, scan

Fact(id, time, scopes, depends, supersedes, goal, evidence) ==
  [id |-> id, at |-> time, scopes |-> scopes, depends |-> depends, supersedes |-> supersedes,
   goal |-> goal, evidence |-> evidence]
Facts ==
  { Fact("x", 2, {"a"}, {}, {}, FALSE, {}),
    Fact("y", 1, {"a"}, {"x"}, {}, FALSE, {}),
    Fact("z", 1, {"b"}, {}, {"x"}, TRUE, {"y"}) }
Readers == [r |-> [kind |-> "recall", of |-> "-"],
            again |-> [kind |-> "replay", of |-> "r"],
            s |-> [kind |-> "source", of |-> "x"]]
RunScope == "run"
recallVars == <<story, index, lock, reader, scan>>
Recall == INSTANCE MemoryRecall WITH PageSize <- RecallPage

-----------------------------------------------------------------------------
\* MemoryFeedback: a judgement, a correction that brings old evidence and one
\* that is about another goal.
CONSTANTS Noted, Prompts
VARIABLES notes, aims, judging, verdict

Says(evidence, goal, supersedes) ==
  [request |-> "q", memory |-> "m", evidence |-> {evidence}, goal |-> goal, supersedes |-> supersedes]
Judgements ==
  [first |-> Says("n", "g", "-"), second |-> Says("m", "g", "first"), other |-> Says("n", "h", "first")]
feedbackVars == <<notes, aims, judging, verdict>>
Feedback == INSTANCE MemoryFeedback
  WITH Commands <- Judgements, Facts <- Noted, Requests <- Prompts,
       log <- notes, goals <- aims, call <- judging, answer <- verdict

-----------------------------------------------------------------------------
VARIABLE part
allVars == <<vars, recallVars, feedbackVars, part>>

MCInit ==
  /\ part \in {"run", "recall", "feedback"}
  /\ Init /\ Recall!Init /\ Feedback!Init

MCNext ==
  \/ part = "run" /\ Next /\ UNCHANGED <<recallVars, feedbackVars>>
  \/ part = "recall" /\ Recall!Next /\ UNCHANGED <<vars, feedbackVars>>
  \/ part = "feedback" /\ Feedback!Next /\ UNCHANGED <<vars, recallVars>>

MCSpec == MCInit /\ [][MCNext /\ UNCHANGED part]_allVars

-----------------------------------------------------------------------------
\* What is recalled is what its boundaries say, for every reader at every
\* moment, and what is said of it afterwards looks back on it: see MemoryRecall
\* and MemoryFeedback.
MemorySound == Recall!MemorySound /\ Feedback!FeedbackSound
=============================================================================
