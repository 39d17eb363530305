--------------------------- MODULE MemoryFeedback ---------------------------
(***************************************************************************)
(* MemoryFeedback (memory/feedback.py): a command by which the bot judges, *)
(* once it knows more, whether a memory it was shown helped a goal.  The   *)
(* world is the sequence of its commits.  Calls of different commands run  *)
(* side by side (the registry keeps those of one command apart), an append *)
(* may fail or be cut, and the process may end; the command is retry-safe, *)
(* so that one without a recorded result is executed again.                *)
(***************************************************************************)
EXTENDS Naturals, SequencesExt

CONSTANTS Commands,    \* command -> what it says: [request, memory, evidence, goal, supersedes]
          Facts,       \* ids of other commits
          Requests     \* ids of requests to the model

VARIABLES log,      \* the commits: [id, kind] and what their kind adds
          goals,    \* the goals the bot has
          call,     \* command -> [place, base]
          answer    \* command -> "none", "succeeded", "failed" or "unknown"

vars == <<log, goals, call, answer>>

Away == [place |-> "away", base |-> 0]
None == "-"

Init ==
  /\ log = <<>>
  /\ goals = {}
  /\ call = [c \in DOMAIN Commands |-> Away]
  /\ answer = [c \in DOMAIN Commands |-> "none"]

-----------------------------------------------------------------------------
\* The journal.

Known(id) == \E i \in DOMAIN log : log[i].id = id
At(id) ==    \* the cursor of a commit, or 0
  IF Known(id) THEN CHOOSE i \in DOMAIN log : log[i].id = id ELSE 0
Mine == { i \in DOMAIN log : log[i].kind = "feedback" }

\* Other facts arrive, and requests that show the model what had; one without
\* a recall has no cutoff.
WorldCommits ==
  /\ \E id \in Facts \cup Requests : ~Known(id) /\
       \E shown \in SUBSET (Facts \cap {log[i].id : i \in DOMAIN log}), limited \in BOOLEAN :
         /\ id \in Facts => shown = {} /\ ~limited
         /\ log' = Append(log, IF id \in Facts
                               THEN [id |-> id, kind |-> "fact"]
                               ELSE [id |-> id, kind |-> "request", included |-> shown,
                                     cutoff |-> IF limited THEN Len(log) ELSE Len(log) + 1])
  /\ UNCHANGED <<goals, call, answer>>

GoalSet ==
  /\ \E c \in DOMAIN Commands : goals' = goals \cup {Commands[c].goal}
  /\ UNCHANGED <<log, call, answer>>

-----------------------------------------------------------------------------
\* execute().

Goes(c, to) == call' = [call EXCEPT ![c] = to]
Answers(c, how) == Goes(c, Away) /\ answer' = [answer EXCEPT ![c] = how]

\* Operators named Bug_... are one-slip variants of the operator that follows
\* them.  No action uses them; substituted for it, each breaks a property below.

Bug_Recorded(c) == FALSE

\* The commit of an earlier execution.
Recorded(c) == Known(c)

Begin(c) ==
  /\ call[c].place = "away" /\ answer[c] \in {"none", "unknown"}
  /\ IF Recorded(c)
     THEN Answers(c, "succeeded")
     ELSE Goes(c, [Away EXCEPT !.place = "judging"]) /\ UNCHANGED answer
  /\ UNCHANGED <<log, goals>>

Bug_Sources(said, request) ==
  /\ Known(said.memory) /\ At(said.memory) < At(said.request)
  /\ said.memory \in request.included
  /\ At(said.memory) <= request.cutoff
  /\ \A e \in said.evidence : Known(e)

\* The memory was shown then and the evidence came later.
Sources(said, request) ==
  /\ Known(said.memory) /\ At(said.memory) < At(said.request)
  /\ said.memory \in request.included
  /\ At(said.memory) <= request.cutoff
  /\ \A e \in said.evidence : At(e) > At(said.request)

Bug_Corrects(said) ==
  said.supersedes = None \/ Known(said.supersedes)

\* A correction is of a feedback on the same request, memory and goal.
Corrects(said) ==
  \/ said.supersedes = None
  \/ \E i \in Mine : /\ log[i].id = said.supersedes
                     /\ log[i].of = <<said.request, said.memory, said.goal>>

Sound(said) ==
  /\ \E i \in DOMAIN log : log[i].id = said.request /\ log[i].kind = "request" /\ Sources(said, log[i])
  /\ said.goal \in goals
  /\ Corrects(said)

\* What it reads may be of any moment between its awaits; none of it changes
\* once it is there.
Judge(c) ==
  /\ call[c].place = "judging"
  /\ IF Sound(Commands[c])
     THEN Goes(c, [place |-> "appending", base |-> Len(SelectSeq(log, LAMBDA r : r.kind = "feedback"))])
          /\ UNCHANGED answer
     ELSE Answers(c, "failed")
  /\ UNCHANGED <<log, goals>>

Feedback(c) ==
  LET said == Commands[c] IN
  [id |-> c, kind |-> "feedback", of |-> <<said.request, said.memory, said.goal>>,
   evidence |-> said.evidence, supersedes |-> said.supersedes, base |-> call[c].base]

\* An identity that was used for another content is refused.
Add(c) ==
  /\ call[c].place = "appending"
  /\ \/ ~Known(c) /\ log' = Append(log, Feedback(c)) /\ Answers(c, "succeeded")
     \/ /\ Known(c)
        /\ Answers(c, IF log[At(c)] = Feedback(c) THEN "succeeded" ELSE "failed")
        /\ UNCHANGED log
  /\ UNCHANGED goals

\* The call is cancelled or its append fails; the commit may be there.
Cut(c) ==
  /\ call[c].place # "away"
  /\ Answers(c, "unknown")
  /\ log' \in {log} \cup (IF call[c].place = "appending" /\ ~Known(c)
                          THEN {Append(log, Feedback(c))} ELSE {})
  /\ UNCHANGED goals

\* The process ends; an answer that the registry did not record is lost too.
Restart ==
  /\ call' = [c \in DOMAIN Commands |-> Away]
  /\ \E lost \in SUBSET {c \in DOMAIN Commands : answer[c] \in {"succeeded", "failed"}} :
       answer' = [c \in DOMAIN Commands |->
                    IF c \in lost \/ call[c].place # "away" THEN "unknown" ELSE answer[c]]
  /\ UNCHANGED <<log, goals>>

Next ==
  \/ WorldCommits \/ GoalSet \/ Restart
  \/ \E c \in DOMAIN Commands : Begin(c) \/ Judge(c) \/ Add(c) \/ Cut(c)

-----------------------------------------------------------------------------
\* Properties.

TypeOK ==
  /\ \A c \in DOMAIN Commands :
       /\ call[c].place \in {"away", "judging", "appending"}
       /\ answer[c] \in {"none", "succeeded", "failed", "unknown"}
  /\ IsInjective([i \in DOMAIN log |-> log[i].id])

\* What the bot is told of a judgement is what is recorded, over every retry:
\* a success is there, and a failure never was.
ToldAsRecorded ==
  \A c \in DOMAIN Commands :
    /\ answer[c] = "succeeded" => \E i \in Mine : log[i].id = c
    /\ answer[c] = "failed" => \A i \in DOMAIN log : log[i].id # c

\* Judgements look back: the memory, the request that showed it, what became
\* known afterwards and the judgement follow each other in the world.
LooksBack ==
  \A i \in Mine : \E q \in 1..i - 1 :
    /\ log[q].kind = "request" /\ log[q].id = log[i].of[1]
    /\ \E m \in 1..q - 1 : log[m].id = log[i].of[2] /\ log[m].id \in log[q].included
    /\ \A e \in log[i].evidence : \E k \in q + 1..i - 1 : log[k].id = e

\* Corrections lead back to one first judgement of the same matter.
CorrectionsMeet ==
  \A i \in Mine : log[i].supersedes # None =>
    \E j \in 1..i - 1 : log[j].id = log[i].supersedes /\ j \in Mine /\ log[j].of = log[i].of

FeedbackSound == TypeOK /\ ToldAsRecorded /\ LooksBack /\ CorrectionsMeet
=============================================================================
