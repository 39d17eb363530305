---------------------------- MODULE MemoryPolicy ----------------------------
(***************************************************************************)
(* The learned ranking of memories (memory_model/tgn.py) projects the      *)
(* graph of a request, one interaction after the other, and keeps the      *)
(* projection for the next request that goes on from it; checkpoints of it *)
(* (memory_model/persistence.py) are stored as artifacts, told in the      *)
(* journal and tried again after a restart.  Requests read any prefix and  *)
(* any scopes, scoring fails half way, saves fail or are cut off at every  *)
(* await, and the process ends anywhere.  The numbers of the network are   *)
(* left out: a projection is the sequence of interactions it was fed, each *)
(* with the weights it was fed to.                                         *)
(***************************************************************************)
EXTENDS Naturals, FiniteSets, SequencesExt

CONSTANTS Scopes,      \* scopes of the facts
          Models,      \* revisions of the weights a start may load
          MaxLog,      \* bound: commits of the journal
          MaxScores,   \* bound: requests scored
          MaxMishaps   \* bound: failures and restarts

VARIABLES log,         \* the journal: [kind |-> "fact", scope] or a checkpoint
          model,       \* the revision of the weights
          state,       \* GraphState, as the interactions it was fed, with the weights
          known,       \* _interactions: what the state is of; meaningless if unverified
          unverified,  \* the state was restored: _interactions is None
          prefix,      \* _prefix: the interactions its digest is of, or empty
          saved,       \* _saved_digest, likewise
          started,     \* initialize() has ended
          save,        \* the save under the lock of the checkpoints
          artifacts,   \* stored checkpoints
          damaged,     \* those whose bytes were lost or changed
          answer,      \* history: the last request, and what its scores were computed from
          scores, mishaps

policy == <<state, known, unverified, prefix>>
vars == <<log, model, policy, saved, started, save, artifacts, damaged, answer, scores, mishaps>>

NoSave == [place |-> "idle", model |-> "-", prefix |-> <<>>, state |-> <<>>]
NoAnswer == [request |-> <<>>, used |-> <<>>]

Fed(interactions) == [i \in DOMAIN interactions |-> <<model, interactions[i]>>]

Init ==
  /\ log = <<>>
  /\ model \in Models
  /\ state = <<>> /\ known = <<>> /\ unverified = FALSE /\ prefix = <<>>
  /\ saved = <<>>
  /\ started = FALSE
  /\ save = NoSave
  /\ artifacts = {}
  /\ damaged = {}
  /\ answer = NoAnswer
  /\ scores = 0
  /\ mishaps = 0

-----------------------------------------------------------------------------
(* Requests.                                                               *)

Observe ==
  /\ Len(log) < MaxLog
  /\ \E s \in Scopes : log' = Append(log, [kind |-> "fact", scope |-> s])
  /\ UNCHANGED <<model, policy, saved, started, save, artifacts, damaged, answer, scores, mishaps>>

\* The graph of a prefix in some scopes, as the cursors of its facts: what
\* graph_interactions gives a request.
Shown(i, scopes) == log[i].kind = "fact" /\ log[i].scope \in scopes
Graph(cursor, scopes) ==
  LET upTo[n \in 0..cursor] ==
        IF n = 0 THEN <<>>
        ELSE IF Shown(n, scopes) THEN Append(upTo[n - 1], n) ELSE upTo[n - 1]
  IN upTo[cursor]

Requests == { Graph(cursor, scopes) : cursor \in 0..Len(log), scopes \in SUBSET Scopes }

\* _verify_restored: only the very history the checkpoint was made of.
Verified(request) == prefix # <<>> /\ IsPrefix(prefix, request)

Cleared == state' = <<>> /\ known' = <<>> /\ unverified' = FALSE /\ prefix' = <<>>

\* What the policy holds when the projection of a request begins.
Held(request) ==
  CASE ~unverified -> [state |-> state, known |-> known, prefix |-> prefix]
    [] unverified /\ Verified(request) -> [state |-> state, known |-> prefix, prefix |-> prefix]
    [] OTHER -> [state |-> <<>>, known |-> <<>>, prefix |-> <<>>]

Bug_Extends(held, request) == Len(held.known) <= Len(request)

Extends(held, request) == IsPrefix(held.known, request)

\* The held state is fed the rest of the request, or a new one all of it.
Projected(held, request) ==
  IF Extends(held, request)
  THEN held.state \o Fed(SubSeq(request, Len(held.known) + 1, Len(request)))
  ELSE Fed(request)

\* Shorter requests of another branch do not push the cache back.
Keep(held, request) ==
  IF Extends(held, request) \/ Len(request) > Len(held.known)
  THEN /\ state' = Projected(held, request)
       /\ known' = request
       /\ prefix' = IF request = held.known THEN held.prefix ELSE <<>>
  ELSE /\ state' = held.state
       /\ known' = held.known
       /\ prefix' = held.prefix

Score(request) ==
  /\ started
  /\ scores < MaxScores
  /\ LET held == Held(request)
     IN /\ answer' = [request |-> request, used |-> Projected(held, request)]
        /\ Keep(held, request)
        /\ unverified' = FALSE
  /\ scores' = scores + 1
  /\ UNCHANGED <<log, model, saved, started, save, artifacts, damaged, mishaps>>

Bug_AfterFailure(request, fed) ==
  LET held == Held(request)
  IN /\ state' = IF Extends(held, request)
                 THEN held.state \o Fed(SubSeq(request, Len(held.known) + 1, Len(held.known) + fed))
                 ELSE held.state
     /\ known' = held.known /\ prefix' = held.prefix /\ unverified' = FALSE

\* An extended state was changed in place: nothing of it can be kept.
AfterFailure(request, fed) == Cleared

\* The projection or the ranking raises, after some of the interactions.
ScoreFails(request) ==
  /\ started
  /\ mishaps < MaxMishaps
  /\ LET held == Held(request)
         left == IF Extends(held, request) THEN Len(request) - Len(held.known) ELSE 0
     IN \E fed \in 0..left : AfterFailure(request, fed)
  /\ mishaps' = mishaps + 1
  /\ UNCHANGED <<log, model, saved, started, save, artifacts, damaged, answer, scores>>

-----------------------------------------------------------------------------
(* save                                                                    *)

\* checkpoint(): a snapshot of what was verified, unless it was saved before.
\* The digest of the prefix is taken now and kept.
Snapshot ==
  /\ started
  /\ save.place = "idle"
  /\ ~unverified /\ known # <<>>
  /\ LET taken == IF prefix = <<>> THEN known ELSE prefix
     IN /\ prefix' = taken
        /\ taken # saved
        /\ save' = [place |-> "encoded", model |-> model, prefix |-> taken, state |-> state]
  /\ UNCHANGED <<log, model, state, known, unverified, saved, started, artifacts, damaged, answer,
                 scores, mishaps>>

Content(s) == [model |-> s.model, prefix |-> s.prefix, state |-> s.state]

\* The fact the prefix ends in is read again, then the content is stored.
Put ==
  /\ save.place = "encoded"
  /\ Last(save.prefix) <= Len(log) /\ log[Last(save.prefix)].kind = "fact"
  /\ artifacts' = artifacts \cup {Content(save)}
  /\ damaged' = damaged \ {Content(save)}
  /\ save' = [save EXCEPT !.place = "stored"]
  /\ UNCHANGED <<log, model, policy, saved, started, answer, scores, mishaps>>

\* append_commit finds the commit of an earlier attempt by its identity.
Recorded(content) ==
  IF \E i \in DOMAIN log : log[i].kind = "checkpoint" /\ log[i].content = content THEN log
  ELSE Append(log, [kind |-> "checkpoint", content |-> content])

Tell ==
  /\ save.place = "stored"
  /\ log' = Recorded(Content(save))
  /\ saved' = save.prefix
  /\ save' = NoSave
  /\ UNCHANGED <<model, policy, started, artifacts, damaged, answer, scores, mishaps>>

\* The save is cancelled or fails; the artifact or the commit may be there.
SaveFails ==
  /\ mishaps < MaxMishaps
  /\ save.place # "idle"
  /\ save' = NoSave
  /\ \/ UNCHANGED <<log, artifacts>>
     \/ save.place = "encoded" /\ artifacts' = artifacts \cup {Content(save)} /\ UNCHANGED log
     \/ save.place = "stored" /\ log' = Recorded(Content(save)) /\ UNCHANGED artifacts
  /\ mishaps' = mishaps + 1
  /\ UNCHANGED <<model, policy, saved, started, damaged, answer, scores>>

-----------------------------------------------------------------------------
(* Restarts.                                                               *)

Damage ==
  /\ mishaps < MaxMishaps
  /\ \E content \in artifacts \ damaged : damaged' = damaged \cup {content}
  /\ mishaps' = mishaps + 1
  /\ UNCHANGED <<log, model, policy, saved, started, save, artifacts, answer, scores>>

Restart ==
  /\ mishaps < MaxMishaps
  /\ started
  /\ model' \in Models
  /\ Cleared
  /\ saved' = <<>>
  /\ started' = FALSE
  /\ save' = NoSave
  /\ answer' = NoAnswer
  /\ mishaps' = mishaps + 1
  /\ UNCHANGED <<log, artifacts, damaged, scores>>

Checkpoints == { i \in DOMAIN log : log[i].kind = "checkpoint" }

Bug_Compatible(content) == content \in artifacts \ damaged

\* _restore and decode_state: this model, and the bytes that were stored.
Compatible(content) ==
  /\ content.model = model
  /\ content \in artifacts \ damaged

\* initialize(): the last checkpoint is tried; a state restored from it has
\* to wait for the first request to be verified.
Initialize ==
  /\ ~started
  /\ started' = TRUE
  /\ LET last == Max(Checkpoints)
         content == log[last].content
     IN IF Checkpoints # {} /\ Last(content.prefix) < last /\ Compatible(content)
        THEN /\ state' = content.state /\ known' = <<>> /\ unverified' = TRUE
             /\ prefix' = content.prefix /\ saved' = content.prefix
        ELSE UNCHANGED <<policy, saved>>
  /\ UNCHANGED <<log, model, save, artifacts, damaged, answer, scores, mishaps>>

Next ==
  \/ Observe
  \/ \E request \in Requests : Score(request) \/ ScoreFails(request)
  \/ Snapshot \/ Put \/ Tell \/ SaveFails
  \/ Damage \/ Restart \/ Initialize

Spec == Init /\ [][Next]_vars

-----------------------------------------------------------------------------
(* Properties.                                                             *)

TypeOK ==
  /\ model \in Models
  /\ save.place \in {"idle", "encoded", "stored"}
  /\ damaged \subseteq artifacts
  /\ mishaps \in 0..MaxMishaps

\* A state is what the weights loaded make of a history, from nothing.
IsProjection(projected, history) ==
  /\ Len(projected) = Len(history)
  /\ \A i \in DOMAIN history : projected[i] = <<model, history[i]>>

\* The scores of a request were computed from its own graph, all of it, once
\* and in order: they do not depend on the requests before, on failures, or
\* on what a restart restored.
RankedAlone == IsProjection(answer.used, answer.request)

\* The kept projection is of the history it is filed under.
CacheSound ==
  IF unverified THEN IsProjection(state, prefix)
                ELSE IsProjection(state, known) /\ prefix \in {<<>>, known}

\* A checkpoint in the journal was stored before, is the whole projection of
\* its prefix, and speaks of facts told before it only.
CheckpointsSound ==
  /\ \A i \in Checkpoints :
       LET content == log[i].content
       IN /\ content \in artifacts
          /\ content.state = [k \in DOMAIN content.prefix |-> <<content.model, content.prefix[k]>>]
          /\ \A j \in Range(content.prefix) : j < i /\ log[j].kind = "fact"
          /\ \A j \in Checkpoints : log[j] = log[i] => j = i
  /\ saved # <<>> => \E i \in Checkpoints : log[i].content.prefix = saved

\* The ranking is a function of the request and the weights: see each part.
RankingSound == TypeOK /\ RankedAlone /\ CacheSound /\ CheckpointsSound
=============================================================================
