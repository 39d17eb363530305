---------------------------- MODULE WorldJournal ----------------------------
(***************************************************************************)
(* The world journal: one append-only log of commits, each a member of     *)
(* some scopes and numbered within each of them.  Appends hold a lock and  *)
(* one transaction, inside which they await the database once per item;    *)
(* readers run in sessions of their own and see committed rows only.  An   *)
(* observer asks for the head of its scopes, one query per scope, and then *)
(* for delta pages beyond its frontier, two queries per page.              *)
(***************************************************************************)
EXTENDS Naturals, Sequences, FiniteSets, SequencesExt

CONSTANTS Scopes,     \* names of world scopes
          Batches,    \* the batches writers may submit: sequences of inputs
                      \*   [id, body, scopes], no id twice in a batch
          Watched,    \* the scopes the observer follows
          PageSize,   \* page_size of the journal
          Clock       \* readings the wall clock may give, in any order

ASSUME JournalAssumption ==
  /\ Watched \subseteq Scopes
  /\ PageSize \in Nat \ {0}
  /\ Clock \subseteq Nat \ {0}
  /\ \A b \in Batches :
       /\ b \in Seq([id : STRING, body : STRING, scopes : SUBSET Scopes])
       /\ b # <<>>
       /\ \A i, j \in DOMAIN b : b[i].id = b[j].id => i = j
       /\ \A i \in DOMAIN b : b[i].scopes # {}

VARIABLES
  log,        \* committed rows in insertion order
  batch,      \* what the writer inside append_commits submitted, else empty
  todo,       \* the inputs it has not looked at
  staged,     \* rows added in its open transaction
  nextSeq,    \* next_sequences: scope -> next number, 0 when not looked up
  acked,      \* history: inputs whose append returned a commit
  mode,       \* observer: "head", "idle" or "more"
  unread,     \* scopes whose head is still to be read
  frontier,   \* scope -> last observed number
  hasMore,    \* has_more of the last page
  disclosed,  \* history: positions in the log shown to the observer
  repeated,   \* history: those shown to it again
  asked,      \* history: Len(log) when the last page was asked for
  since       \* history: Len(log) when head returned

append == <<batch, todo, staged, nextSeq>>
observer == <<mode, unread, frontier, hasMore, disclosed, repeated, asked, since>>
vars == <<log, append, acked, observer>>

\* The journal's lock: one writer at a time.
Locked == batch # <<>>

-----------------------------------------------------------------------------
\* Operators named Bug_... are one-slip variants of the operator that follows
\* them.  No action uses them; substituted for it, each breaks a property below.

In(commit, s) == commit.seqs[s] > 0

\* func.max(sequence) of a scope over the given rows; 0 for an empty scope.
Top(rows, s) ==
  CHOOSE n \in {0} \cup {rows[i].seqs[s] : i \in DOMAIN rows} :
    \A i \in DOMAIN rows : rows[i].seqs[s] <= n

LastRecorded(rows) == IF rows = <<>> THEN 0 ELSE Last(rows).recorded

\* _matches_input: everything the caller supplied must agree.
Matches(commit, input) ==
  /\ commit.id = input.id
  /\ commit.body = input.body
  /\ {s \in Scopes : In(commit, s)} = input.scopes

Known(id) == \E i \in DOMAIN log : log[i].id = id

Init ==
  /\ log = <<>>
  /\ batch = <<>>
  /\ todo = <<>>
  /\ staged = <<>>
  /\ nextSeq = [s \in Scopes |-> 0]
  /\ acked = {}
  /\ mode = "head"
  /\ unread = Watched
  /\ frontier = [s \in Scopes |-> 0]
  /\ hasMore = FALSE
  /\ disclosed = {}
  /\ repeated = {}
  /\ asked = 0
  /\ since = 0

-----------------------------------------------------------------------------
\* Appending.

BeginAppend(b) ==
  /\ ~Locked
  /\ batch' = b
  /\ todo' = b
  /\ staged' = <<>>
  /\ nextSeq' = [s \in Scopes |-> 0]
  /\ UNCHANGED <<log, acked, observer>>

\* The first query of a scope sees the rows staged so far (autoflush); later
\* ones are answered by the cache.
Allocated(s) ==
  IF nextSeq[s] = 0 THEN Top(log \o staged, s) + 1 ELSE nextSeq[s]

Bug_Cached(s) == Allocated(s)
Cached(s) == Allocated(s) + 1

\* recorded_at never runs behind the row before it, whatever the clock says.
RecordedAt(now) ==
  IF now < LastRecorded(log \o staged) THEN LastRecorded(log \o staged) ELSE now

StageItem(now) ==
  /\ Locked
  /\ todo # <<>>
  /\ LET input == Head(todo) IN
     /\ \A i \in DOMAIN log : log[i].id = input.id => Matches(log[i], input)
     /\ IF Known(input.id)
        THEN UNCHANGED <<staged, nextSeq>>
        ELSE /\ staged' = Append(staged,
                  [id |-> input.id, body |-> input.body,
                   recorded |-> RecordedAt(now),
                   seqs |-> [s \in Scopes |->
                               IF s \in input.scopes THEN Allocated(s) ELSE 0]])
             /\ nextSeq' = [s \in Scopes |->
                              IF s \in input.scopes THEN Cached(s) ELSE nextSeq[s]]
     /\ todo' = Tail(todo)
  /\ UNCHANGED <<log, batch, acked, observer>>

Discarded == <<>>

Release ==
  /\ batch' = <<>>
  /\ todo' = <<>>
  /\ staged' = Discarded
  /\ nextSeq' = [s \in Scopes |-> 0]

Published == log \o staged

CommitBatch ==
  /\ Locked
  /\ todo = <<>>
  /\ log' = Published
  /\ acked' = acked \cup ToSet(batch)
  /\ Release
  /\ UNCHANGED observer

\* The task is cancelled while the commit is under way: the rows are there, the
\* caller never learns of it.
CommitUnseen ==
  /\ Locked
  /\ todo = <<>>
  /\ log' = Published
  /\ Release
  /\ UNCHANGED <<acked, observer>>

\* A commit id already used with other content refuses the whole batch; a
\* cancelled task, a database error or a crash rolls it back the same way.
Rollback ==
  /\ Locked
  /\ Release
  /\ UNCHANGED <<log, acked, observer>>

-----------------------------------------------------------------------------
\* Observing.

\* head(): one query per scope, with appends in between.
ReadHead(s) ==
  /\ mode = "head"
  /\ s \in unread
  /\ frontier' = [frontier EXCEPT ![s] = Top(log, s)]
  /\ unread' = unread \ {s}
  /\ IF unread = {s} THEN mode' = "idle" /\ since' = Len(log)
                     ELSE UNCHANGED <<mode, since>>
  /\ UNCHANGED <<log, append, acked, hasMore, disclosed, repeated, asked>>

Beyond(commit, front) == \E s \in Watched : commit.seqs[s] > front[s]

\* Positions of the commits beyond a frontier, and the oldest of them, at most
\* a page.
Ahead(front) == {i \in 1..Len(log) : Beyond(log[i], front)}
Page(front) ==
  {i \in Ahead(front) : Cardinality({j \in Ahead(front) : j < i}) < PageSize}

\* The frontier after a page: the highest number shown in each watched scope.
Bug_PageEnd(front, page) ==
  [s \in Scopes |-> IF s \in Watched /\ page # {} THEN Top(log, s) ELSE front[s]]
PageEnd(front, page) ==
  [s \in Scopes |->
     IF s \notin Watched THEN front[s]
     ELSE LET shown == Top([i \in page |-> log[i]], s)
          IN  IF shown > front[s] THEN shown ELSE front[s]]

\* A page below its limit is the last one; only a full page is followed by
\* the has_more query.
Bug_MayHaveMore(page) == Cardinality(page) > PageSize
MayHaveMore(page) == Cardinality(page) = PageSize

ReadDelta ==
  /\ mode = "idle"
  /\ LET page == Page(frontier) IN
     /\ disclosed' = disclosed \cup page
     /\ repeated' = repeated \cup (disclosed \cap page)
     /\ frontier' = PageEnd(frontier, page)
     /\ mode' = IF MayHaveMore(page) THEN "more" ELSE "idle"
  /\ hasMore' = FALSE
  /\ asked' = Len(log)
  /\ UNCHANGED <<log, append, acked, unread, since>>

ReadMore ==
  /\ mode = "more"
  /\ hasMore' = (Ahead(frontier) # {})
  /\ mode' = "idle"
  /\ UNCHANGED <<log, append, acked, unread, frontier, disclosed, repeated, asked, since>>

-----------------------------------------------------------------------------
Appending ==
  \/ \E now \in Clock : StageItem(now)
  \/ CommitBatch
  \/ CommitUnseen
  \/ Rollback

Observing ==
  \/ \E s \in Watched : ReadHead(s)
  \/ ReadDelta
  \/ ReadMore

Next ==
  \/ \E b \in Batches : BeginAppend(b)
  \/ Appending
  \/ Observing

Spec == Init /\ [][Next]_vars

\* Sessions answer; an open append commits or rolls back.  Nobody owes a
\* new append.
FairSpec == Spec /\ WF_vars(Appending) /\ WF_vars(Observing)

-----------------------------------------------------------------------------
\* Properties.

Row == [id : STRING, body : STRING, recorded : Nat, seqs : [Scopes -> Nat]]

\* Types; rows are staged only while the lock is held.
TypeOK ==
  /\ log \in Seq(Row)
  /\ staged \in Seq(Row)
  /\ ~Locked => todo = <<>> /\ staged = <<>>
  /\ batch \in Batches \cup {<<>>}
  /\ todo \in Seq([id : STRING, body : STRING, scopes : SUBSET Scopes])
  /\ nextSeq \in [Scopes -> Nat]
  /\ acked \subseteq [id : STRING, body : STRING, scopes : SUBSET Scopes]
  /\ mode \in {"head", "idle", "more"}
  /\ unread \in SUBSET Watched
  /\ frontier \in [Scopes -> Nat]
  /\ hasMore \in BOOLEAN
  /\ disclosed \subseteq 1..Len(log)
  /\ repeated \subseteq disclosed
  /\ asked \in 0..Len(log)
  /\ since \in 0..Len(log)

\* Within each scope the committed numbers are 1, 2, 3, ... in insertion
\* order, without gap or repetition, also when one batch numbers several
\* commits of one scope: cursors per scope and the order of delta rest on it.
DenseSequences ==
  \A s \in Scopes :
    /\ \A i, j \in DOMAIN log :
         i < j /\ In(log[i], s) /\ In(log[j], s) => log[i].seqs[s] < log[j].seqs[s]
    /\ \A j \in DOMAIN log : \A n \in 1..log[j].seqs[s] :
         \E i \in 1..j : log[i].seqs[s] = n

\* An id stands for one commit, and whoever was told that an input is
\* recorded finds it in the log with the content it submitted, whatever was
\* retried, refused or rolled back since.
AcknowledgedIsRecorded ==
  /\ \A i, j \in DOMAIN log : log[i].id = log[j].id => i = j
  /\ \A input \in acked : \E i \in DOMAIN log :
       /\ log[i].id = input.id
       /\ log[i].body = input.body
       /\ {s \in Scopes : In(log[i], s)} = input.scopes

\* recorded_at is ordered like the log although the clock may go backwards.
RecordedInOrder ==
  \A i, j \in DOMAIN log : i < j => log[i].recorded <= log[j].recorded

\* The log is what its writers were told: numbers per scope without gaps, times
\* in order, an id once, and each acknowledged input.
LogSound == TypeOK /\ DenseSequences /\ RecordedInOrder /\ AcknowledgedIsRecorded

\* No frontier passes a commit the observer was not shown: whatever was
\* appended after head returned is either still beyond the frontier or was
\* disclosed, and nothing is disclosed twice.
NothingSkipped ==
  mode # "head" =>
    /\ \A i \in (since + 1)..Len(log) :
         (\E s \in Watched : In(log[i], s)) =>
           i \in disclosed \/ Beyond(log[i], frontier)
    /\ repeated = {}

\* has_more = FALSE is a promise: all that was in the log when the page was
\* asked for is within the frontier.
LastPageIsLast ==
  mode = "idle" /\ ~hasMore => \A i \in 1..asked : ~Beyond(log[i], frontier)

\* What delta tells an observer is complete, page by page.
ObserverSound == NothingSkipped /\ LastPageIsLast

\* An observer that keeps asking is shown everything committed after its head.
AllShown ==
  \A n \in (since + 1)..Len(log) :
    (\E s \in Watched : In(log[n], s)) => n \in disclosed
CatchesUp == mode # "head" ~> AllShown
=============================================================================
