---------------------------- MODULE MemoryRecall ----------------------------
(***************************************************************************)
(* Reading the past: the index every memory query shares                   *)
(* (memory/index.py), the recall of a frozen prefix and the choice of      *)
(* bundles in it (memory/memory.py, memory/selection.py), the source query *)
(* (memory/queries.py), the replay of an audited recall                    *)
(* (memory/replay.py) and the paged scan of the audits                     *)
(* (memory/observations.py).  Queries run concurrently with appends to the *)
(* world, are cancelled at their awaits, and lose the index in a restart.  *)
(* The journal is append-only with dense cursors and times of recording    *)
(* that never decrease (WorldJournal!LogSound); facts may be told late or  *)
(* early.  A text is its fact; a score is any order of the candidates.     *)
(***************************************************************************)
EXTENDS Naturals, SequencesExt

CONSTANTS Facts,       \* what may be told: [id, at, scopes, depends, supersedes, goal,
                       \*   evidence]; at: when it happened; evidence: the refs of the
                       \*   goals from here on
          Readers,     \* [kind |-> "recall", "replay" or "source", of |-> a recall or an id]
          Admitted,    \* scopes the configured patterns let through
          RunScope,    \* the scope of run ledgers, where audits are told
          Window,      \* age of what still is recent
          PerScope,    \* commits_per_scope
          Budget,      \* max_characters, in facts
          PageSize,    \* rows of a page of the stream
          MaxFacts,    \* bound: facts told
          MaxTime,     \* bound: readings of the clock
          MaxAsked     \* bound: queries under way or answered

VARIABLES story,       \* the journal: facts with the times at and got
          index,       \* [cursor, commits] of the MemoryIndex
          lock,        \* the reader inside visible(), or "free"
          reader,      \* the queries
          scan         \* the scan of the audits

vars == <<story, index, lock, reader, scan>>

Names == DOMAIN Readers
Latest == Len(story)
Empty == [cursor |-> 0, commits |-> <<>>]
Idle == [place |-> "idle", cursor |-> 0, time |-> 0]
NoScan == [place |-> "idle", after |-> 0, from |-> 0, until |-> 0, found |-> <<>>]
IdsIn(rows) == { row.id : row \in Range(rows) }

Init ==
  /\ story = <<>>
  /\ index = Empty
  /\ lock = "free"
  /\ reader = [n \in Names |-> Idle]
  /\ scan = NoScan

-----------------------------------------------------------------------------
(* The world goes on.                                                      *)

Times == 1..MaxTime
Told == { row \in Range(story) : row.id \notin Names }

\* append_commit: the time of the event is anyone's, that of the recording
\* never goes back.
Tell(fact, got) ==
  /\ \A row \in Range(story) : row.id # fact.id /\ row.got <= got
  /\ story' = Append(story, fact @@ [got |-> got])

\* Whoever names a commit as a premise, or as replaced, has read of it.
Learn ==
  /\ Cardinality(Told) < MaxFacts
  /\ \E fact \in Facts, got \in Times :
       fact.depends \cup fact.supersedes \subseteq IdsIn(story) /\ Tell(fact, got)
  /\ UNCHANGED <<index, lock, reader, scan>>

\* The engine records the request of a model with the recall that went in.
Audit(n) ==
  /\ Readers[n].kind = "recall"
  /\ reader[n].place = "done"
  /\ \E got \in Times :
       Tell([id |-> n, at |-> got, scopes |-> {RunScope}, depends |-> {}, supersedes |-> {},
             goal |-> FALSE, evidence |-> {}], got)
  /\ UNCHANGED <<index, lock, reader, scan>>

Asking ==
  Cardinality({ n \in Names : reader[n].place # "idle" })
    + (IF scan.place = "idle" THEN 0 ELSE 1) < MaxAsked

-----------------------------------------------------------------------------
(* MemoryIndex.visible                                                     *)

\* The request fixes a cursor that exists and a time; a replay takes both
\* from the audit, which has to be in the journal.
Ask(n) ==
  LET query == Readers[n]
      Asked(cursor, time) ==
        reader' = [reader EXCEPT ![n] = [place |-> "waiting", cursor |-> cursor, time |-> time]]
  IN /\ reader[n].place = "idle"
     /\ Asking
     /\ IF query.kind = "replay"
        THEN /\ query.of \in IdsIn(story)
             /\ Asked(reader[query.of].known, reader[query.of].time)
        ELSE \E cursor \in 0..Latest, time \in Times : Asked(cursor, time)
     /\ UNCHANGED <<story, index, lock, scan>>

Hold(n) ==
  /\ reader[n].place = "waiting"
  /\ lock = "free"
  /\ lock' = n
  /\ reader' = [reader EXCEPT ![n].place = "reading"]
  /\ UNCHANGED <<story, index, scan>>

PageAfter(cursor) ==
  SubSeq(story, cursor + 1, IF cursor + PageSize < Latest THEN cursor + PageSize ELSE Latest)

\* The rows of the next page that belong to the asked prefix.
Kept(cursor) ==
  LET page == PageAfter(index.cursor)
  IN SubSeq(page, 1, IF index.cursor + Len(page) > cursor THEN cursor - index.cursor
                                                          ELSE Len(page))

\* One page: what it brings stays in the index whatever becomes of the query.
Sync(n) ==
  /\ lock = n
  /\ index.cursor < reader[n].cursor
  /\ LET kept == Kept(reader[n].cursor)
     IN index' = [cursor |-> index.cursor + Len(kept), commits |-> index.commits \o kept]
  /\ UNCHANGED <<story, lock, reader, scan>>

\* The first place, up to the asked cursor, of what was recorded too late.
Late(n) ==
  { i \in 1..Len(index.commits) : i > reader[n].cursor \/ index.commits[i].got > reader[n].time }

Bug_KnownCursor(n) == reader[n].cursor

KnownCursor(n) ==
  IF Late(n) = {} THEN Len(index.commits) ELSE Min(Late(n)) - 1

Visible(n) ==
  SelectSeq(SubSeq(index.commits, 1, KnownCursor(n)), LAMBDA row : row.at <= reader[n].time)

-----------------------------------------------------------------------------
(* What a query makes of the visible history.                              *)

Within(rows, scopes) == SelectSeq(rows, LAMBDA row : row.scopes \cap scopes # {})

\* Scopes a recall may use as evidence, and those it takes candidates from.
Permitted == Admitted
Selected == Admitted \ {RunScope}

Recent(rows, time) ==
  UNION { LET own == SelectSeq(rows, LAMBDA row : s \in row.scopes /\ row.at + Window >= time)
              from == IF Len(own) > PerScope THEN Len(own) - PerScope + 1 ELSE 1
          IN IdsIn(SubSeq(own, from, Len(own))) : s \in Selected }

Replacing(rows, id) == { row.id : row \in { r \in Range(rows) : id \in r.supersedes } }

Bug_LinksOf(rows, id) == UNION { row.depends : row \in { r \in Range(rows) : r.id = id } }

\* _closure follows the premises and the revisions of what it found.
LinksOf(rows, id) ==
  IF id \in IdsIn(rows)
  THEN UNION { row.depends : row \in { r \in Range(rows) : r.id = id } } \cup Replacing(rows, id)
  ELSE {}

Closure(rows, ids) ==
  LET reach[k \in 0..Len(rows)] ==
        IF k = 0 THEN ids
        ELSE reach[k - 1] \cup UNION { LinksOf(rows, id) : id \in reach[k - 1] }
  IN reach[Len(rows)]

\* Evidence of the goals at a version of the bot's state: snapshot_at.
EvidenceAt(cursor) ==
  LET told == SelectSeq(SubSeq(story, 1, cursor), LAMBDA row : row.goal)
  IN IF told = <<>> THEN {} ELSE Last(told).evidence

\* One candidate after the other, in the order of the scores: a bundle is
\* taken whole, when all of it is there and fits.
Bundled(rows, required, ranking) ==
  LET Step(acc, id) ==
        LET all == Closure(rows, {id})
            new == all \ required
        IN IF id \in acc.included \/ ~(all \subseteq IdsIn(rows)) \/ Cardinality(new) > acc.budget
           THEN acc
           ELSE [included |-> acc.included \cup new, budget |-> acc.budget - Cardinality(new),
                 bundles |-> Append(acc.bundles, new)]
  IN FoldLeft(Step, [included |-> required, budget |-> Budget, bundles |-> <<>>], ranking).bundles

\* What the fingerprint of a ranking covers: the bounds, the candidates in
\* the order of the history and the graph, which is made of the history.
Digest(cursor, time, rows, ids) ==
  <<cursor, time, SelectSeq(rows, LAMBDA row : row.id \in ids), rows>>

\* The routes always bring what is recent; texts and entities may bring more.
\* What a later fact replaces is no candidate, unless a goal refers to it.
Candidates(rows, records, time, refs) ==
  LET current(id) == Replacing(records, id) = {} \/ id \in refs
  IN { ids \in SUBSET { id \in IdsIn(rows) : current(id) } :
         { id \in Recent(rows, time) : current(id) } \subseteq ids }

-----------------------------------------------------------------------------
(* The queries.                                                            *)

Leave(n, answer) ==
  reader' = [reader EXCEPT ![n] = answer @@ [place |-> "done", cursor |-> @.cursor,
               time |-> @.time, known |-> KnownCursor(n), seen |-> IdsIn(Visible(n))]]

Reached(n) == lock = n /\ index.cursor >= reader[n].cursor

\* recall: the history is read; the state of the bot and the choice are next.
Read(n) ==
  /\ Readers[n].kind = "recall"
  /\ Reached(n)
  /\ lock' = "free"
  /\ reader' = [reader EXCEPT ![n] = [place |-> "choosing", cursor |-> @.cursor, time |-> @.time,
                                      known |-> KnownCursor(n), history |-> Visible(n)]]
  /\ UNCHANGED <<story, index, scan>>

Bug_StateCursor(n) == Latest

StateCursor(n) == reader[n].known

\* snapshot_at and select_memories, in its thread: nothing is read that the
\* world may have added since.
Choose(n) ==
  LET me == reader[n]
      eligible == Within(me.history, Selected)
      records == Within(me.history, Permitted)
      refs == EvidenceAt(StateCursor(n))
      closure == Closure(records, refs)
      required == closure \cap IdsIn(records)
  IN /\ me.place = "choosing"
     /\ \E ids \in Candidates(eligible, records, me.time, refs) :
        \E ranking \in SetToSeqs(ids) :
          reader' = [reader EXCEPT ![n] =
            [place |-> "done", cursor |-> me.cursor, time |-> me.time, known |-> me.known,
             seen |-> IdsIn(me.history), required |-> required,
             missing |-> closure \ required, ranking |-> ids,
             bundles |-> Bundled(records, required, ranking),
             digest |-> Digest(me.known, me.time, eligible, ids)]]
     /\ UNCHANGED <<story, index, lock, scan>>

\* _rebuild: the candidates and their graph from the same prefix, or an error.
Rebuild(n) ==
  LET past == reader[Readers[n].of]
      eligible == Within(Visible(n), Selected)
      found == past.ranking \cap IdsIn(eligible)
      same == found = past.ranking
              /\ Digest(past.known, past.time, eligible, found) = past.digest
  IN /\ Readers[n].kind = "replay"
     /\ Reached(n)
     /\ lock' = "free"
     /\ Leave(n, [answer |-> IF same THEN "rebuilt" ELSE "failed"])
     /\ UNCHANGED <<story, index, scan>>

\* MemorySourceQuery: a source inside the bounds, with what replaces it there.
Source(n) ==
  LET id == Readers[n].of
  IN /\ Readers[n].kind = "source"
     /\ Reached(n)
     /\ lock' = "free"
     /\ Leave(n, IF id \in IdsIn(Visible(n))
                 THEN [answer |-> "found", superseded |-> Replacing(Visible(n), id)]
                 ELSE [answer |-> "missing"])
     /\ UNCHANGED <<story, index, scan>>

-----------------------------------------------------------------------------
(* MemoryExposures                                                         *)

IsExposure(row) == row.id \in Names

\* The first page fixes the bound.
StartScan ==
  /\ scan.place = "idle"
  /\ Asking
  /\ Latest > 0
  /\ \E after \in 0..Latest :
       scan' = [place |-> "paging", after |-> after, from |-> after, until |-> Latest, found |-> <<>>]
  /\ UNCHANGED <<story, index, lock, reader>>

Bug_ScanEnd(page) == IF page = <<>> THEN scan.until ELSE scan.after + Len(page)

ScanEnd(page) ==
  IF page = <<>> \/ scan.after + Len(page) > scan.until THEN scan.until
                                                      ELSE scan.after + Len(page)

\* The caller goes on from the cursor of the answer while it has more.
ScanPage ==
  LET page == PageAfter(scan.after)
      own == SelectSeq(SubSeq(page, 1, ScanEnd(page) - scan.after), IsExposure)
  IN /\ scan.place = "paging"
     /\ scan' = [scan EXCEPT !.after = ScanEnd(page), !.found = @ \o own,
                             !.place = IF ScanEnd(page) < scan.until THEN "paging" ELSE "done"]
     /\ UNCHANGED <<story, index, lock, reader>>

-----------------------------------------------------------------------------
(* Cancellations, failed reads and restarts.                               *)

Waiting(n) == reader[n].place \in {"waiting", "reading", "choosing"}

Cut(n) ==
  /\ Waiting(n)
  /\ reader' = [reader EXCEPT ![n] = Idle]
  /\ lock' = IF lock = n THEN "free" ELSE lock
  /\ UNCHANGED <<story, index, scan>>

Restart ==
  /\ index' = Empty
  /\ lock' = "free"
  /\ reader' = [n \in Names |-> IF Waiting(n) THEN Idle ELSE reader[n]]
  /\ UNCHANGED <<story, scan>>

Next ==
  \/ Learn
  \/ StartScan \/ ScanPage \/ Restart
  \/ \E n \in Names :
       \/ Audit(n)
       \/ Ask(n) \/ Hold(n) \/ Sync(n)
       \/ Read(n) \/ Choose(n) \/ Rebuild(n) \/ Source(n)
       \/ Cut(n)

Spec == Init /\ [][Next]_vars

-----------------------------------------------------------------------------
(* Properties.                                                             *)

TypeOK ==
  /\ index.cursor \in 0..Latest
  /\ lock \in Names \cup {"free"}
  /\ \A n \in Names : reader[n].place \in {"idle", "waiting", "reading", "choosing", "done"}
  /\ scan.place \in {"idle", "paging", "done"}

Done(n) == reader[n].place = "done"

\* What a query with these bounds may know, told from the journal as it is now.
Prefix(cursor, time) == { i \in 1..Latest : i <= cursor /\ story[i].got <= time }
Past(cursor, time) == { story[i] : i \in { j \in Prefix(cursor, time) : story[j].at <= time } }

\* A finished query saw exactly what had happened and was known at its
\* bounds, and still would, whatever was told, read or lost since.
Frozen ==
  \A n \in Names : Done(n) =>
    /\ reader[n].seen = { row.id : row \in Past(reader[n].cursor, reader[n].time) }
    /\ reader[n].known = Cardinality(Prefix(reader[n].cursor, reader[n].time))

\* The index is a prefix of the journal, whatever was cut off.
IndexIsPrefix == index.commits = SubSeq(story, 1, index.cursor)

\* An audited recall can always be rebuilt, also by a later process.
Rebuilds ==
  \A n \in Names : Done(n) /\ Readers[n].kind = "replay" => reader[n].answer = "rebuilt"

\* A source names every fact that replaced it in the bounds of the query.
Replacements(past, id) == { row.id : row \in { r \in past : id \in r.supersedes } }
SourcesSound ==
  \A n \in Names : Done(n) /\ Readers[n].kind = "source" =>
    LET past == Past(reader[n].cursor, reader[n].time)
        id == Readers[n].of
    IN IF id \in { row.id : row \in past }
       THEN reader[n].answer = "found" /\ reader[n].superseded = Replacements(past, id)
       ELSE reader[n].answer = "missing"

\* A set with the premises and the revisions of those of its members in past.
Rests(ids, past) ==
  \A row \in past :
    /\ row.id \in ids => row.depends \subseteq ids
    /\ row.supersedes \cap ids \cap { r.id : r \in past } # {} => row.id \in ids

\* What a recall answers: the evidence of the goals as they were, with all
\* it rests on, no more, and a word about what is missing of it; and bundles
\* within the budget that show no fact without its premises and revisions.
ChoiceSound ==
  \A n \in Names : Done(n) /\ Readers[n].kind = "recall" =>
    LET me == reader[n]
        past == { row \in Past(me.cursor, me.time) : row.scopes \cap Admitted # {} }
        ids == { row.id : row \in past }
        states == { i \in Prefix(me.cursor, me.time) : story[i].goal }
        refs == IF states = {} THEN {} ELSE story[Max(states)].evidence
        evidence == me.required \cup me.missing
    IN /\ \A least \in SUBSET evidence :
            refs \subseteq least /\ Rests(least, past) <=> least = evidence
       /\ me.required = evidence \cap ids
       /\ FoldSeq(LAMBDA bundle, total : Cardinality(bundle) + total, 0, me.bundles) <= Budget
       /\ \A bundle \in Range(me.bundles) :
            /\ bundle # {} /\ bundle \subseteq ids \ me.required
            /\ Rests(bundle \cup evidence, past)
            /\ \A row \in past : row.id \in bundle => row.depends \cap me.missing = {}

\* A scan over any number of pages finds every audit between its bounds
\* once, in the order they were told, and none that came later.
ScanSound ==
  scan.place = "done" =>
    scan.found = SelectSeq(SubSeq(story, scan.from + 1, scan.until), LAMBDA row : row.id \in Names)

\* Memory reads a frozen past: see each part.
MemorySound ==
  /\ TypeOK /\ IndexIsPrefix /\ Frozen /\ Rebuilds
  /\ SourcesSound /\ ChoiceSound /\ ScanSound
=============================================================================
