------------------------- MODULE WorldJournalProofs -------------------------
(***************************************************************************)
(* Theorems of WorldJournal for every set of scopes, every collection of   *)
(* batches, every clock and every size of page, and of MemoryPolicy, for   *)
(* any scopes, weights, requests, failures and restarts.                   *)
(***************************************************************************)
EXTENDS MCWorldJournal, ProofLemmas, FiniteSetTheorems

-----------------------------------------------------------------------------
\* The inductive invariant.

Inputs == [id : STRING, body : STRING, scopes : SUBSET Scopes]

\* The committed rows and those of the open transaction.
Rows == log \o staged

Dense(lines) ==
  \A s \in Scopes :
    /\ \A i, j \in 1..Len(lines) :
         i < j /\ In(lines[i], s) /\ In(lines[j], s) => lines[i].seqs[s] < lines[j].seqs[s]
    /\ \A j \in 1..Len(lines) : \A n \in 1..lines[j].seqs[s] :
         \E i \in 1..j : lines[i].seqs[s] = n

Ordered(lines) == \A i, j \in 1..Len(lines) : i < j => lines[i].recorded <= lines[j].recorded

Distinct(lines) == \A i, j \in 1..Len(lines) : lines[i].id = lines[j].id => i = j

\* What DenseSequences, RecordedInOrder and AcknowledgedIsRecorded say of the
\* log holds of any rows about to become the log.
Sound(lines) == lines \in Seq(Row) /\ Dense(lines) /\ Ordered(lines) /\ Distinct(lines)

Recorded(input, lines) == \E i \in 1..Len(lines) : Matches(lines[i], input)

\* The inputs that were looked at.
Done == Len(batch) - Len(todo)

\* The writer in the lock: its rows come from the inputs it has looked at, each
\* of which is recorded, and its cache of numbers is one ahead of the rows.
Writing ==
  /\ Len(todo) <= Len(batch)
  /\ \A k \in 1..Len(todo) : todo[k] = batch[Done + k]
  /\ \A s \in Scopes : nextSeq[s] # 0 => nextSeq[s] = Top(Rows, s) + 1
  /\ \A i \in 1..Len(staged) : \E k \in 1..Done : staged[i].id = batch[k].id
  /\ \A k \in 1..Done : Recorded(batch[k], Rows)

\* A frontier stands at a number of the log, what was disclosed is behind it,
\* and before head returns nothing was.
Behind ==
  /\ \A s \in Watched : frontier[s] = 0 \/ \E i \in 1..Len(log) : log[i].seqs[s] = frontier[s]
  /\ \A i \in disclosed : ~Beyond(log[i], frontier)
  /\ mode = "head" => disclosed = {} /\ asked = 0

IInv ==
  /\ TypeOK
  /\ Sound(log) /\ Sound(Rows)
  /\ Writing
  /\ \A input \in acked : Recorded(input, log)
  /\ Behind /\ NothingSkipped /\ LastPageIsLast

-----------------------------------------------------------------------------
\* Rows.

\* The highest number of a scope among some of the rows of a log.
LEMMA TopFacts ==
  ASSUME NEW lines, \E n \in Nat : DOMAIN lines \subseteq 1..n, NEW s,
         \A i \in DOMAIN lines : lines[i].seqs[s] \in Nat
  PROVE  /\ Top(lines, s) \in Nat
         /\ \A i \in DOMAIN lines : lines[i].seqs[s] <= Top(lines, s)
         /\ Top(lines, s) = 0 \/ \E i \in DOMAIN lines : lines[i].seqs[s] = Top(lines, s)
<1> DEFINE D == DOMAIN lines
           f == [i \in D |-> lines[i].seqs[s]]
<1>0. PICK n \in Nat : D \subseteq 1..n
  OBVIOUS
<1>1. \E m \in {0} \cup {f[i] : i \in D} : m \in Nat /\ \A i \in D : f[i] <= m
  BY <1>0, MaxExists
<1>2. \E m \in {0} \cup {lines[i].seqs[s] : i \in D} : \A i \in D : lines[i].seqs[s] <= m
  BY <1>1
<1>3. /\ Top(lines, s) \in {0} \cup {lines[i].seqs[s] : i \in D}
      /\ \A i \in D : lines[i].seqs[s] <= Top(lines, s)
  BY <1>2 DEF Top
<1>4. QED
  BY <1>3

LEMMA TopOfRows ==
  ASSUME NEW lines \in Seq(Row), NEW s \in Scopes
  PROVE  /\ Top(lines, s) \in Nat
         /\ \A i \in 1..Len(lines) : lines[i].seqs[s] \in Nat /\ lines[i].seqs[s] <= Top(lines, s)
         /\ Top(lines, s) = 0 \/ \E i \in 1..Len(lines) : lines[i].seqs[s] = Top(lines, s)
<1>1. Len(lines) \in Nat /\ DOMAIN lines = 1..Len(lines) /\ \A i \in 1..Len(lines) : lines[i] \in Row
  OBVIOUS
<1>2. \A i \in 1..Len(lines) : lines[i].seqs[s] \in Nat
  BY <1>1 DEF Row
<1>3. QED
  BY <1>1, <1>2, TopFacts

\* The highest number is known by what it is above and where it is found.
LEMMA TopIs ==
  ASSUME NEW lines \in Seq(Row), NEW s \in Scopes, NEW m \in Nat,
         \A i \in 1..Len(lines) : lines[i].seqs[s] <= m,
         m = 0 \/ \E i \in 1..Len(lines) : lines[i].seqs[s] = m
  PROVE  Top(lines, s) = m
BY TopOfRows

\* A row that takes the next number of its scopes and a time that is not
\* before the last keeps rows sound.
LEMMA SoundAppend ==
  ASSUME NEW lines, Sound(lines), NEW r \in Row,
         \A s \in Scopes : r.seqs[s] = 0 \/ r.seqs[s] = Top(lines, s) + 1,
         lines # <<>> => Last(lines).recorded <= r.recorded,
         \A i \in 1..Len(lines) : lines[i].id # r.id
  PROVE  /\ Sound(Append(lines, r))
         /\ Len(Append(lines, r)) = Len(lines) + 1
         /\ \A i \in 1..Len(lines) : Append(lines, r)[i] = lines[i]
         /\ Append(lines, r)[Len(lines) + 1] = r
         /\ \A s \in Scopes : Top(Append(lines, r), s) = IF r.seqs[s] = 0 THEN Top(lines, s) ELSE r.seqs[s]
<1> DEFINE new == Append(lines, r)
           n == Len(lines)
<1>1. /\ lines \in Seq(Row) /\ n \in Nat /\ new \in Seq(Row) /\ Len(new) = n + 1
      /\ \A i \in 1..n : new[i] = lines[i] /\ lines[i] \in Row
      /\ new[n + 1] = r
  BY AppendProperties DEF Sound
<1>2. \A i \in 1..n + 1 : i \in 1..n \/ i = n + 1
  BY <1>1
<1>3. \A s \in Scopes : r.seqs[s] \in Nat
  BY DEF Row
<1> HIDE DEF new
<1>4. ASSUME NEW s \in Scopes
      PROVE  /\ \A i, j \in 1..n + 1 :
                  i < j /\ In(new[i], s) /\ In(new[j], s) => new[i].seqs[s] < new[j].seqs[s]
             /\ \A j \in 1..n + 1 : \A k \in 1..new[j].seqs[s] :
                  \E i \in 1..j : new[i].seqs[s] = k
             /\ Top(new, s) = IF r.seqs[s] = 0 THEN Top(lines, s) ELSE r.seqs[s]
  <2>1. /\ Top(lines, s) \in Nat
        /\ \A i \in 1..n : lines[i].seqs[s] \in Nat /\ lines[i].seqs[s] <= Top(lines, s)
        /\ Top(lines, s) = 0 \/ \E i \in 1..n : lines[i].seqs[s] = Top(lines, s)
    BY <1>1, TopOfRows
  <2>2. /\ \A i, j \in 1..n : i < j /\ In(lines[i], s) /\ In(lines[j], s) => lines[i].seqs[s] < lines[j].seqs[s]
        /\ \A j \in 1..n : \A k \in 1..lines[j].seqs[s] : \E i \in 1..j : lines[i].seqs[s] = k
    BY DEF Sound, Dense
  <2>3. \A i, j \in 1..n + 1 : i < j /\ In(new[i], s) /\ In(new[j], s) => new[i].seqs[s] < new[j].seqs[s]
    <3> SUFFICES ASSUME NEW i \in 1..n + 1, NEW j \in 1..n + 1, i < j, In(new[i], s), In(new[j], s)
                 PROVE  new[i].seqs[s] < new[j].seqs[s]
      OBVIOUS
    <3>1. i \in 1..n /\ new[i] = lines[i]
      BY <1>1
    <3>2. CASE j \in 1..n
      BY <1>1, <2>2, <3>1, <3>2
    <3>3. CASE j = n + 1
      BY <1>1, <2>1, <3>1, <3>3 DEF In
    <3>4. QED
      BY <1>2, <3>2, <3>3
  <2>4. ASSUME NEW j \in 1..n + 1, NEW k \in 1..new[j].seqs[s]
        PROVE  \E i \in 1..j : new[i].seqs[s] = k
    <3>1. CASE j \in 1..n
      <4>1. PICK i \in 1..j : lines[i].seqs[s] = k
        BY <1>1, <2>2, <3>1
      <4>2. i \in 1..n
        BY <1>1, <3>1
      <4>3. QED
        BY <1>1, <4>1, <4>2
    <3>2. CASE j = n + 1
      <4>1. r.seqs[s] = Top(lines, s) + 1 /\ k \in 1..Top(lines, s) + 1
        BY <1>1, <1>3, <2>1, <3>2
      <4>2. CASE k = Top(lines, s) + 1
        BY <1>1, <3>2, <4>1, <4>2
      <4>3. CASE k # Top(lines, s) + 1
        <5>1. k \in 1..Top(lines, s) /\ Top(lines, s) # 0
          BY <2>1, <4>1, <4>3
        <5>2. PICK m \in 1..n : lines[m].seqs[s] = Top(lines, s)
          BY <2>1, <5>1
        <5>3. PICK i \in 1..m : lines[i].seqs[s] = k
          BY <2>2, <5>1, <5>2
        <5>4. i \in 1..n /\ i \in 1..j
          BY <1>1, <3>2
        <5>5. QED
          BY <1>1, <5>3, <5>4
      <4>4. QED
        BY <4>2, <4>3
    <3>3. QED
      BY <1>2, <3>1, <3>2
  <2>5. Top(new, s) = IF r.seqs[s] = 0 THEN Top(lines, s) ELSE r.seqs[s]
    <3>1. \A i \in 1..n : i \in 1..n + 1 /\ new[i].seqs[s] = lines[i].seqs[s]
      BY <1>1
    <3>2. CASE r.seqs[s] = 0
      <4>1. \A i \in 1..n + 1 : new[i].seqs[s] <= Top(lines, s)
        BY <1>1, <1>2, <2>1, <3>2
      <4>2. Top(lines, s) = 0 \/ \E i \in 1..n + 1 : new[i].seqs[s] = Top(lines, s)
        BY <2>1, <3>1
      <4>3. QED
        BY <1>1, <2>1, <3>2, <4>1, <4>2, TopIs
    <3>3. CASE r.seqs[s] = Top(lines, s) + 1
      <4>1. \A i \in 1..n + 1 : new[i].seqs[s] <= r.seqs[s]
        BY <1>1, <1>2, <2>1, <3>3
      <4>2. n + 1 \in 1..n + 1 /\ new[n + 1].seqs[s] = r.seqs[s] /\ r.seqs[s] # 0
        BY <1>1, <2>1, <3>3
      <4>3. QED
        BY <1>1, <1>3, <4>1, <4>2, TopIs
    <3>4. QED
      BY <3>2, <3>3
  <2>6. QED
    BY <2>3, <2>4, <2>5
<1>5. Dense(new)
  BY <1>1, <1>4 DEF Dense
<1>6. Ordered(new)
  <2>1. ASSUME lines # <<>> PROVE n \in 1..n /\ Last(lines) = lines[n] /\ lines[n].recorded <= r.recorded
    BY <1>1, <2>1, EmptySeq DEF Last
  <2>2. ASSUME NEW i \in 1..n + 1, NEW j \in 1..n + 1, i < j PROVE new[i].recorded <= new[j].recorded
    <3>1. i \in 1..n /\ new[i] = lines[i] /\ lines # <<>> /\ lines[i].recorded \in Nat
      BY <1>1, <2>2 DEF Row
    <3>2. CASE j \in 1..n
      BY <1>1, <2>2, <3>1, <3>2 DEF Sound, Ordered
    <3>3. CASE j = n + 1
      <4>1. lines[n].recorded \in Nat /\ lines[n].recorded <= r.recorded /\ r.recorded \in Nat /\ n \in 1..n
        BY <1>1, <2>1, <3>1 DEF Row
      <4>2. i = n \/ lines[i].recorded <= lines[n].recorded
        BY <1>1, <3>1, <4>1 DEF Sound, Ordered
      <4>3. QED
        BY <1>1, <3>1, <3>3, <4>1, <4>2
    <3>4. QED
      BY <1>2, <3>2, <3>3
  <2>3. QED
    BY <1>1, <2>2 DEF Ordered
<1>7. Distinct(new)
  BY <1>1, <1>2 DEF Sound, Distinct
<1>8. QED
  BY <1>1, <1>4, <1>5, <1>6, <1>7 DEF Sound, new

\* No rows are sound rows.
LEMMA EmptyRows ==
  /\ <<>> \in Seq(Row) /\ Len(<<>>) = 0 /\ Sound(<<>>)
  /\ \A lines \in Seq(Row) : lines \o <<>> = lines /\ <<>> \o lines = lines
<1>1. <<>> \in Seq(Row) /\ Len(<<>>) = 0
  OBVIOUS
<1>2. Sound(<<>>)
  BY <1>1 DEF Sound, Dense, Ordered, Distinct
<1>3. QED
  BY <1>1, <1>2, ConcatEmptySeq

\* The types of the invariant, with the rows at hand.
LEMMA Facts ==
  ASSUME IInv
  PROVE  /\ log \in Seq(Row) /\ staged \in Seq(Row) /\ Rows \in Seq(Row)
         /\ Len(log) \in Nat /\ Len(staged) \in Nat /\ Len(Rows) = Len(log) + Len(staged)
         /\ DOMAIN log = 1..Len(log)
         /\ \A i \in 1..Len(log) : Rows[i] = log[i] /\ log[i] \in Row /\ i \in 1..Len(Rows)
         /\ \A i \in 1..Len(staged) : Rows[Len(log) + i] = staged[i] /\ staged[i] \in Row
         /\ \A i \in 1..Len(Rows) : i \in 1..Len(log) \/ (i - Len(log) \in 1..Len(staged)
                                                         /\ Rows[i] = staged[i - Len(log)])
         /\ todo \in Seq(Inputs) /\ Len(todo) \in Nat
         /\ batch \in Seq(Inputs) /\ Len(batch) \in Nat
         /\ \A i, j \in 1..Len(batch) : batch[i].id = batch[j].id => i = j
         /\ Watched \subseteq Scopes /\ frontier \in [Scopes -> Nat]
         /\ disclosed \subseteq 1..Len(log) /\ since \in 0..Len(log) /\ asked \in 0..Len(log)
<1>1. /\ log \in Seq(Row) /\ staged \in Seq(Row) /\ todo \in Seq(Inputs) /\ batch \in Batches \cup {<<>>}
      /\ frontier \in [Scopes -> Nat]
      /\ disclosed \subseteq 1..Len(log) /\ since \in 0..Len(log) /\ asked \in 0..Len(log)
  BY DEF IInv, TypeOK, Inputs
<1>2. /\ Rows \in Seq(Row) /\ Len(log) \in Nat /\ Len(staged) \in Nat /\ Len(Rows) = Len(log) + Len(staged)
      /\ DOMAIN log = 1..Len(log) /\ \A i \in 1..Len(log) : log[i] \in Row
      /\ \A i \in 1..Len(staged) : staged[i] \in Row
  BY <1>1, ConcatProperties DEF Rows
<1>3. /\ \A i \in 1..Len(log) : Rows[i] = log[i]
      /\ \A i \in 1..Len(staged) : Rows[Len(log) + i] = staged[i]
  BY <1>1, ConcatProperties DEF Rows
<1>4. \A i \in 1..Len(Rows) : i \in 1..Len(log) \/ (i - Len(log) \in 1..Len(staged)
                                                     /\ Rows[i] = staged[i - Len(log)])
  <2> TAKE i \in 1..Len(Rows)
  <2>1. i \in 1..Len(log) \/ (i - Len(log) \in 1..Len(staged) /\ i = Len(log) + (i - Len(log)))
    BY <1>2
  <2>2. QED
    BY <1>3, <2>1
<1>5. batch \in Seq(Inputs) /\ \A i, j \in 1..Len(batch) : batch[i].id = batch[j].id => i = j
  <2>1. CASE batch = <<>>
    BY <2>1
  <2>2. CASE batch \in Batches
    <3>1. batch \in Seq(Inputs) /\ \A i, j \in DOMAIN batch : batch[i].id = batch[j].id => i = j
      BY <2>2, JournalAssumption DEF Inputs
    <3>2. DOMAIN batch = 1..Len(batch)
      BY <3>1
    <3>3. QED
      BY <3>1, <3>2
  <2>3. QED
    BY <1>1, <2>1, <2>2
<1>6. \A i \in 1..Len(log) : i \in 1..Len(Rows)
  BY <1>2
<1>7. QED
  BY <1>1, <1>2, <1>3, <1>4, <1>5, <1>6, JournalAssumption

-----------------------------------------------------------------------------
\* The steps.

LEMMA InitIInv == Init => IInv
<1> SUFFICES ASSUME Init PROVE IInv
  OBVIOUS
<1>1. log = <<>> /\ staged = <<>> /\ batch = <<>> /\ todo = <<>> /\ Rows = <<>>
  BY EmptyRows DEF Init, Rows
<1>2. TypeOK
  <2>1. log \in Seq(Row) /\ staged \in Seq(Row) /\ todo \in Seq(Inputs) /\ Len(log) = 0
    BY <1>1, EmptyRows
  <2>2. nextSeq \in [Scopes -> Nat] /\ frontier \in [Scopes -> Nat]
    BY DEF Init
  <2>3. disclosed \subseteq 1..Len(log) /\ repeated \subseteq disclosed /\ asked \in 0..Len(log) /\ since \in 0..Len(log)
    BY <2>1 DEF Init
  <2>4. QED
    BY <1>1, <2>1, <2>2, <2>3 DEF Init, TypeOK, Locked, Inputs
<1>3. Writing
  BY <1>1, EmptyRows DEF Init, Writing, Done
<1>4. QED
  <2>1. Behind /\ NothingSkipped /\ LastPageIsLast
    BY JournalAssumption DEF Init, Behind, NothingSkipped, LastPageIsLast
  <2>2. Sound(log) /\ Sound(Rows) /\ acked = {}
    BY <1>1, EmptyRows DEF Init
  <2>3. QED
    BY <1>2, <1>3, <2>1, <2>2 DEF IInv

\* Nothing the observer relies on depends on an open transaction.
LEMMA ObserverUntouched ==
  ASSUME IInv, UNCHANGED <<log, acked, observer>>
  PROVE  Behind' /\ NothingSkipped' /\ LastPageIsLast' /\ Sound(log)'
         /\ \A input \in acked' : Recorded(input, log)'
<1>1. UNCHANGED <<log, acked, mode, unread, frontier, hasMore, disclosed, repeated, asked, since>>
  BY DEF observer
<1>2. QED
  BY <1>1 DEF IInv, Behind, NothingSkipped, LastPageIsLast, Sound, Dense, Ordered, Distinct, Recorded, Beyond

LEMMA BeginStep ==
  ASSUME IInv, NEW b \in Batches, BeginAppend(b)
  PROVE  IInv'
<1>1. /\ UNCHANGED <<log, acked, observer>> /\ batch' = b /\ todo' = b /\ staged' = <<>>
      /\ nextSeq' = [s \in Scopes |-> 0]
  BY DEF BeginAppend
<1>2. b \in Seq(Inputs) /\ b # <<>>
  BY JournalAssumption DEF Inputs
<1>3. Rows' = log
  BY <1>1, Facts, EmptyRows DEF Rows
<1>4. TypeOK'
  BY <1>1, <1>2, EmptyRows DEF IInv, TypeOK, Locked, observer, Inputs
<1>5. Writing'
  <2>1. Len(b) \in Nat /\ Len(b) - Len(b) = 0 /\ \A k \in 1..Len(b) : 0 + k = k
    BY <1>2
  <2>2. Done' = 0
    BY <1>1, <2>1 DEF Done
  <2>3. 1..Done' = {} /\ Len(staged') = 0
    BY <1>1, <2>2
  <2>4. QED
    BY <1>1, <2>1, <2>2, <2>3 DEF Writing
<1>6. Sound(Rows)'
  BY <1>3 DEF IInv
<1>7. QED
  BY <1>1, <1>4, <1>5, <1>6, ObserverUntouched DEF IInv

LEMMA RollbackStep ==
  ASSUME IInv, Rollback
  PROVE  IInv'
<1>1. /\ UNCHANGED <<log, acked, observer>> /\ batch' = <<>> /\ todo' = <<>> /\ staged' = <<>>
      /\ nextSeq' = [s \in Scopes |-> 0]
  BY DEF Rollback, Release, Discarded
<1>2. Rows' = log
  BY <1>1, Facts, EmptyRows DEF Rows
<1>3. TypeOK'
  BY <1>1, EmptyRows DEF IInv, TypeOK, Locked, observer
<1>4. Writing'
  BY <1>1 DEF Writing, Done
<1>5. Sound(Rows)'
  BY <1>2 DEF IInv
<1>6. QED
  BY <1>1, <1>3, <1>4, <1>5, ObserverUntouched DEF IInv

\* The next input is in the log already, or becomes a row with the next number
\* of each of its scopes.
LEMMA StageStep ==
  ASSUME IInv, NEW now \in Clock, StageItem(now)
  PROVE  IInv'
<1> DEFINE input == Head(todo)
           n == Len(todo)
           r == [id |-> input.id, body |-> input.body, recorded |-> RecordedAt(now),
                 seqs |-> [s \in Scopes |-> IF s \in input.scopes THEN Allocated(s) ELSE 0]]
<1>1. /\ batch # <<>> /\ todo # <<>>
      /\ \A i \in DOMAIN log : log[i].id = input.id => Matches(log[i], input)
      /\ todo' = Tail(todo) /\ UNCHANGED <<log, batch, acked, observer>>
  BY DEF StageItem, Locked
<1>2. /\ input = todo[1] /\ input \in Inputs /\ n \in Nat \ {0} /\ Tail(todo) \in Seq(Inputs)
      /\ Len(Tail(todo)) = n - 1 /\ \A k \in 1..n - 1 : Tail(todo)[k] = todo[k + 1]
  BY <1>1, Facts, HeadTailProperties
<1>3. /\ Done \in Nat /\ Done + n = Len(batch) /\ n <= Len(batch)
      /\ \A k \in 1..n : todo[k] = batch[Done + k]
  BY <1>2, Facts DEF IInv, Writing, Done
<1>4. /\ Done' = Done + 1 /\ Len(todo') <= Len(batch') /\ \A k \in 1..Len(todo') : todo'[k] = batch'[Done' + k]
      /\ input = batch[Done + 1] /\ Done + 1 \in 1..Len(batch)
  <2>1. Len(todo') = n - 1 /\ Len(batch') = Len(batch) /\ Len(batch) \in Nat
    BY <1>1, <1>2, Facts
  <2>2. Done' = Done + 1
    BY <1>2, <2>1 DEF Done
  <2>3. \A k \in 1..n - 1 : k + 1 \in 1..n /\ Done + (k + 1) = (Done + 1) + k
    BY <1>2, <1>3
  <2>4. \A k \in 1..n - 1 : todo'[k] = batch'[Done' + k]
    BY <1>1, <1>2, <1>3, <2>2, <2>3
  <2>5. QED
    <3>1. 1 \in 1..n /\ Done + 1 \in 1..Len(batch)
      BY <1>2, <1>3, <2>1
    <3>2. input = batch[Done + 1]
      BY <1>2, <1>3, <3>1
    <3>3. Len(todo') <= Len(batch')
      BY <1>2, <1>3, <2>1
    <3>4. QED
      BY <2>1, <2>2, <2>4, <3>1, <3>2, <3>3
<1>5. CASE Known(input.id)
  <2>1. UNCHANGED <<staged, nextSeq, log>>
    BY <1>1, <1>5 DEF StageItem
  <2>2. Rows' = Rows
    BY <2>1 DEF Rows
  <2>3. TypeOK'
    BY <1>1, <1>2, <2>1 DEF IInv, TypeOK, Locked, observer, Inputs
  <2>4. Recorded(input, Rows)
    <3>1. PICK i \in 1..Len(log) : log[i].id = input.id
      BY <1>5, Facts DEF Known
    <3>2. Matches(Rows[i], input) /\ i \in 1..Len(Rows)
      BY <1>1, <3>1, Facts
    <3>3. QED
      BY <3>2 DEF Recorded
  <2>5. \A k \in 1..Done + 1 : k \in 1..Done \/ k = Done + 1
    BY <1>3
  <2>6. Writing'
    <3>1. \A k \in 1..Done' : Recorded(batch[k], Rows)
      BY <1>4, <2>4, <2>5 DEF IInv, Writing
    <3>2. \A i \in 1..Len(staged) : \E k \in 1..Done' : staged[i].id = batch[k].id
      <4>1. \A k \in 1..Done : k \in 1..Done'
        BY <1>3, <1>4
      <4>2. QED
        BY <4>1 DEF IInv, Writing
    <3>3. \A s \in Scopes : nextSeq[s] # 0 => nextSeq[s] = Top(Rows, s) + 1
      BY DEF IInv, Writing
    <3>4. batch' = batch /\ staged' = staged /\ nextSeq' = nextSeq
      BY <1>1, <2>1
    <3>5. QED
      BY <1>4, <2>2, <3>1, <3>2, <3>3, <3>4 DEF Writing, Recorded
  <2>7. Sound(Rows)'
    BY <2>2 DEF IInv, Sound, Dense, Ordered, Distinct
  <2>8. QED
    BY <1>1, <2>3, <2>6, <2>7, ObserverUntouched DEF IInv
<1>6. CASE ~Known(input.id)
  <2>1. /\ staged' = Append(staged, r)
        /\ nextSeq' = [s \in Scopes |-> IF s \in input.scopes THEN Cached(s) ELSE nextSeq[s]]
    BY <1>6 DEF StageItem
  <2>2. \A s \in Scopes : Top(Rows, s) \in Nat /\ Allocated(s) = Top(Rows, s) + 1
    BY Facts, TopOfRows DEF Allocated, Rows, IInv, Writing
  <2>3. RecordedAt(now) \in Nat /\ (Rows # <<>> => Last(Rows).recorded <= RecordedAt(now))
    <3>1. now \in Nat
      BY JournalAssumption
    <3>2. LastRecorded(Rows) \in Nat
      <4>1. ASSUME Rows # <<>> PROVE Last(Rows) \in Row
        BY <4>1, Facts, EmptySeq DEF Last
      <4>2. QED
        BY <4>1 DEF LastRecorded, Row
    <3>3. Rows # <<>> => LastRecorded(Rows) = Last(Rows).recorded
      BY DEF LastRecorded
    <3>4. RecordedAt(now) = IF now < LastRecorded(Rows) THEN LastRecorded(Rows) ELSE now
      BY DEF RecordedAt, Rows
    <3>5. QED
      BY <3>1, <3>2, <3>3, <3>4
  <2>4. r \in Row
    BY <1>2, <2>2, <2>3 DEF Row, Inputs
  <2>5. \A s \in Scopes : r.seqs[s] = (IF s \in input.scopes THEN Top(Rows, s) + 1 ELSE 0)
    BY <2>2
  <2>6. r.id = input.id /\ r.body = input.body /\ r.recorded = RecordedAt(now)
    OBVIOUS
  <2> HIDE DEF r
  <2>7. \A i \in 1..Len(Rows) : Rows[i].id # r.id
    <3> SUFFICES ASSUME NEW i \in 1..Len(Rows), Rows[i].id = input.id PROVE FALSE
      BY <2>6
    <3>1. i \notin 1..Len(log)
      BY <1>6, Facts DEF Known
    <3>2. PICK m \in 1..Len(staged) : staged[m].id = input.id
      BY <3>1, Facts
    <3>3. PICK k \in 1..Done : staged[m].id = batch[k].id
      BY DEF IInv, Writing
    <3>4. k \in 1..Len(batch) /\ k # Done + 1
      <4>1. Done \in Nat /\ Done <= Len(batch)
        BY <1>3
      <4>2. QED
        BY <4>1
    <3>5. QED
      BY <1>4, <3>2, <3>3, <3>4, Facts
  <2>8. Rows' = Append(Rows, r)
    BY <1>1, <2>1, <2>4, Facts, AppendToConcat, SMTT(30) DEF Rows
  <2>9. /\ Sound(Append(Rows, r))
        /\ Len(Append(Rows, r)) = Len(Rows) + 1
        /\ \A i \in 1..Len(Rows) : Append(Rows, r)[i] = Rows[i]
        /\ Append(Rows, r)[Len(Rows) + 1] = r
        /\ \A s \in Scopes : Top(Append(Rows, r), s) = IF r.seqs[s] = 0 THEN Top(Rows, s) ELSE r.seqs[s]
    <3>1. \A s \in Scopes : r.seqs[s] = 0 \/ r.seqs[s] = Top(Rows, s) + 1
      BY <2>5
    <3>2. Rows # <<>> => Last(Rows).recorded <= r.recorded
      BY <2>3, <2>6
    <3>3. QED
      BY <2>4, <2>7, <3>1, <3>2, SoundAppend DEF IInv
  <2>10. Sound(Rows)'
    BY <2>8, <2>9 DEF Sound, Dense, Ordered, Distinct
  <2>11. TypeOK'
    <3>1. staged' \in Seq(Row) /\ nextSeq' \in [Scopes -> Nat]
      BY <1>2, <2>1, <2>2, <2>4, Facts, AppendProperties, SMTT(30)
         DEF Cached, Inputs, IInv, TypeOK
    <3>2. todo' \in Seq([id : STRING, body : STRING, scopes : SUBSET Scopes])
      BY <1>1, <1>2 DEF Inputs
    <3>3. QED
      BY <1>1, <3>1, <3>2 DEF IInv, TypeOK, Locked, observer
  <2>12. Writing'
    <3>1. \A s \in Scopes : nextSeq'[s] # 0 => nextSeq'[s] = Top(Rows', s) + 1
      <4> TAKE s \in Scopes
      <4>1. CASE s \in input.scopes
        BY <2>1, <2>2, <2>5, <2>8, <2>9, <4>1 DEF Cached
      <4>2. CASE s \notin input.scopes
        <5>1. nextSeq'[s] = nextSeq[s] /\ Top(Rows', s) = Top(Rows, s)
          BY <2>1, <2>5, <2>8, <2>9, <4>2
        <5>2. QED
          BY <5>1 DEF IInv, Writing
      <4>3. QED
        BY <4>1, <4>2
    <3>2. \A i \in 1..Len(staged') : \E k \in 1..Done' : staged'[i].id = batch'[k].id
      <4>1. /\ Len(staged') = Len(staged) + 1 /\ staged'[Len(staged) + 1] = r
            /\ \A i \in 1..Len(staged) : staged'[i] = staged[i]
        BY <2>1, <2>4, Facts, AppendProperties
      <4>2. \A i \in 1..Len(staged) + 1 : i \in 1..Len(staged) \/ i = Len(staged) + 1
        BY Facts
      <4>3. \A k \in 1..Done : k \in 1..Done'
        BY <1>3, <1>4
      <4>4. \A i \in 1..Len(staged) : \E k \in 1..Done' : staged[i].id = batch[k].id
        BY <4>3 DEF IInv, Writing
      <4>5. Done + 1 \in 1..Done' /\ r.id = batch[Done + 1].id /\ batch' = batch
        BY <1>1, <1>3, <1>4, <2>6
      <4>6. QED
        BY <4>1, <4>2, <4>4, <4>5
    <3>3. \A k \in 1..Done' : Recorded(batch'[k], Rows')
      <4>1. \A i \in 1..Len(Rows) : i \in 1..Len(Rows) + 1
        BY Facts
      <4>2. \A k \in 1..Done : Recorded(batch[k], Rows')
        <5> TAKE k \in 1..Done
        <5>1. PICK i \in 1..Len(Rows) : Matches(Rows[i], batch[k])
          BY DEF IInv, Writing, Recorded
        <5>2. i \in 1..Len(Rows') /\ Rows'[i] = Rows[i]
          BY <2>8, <2>9, <4>1
        <5>3. QED
          BY <5>1, <5>2 DEF Recorded
      <4>3. Recorded(input, Rows')
        <5>1. {s \in Scopes : In(r, s)} = input.scopes
          BY <1>2, <2>2, <2>5 DEF In, Inputs
        <5>2. Len(Rows) + 1 \in 1..Len(Rows')
          BY <2>8, <2>9, Facts
        <5>3. QED
          BY <2>6, <2>8, <2>9, <5>1, <5>2 DEF Recorded, Matches
      <4>4. \A k \in 1..Done + 1 : k \in 1..Done \/ k = Done + 1
        BY <1>3
      <4>5. QED
        BY <1>1, <1>4, <4>2, <4>3, <4>4
    <3>4. QED
      BY <1>4, <3>1, <3>2, <3>3 DEF Writing, Recorded
  <2>13. QED
    BY <1>1, <2>10, <2>11, <2>12, ObserverUntouched DEF IInv
<1>7. QED
  BY <1>5, <1>6

\* Publishing the open transaction: its rows are beyond every frontier.
LEMMA PublishStep ==
  ASSUME IInv, CommitBatch \/ CommitUnseen
  PROVE  IInv'
<1>1. /\ log' = Rows /\ todo = <<>> /\ batch # <<>> /\ UNCHANGED observer
      /\ acked' = acked \cup ToSet(batch) \/ acked' = acked
      /\ batch' = <<>> /\ todo' = <<>> /\ staged' = <<>> /\ nextSeq' = [s \in Scopes |-> 0]
  BY DEF CommitBatch, CommitUnseen, Release, Discarded, Published, Rows, Locked
<1>2. Rows' = Rows
  BY <1>1, Facts, EmptyRows DEF Rows
<1>3. Sound(log)' /\ Sound(Rows)'
  BY <1>1, <1>2, SMTT(30) DEF IInv, Sound, Dense, Ordered, Distinct
<1>4. /\ UNCHANGED <<mode, unread, frontier, hasMore, disclosed, repeated, asked, since>>
      /\ Len(log') = Len(Rows) /\ Len(log) <= Len(Rows)
      /\ \A i \in 1..Len(log) : log'[i] = log[i] /\ i \in 1..Len(log')
  BY <1>1, Facts DEF observer
<1>5. TypeOK'
  <2>1. since \in 0..Len(Rows) /\ asked \in 0..Len(Rows) /\ disclosed \subseteq 1..Len(Rows)
    BY <1>4, Facts
  <2>2. batch \in Batches /\ Rows \in Seq(Row)
    BY <1>1, Facts DEF IInv, TypeOK
  <2>3. ToSet(batch) \subseteq Inputs
    BY Facts, ToSetType
  <2>4. acked' \subseteq [id : STRING, body : STRING, scopes : SUBSET Scopes]
    BY <1>1, <2>3 DEF IInv, TypeOK, Inputs
  <2>5. QED
    BY <1>1, <1>4, <2>1, <2>2, <2>4, EmptyRows DEF IInv, TypeOK, Locked
<1>6. Writing'
  BY <1>1 DEF Writing, Done
<1>7. \A input \in acked' : Recorded(input, log')
  <2>1. \A input \in acked : Recorded(input, log')
    BY <1>4 DEF IInv, Recorded
  <2>2. \A k \in 1..Len(batch) : Recorded(batch[k], log')
    <3>1. Done = Len(batch)
      BY <1>1, Facts DEF Done
    <3>2. QED
      BY <1>1, <3>1 DEF IInv, Writing, Recorded
  <2>3. \A input \in ToSet(batch) : \E k \in 1..Len(batch) : input = batch[k]
    BY Facts DEF ToSet
  <2>4. QED
    BY <1>1, <2>1, <2>2, <2>3
<1>8. Behind'
  <2>1. \A s \in Watched : frontier[s] = 0 \/ \E i \in 1..Len(log') : log'[i].seqs[s] = frontier[s]
    BY <1>4 DEF IInv, Behind
  <2>2. \A i \in disclosed : i \in 1..Len(log) /\ ~Beyond(log[i], frontier)
    BY Facts DEF IInv, Behind
  <2>3. \A i \in disclosed : ~Beyond(log'[i], frontier)
    BY <1>4, <2>2
  <2>4. mode = "head" => disclosed = {} /\ asked = 0
    BY DEF IInv, Behind
  <2>5. QED
    BY <1>4, <2>1, <2>3, <2>4 DEF Behind, Beyond
<1>9. LastPageIsLast'
  <2>1. \A i \in 1..asked : i \in 1..Len(log)
    BY Facts
  <2>2. mode = "idle" /\ ~hasMore => \A i \in 1..asked : ~Beyond(log'[i], frontier)
    BY <1>4, <2>1 DEF IInv, LastPageIsLast
  <2>3. QED
    BY <1>4, <2>2 DEF LastPageIsLast, Beyond
<1>10. NothingSkipped'
  <2> SUFFICES ASSUME mode # "head", NEW i \in since + 1..Len(Rows), NEW s \in Watched, In(Rows[i], s)
               PROVE  i \in disclosed \/ Beyond(Rows[i], frontier)
    BY <1>1, <1>4 DEF IInv, NothingSkipped
  <2>1. CASE i \in 1..Len(log)
    <3>1. i \in since + 1..Len(log) /\ Rows[i] = log[i]
      BY <2>1, Facts
    <3>2. QED
      BY <3>1 DEF IInv, NothingSkipped
  <2>2. CASE i \notin 1..Len(log)
    <3>1. i \in 1..Len(Rows) /\ i > Len(log) /\ s \in Scopes /\ Rows[i] \in Row /\ Rows[i].seqs[s] \in Nat
      <4>1. i \in 1..Len(Rows) /\ i > Len(log)
        BY <2>2, Facts
      <4>2. Rows[i] \in Row /\ s \in Scopes
        BY <4>1, Facts
      <4>3. QED
        BY <4>1, <4>2 DEF Row
    <3>2. CASE frontier[s] = 0
      BY <3>1, <3>2 DEF Beyond, In
    <3>3. CASE frontier[s] # 0
      <4>1. PICK k \in 1..Len(log) : log[k].seqs[s] = frontier[s]
        BY <3>3 DEF IInv, Behind
      <4>2. k \in 1..Len(Rows) /\ Rows[k].seqs[s] = frontier[s] /\ k < i /\ In(Rows[k], s)
        BY <3>1, <3>3, <4>1, Facts DEF In
      <4>3. Rows[k].seqs[s] < Rows[i].seqs[s]
        BY <3>1, <4>2 DEF IInv, Sound, Dense
      <4>4. QED
        BY <3>1, <4>2, <4>3, Facts DEF Beyond
    <3>4. QED
      BY <3>2, <3>3
  <2>3. QED
    BY <2>1, <2>2
<1>11. QED
  BY <1>3, <1>5, <1>6, <1>7, <1>8, <1>9, <1>10 DEF IInv

\* What the observer does leaves the writers alone.
LEMMA WritersUntouched ==
  ASSUME IInv, UNCHANGED <<log, append, acked>>
  PROVE  Sound(log)' /\ Sound(Rows)' /\ Writing' /\ \A input \in acked' : Recorded(input, log)'
<1>1. UNCHANGED <<log, batch, todo, staged, nextSeq, acked>>
  BY DEF append
<1>2. Rows' = Rows
  BY <1>1 DEF Rows
<1>3. Sound(log)' /\ Sound(Rows)'
  BY <1>1, <1>2 DEF IInv, Sound, Dense, Ordered, Distinct
<1>4. Writing' /\ \A input \in acked' : Recorded(input, log)'
  BY <1>1, <1>2 DEF IInv, Writing, Done, Recorded
<1>5. QED
  BY <1>3, <1>4

LEMMA ReadHeadStep ==
  ASSUME IInv, NEW s \in Watched, ReadHead(s)
  PROVE  IInv'
<1>1. /\ UNCHANGED <<log, append, acked, hasMore, disclosed, repeated, asked>> /\ mode = "head"
      /\ frontier' = [frontier EXCEPT ![s] = Top(log, s)] /\ unread' = unread \ {s}
      /\ mode' \in {"head", "idle"} /\ since' \in {since, Len(log)} /\ (mode' = "idle" => since' = Len(log))
  BY DEF ReadHead
<1>2. /\ s \in Scopes /\ Top(log, s) \in Nat
      /\ Top(log, s) = 0 \/ \E i \in 1..Len(log) : log[i].seqs[s] = Top(log, s)
  BY Facts, TopOfRows
<1>3. frontier' \in [Scopes -> Nat] /\ \A u \in Scopes : frontier'[u] = IF u = s THEN Top(log, s) ELSE frontier[u]
  BY <1>1, <1>2, Facts
<1>4. disclosed = {} /\ asked = 0
  BY <1>1 DEF IInv, Behind
<1>5. TypeOK'
  <2>1. since' \in 0..Len(log)
    BY <1>1, Facts
  <2>2. QED
    BY <1>1, <1>3, <2>1 DEF IInv, TypeOK, append, Locked
<1>6. Behind'
  BY <1>1, <1>2, <1>3, <1>4, Facts DEF IInv, Behind
<1>7. NothingSkipped' /\ LastPageIsLast'
  <2>1. repeated = {}
    BY <1>4 DEF IInv, TypeOK
  <2>2. since' = Len(log) => (since' + 1)..Len(log') = {}
    BY <1>1, Facts
  <2>3. NothingSkipped'
    BY <1>1, <2>1, <2>2 DEF NothingSkipped
  <2>4. LastPageIsLast'
    BY <1>1, <1>4 DEF LastPageIsLast
  <2>5. QED
    BY <2>3, <2>4
<1>8. QED
  BY <1>1, <1>5, <1>6, <1>7, WritersUntouched DEF IInv

\* A page holds the oldest commits beyond the frontier, all of them when it
\* is not full.
LEMMA PageFacts ==
  ASSUME NEW n \in Nat, Len(log) = n, NEW front
  PROVE  /\ Page(front) \subseteq Ahead(front) /\ Ahead(front) \subseteq 1..n
         /\ \A p \in Page(front), i \in Ahead(front) \ Page(front) : p < i
         /\ Cardinality(Page(front)) # PageSize => Page(front) = Ahead(front)
<1> DEFINE A == Ahead(front)
           P == Page(front)
           Before(i) == {j \in A : j < i}
<1>1. /\ A \subseteq 1..n /\ P \subseteq A /\ PageSize \in Nat \ {0}
      /\ \A i \in A : i \in P <=> Cardinality(Before(i)) < PageSize
  BY JournalAssumption DEF Ahead, Page
<1> HIDE DEF A, P
<1>0. /\ \A i \in A : i \in Nat /\ 0 < i /\ i <= n
      /\ \A p \in P : p \in A
      /\ n \in Int /\ 1 \in Int
  BY <1>1
<1>2. IsFiniteSet(A)
  <2>1. IsFiniteSet(1..n)
    BY <1>0, FS_Interval
  <2>2. QED
    BY <1>1, <2>1, FS_Subset
<1>3. /\ \A i \in A : IsFiniteSet(Before(i)) /\ Cardinality(Before(i)) \in Nat
      /\ IsFiniteSet(P) /\ Cardinality(P) \in Nat
  <2>1. \A i \in A : Before(i) \subseteq A
    OBVIOUS
  <2>2. QED
    BY <1>1, <1>2, <2>1, FS_Subset, FS_CardinalityType
<1>4. \A p \in P, i \in A \ P : p < i
  <2> SUFFICES ASSUME NEW p \in P, NEW i \in A \ P, ~(p < i) PROVE FALSE
    OBVIOUS
  <2>1. i < p /\ p \in A
    BY <1>0
  <2>2. Before(i) \subseteq Before(p)
    BY <1>0, <2>1
  <2>3. Cardinality(Before(i)) <= Cardinality(Before(p))
    BY <1>3, <2>1, <2>2, FS_Subset
  <2>4. Cardinality(Before(p)) < PageSize /\ ~(Cardinality(Before(i)) < PageSize)
    BY <1>1, <2>1
  <2>5. Cardinality(Before(p)) \in Nat /\ Cardinality(Before(i)) \in Nat /\ PageSize \in Nat
    BY <1>1, <1>3, <2>1
  <2> HIDE DEF Before
  <2>6. QED
    BY <2>3, <2>4, <2>5
<1>5. Cardinality(P) <= PageSize
  <2>1. CASE P = {}
    BY <1>1, <2>1, FS_EmptySet
  <2>2. CASE P # {}
    <3>1. PICK m \in P : \A p \in P : p <= m
      <4> DEFINE f == [i \in P |-> i]
      <4>1. P \in SUBSET (1..n) /\ \A i \in P : f[i] \in Nat
        BY <1>0, <1>1
      <4>2. PICK m \in {0} \cup {f[k] : k \in P} : m \in Nat /\ \A k \in P : f[k] <= m
        BY <4>1, MaxExists
      <4>3. m \in P
        BY <1>0, <2>2, <4>2
      <4>4. QED
        BY <4>2, <4>3
    <3>2. P = Before(m) \cup {m} /\ m \notin Before(m)
      <4>1. \A p \in P : p \in A /\ (p < m \/ p = m)
        BY <1>0, <3>1
      <4>2. \A j \in Before(m) : j \in P
        <5> TAKE j \in Before(m)
        <5>1. j \in A /\ j < m
          OBVIOUS
        <5>2. j \in A \ P => m < j
          BY <1>4
        <5>3. QED
          BY <1>0, <5>1, <5>2
      <4>3. ~(m < m)
        BY <1>0
      <4>4. QED
        BY <4>1, <4>2, <4>3
    <3>3. Cardinality(P) = Cardinality(Before(m)) + 1
      <4>1. IsFiniteSet(Before(m)) /\ m \notin Before(m)
        BY <1>0, <1>3, <3>1, <3>2
      <4> HIDE DEF Before
      <4>2. Cardinality(Before(m) \cup {m}) = Cardinality(Before(m)) + 1
        BY <4>1, FS_AddElement
      <4>3. QED
        BY <3>2, <4>2
    <3>4. Cardinality(Before(m)) < PageSize /\ Cardinality(Before(m)) \in Nat /\ PageSize \in Nat
      BY <1>0, <1>1, <1>3
    <3> HIDE DEF Before
    <3>5. QED
      BY <3>3, <3>4
  <2>3. QED
    BY <2>1, <2>2
<1>6. ASSUME P # A PROVE Cardinality(P) >= PageSize
  <2>1. PICK i \in A \ P : \A j \in A \ P : i <= j
    <3>1. A \ P \in SUBSET Nat /\ A \ P # {}
      BY <1>0, <1>1, <1>6
    <3>2. QED
      BY <3>1, LeastNatural
  <2>2. Before(i) \subseteq P
    BY <1>0, <2>1
  <2>3. Cardinality(Before(i)) <= Cardinality(P)
    BY <1>3, <2>2, FS_Subset
  <2>4. ~(Cardinality(Before(i)) < PageSize) /\ Cardinality(Before(i)) \in Nat /\ PageSize \in Nat
    BY <1>1, <1>3, <2>1
  <2> HIDE DEF Before
  <2>5. QED
    BY <1>3, <2>3, <2>4
<1>7. QED
  BY <1>1, <1>3, <1>4, <1>5, <1>6 DEF A, P

\* A page moves the frontier to what it shows and to nothing else.
LEMMA ReadDeltaStep ==
  ASSUME IInv, ReadDelta
  PROVE  IInv'
<1> DEFINE P == Page(frontier)
           A == Ahead(frontier)
           isShown(s) == Top([i \in P |-> log[i]], s)
<1>1. /\ UNCHANGED <<log, append, acked, unread, since>> /\ mode = "idle" /\ mode' \in {"idle", "more"}
      /\ disclosed' = disclosed \cup P /\ repeated' = repeated \cup (disclosed \cap P)
      /\ frontier' = PageEnd(frontier, P) /\ hasMore' = FALSE /\ asked' = Len(log)
      /\ (mode' = "idle" => Cardinality(P) # PageSize)
  BY DEF ReadDelta, MayHaveMore
<1>2. /\ P \subseteq A /\ A \subseteq 1..Len(log)
      /\ \A p \in P, i \in A \ P : p < i
      /\ Cardinality(P) # PageSize => P = A
  BY Facts, PageFacts
<1>3. \A i \in 1..Len(log) : i \in A <=> Beyond(log[i], frontier)
  BY DEF Ahead
<1>4. \A s \in Scopes : \A i \in 1..Len(log) : log[i].seqs[s] \in Nat /\ frontier[s] \in Nat
  BY Facts DEF Row
<1> HIDE DEF P, A
<1>5. \A s \in Scopes : /\ isShown(s) \in Nat
                        /\ \A i \in P : log[i].seqs[s] <= isShown(s)
                        /\ isShown(s) = 0 \/ \E i \in P : log[i].seqs[s] = isShown(s)
  <2> TAKE s \in Scopes
  <2> DEFINE paged == [i \in P |-> log[i]]
  <2>1. P \in SUBSET (1..Len(log)) /\ Len(log) \in Nat /\ DOMAIN paged = P
        /\ \A i \in P : paged[i] = log[i] /\ paged[i].seqs[s] \in Nat
    BY <1>2, <1>4, Facts
  <2>2. isShown(s) = Top(paged, s)
    OBVIOUS
  <2> HIDE DEF paged, isShown
  <2>3. /\ Top(paged, s) \in Nat
        /\ \A i \in P : paged[i].seqs[s] <= Top(paged, s)
        /\ Top(paged, s) = 0 \/ \E i \in P : paged[i].seqs[s] = Top(paged, s)
    BY <2>1, TopFacts
  <2>4. QED
    BY <2>1, <2>2, <2>3
<1>6. /\ frontier' \in [Scopes -> Nat]
      /\ \A s \in Watched : /\ frontier[s] <= frontier'[s]
                            /\ \A i \in P : log[i].seqs[s] <= frontier'[s]
                            /\ frontier'[s] = frontier[s] \/ \E i \in P : log[i].seqs[s] = frontier'[s]
  <2>1. \A s \in Scopes : frontier'[s] = IF s \notin Watched THEN frontier[s]
                                         ELSE IF isShown(s) > frontier[s] THEN isShown(s) ELSE frontier[s]
    BY <1>1 DEF PageEnd
  <2>2. frontier' \in [Scopes -> Nat]
    BY <1>1, <1>4, <1>5, Facts DEF PageEnd
  <2>3. ASSUME NEW s \in Watched
        PROVE  /\ frontier[s] <= frontier'[s]
               /\ \A i \in P : log[i].seqs[s] <= frontier'[s]
               /\ frontier'[s] = frontier[s] \/ \E i \in P : log[i].seqs[s] = frontier'[s]
    <3>1. s \in Scopes /\ frontier[s] \in Nat /\ isShown(s) \in Nat
          /\ frontier'[s] = IF isShown(s) > frontier[s] THEN isShown(s) ELSE frontier[s]
      BY <1>5, <2>1, Facts
    <3> HIDE DEF isShown
    <3>2. \A i \in P : log[i].seqs[s] \in Nat /\ log[i].seqs[s] <= isShown(s)
      BY <1>2, <1>4, <1>5, <3>1
    <3>3. QED
      BY <1>5, <3>1, <3>2
  <2>4. QED
    BY <2>2, <2>3
<1>7. ASSUME NEW i \in 1..Len(log), Beyond(log[i], frontier') PROVE i \in A \ P
  <2>1. PICK s \in Watched : log[i].seqs[s] > frontier'[s]
    BY <1>7 DEF Beyond
  <2>2. s \in Scopes /\ log[i].seqs[s] \in Nat /\ frontier[s] \in Nat /\ frontier'[s] \in Nat
    BY <1>4, <1>6, Facts
  <2>3. log[i].seqs[s] > frontier[s] /\ i \notin P
    BY <1>6, <2>1, <2>2
  <2>4. QED
    BY <1>3, <2>3 DEF Beyond
<1>8. TypeOK'
  <2>1. disclosed' \subseteq 1..Len(log) /\ repeated' \subseteq disclosed' /\ asked' \in 0..Len(log)
    BY <1>1, <1>2, Facts DEF IInv, TypeOK
  <2>2. QED
    BY <1>1, <1>6, <2>1 DEF IInv, TypeOK, append, Locked
<1>9. Behind'
  <2>1. \A s \in Watched : frontier'[s] = 0 \/ \E i \in 1..Len(log) : log[i].seqs[s] = frontier'[s]
    BY <1>2, <1>6 DEF IInv, Behind
  <2>2. \A i \in disclosed : i \notin A
    BY <1>3, Facts DEF IInv, Behind
  <2>3. \A i \in disclosed' : ~Beyond(log[i], frontier')
    BY <1>1, <1>2, <1>7, <2>2, Facts
  <2>4. QED
    BY <1>1, <2>1, <2>3 DEF Behind, Beyond
<1>10. NothingSkipped'
  <2>1. repeated' = {}
    <3>1. \A i \in disclosed : i \notin A
      BY <1>3, Facts DEF IInv, Behind
    <3>2. QED
      BY <1>1, <1>2, <3>1 DEF IInv, NothingSkipped
  <2>2. ASSUME NEW i \in since + 1..Len(log), \E s \in Watched : In(log[i], s), i \notin disclosed'
        PROVE  Beyond(log[i], frontier')
    <3>1. i \in 1..Len(log) /\ Beyond(log[i], frontier) /\ i \notin P
      <4>1. i \in 1..Len(log) /\ mode # "head" /\ i \notin disclosed /\ i \notin P
        BY <1>1, <2>2, Facts
      <4>2. QED
        BY <2>2, <4>1 DEF IInv, NothingSkipped
    <3>2. PICK s \in Watched : log[i].seqs[s] > frontier[s]
      BY <3>1 DEF Beyond
    <3>3. s \in Scopes /\ log[i].seqs[s] \in Nat /\ frontier[s] \in Nat /\ In(log[i], s)
      BY <1>4, <3>1, <3>2, Facts DEF In
    <3>4. CASE frontier'[s] = frontier[s]
      BY <3>2, <3>4 DEF Beyond
    <3>5. CASE frontier'[s] # frontier[s]
      <4>1. PICK p \in P : log[p].seqs[s] = frontier'[s]
        BY <1>6, <3>5
      <4>2. p < i /\ p \in 1..Len(log)
        BY <1>2, <1>3, <3>1
      <4>3. frontier'[s] \in Nat /\ frontier[s] < frontier'[s] /\ In(log[p], s)
        BY <1>6, <3>3, <3>5, <4>1, Facts DEF In
      <4>4. log[p].seqs[s] < log[i].seqs[s]
        BY <3>1, <3>3, <4>2, <4>3 DEF IInv, Sound, Dense
      <4>5. QED
        BY <3>3, <4>1, <4>3, <4>4 DEF Beyond
    <3>6. QED
      BY <3>4, <3>5
  <2>3. QED
    BY <1>1, <2>1, <2>2 DEF NothingSkipped, Beyond
<1>11. LastPageIsLast'
  <2>1. mode' = "idle" => \A i \in 1..Len(log) : ~Beyond(log[i], frontier')
    BY <1>1, <1>2, <1>7
  <2>2. QED
    BY <1>1, <2>1 DEF LastPageIsLast, Beyond
<1>12. QED
  BY <1>1, <1>8, <1>9, <1>10, <1>11, WritersUntouched DEF IInv

LEMMA ReadMoreStep ==
  ASSUME IInv, ReadMore
  PROVE  IInv'
<1>1. /\ UNCHANGED <<log, append, acked, unread, frontier, disclosed, repeated, asked, since>>
      /\ mode = "more" /\ mode' = "idle" /\ hasMore' = (Ahead(frontier) # {})
  BY DEF ReadMore
<1>2. TypeOK'
  BY <1>1 DEF IInv, TypeOK, append, Locked
<1>3. Behind' /\ NothingSkipped'
  BY <1>1 DEF IInv, Behind, NothingSkipped, Beyond
<1>4. LastPageIsLast'
  <2>1. ~hasMore' => \A i \in 1..Len(log) : ~Beyond(log[i], frontier)
    BY <1>1 DEF Ahead
  <2>2. \A i \in 1..asked : i \in 1..Len(log)
    BY Facts
  <2>3. QED
    BY <1>1, <2>1, <2>2 DEF LastPageIsLast, Beyond
<1>5. QED
  BY <1>1, <1>2, <1>3, <1>4, WritersUntouched DEF IInv

-----------------------------------------------------------------------------
\* Theorems.

\* The rows of the log and of an open append are what append_commits means them
\* to be, and the frontier of an observer stands at a number of the log, always.
THEOREM Invariance == Spec => []IInv
<1>1. IInv /\ Next => IInv'
  BY BeginStep, StageStep, PublishStep, RollbackStep, ReadHeadStep, ReadDeltaStep, ReadMoreStep
     DEF Next, Appending, Observing
<1>2. IInv /\ UNCHANGED vars => IInv'
  <2> SUFFICES ASSUME IInv, UNCHANGED vars PROVE IInv'
    OBVIOUS
  <2>1. UNCHANGED <<log, append, acked>> /\ UNCHANGED <<log, acked, observer>>
    BY DEF vars
  <2>2. TypeOK'
    BY <2>1 DEF IInv, TypeOK, append, observer, Locked
  <2>3. QED
    BY <2>1, <2>2, ObserverUntouched, WritersUntouched DEF IInv
<1>3. QED
  BY <1>1, <1>2, InitIInv, PTL DEF Spec

\* The committed log is what its writers were told, whatever they retry, what
\* is refused or rolled back, and whatever the clock says: numbers 1, 2, 3, ...
\* in each scope, times in order, an id once, and each acknowledged input
\* (WorldStore.append_commits).
THEOREM JournalIsSound == Spec => []LogSound
<1>1. IInv => LogSound
  <2> SUFFICES ASSUME IInv PROVE LogSound
    OBVIOUS
  <2>1. DOMAIN log = 1..Len(log) /\ Len(log) \in Nat
    BY Facts
  <2>2. DenseSequences /\ RecordedInOrder
    BY <2>1 DEF IInv, Sound, Dense, Ordered, DenseSequences, RecordedInOrder
  <2>3. AcknowledgedIsRecorded
    BY <2>1 DEF IInv, Sound, Distinct, Recorded, Matches, AcknowledgedIsRecorded
  <2>4. QED
    BY <2>2, <2>3 DEF IInv, LogSound
<1>2. QED
  BY <1>1, Invariance, PTL

\* An observer that pages through delta skips nothing and is shown nothing
\* twice, and has_more = FALSE is true of the moment it was asked
\* (WorldStore.head, WorldStore.delta).
THEOREM ObserversMissNothing == Spec => []ObserverSound
<1>1. IInv => ObserverSound
  BY DEF IInv, ObserverSound
<1>2. QED
  BY <1>1, Invariance, PTL
-----------------------------------------------------------------------------
\* The ranking of memories: what it keeps.

\* A projection of a history by a revision of the weights, and the histories that a
\* journal holds.
Whole(m, h) == [i \in DOMAIN h |-> <<m, h[i]>>]
Fact(l, i) == i \in DOMAIN l /\ l[i].kind = "fact"
Told(l, h) == \A i \in DOMAIN h : Fact(l, h[i])
Feedings == Models \X Nat
Projections == Seq(Feedings)
Checkpoints == [model : Models, prefix : Seq(Nat), state : Projections]
PolicyRows == [kind : {"fact"}, scope : PolicyScopes] \cup [kind : {"checkpoint"}, content : Checkpoints]

PolicyTypes ==
  /\ journal \in Seq(PolicyRows)
  /\ model \in Models
  /\ known \in Seq(Nat) /\ prefix \in Seq(Nat) /\ saved \in Seq(Nat)
  /\ unverified \in BOOLEAN
  /\ save.place \in {"idle", "encoded", "stored"}
  /\ artifacts \subseteq Checkpoints
  /\ damaged \subseteq artifacts
  /\ answer.request \in Seq(Nat)
  /\ mishaps \in 0..MaxMishaps

\* The state is the projection of the history it is kept under, which the journal tells.
CacheKept ==
  /\ state = Whole(model, IF unverified THEN prefix ELSE known)
  /\ ~unverified => prefix \in {<<>>, known}
  /\ Told(journal, known) /\ Told(journal, prefix)

\* What is being saved was such a state of these weights.
Saving ==
  save.place # "idle" =>
    /\ Policy!Content(save) \in Checkpoints
    /\ save.state = Whole(save.model, save.prefix)
    /\ Told(journal, save.prefix)
    /\ save.place = "stored" => Policy!Content(save) \in artifacts

\* What was stored is a projection of a history that was told, also before the row that
\* records it.
Genuine(l, c) == c.state = Whole(c.model, c.prefix) /\ Told(l, c.prefix)
Stored == \A c \in artifacts : Genuine(journal, c)
RowTold(l, kept, i) ==
  l[i].kind = "checkpoint" =>
    /\ l[i].content \in kept
    /\ \A k \in DOMAIN l[i].content.prefix : l[i].content.prefix[k] < i
    /\ \A j \in DOMAIN l : l[j] = l[i] => j = i
SavedIn(l, h) == \E i \in DOMAIN l : l[i].kind = "checkpoint" /\ l[i].content.prefix = h
Saved ==
  /\ \A i \in DOMAIN journal : RowTold(journal, artifacts, i)
  /\ saved # <<>> => SavedIn(journal, saved)

Answered == answer.used = Whole(model, answer.request)

PolicyInv == PolicyTypes /\ CacheKept /\ Saving /\ Stored /\ Saved /\ Answered

-----------------------------------------------------------------------------
\* Projections.

LEMMA WholeIsASeq ==
  ASSUME NEW m \in Models, NEW h \in Seq(Nat)
  PROVE  /\ Whole(m, h) \in Projections
         /\ Len(Whole(m, h)) = Len(h)
         /\ DOMAIN Whole(m, h) = 1..Len(h)
         /\ \A i \in 1..Len(h) : Whole(m, h)[i] = <<m, h[i]>>
<1>1. DOMAIN h = 1..Len(h) /\ Len(h) \in Nat /\ \A i \in 1..Len(h) : h[i] \in Nat
  BY LenProperties, ElementOfSeq
<1>2. Whole(m, h) \in [1..Len(h) -> Models \X Nat]
  BY <1>1 DEF Whole
<1>3. QED
  BY <1>1, <1>2 DEF Whole, Projections, Feedings

\* A projection of a prefix, fed the rest, is the projection of all.
LEMMA FedTheRest ==
  ASSUME NEW m \in Models, NEW h \in Seq(Nat), NEW request \in Seq(Nat), Policy!IsPrefix(h, request)
  PROVE  /\ Len(h) \in Nat /\ Len(h) <= Len(request)
         /\ Whole(m, h) \o Whole(m, SubSeq(request, Len(h) + 1, Len(request))) = Whole(m, request)
<1> DEFINE rest == SubSeq(request, Len(h) + 1, Len(request))
           head == SubSeq(request, 1, Len(h))
<1>1. /\ Len(h) \in Nat /\ Len(request) \in Nat /\ Len(h) <= Len(request)
      /\ \A i \in 1..Len(request) : request[i] \in Nat
      /\ head = SubSeq(h, 1, Len(h))
  BY LenProperties, ElementOfSeq DEF Policy!IsPrefix
<1>2. /\ rest \in Seq(Nat)
      /\ Len(rest) = Len(request) - Len(h)
      /\ \A i \in 1..Len(request) - Len(h) : rest[i] = request[Len(h) + i]
  BY <1>1, SubSeqProperties
<1>3. \A i \in 1..Len(h) : head[i] = request[i]
  BY <1>1, SubSeqProperties
<1>4. SubSeq(h, 1, Len(h)) = h
  BY SubSeqFull
<1> HIDE DEF rest, head
<1>5. \A i \in 1..Len(h) : h[i] = request[i]
  BY <1>1, <1>3, <1>4
<1> DEFINE a == Whole(m, h)
           b == Whole(m, rest)
           c == Whole(m, request)
<1>6. /\ a \in Projections /\ Len(a) = Len(h) /\ \A i \in 1..Len(h) : a[i] = <<m, h[i]>>
      /\ b \in Projections /\ Len(b) = Len(rest) /\ \A i \in 1..Len(rest) : b[i] = <<m, rest[i]>>
      /\ c \in Projections /\ Len(c) = Len(request) /\ \A i \in 1..Len(request) : c[i] = <<m, request[i]>>
  BY <1>2, WholeIsASeq
<1> HIDE DEF a, b, c
<1>7. ASSUME NEW i \in 1..Len(a)
      PROVE  c[i] = a[i]
  <2>1. i \in 1..Len(h) /\ i \in 1..Len(request)
    BY <1>1, <1>6
  <2>2. QED
    BY <1>5, <1>6, <2>1
<1>8. ASSUME NEW i \in 1..Len(b)
      PROVE  c[Len(a) + i] = b[i]
  <2>1. /\ Len(h) + i \in 1..Len(request) /\ Len(a) + i = Len(h) + i
        /\ i \in 1..Len(request) - Len(h) /\ i \in 1..Len(rest)
    BY <1>1, <1>2, <1>6
  <2>2. QED
    BY <1>2, <1>6, <2>1
<1>9. Len(c) = Len(a) + Len(b)
  BY <1>1, <1>2, <1>6
<1>10. a \o b = c
  BY <1>6, <1>7, <1>8, <1>9, JoinedIs DEF Projections
<1>11. QED
  BY <1>1, <1>10 DEF a, b, c, rest

LEMMA NothingProjected ==
  ASSUME NEW m, NEW l
  PROVE  <<>> \in Seq(Nat) /\ Whole(m, <<>>) = <<>> /\ Told(l, <<>>)
BY EmptySeq DEF Whole, Told

LEMMA FedIsWhole ==
  ASSUME NEW h
  PROVE  Policy!Fed(h) = Whole(model, h)
BY DEF Policy!Fed, Whole

-----------------------------------------------------------------------------
\* The graph of a request holds facts of the journal.

Grown(f, scopes, n) ==
  IF n = 0 THEN <<>>
  ELSE IF Policy!Shown(n, scopes) THEN Append(f[n - 1], n) ELSE f[n - 1]

\* The recursive function exists.
LEMMA GraphExists ==
  ASSUME NEW scopes, NEW end \in Nat
  PROVE  \E f : f = [n \in 0..end |-> Grown(f, scopes, n)]
<1> DEFINE Upto(m) == \E f : f = [n \in 0..m |-> Grown(f, scopes, n)]
           bad == {m \in Nat : ~Upto(m)}
<1>1. SUFFICES ASSUME bad # {} PROVE FALSE
  OBVIOUS
<1>2. PICK m \in bad : \A k \in bad : m <= k
  BY <1>1, LeastNatural
<1>3. m # 0
  <2>1. [n \in 0..0 |-> <<>>] = [n \in 0..0 |-> Grown([k \in 0..0 |-> <<>>], scopes, n)]
    BY DEF Grown
  <2>2. Upto(0)
    BY <2>1
  <2>3. QED
    BY <1>2, <2>2
<1>4. m - 1 \in Nat /\ Upto(m - 1)
  BY <1>2, <1>3
<1>5. PICK f : f = [n \in 0..(m - 1) |-> Grown(f, scopes, n)]
  BY <1>4
<1> DEFINE g == [n \in 0..m |-> IF n = m THEN Grown(f, scopes, m) ELSE f[n]]
<1>6. ASSUME NEW n \in 0..m
      PROVE  g[n] = Grown(g, scopes, n)
  <2>1. CASE n = 0
    BY <1>3, <1>4, <1>5, <2>1 DEF Grown
  <2>2. CASE n # 0
    <3>1. n - 1 \in 0..(m - 1) /\ n - 1 \in 0..m /\ n - 1 # m
      BY <1>2, <2>2
    <3>2. g[n - 1] = f[n - 1]
      BY <3>1
    <3>3. Grown(g, scopes, n) = Grown(f, scopes, n)
      BY <2>2, <3>2 DEF Grown
    <3>4. n # m => f[n] = Grown(f, scopes, n)
      BY <1>4, <1>5
    <3>5. QED
      BY <3>3, <3>4
  <2>3. QED
    BY <2>1, <2>2
<1>7. g = [n \in 0..m |-> Grown(g, scopes, n)]
  BY <1>6
<1>8. Upto(m)
  BY <1>7
<1>9. QED
  BY <1>2, <1>8

LEMMA GraphHoldsFacts ==
  ASSUME NEW scopes, NEW end \in 0..Len(journal), journal \in Seq(PolicyRows)
  PROVE  /\ Policy!Graph(end, scopes) \in Seq(Nat)
         /\ Told(journal, Policy!Graph(end, scopes))
<1>0. end \in Nat /\ Len(journal) \in Nat /\ DOMAIN journal = 1..Len(journal)
  BY LenProperties
<1> DEFINE f == CHOOSE g : g = [n \in 0..end |-> Grown(g, scopes, n)]
           facts == {i \in 1..Len(journal) : journal[i].kind = "fact"}
           bad == {n \in 0..end : f[n] \notin Seq(facts)}
<1>1. f = [n \in 0..end |-> Grown(f, scopes, n)]
  <2>1. \E g : g = [n \in 0..end |-> Grown(g, scopes, n)]
    BY <1>0, GraphExists
  <2>2. QED
    BY <2>1
<1>2. Policy!Graph(end, scopes) = f[end]
  BY DEF Policy!Graph, Grown
<1> HIDE DEF f
<1>3. f[end] \in Seq(facts)
  <2> SUFFICES ASSUME f[end] \notin Seq(facts) PROVE FALSE
    OBVIOUS
  <2>1. bad \in SUBSET Nat /\ end \in bad
    BY <1>0
  <2>2. PICK n \in bad : \A k \in bad : n <= k
    BY <2>1, LeastNatural
  <2>3. f[n] = Grown(f, scopes, n)
    BY <1>1, <2>2
  <2>4. n # 0
    BY <2>2, <2>3, EmptySeq DEF Grown
  <2>5. n - 1 \in 0..end /\ n - 1 \notin bad
    BY <1>0, <2>2, <2>4
  <2>6. f[n - 1] \in Seq(facts)
    BY <2>5
  <2>7. CASE Policy!Shown(n, scopes)
    <3>1. n \in facts
      BY <1>0, <2>2, <2>4, <2>7 DEF Policy!Shown
    <3>2. Append(f[n - 1], n) \in Seq(facts)
      BY <2>6, <3>1, AppendProperties
    <3>3. QED
      BY <2>2, <2>3, <2>4, <2>7, <3>2 DEF Grown
  <2>8. CASE ~Policy!Shown(n, scopes)
    BY <2>2, <2>3, <2>4, <2>6, <2>8 DEF Grown
  <2>9. QED
    BY <2>7, <2>8
<1>4. \A h \in Seq(facts) : h \in Seq(Nat) /\ \A i \in DOMAIN h : h[i] \in facts
  <2> SUFFICES ASSUME NEW h \in Seq(facts)
               PROVE  h \in Seq(Nat) /\ \A i \in DOMAIN h : h[i] \in facts
    OBVIOUS
  <2>1. facts \subseteq Nat
    BY <1>0
  <2>2. QED
    BY <2>1, SeqMonotonic, LenProperties, ElementOfSeq
<1>5. QED
  BY <1>0, <1>2, <1>3, <1>4 DEF Told, Fact

LEMMA RequestsAreTold ==
  ASSUME PolicyTypes, NEW request \in Policy!Requests
  PROVE  request \in Seq(Nat) /\ Told(journal, request)
BY GraphHoldsFacts DEF PolicyTypes, Policy!Requests

-----------------------------------------------------------------------------
\* The steps of the ranking.

LEMMA PolicyInit ==
  ASSUME Policy!Init, MaxMishaps \in Nat
  PROVE  PolicyInv
<1>1. <<>> \in Seq(PolicyRows) /\ <<>> \in Seq(Nat) /\ DOMAIN <<>> = {}
  BY EmptySeq
<1>2. Whole(model, <<>>) = <<>>
  BY <1>1 DEF Whole
<1>3. PolicyTypes
  <2>1. save.place = "idle" /\ answer.request = <<>>
    BY DEF Policy!Init, Policy!NoSave, Policy!NoAnswer
  <2>2. 0 \in 0..MaxMishaps
    OBVIOUS
  <2>3. QED
    BY <1>1, <2>1, <2>2 DEF Policy!Init, PolicyTypes
<1>4. CacheKept /\ Saving /\ Stored /\ Saved /\ Answered
  BY <1>1, <1>2 DEF Policy!Init, CacheKept, Saving, Stored, Saved, Answered, Told, Policy!NoSave, Policy!NoAnswer
<1>5. QED
  BY <1>3, <1>4 DEF PolicyInv

\* What the journal told it goes on telling.
LEMMA JournalGrows ==
  ASSUME PolicyTypes, NEW row \in PolicyRows, journal' = Append(journal, row)
  PROVE  /\ journal' \in Seq(PolicyRows)
         /\ Len(journal) \in Nat /\ Len(journal') = Len(journal) + 1
         /\ DOMAIN journal = 1..Len(journal) /\ DOMAIN journal' = 1..Len(journal) + 1
         /\ \A i \in 1..Len(journal) : journal'[i] = journal[i]
         /\ journal'[Len(journal) + 1] = row
         /\ \A h : Told(journal, h) => Told(journal', h)
<1>1. /\ journal' \in Seq(PolicyRows)
      /\ Len(journal) \in Nat /\ Len(journal') = Len(journal) + 1
      /\ DOMAIN journal = 1..Len(journal) /\ DOMAIN journal' = 1..Len(journal) + 1
      /\ \A i \in 1..Len(journal) : journal'[i] = journal[i]
      /\ journal'[Len(journal) + 1] = row
  BY AppendProperties, LenProperties DEF PolicyTypes
<1>2. \A i : Fact(journal, i) => Fact(journal', i)
  BY <1>1 DEF Fact
<1>3. QED
  BY <1>1, <1>2 DEF Told

\* A fact is told.
LEMMA ObserveStep ==
  ASSUME PolicyInv, Policy!Observe
  PROVE  PolicyInv'
<1>1. PICK s \in PolicyScopes : journal' = Append(journal, [kind |-> "fact", scope |-> s])
  BY DEF Policy!Observe
<1> DEFINE row == [kind |-> "fact", scope |-> s]
<1>2. row \in PolicyRows /\ row.kind = "fact"
  BY DEF PolicyRows
<1> HIDE DEF row
<1>3. /\ journal' \in Seq(PolicyRows)
      /\ Len(journal) \in Nat /\ Len(journal') = Len(journal) + 1
      /\ DOMAIN journal = 1..Len(journal) /\ DOMAIN journal' = 1..Len(journal) + 1
      /\ \A i \in 1..Len(journal) : journal'[i] = journal[i]
      /\ journal'[Len(journal) + 1] = row
      /\ \A h : Told(journal, h) => Told(journal', h)
  BY <1>1, <1>2, JournalGrows DEF PolicyInv, row
<1>4. UNCHANGED <<model, state, known, unverified, prefix, saved, save, artifacts, damaged, answer, mishaps>>
  BY DEF Policy!Observe, Policy!policy
<1>5. PolicyTypes'
  BY <1>3, <1>4 DEF PolicyInv, PolicyTypes
<1>6. CacheKept'
  BY <1>3, <1>4 DEF PolicyInv, CacheKept
<1>7. Saving'
  BY <1>3, <1>4 DEF PolicyInv, Saving
<1>8. Stored'
  BY <1>3, <1>4 DEF PolicyInv, Stored, Genuine
<1>9. Saved'
  <2>1. ASSUME NEW i \in DOMAIN journal'
        PROVE  RowTold(journal', artifacts', i)
    <3>1. CASE i = Len(journal) + 1
      BY <1>2, <1>3, <3>1 DEF RowTold
    <3>2. CASE i # Len(journal) + 1
      <4>1. i \in DOMAIN journal /\ journal'[i] = journal[i] /\ RowTold(journal, artifacts, i)
        BY <1>3, <3>2 DEF PolicyInv, Saved
      <4>2. QED
        BY <1>2, <1>3, <1>4, <4>1 DEF RowTold
    <3>3. QED
      BY <3>1, <3>2
  <2>2. SavedIn(journal, saved) => SavedIn(journal', saved)
    BY <1>3 DEF SavedIn
  <2>3. QED
    BY <1>4, <2>1, <2>2 DEF PolicyInv, Saved
<1>10. Answered'
  BY <1>4 DEF PolicyInv, Answered
<1>11. QED
  BY <1>5, <1>6, <1>7, <1>8, <1>9, <1>10 DEF PolicyInv

\* Rows that are told stay told when nothing is appended.
LEMMA RowsStay ==
  ASSUME PolicyInv, UNCHANGED journal, artifacts \subseteq artifacts'
  PROVE  /\ \A i \in DOMAIN journal' : RowTold(journal', artifacts', i)
         /\ \A h : SavedIn(journal, h) => SavedIn(journal', h)
         /\ \A h : Told(journal, h) => Told(journal', h)
<1>1. \A i \in DOMAIN journal : RowTold(journal, artifacts, i)
  BY DEF PolicyInv, Saved
<1>2. \A i \in DOMAIN journal : RowTold(journal, artifacts', i)
  BY <1>1 DEF RowTold
<1>3. QED
  BY <1>2

\* A checkpoint that is stored is recorded, once.
LEMMA RecordedRows ==
  ASSUME PolicyInv, NEW c \in artifacts, journal' = Policy!Recorded(c), UNCHANGED artifacts
  PROVE  /\ journal' \in Seq(PolicyRows)
         /\ \A i \in DOMAIN journal' : RowTold(journal', artifacts', i)
         /\ \A h : SavedIn(journal, h) => SavedIn(journal', h)
         /\ \A h : Told(journal, h) => Told(journal', h)
         /\ SavedIn(journal', c.prefix)
<1>1. CASE \E i \in DOMAIN journal : journal[i].kind = "checkpoint" /\ journal[i].content = c
  <2>1. journal' = journal
    BY <1>1 DEF Policy!Recorded
  <2>2. SavedIn(journal, c.prefix)
    BY <1>1 DEF SavedIn
  <2>3. QED
    BY <2>1, <2>2, RowsStay DEF PolicyInv, PolicyTypes
<1>2. CASE ~(\E i \in DOMAIN journal : journal[i].kind = "checkpoint" /\ journal[i].content = c)
  <2> DEFINE row == [kind |-> "checkpoint", content |-> c]
  <2>1. /\ row \in PolicyRows /\ row.kind = "checkpoint" /\ row.content = c
        /\ journal' = Append(journal, row)
    BY <1>2 DEF PolicyRows, Policy!Recorded, PolicyInv, PolicyTypes
  <2> HIDE DEF row
  <2>2. /\ journal' \in Seq(PolicyRows)
        /\ Len(journal) \in Nat /\ Len(journal') = Len(journal) + 1
        /\ DOMAIN journal = 1..Len(journal) /\ DOMAIN journal' = 1..Len(journal) + 1
        /\ \A i \in 1..Len(journal) : journal'[i] = journal[i]
        /\ journal'[Len(journal) + 1] = row
        /\ \A h : Told(journal, h) => Told(journal', h)
    BY <2>1, JournalGrows DEF PolicyInv
  <2>3. \A i \in 1..Len(journal) : journal[i] # row
    BY <1>2, <2>1, <2>2
  <2>4. ASSUME NEW i \in DOMAIN journal'
        PROVE  RowTold(journal', artifacts', i)
    <3>1. CASE i = Len(journal) + 1
      <4>1. c.prefix \in Seq(Nat) /\ Told(journal, c.prefix)
        BY DEF PolicyInv, PolicyTypes, Stored, Genuine, Checkpoints
      <4>2. \A k \in DOMAIN c.prefix : c.prefix[k] < i
        BY <2>2, <3>1, <4>1 DEF Told, Fact
      <4>3. \A j \in DOMAIN journal' : journal'[j] = journal'[i] => j = i
        BY <2>2, <2>3, <3>1
      <4>4. QED
        BY <2>1, <2>2, <3>1, <4>2, <4>3 DEF RowTold
    <3>2. CASE i # Len(journal) + 1
      <4>1. i \in DOMAIN journal /\ journal'[i] = journal[i] /\ RowTold(journal, artifacts, i)
        BY <2>2, <3>2 DEF PolicyInv, Saved
      <4>2. journal'[i].kind = "checkpoint" => \A j \in DOMAIN journal' : journal'[j] = journal'[i] => j = i
        BY <2>2, <2>3, <4>1 DEF RowTold
      <4>3. QED
        BY <4>1, <4>2 DEF RowTold
    <3>3. QED
      BY <3>1, <3>2
  <2>5. \A h : SavedIn(journal, h) => SavedIn(journal', h)
    BY <2>2 DEF SavedIn
  <2>6. SavedIn(journal', c.prefix)
    BY <2>1, <2>2 DEF SavedIn
  <2>7. QED
    BY <2>2, <2>4, <2>5, <2>6
<1>3. QED
  BY <1>1, <1>2

\* What is held when a projection begins is the projection of its history.
LEMMA HeldIsSound ==
  ASSUME PolicyInv, NEW request \in Seq(Nat)
  PROVE  LET held == Policy!Held(request) IN
         /\ held.known \in Seq(Nat) /\ held.state = Whole(model, held.known)
         /\ held.prefix \in {<<>>, held.known}
         /\ Told(journal, held.known)
<1>1. CASE ~unverified
  <2>1. Policy!Held(request) = [state |-> state, known |-> known, prefix |-> prefix]
    BY <1>1 DEF Policy!Held
  <2>2. QED
    BY <1>1, <2>1 DEF PolicyInv, PolicyTypes, CacheKept
<1>2. CASE unverified /\ Policy!Verified(request)
  <2>1. Policy!Held(request) = [state |-> state, known |-> prefix, prefix |-> prefix]
    BY <1>2 DEF Policy!Held
  <2>2. QED
    BY <1>2, <2>1 DEF PolicyInv, PolicyTypes, CacheKept
<1>3. CASE unverified /\ ~Policy!Verified(request)
  <2>1. Policy!Held(request) = [state |-> <<>>, known |-> <<>>, prefix |-> <<>>]
    BY <1>3 DEF Policy!Held
  <2>2. Whole(model, <<>>) = <<>> /\ <<>> \in Seq(Nat) /\ Told(journal, <<>>)
    BY EmptySeq DEF Whole, Told
  <2>3. QED
    BY <2>1, <2>2
<1>4. QED
  BY <1>1, <1>2, <1>3

LEMMA ProjectedIsWhole ==
  ASSUME model \in Models, NEW held, NEW request \in Seq(Nat),
         held.known \in Seq(Nat), held.state = Whole(model, held.known)
  PROVE  Policy!Projected(held, request) = Whole(model, request)
<1>1. CASE Policy!Extends(held, request)
  <2>1. Policy!IsPrefix(held.known, request)
    BY <1>1 DEF Policy!Extends
  <2>2. QED
    BY <1>1, <2>1, FedTheRest, FedIsWhole DEF Policy!Projected
<1>2. CASE ~Policy!Extends(held, request)
  BY <1>2, FedIsWhole DEF Policy!Projected
<1>3. QED
  BY <1>1, <1>2

\* A request is scored: what is answered and what is kept are projections.
LEMMA ScoreStep ==
  ASSUME PolicyInv, NEW request \in Policy!Requests, Policy!Score(request)
  PROVE  PolicyInv'
<1> DEFINE held == Policy!Held(request)
<1>1. request \in Seq(Nat) /\ Told(journal, request)
  BY RequestsAreTold DEF PolicyInv
<1>2. /\ held.known \in Seq(Nat) /\ held.state = Whole(model, held.known)
      /\ held.prefix \in {<<>>, held.known}
      /\ Told(journal, held.known)
  BY <1>1, HeldIsSound
<1>3. /\ answer' = [request |-> request, used |-> Policy!Projected(held, request)]
      /\ Policy!Keep(held, request)
      /\ unverified' = FALSE
      /\ UNCHANGED <<journal, model, saved, save, artifacts, damaged, mishaps>>
  BY DEF Policy!Score
<1> HIDE DEF held
<1>4. model \in Models
  BY DEF PolicyInv, PolicyTypes
<1>5. Policy!Projected(held, request) = Whole(model, request)
  BY <1>1, <1>2, <1>4, ProjectedIsWhole
<1>6. /\ state' = Whole(model, known') /\ known' \in Seq(Nat) /\ Told(journal, known')
      /\ prefix' \in {<<>>, known'}
  BY <1>1, <1>2, <1>3, <1>5 DEF Policy!Keep
<1>7. <<>> \in Seq(Nat) /\ Told(journal, <<>>)
  BY EmptySeq DEF Told
<1>8. answer'.request = request /\ answer'.used = Whole(model, request)
  BY <1>3, <1>5
<1>9. PolicyTypes'
  BY <1>1, <1>3, <1>6, <1>7, <1>8 DEF PolicyInv, PolicyTypes
<1>10. CacheKept'
  BY <1>3, <1>6, <1>7 DEF CacheKept
<1>11. Saving' /\ Stored' /\ Saved'
  BY <1>3 DEF PolicyInv, Saving, Stored, Genuine, Saved
<1>12. Answered'
  BY <1>3, <1>8 DEF Answered
<1>13. QED
  BY <1>9, <1>10, <1>11, <1>12 DEF PolicyInv

\* Nothing is kept after a failure.
LEMMA ClearedKeeps ==
  ASSUME PolicyInv, Policy!Cleared, UNCHANGED journal
  PROVE  CacheKept' /\ known' \in Seq(Nat) /\ prefix' \in Seq(Nat) /\ unverified' \in BOOLEAN
<1>1. /\ <<>> \in Seq(Nat) /\ Whole(model', <<>>) = <<>> /\ Told(journal', <<>>)
  BY NothingProjected
<1>2. QED
  BY <1>1 DEF Policy!Cleared, CacheKept

LEMMA ScoreFailsStep ==
  ASSUME MaxMishaps \in Nat, PolicyInv, NEW request, Policy!ScoreFails(request)
  PROVE  PolicyInv'
<1>1. /\ Policy!Cleared
      /\ mishaps < MaxMishaps /\ mishaps' = mishaps + 1
      /\ UNCHANGED <<journal, model, saved, save, artifacts, damaged, answer>>
  BY DEF Policy!ScoreFails, Policy!AfterFailure
<1>2. CacheKept' /\ known' \in Seq(Nat) /\ prefix' \in Seq(Nat) /\ unverified' \in BOOLEAN
  BY <1>1, ClearedKeeps
<1>3. PolicyTypes'
  BY <1>1, <1>2 DEF PolicyInv, PolicyTypes
<1>4. Saving' /\ Stored' /\ Saved' /\ Answered'
  BY <1>1 DEF PolicyInv, Saving, Stored, Genuine, Saved, Answered
<1>5. QED
  BY <1>2, <1>3, <1>4 DEF PolicyInv

-----------------------------------------------------------------------------
\* The steps of a save.

LEMMA SnapshotStep ==
  ASSUME PolicyInv, Policy!Snapshot
  PROVE  PolicyInv'
<1> DEFINE taken == IF prefix = <<>> THEN known ELSE prefix
<1>1. /\ ~unverified /\ known # <<>>
      /\ prefix' = taken
      /\ save' = [place |-> "encoded", model |-> model, prefix |-> taken, state |-> state]
      /\ UNCHANGED <<journal, model, state, known, unverified, saved, artifacts, damaged, answer, mishaps>>
  BY DEF Policy!Snapshot
<1>2. taken = known
  BY <1>1 DEF PolicyInv, CacheKept
<1> HIDE DEF taken
<1>3. known \in Seq(Nat) /\ state = Whole(model, known) /\ Told(journal, known) /\ model \in Models
  BY <1>1 DEF PolicyInv, PolicyTypes, CacheKept
<1>4. state \in Projections
  BY <1>3, WholeIsASeq
<1>5. /\ save'.place = "encoded" /\ save'.model = model /\ save'.prefix = known /\ save'.state = state
  BY <1>1, <1>2
<1>6. PolicyTypes'
  BY <1>1, <1>2, <1>3, <1>5 DEF PolicyInv, PolicyTypes
<1>7. CacheKept'
  BY <1>1, <1>2, <1>3 DEF CacheKept
<1>8. Saving'
  BY <1>1, <1>3, <1>4, <1>5 DEF Saving, Policy!Content, Checkpoints
<1>9. Stored' /\ Saved' /\ Answered'
  BY <1>1 DEF PolicyInv, Stored, Genuine, Saved, Answered
<1>10. QED
  BY <1>6, <1>7, <1>8, <1>9 DEF PolicyInv

\* The content is stored, by an attempt that goes on or by one that is cut off.
LEMMA ContentStored ==
  ASSUME PolicyInv, save.place = "encoded", UNCHANGED <<journal, saved>>,
         artifacts' = artifacts \cup {Policy!Content(save)}
  PROVE  /\ artifacts' \subseteq Checkpoints /\ Stored' /\ Saved'
<1>1. /\ Policy!Content(save) \in Checkpoints
      /\ Genuine(journal, Policy!Content(save))
  BY DEF PolicyInv, Saving, Genuine, Policy!Content
<1>2. Stored'
  BY <1>1 DEF PolicyInv, Stored, Genuine
<1>3. Saved'
  BY RowsStay DEF PolicyInv, Saved
<1>4. QED
  BY <1>1, <1>2, <1>3 DEF PolicyInv, PolicyTypes

LEMMA PutStep ==
  ASSUME PolicyInv, Policy!Put
  PROVE  PolicyInv'
<1>1. /\ save.place = "encoded"
      /\ artifacts' = artifacts \cup {Policy!Content(save)}
      /\ damaged' = damaged \ {Policy!Content(save)}
      /\ save' = [save EXCEPT !.place = "stored"]
      /\ UNCHANGED <<journal, model, state, known, unverified, prefix, saved, answer, mishaps>>
  BY DEF Policy!Put, Policy!policy
<1>2. artifacts' \subseteq Checkpoints /\ Stored' /\ Saved'
  BY <1>1, ContentStored
<1>3. save'.model = save.model /\ save'.prefix = save.prefix /\ save'.state = save.state /\ save'.place \in {"idle", "stored"}
  BY <1>1
<1>4. Policy!Content(save)' = Policy!Content(save)
  BY <1>3 DEF Policy!Content
<1>5. PolicyTypes'
  BY <1>1, <1>2, <1>3 DEF PolicyInv, PolicyTypes
<1>6. Saving'
  BY <1>1, <1>3, <1>4 DEF PolicyInv, Saving
<1>7. CacheKept' /\ Answered'
  BY <1>1 DEF PolicyInv, CacheKept, Answered
<1>8. QED
  BY <1>2, <1>5, <1>6, <1>7 DEF PolicyInv

LEMMA TellStep ==
  ASSUME PolicyInv, Policy!Tell
  PROVE  PolicyInv'
<1> DEFINE c == Policy!Content(save)
<1>1. /\ save.place = "stored"
      /\ journal' = Policy!Recorded(c)
      /\ saved' = save.prefix
      /\ save' = Policy!NoSave
      /\ UNCHANGED <<model, state, known, unverified, prefix, artifacts, damaged, answer, mishaps>>
  BY DEF Policy!Tell, Policy!policy
<1>2. c \in artifacts /\ c.prefix = save.prefix /\ c.prefix \in Seq(Nat)
  BY <1>1 DEF PolicyInv, Saving, Policy!Content, Checkpoints
<1> HIDE DEF c
<1>3. /\ journal' \in Seq(PolicyRows)
      /\ \A i \in DOMAIN journal' : RowTold(journal', artifacts', i)
      /\ \A h : Told(journal, h) => Told(journal', h)
      /\ SavedIn(journal', c.prefix)
  BY <1>1, <1>2, RecordedRows
<1>4. save'.place = "idle"
  BY <1>1 DEF Policy!NoSave
<1>5. PolicyTypes'
  BY <1>1, <1>2, <1>3, <1>4 DEF PolicyInv, PolicyTypes
<1>6. CacheKept' /\ Saving' /\ Stored' /\ Answered'
  BY <1>1, <1>3, <1>4 DEF PolicyInv, CacheKept, Saving, Stored, Genuine, Answered
<1>7. Saved'
  BY <1>1, <1>2, <1>3 DEF Saved
<1>8. QED
  BY <1>5, <1>6, <1>7 DEF PolicyInv

LEMMA SaveFailsStep ==
  ASSUME MaxMishaps \in Nat, PolicyInv, Policy!SaveFails
  PROVE  PolicyInv'
<1>1. /\ mishaps < MaxMishaps /\ mishaps' = mishaps + 1
      /\ save.place # "idle" /\ save' = Policy!NoSave
      /\ UNCHANGED <<model, state, known, unverified, prefix, saved, damaged, answer>>
  BY DEF Policy!SaveFails, Policy!policy
<1>2. save'.place = "idle"
  BY <1>1 DEF Policy!NoSave
<1>3. /\ journal' \in Seq(PolicyRows) /\ artifacts \subseteq artifacts' /\ artifacts' \subseteq Checkpoints
      /\ Stored' /\ Saved'
      /\ \A h : Told(journal, h) => Told(journal', h)
  <2>1. CASE UNCHANGED <<journal, artifacts>>
    BY <1>1, <2>1 DEF PolicyInv, PolicyTypes, Stored, Genuine, Saved
  <2>2. CASE save.place = "encoded" /\ artifacts' = artifacts \cup {Policy!Content(save)} /\ UNCHANGED journal
    BY <1>1, <2>2, ContentStored DEF PolicyInv, PolicyTypes
  <2>3. CASE save.place = "stored" /\ journal' = Policy!Recorded(Policy!Content(save)) /\ UNCHANGED artifacts
    <3>1. Policy!Content(save) \in artifacts
      BY <2>3 DEF PolicyInv, Saving
    <3>2. /\ journal' \in Seq(PolicyRows)
          /\ \A i \in DOMAIN journal' : RowTold(journal', artifacts', i)
          /\ \A h : SavedIn(journal, h) => SavedIn(journal', h)
          /\ \A h : Told(journal, h) => Told(journal', h)
      BY <2>3, <3>1, RecordedRows
    <3>3. Stored' /\ Saved'
      BY <1>1, <2>3, <3>2 DEF PolicyInv, Stored, Genuine, Saved
    <3>4. QED
      BY <2>3, <3>2, <3>3 DEF PolicyInv, PolicyTypes
  <2>4. QED
    BY <2>1, <2>2, <2>3 DEF Policy!SaveFails
<1>4. PolicyTypes'
  BY <1>1, <1>2, <1>3 DEF PolicyInv, PolicyTypes
<1>5. CacheKept' /\ Saving' /\ Answered'
  BY <1>1, <1>2, <1>3 DEF PolicyInv, CacheKept, Saving, Answered
<1>6. QED
  BY <1>3, <1>4, <1>5 DEF PolicyInv

-----------------------------------------------------------------------------
\* Restarts.

LEMMA DamageStep ==
  ASSUME MaxMishaps \in Nat, PolicyInv, Policy!Damage
  PROVE  PolicyInv'
<1>1. /\ mishaps < MaxMishaps /\ mishaps' = mishaps + 1
      /\ damaged' \subseteq artifacts
      /\ UNCHANGED <<journal, model, state, known, unverified, prefix, saved, save, artifacts, answer>>
  BY DEF Policy!Damage, Policy!policy, PolicyInv, PolicyTypes
<1>2. PolicyTypes'
  BY <1>1 DEF PolicyInv, PolicyTypes
<1>3. CacheKept' /\ Saving' /\ Stored' /\ Saved' /\ Answered'
  BY <1>1 DEF PolicyInv, CacheKept, Saving, Stored, Genuine, Saved, Answered
<1>4. QED
  BY <1>2, <1>3 DEF PolicyInv

LEMMA RestartStep ==
  ASSUME MaxMishaps \in Nat, PolicyInv, Policy!Restart
  PROVE  PolicyInv'
<1>1. /\ mishaps < MaxMishaps /\ mishaps' = mishaps + 1
      /\ model' \in Models /\ Policy!Cleared /\ saved' = <<>>
      /\ save' = Policy!NoSave /\ answer' = Policy!NoAnswer
      /\ UNCHANGED <<journal, artifacts, damaged>>
  BY DEF Policy!Restart
<1>2. CacheKept' /\ known' \in Seq(Nat) /\ prefix' \in Seq(Nat) /\ unverified' \in BOOLEAN
  BY <1>1, ClearedKeeps
<1>3. /\ save'.place = "idle" /\ answer'.request = <<>> /\ answer'.used = <<>>
      /\ <<>> \in Seq(Nat) /\ DOMAIN <<>> = {}
  BY <1>1, EmptySeq DEF Policy!NoSave, Policy!NoAnswer
<1>4. PolicyTypes'
  BY <1>1, <1>2, <1>3 DEF PolicyInv, PolicyTypes
<1>5. Saving' /\ Answered'
  BY <1>3 DEF Saving, Answered, Whole
<1>6. Stored' /\ Saved'
  BY <1>1 DEF PolicyInv, Stored, Genuine, Saved
<1>7. QED
  BY <1>2, <1>4, <1>5, <1>6 DEF PolicyInv

LEMMA LastCheckpoint ==
  ASSUME PolicyTypes, Policy!Checkpoints # {}
  PROVE  Policy!Max(Policy!Checkpoints) \in Policy!Checkpoints
<1> DEFINE D == Policy!Checkpoints
<1>1. Len(journal) \in Nat /\ DOMAIN journal = 1..Len(journal)
  BY LenProperties DEF PolicyTypes
<1>2. D \in SUBSET (1..Len(journal))
  BY <1>1 DEF Policy!Checkpoints
<1> HIDE DEF D
<1> DEFINE f == [i \in D |-> i]
<1>3. \A i \in D : f[i] \in Nat
  BY <1>1, <1>2
<1> HIDE DEF f
<1>4. \E m \in {0} \cup {f[i] : i \in D} : m \in Nat /\ \A i \in D : f[i] <= m
  BY <1>1, <1>2, <1>3, MaxExists
<1>5. \E m \in D : \A i \in D : m >= i
  <2>1. PICK m \in {0} \cup {f[i] : i \in D} : m \in Nat /\ \A i \in D : f[i] <= m
    BY <1>4
  <2>2. \A i \in D : f[i] = i /\ i \in Nat /\ 0 < i
    BY <1>1, <1>2 DEF f
  <2>3. \E i \in D : TRUE
    BY DEF D
  <2>4. m \in D
    BY <2>1, <2>2, <2>3
  <2>5. QED
    BY <2>1, <2>2, <2>4
<1>6. QED
  BY <1>5 DEF Policy!Max, D

\* A state is restored of these weights only, and of bytes that were stored.
LEMMA InitializeStep ==
  ASSUME PolicyInv, Policy!Initialize
  PROVE  PolicyInv'
<1> DEFINE last == Policy!Max(Policy!Checkpoints)
           content == journal[last].content
<1>1. UNCHANGED <<journal, model, save, artifacts, damaged, answer, mishaps>>
  BY DEF Policy!Initialize
<1>2. Saving' /\ Stored' /\ Answered'
  BY <1>1 DEF PolicyInv, Saving, Stored, Genuine, Answered
<1>3. CASE UNCHANGED <<state, known, unverified, prefix, saved>>
  <2>1. PolicyTypes' /\ CacheKept' /\ Saved'
    BY <1>1, <1>3 DEF PolicyInv, PolicyTypes, CacheKept, Saved
  <2>2. QED
    BY <1>2, <2>1 DEF PolicyInv
<1>4. CASE ~UNCHANGED <<state, known, unverified, prefix, saved>>
  <2>1. /\ Policy!Checkpoints # {} /\ Policy!Compatible(content)
        /\ state' = content.state /\ known' = <<>> /\ unverified' = TRUE
        /\ prefix' = content.prefix /\ saved' = content.prefix
    BY <1>4 DEF Policy!Initialize, Policy!policy
  <2>2. last \in Policy!Checkpoints
    BY <2>1, LastCheckpoint DEF PolicyInv
  <2>3. last \in DOMAIN journal /\ journal[last].kind = "checkpoint"
    BY <2>2 DEF Policy!Checkpoints
  <2> HIDE DEF last
  <2>4. content.model = model /\ content \in artifacts
    BY <2>1 DEF Policy!Compatible
  <2>5. /\ content.prefix \in Seq(Nat) /\ content.state = Whole(model, content.prefix)
        /\ Told(journal, content.prefix) /\ SavedIn(journal, content.prefix)
    BY <2>3, <2>4 DEF PolicyInv, PolicyTypes, Stored, Genuine, Checkpoints, SavedIn
  <2>6. <<>> \in Seq(Nat) /\ Told(journal, <<>>)
    BY EmptySeq DEF Told
  <2>7. PolicyTypes'
    BY <1>1, <2>1, <2>5, <2>6 DEF PolicyInv, PolicyTypes
  <2>8. CacheKept'
    BY <1>1, <2>1, <2>5, <2>6 DEF CacheKept
  <2>9. Saved'
    BY <1>1, <2>1, <2>5 DEF PolicyInv, Saved
  <2>10. QED
    BY <1>2, <2>7, <2>8, <2>9 DEF PolicyInv
<1>5. QED
  BY <1>3, <1>4

LEMMA RankingOfInv ==
  ASSUME PolicyInv
  PROVE  RankingSound
<1>1. \A m \in Models, h \in Seq(Nat) : Len(Whole(m, h)) = Len(h) /\ \A i \in DOMAIN h : Whole(m, h)[i] = <<m, h[i]>>
  BY WholeIsASeq, LenProperties
<1>2. \A h \in Seq(Nat) : Policy!IsProjection(Whole(model, h), h)
  BY <1>1 DEF Policy!IsProjection, PolicyInv, PolicyTypes
<1>3. Policy!TypeOK
  BY DEF PolicyInv, PolicyTypes, Policy!TypeOK
<1>4. Policy!RankedAlone
  BY <1>2 DEF PolicyInv, PolicyTypes, Answered, Policy!RankedAlone
<1>5. Policy!CacheSound
  BY <1>2 DEF PolicyInv, PolicyTypes, CacheKept, Policy!CacheSound
<1>6. ASSUME NEW i \in Policy!Checkpoints
      PROVE  LET content == journal[i].content IN
             /\ content \in artifacts
             /\ content.state = [k \in DOMAIN content.prefix |-> <<content.model, content.prefix[k]>>]
             /\ \A j \in Policy!Range(content.prefix) : j < i /\ journal[j].kind = "fact"
             /\ \A j \in Policy!Checkpoints : journal[j] = journal[i] => j = i
  <2>1. i \in DOMAIN journal /\ journal[i].kind = "checkpoint"
    BY DEF Policy!Checkpoints
  <2>2. RowTold(journal, artifacts, i)
    BY <2>1 DEF PolicyInv, Saved
  <2>3. journal[i].content \in artifacts
    BY <2>1, <2>2 DEF RowTold
  <2>4. Genuine(journal, journal[i].content)
    BY <2>3 DEF PolicyInv, Stored
  <2>5. \A j \in Policy!Range(journal[i].content.prefix) : j < i /\ journal[j].kind = "fact"
    BY <2>1, <2>2, <2>4 DEF RowTold, Genuine, Told, Fact, Policy!Range
  <2>6. QED
    BY <2>1, <2>2, <2>3, <2>4, <2>5 DEF RowTold, Genuine, Whole, Policy!Checkpoints
<1>7. saved # <<>> => \E i \in Policy!Checkpoints : journal[i].content.prefix = saved
  BY DEF PolicyInv, Saved, SavedIn, Policy!Checkpoints
<1>8. QED
  BY <1>3, <1>4, <1>5, <1>6, <1>7 DEF RankingSound, Policy!RankingSound, Policy!CheckpointsSound

\* For any scopes and weights, whatever is asked for and in which order, whatever fails,
\* is damaged or restarted: the scores of a request are computed from its own graph, the
\* state that is kept is the projection of its history, and a checkpoint is one too, of
\* facts told before it, stored before it was told (TGNMemoryPolicy, MemoryModelCheckpoints).
THEOREM RankingIsSound ==
  ASSUME MaxMishaps \in Nat
  PROVE  Policy!Spec => []RankingSound
<1>1. Policy!Init => PolicyInv
  BY PolicyInit
<1>2. PolicyInv /\ [Policy!Next]_Policy!vars => PolicyInv'
  <2> SUFFICES ASSUME PolicyInv, [Policy!Next]_Policy!vars PROVE PolicyInv'
    OBVIOUS
  <2>1. CASE UNCHANGED Policy!vars
    BY <2>1 DEF Policy!vars, Policy!policy, PolicyInv, PolicyTypes, CacheKept, Saving, Stored, Genuine, Saved,
                Answered, Policy!Content
  <2>2. QED
    BY <2>1, ObserveStep, ScoreStep, ScoreFailsStep, SnapshotStep, PutStep, TellStep, SaveFailsStep,
       DamageStep, RestartStep, InitializeStep DEF Policy!Next
<1>3. PolicyInv => RankingSound
  BY RankingOfInv
<1>4. QED
  BY <1>1, <1>2, <1>3, PTL DEF Policy!Spec
=============================================================================
