--------------------------- MODULE PromptAssembly ---------------------------
(***************************************************************************)
(* The context of a model's turn (prompt/composer.py): the rules, the      *)
(* state of the subject and the evidence it needs, as much of the recalled *)
(* memory as fits, and the transcript, of which whole interactions are     *)
(* left out from the oldest on when it does not fit.  A transcript of any  *)
(* shape an agent makes grows message by message and is assembled with any *)
(* memory and any room.  Texts are left out: a text is its size.           *)
(***************************************************************************)
EXTENDS Integers, FiniteSets, SequencesExt

CONSTANTS Calls,        \* ids of tool calls
          Weight,       \* sizes of the commits of the memory, by id
          Memories,     \* snapshots: [required, continuity, items]
          Rooms,        \* capacities, less the definitions of the tools
          MaxMessages   \* bound

VARIABLES transcript,   \* the messages, by size, calls, the call answered and evidence
          answer        \* history: the last assembly

vars == <<transcript, answer>>

Message(size, calls, answers, evidence) ==
  [size |-> size, calls |-> calls, answers |-> answers, evidence |-> evidence]

NoMemory == [required |-> {}, continuity |-> 0, items |-> <<>>]
NoAnswer == [kind |-> "none", memory |-> NoMemory, room |-> 0, selected |-> {}, system |-> 0, kept |-> {},
             tagged |-> FALSE, included |-> {}]

Init ==
  /\ transcript = <<Message(1, {}, "-", {})>>
  /\ answer = NoAnswer

-----------------------------------------------------------------------------
(* The transcript.                                                         *)

Called == UNION { m.calls : m \in Range(transcript) }
Answered == { m.answers : m \in Range(transcript) }

Say(message) ==
  /\ Len(transcript) < MaxMessages
  /\ transcript' = Append(transcript, message)
  /\ answer' = NoAnswer

\* A turn's text, a change of the world told between two messages, calls of a
\* turn, and a result.
Speak == \E size \in {1, 2} : Say(Message(size, {}, "-", {}))
TellWorld == \E id \in DOMAIN Weight : Say(Message(1, {}, "-", {id}))
Call == \E calls \in (SUBSET (Calls \ Called)) \ {{}} : Say(Message(Cardinality(calls), calls, "-", {}))
Return == \E call \in Called \ Answered : Say(Message(1, {}, call, {}))

-----------------------------------------------------------------------------
(* assemble                                                                *)

Base == 1      \* the rules of the agent
Heading == 1   \* the heading of a list of commits, with the separator
Tag == 1       \* _TRUNCATION_TAG

TotalSize(positions) == FoldSet(LAMBDA i, total : total + transcript[i].size, 0, positions)
Size(ids) == FoldSet(LAMBDA id, total : total + Weight[id], 0, ids)

\* _transcript_groups, as the positions groups end at: no call is pending.
\* What is left at the end is a group too.
Bug_Ends(messages) == DOMAIN messages

Ends(messages) ==
  LET Pending(i) == FoldLeft(LAMBDA pending, m : (pending \cup m.calls) \ {m.answers}, {},
                             SubSeq(messages, 1, i))
  IN { i \in DOMAIN messages : Pending(i) = {} } \cup {Len(messages)}

\* _select_memory, _select_bundles: in the order of the recommendation, what
\* still fits is taken, a bundle with all of what it has that is new.  The
\* commits of a scope come one by one, the first with the scope's heading.
Fragment(taken) ==
  IF taken.ids = {} THEN 0 ELSE Heading + Size(taken.ids) + Cardinality(taken.scopes \ {"-"})

Bug_Selected(memory, available) ==
  FoldLeft(LAMBDA taken, item :
             LET more == [ids |-> taken.ids \cup item.ids, scopes |-> taken.scopes \cup {item.scope}]
             IN IF item.ids \subseteq taken.ids \/ Fragment(more) > available THEN taken ELSE more,
           [ids |-> {}, scopes |-> {}], memory.items)

Selected(memory, available) ==
  FoldLeft(LAMBDA taken, item :
             LET new == item.ids \ (memory.required \cup taken.ids)
                 more == [ids |-> taken.ids \cup new, scopes |-> taken.scopes \cup {item.scope}]
             IN IF new = {} \/ Fragment(more) > available THEN taken ELSE more,
           [ids |-> {}, scopes |-> {}], memory.items)

\* The subject's state and the evidence it rests on are never left out.
Necessary(memory) ==
  Base + memory.continuity + (IF memory.required = {} THEN 0 ELSE Heading + Size(memory.required))

\* _trim_history: the latest groups that fit, in one piece, as where they
\* begin; beyond the transcript if not even the latest fits.
Trimmed(ends, room) ==
  LET n == Len(transcript)
      fitting == { i \in 2..n : i - 1 \in ends /\ TotalSize(i..n) <= room }
  IN IF fitting = {} THEN n + 1 ELSE Min(fitting)

Bug_Marker(ends) == 0

\* The place of the tag is kept free as soon as a group could be left out.
Marker(ends) == IF Cardinality(ends) > 2 THEN Tag ELSE 0

\* The first group, in which the work was asked for, and the latest.
Required(ends) ==
  LET before == ends \ {Len(transcript)}
  IN IF before = {} THEN DOMAIN transcript
     ELSE 1..Min(ends) \cup (Max(before) + 1)..Len(transcript)

\* _exposure tells what was put into the context.
Exposed(memory, selected, kept) ==
  memory.required \cup selected \cup UNION { transcript[i].evidence : i \in kept }

Refused(memory, room) ==
  answer' = [NoAnswer EXCEPT !.kind = "refused", !.memory = memory, !.room = room]

Made(memory, room, selected, system, kept, tagged) ==
  answer' = [kind |-> "made", memory |-> memory, room |-> room, selected |-> selected, system |-> system,
             kept |-> kept, tagged |-> tagged, included |-> Exposed(memory, selected, kept)]

Assemble(memory, room) ==
  LET ends == Ends(transcript)
      all == DOMAIN transcript
      first == 1..Min(ends)
      minimum == Necessary(memory) + TotalSize(Required(ends))
      taken == Selected(memory, room - minimum - Marker(ends))
      system == Necessary(memory) + Fragment(taken)
      start == Trimmed(ends, room - system - Tag - TotalSize(first))
  IN /\ IF minimum > room THEN Refused(memory, room)
        ELSE IF system + TotalSize(all) <= room THEN Made(memory, room, taken.ids, system, all, FALSE)
        ELSE IF start > Len(transcript) THEN Refused(memory, room)
        ELSE Made(memory, room, taken.ids, system, first \cup start..Len(transcript), TRUE)
     /\ UNCHANGED transcript

Next ==
  \/ Speak \/ TellWorld \/ Call \/ Return
  \/ \E memory \in Memories, room \in Rooms : answer = NoAnswer /\ Assemble(memory, room)

Spec == Init /\ [][Next]_vars

-----------------------------------------------------------------------------
(* Properties.                                                             *)

TypeOK ==
  /\ answer.kind \in {"none", "refused", "made"}
  /\ answer.kept \subseteq DOMAIN transcript

\* Where the transcript may be cut: every call before has its result before.
Cut(i) ==
  \/ i = Len(transcript)
  \/ /\ i > 0
     /\ \A j \in 1..i : \A call \in transcript[j].calls : \E k \in j..i : transcript[k].answers = call

Cost(positions) == TotalSize(positions) + (IF positions = DOMAIN transcript THEN 0 ELSE Tag)

FirstEnd == CHOOSE i \in DOMAIN transcript : Cut(i) /\ \A j \in 1..i - 1 : ~Cut(j)

\* The transcripts that could be sent: the first interaction and, after a
\* cut, everything to the end.
Sendable == { 1..FirstEnd \cup i + 1..Len(transcript) : i \in { i \in 1..Len(transcript) - 1 : Cut(i) } }
              \cup {DOMAIN transcript}

\* The context is refused only when no transcript that could be sent fits
\* beside the subject's state and its evidence.
RefusedOnlyIfNeeded ==
  answer.kind = "refused" =>
    \A kept \in Sendable : Necessary(answer.memory) + Cost(kept) > answer.room

\* What is sent fits; it is the longest transcript that fits beside the
\* memory chosen, without a call that lost its result or the reverse.
Fits ==
  answer.kind = "made" =>
    /\ answer.kept \in Sendable
    /\ answer.system + Cost(answer.kept) <= answer.room
    /\ answer.tagged <=> answer.kept # DOMAIN transcript
    /\ \A kept \in Sendable :
         answer.kept \subseteq kept /\ answer.kept # kept => answer.system + Cost(kept) > answer.room
    /\ \A i, j \in DOMAIN transcript :
         transcript[j].answers \in transcript[i].calls => (i \in answer.kept <=> j \in answer.kept)

\* The memory in the context is made of whole bundles, is accounted for, and
\* the exposure names what was sent and nothing else.
MemoryIsTold ==
  answer.kind = "made" =>
    LET held == answer.memory.required \cup answer.selected
        whole == { item \in Range(answer.memory.items) : item.ids \subseteq held }
    IN /\ answer.selected = UNION { item.ids : item \in whole } \ answer.memory.required
       /\ answer.included = held \cup UNION { transcript[i].evidence : i \in answer.kept }
       /\ answer.system >= Base + answer.memory.continuity + Size(held)

\* What a turn is given: see each part.
PromptSound == TypeOK /\ RefusedOnlyIfNeeded /\ Fits /\ MemoryIsTold
=============================================================================
