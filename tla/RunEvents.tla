----------------------------- MODULE RunEvents -----------------------------
(***************************************************************************)
(* The event stream of a Run: one list of events, one asyncio.Event shared *)
(* by every subscriber, and a cursor per subscriber.  Subscribers clear    *)
(* the shared Event before they wait on it, so they can undo each other's  *)
(* wake-up; set() however resolves every current waiter for good.          *)
(***************************************************************************)
EXTENDS Naturals

CONSTANTS Subscribers,
          MaxEvents     \* bound: length of the event list

VARIABLES emitted,   \* Len(self._events)
          finished,  \* self._status.terminal
          changed,   \* the flag of self._changed
          cursor,    \* subscriber -> index of the next event
          at         \* subscriber -> "host" (suspended at yield or not begun),
                     \*   "waiting", "woken" or "closed"

vars == <<emitted, finished, changed, cursor, at>>

\* The run is created with one event; subscriptions may begin at any earlier
\* cursor.
Init ==
  /\ emitted = 1
  /\ finished = FALSE
  /\ changed = TRUE
  /\ cursor \in [Subscribers -> 0..1]
  /\ at = [s \in Subscribers |-> "host"]

Bug_Woken == IF \E s \in Subscribers : at[s] = "waiting"
             THEN LET one == CHOOSE s \in Subscribers : at[s] = "waiting"
                  IN [at EXCEPT ![one] = "woken"]
             ELSE at
Woken == [s \in Subscribers |-> IF at[s] = "waiting" THEN "woken" ELSE at[s]]

\* One synchronous stretch of the run: some events, the last of which may be
\* FINISHED, written after the status became terminal.
Emit ==
  /\ ~finished
  /\ emitted' \in (emitted + 1)..MaxEvents
  /\ finished' \in BOOLEAN
  /\ changed' = TRUE
  /\ at' = Woken
  /\ UNCHANGED cursor

HasNext(s) == cursor[s] < emitted
Bug_Ended(s) == finished
Ended(s) == finished /\ cursor[s] = emitted

\* The subscriber runs from the host's request, or from its wake-up, to its
\* next yield, wait or return.
Advance(s) ==
  /\ at[s] \in {"host", "woken"}
  /\ \/ /\ HasNext(s)
        /\ ~Ended(s)
        /\ cursor' = [cursor EXCEPT ![s] = @ + 1]
        /\ at' = [at EXCEPT ![s] = "host"]
        /\ UNCHANGED changed
     \/ /\ Ended(s)
        /\ at' = [at EXCEPT ![s] = "closed"]
        /\ UNCHANGED <<cursor, changed>>
     \/ /\ cursor[s] = emitted
        /\ ~finished
        /\ changed' = FALSE
        /\ at' = [at EXCEPT ![s] = "waiting"]
        /\ UNCHANGED cursor
  /\ UNCHANGED <<emitted, finished>>

Next == Emit \/ \E s \in Subscribers : Advance(s)

\* Subscribers keep asking; the run itself owes no event.
Spec == Init /\ [][Next]_vars /\ \A s \in Subscribers : WF_vars(Advance(s))

-----------------------------------------------------------------------------
\* Types, and no cursor past the list.
TypeOK ==
  /\ emitted \in 1..MaxEvents
  /\ finished \in BOOLEAN
  /\ changed \in BOOLEAN
  /\ cursor \in [Subscribers -> 0..emitted]
  /\ at \in [Subscribers -> {"host", "waiting", "woken", "closed"}]

\* events() never sleeps on an event it has not yielded nor on a run that has
\* ended: another subscriber's clear() cannot lose a wake-up.
NoLostWakeup ==
  \A s \in Subscribers :
    at[s] = "waiting" => cursor[s] = emitted /\ ~finished

\* Subscribers are where they may be and sleep only when there is nothing.
EventsSound == TypeOK /\ NoLostWakeup

\* Every subscription of a finished run ends, and only after it has yielded
\* the whole list, FINISHED included.
SubscriptionsDrain ==
  finished ~> \A s \in Subscribers : at[s] = "closed" /\ cursor[s] = emitted
=============================================================================
