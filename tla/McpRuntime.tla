----------------------------- MODULE McpRuntime -----------------------------
(***************************************************************************)
(* The MCP runtime of aurora_bot/mcp: it connects the active apps one      *)
(* after the other, lists their tools, freezes the catalogue, is activated *)
(* once by the host and closed once, last app first.  Servers meanwhile    *)
(* change their catalogues, vanish, send events and answer calls.  Notices *)
(* wait for the status lock; a status commit is appended while holding it. *)
(***************************************************************************)
EXTENDS Naturals, FiniteSets, Functions

CONSTANTS
  N,            \* active apps, in the order they are prepared
  Modern,       \* apps of the modern protocol: a watch task, extension events
  Closers,      \* callers of close() besides a failed prepare
  Calls,        \* calls of the tools, of any runs
  Changing,     \* bounds: apps that change their catalogue,
  MaxChanges,   \*   how often each of them does,
  Losing,       \*   apps whose connection may break, for good,
  Called,       \*   apps whose tools are called,
  MaxEvents     \*   business events of all apps together

Apps == 1..N

VARIABLES
  phase,      \* _RuntimePhase
  at,         \* where prepare_mcp is, and with which app
  lock,       \* the status being appended under _status_lock, or Free
  app,        \* _AppRecord of each app
  client,     \* SdkMcpClient, its callbacks and its gate, of each app
  server,     \* the process at the other end, of each app
  status,     \* status commits of each app in the world, by kind
  events,     \* history: recorded business events, as they were accepted
  call,       \* each call of an McpTool
  told        \* closer -> "-", "owner", "waiting", "returned" or "raised"

vars == <<phase, at, lock, app, client, server, status, events, call, told>>

Free == [app |-> 0, kind |-> "-"]
Prepare == "prepare"                  \* the abort of a failed prepare_mcp
Starting == phase \in {"preparing", "prepared"}
Ending == phase \in {"closing", "closed"}

Init ==
  /\ phase = "preparing"
  /\ at = [step |-> "open", app |-> 1]
  /\ lock = Free
  /\ app = [a \in Apps |-> [state |-> "disabled", changed |-> FALSE, lost |-> FALSE,
                            restart |-> FALSE, tools |-> FALSE]]
  /\ client = [a \in Apps |->
       [open |-> FALSE, connected |-> FALSE, bound |-> FALSE, catalog |-> 0, lost |-> FALSE,
        telling |-> FALSE, delivered |-> FALSE, closed |-> FALSE, generation |-> 0,
        active |-> FALSE, queue |-> {}, handling |-> {}]]
  /\ server = [a \in Apps |-> [alive |-> TRUE, version |-> 0, listed |-> 0,
                               changes |-> 0, lost |-> FALSE, sent |-> 0]]
  /\ status = [a \in Apps |-> [catalog |-> 0, lost |-> 0, refused |-> {}]]
  /\ events = {}
  /\ call = [c \in Calls |-> [to |-> 0, place |-> "none", effect |-> FALSE, plain |-> TRUE]]
  /\ told = [k \in Closers \cup {Prepare} |-> "-"]

-----------------------------------------------------------------------------
\* Operators named Bug_... are one-slip variants of the operator that follows
\* them; no action uses them.

\* The runtime's observers, as the next record of the app.
Bug_CatalogChanged(r) ==
  IF phase = "preparing" THEN [r EXCEPT !.changed = TRUE] ELSE r
CatalogChanged(r) ==
  IF Ending THEN r
  ELSE IF Starting THEN [r EXCEPT !.changed = TRUE]
  ELSE [r EXCEPT !.restart = TRUE]

Disconnected(r) ==
  IF Ending THEN r
  ELSE IF Starting THEN [r EXCEPT !.state = "unavailable", !.lost = TRUE]
  ELSE [r EXCEPT !.state = "unavailable", !.restart = TRUE]

\* What prepare and activate refuse (_startup_invalid_record).
Invalid(a) == app[a].changed \/ app[a].lost \/ ~client[a].connected

\* _mark_disconnected: the flag falls at once, the observer is told one time,
\* when it has the lock.
MarkLost(c) ==
  [c EXCEPT !.connected = FALSE, !.lost = TRUE,
            !.telling = @ \/ (c.bound /\ ~c.delivered), !.delivered = @ \/ c.bound]

Bug_Accepts(c, generation) == generation = c.generation
Accepts(c, generation) == c.active /\ generation = c.generation

-----------------------------------------------------------------------------
\* prepare_mcp, one stretch between awaits at a time.

Go(step, a) == at' = [step |-> step, app |-> a]
In(step) == phase = "preparing" /\ at.step = step

Open ==
  /\ In("open")
  /\ client' = [client EXCEPT ![at.app].open = TRUE, ![at.app].connected = TRUE]
  /\ app' = [app EXCEPT ![at.app].state = "starting"]
  /\ Go("bind", at.app)
  /\ UNCHANGED <<phase, lock, server, status, events, call, told>>

Bind ==
  /\ In("bind")
  /\ client' = [client EXCEPT ![at.app].bound = TRUE]
  /\ Go("flush", at.app)
  /\ UNCHANGED <<phase, lock, app, server, status, events, call, told>>

\* The watch is ready (modern apps): what came before the observers were bound
\* is told now.
Flushed(c) == IF c.lost THEN [MarkLost(c) EXCEPT !.catalog = 0] ELSE [c EXCEPT !.catalog = 0]

Flush ==
  /\ In("flush")
  /\ at.app \in Modern => server[at.app].alive
  /\ LET a == at.app IN
     /\ app' = [app EXCEPT ![a] = IF client[a].catalog > 0 THEN CatalogChanged(@) ELSE @]
     /\ client' = [client EXCEPT ![a] = Flushed(@)]
     /\ Go("list", a)
  /\ UNCHANGED <<phase, lock, server, status, events, call, told>>

\* _discover_bindings, from its first page to its last.
ListTools ==
  /\ In("list")
  /\ server[at.app].alive
  /\ server' = [server EXCEPT ![at.app].listed = server[at.app].version]
  /\ Go("register", at.app)
  /\ UNCHANGED <<phase, lock, app, client, status, events, call, told>>

Register ==
  /\ In("register")
  /\ ~Invalid(at.app)
  /\ app' = [app EXCEPT ![at.app].state = "ready", ![at.app].tools = TRUE]
  /\ IF at.app = N THEN Go("freeze", N) ELSE Go("open", at.app + 1)
  /\ UNCHANGED <<phase, lock, client, server, status, events, call, told>>

Freeze ==
  /\ In("freeze")
  /\ \A a \in Apps : ~Invalid(a)
  /\ phase' = "prepared"
  /\ Go("done", N)
  /\ UNCHANGED <<lock, app, client, server, status, events, call, told>>

\* A refused connection, a bad page, a doubled tool, the timeout, a
\* cancellation, or an app found invalid: everything opened is closed again.
PrepareFails(cancelled) ==
  /\ phase = "preparing"
  /\ at.step \notin {"done", "failed"}
  /\ at.step # "freeze" \/ cancelled \/ \E a \in Apps : Invalid(a)
  /\ app' = IF cancelled \/ at.step = "freeze" THEN app
            ELSE [app EXCEPT ![at.app].state = "unavailable"]
  /\ Go("failed", at.app)
  /\ told' = [told EXCEPT ![Prepare] = "owner"]
  /\ UNCHANGED <<phase, lock, client, server, status, events, call>>

-----------------------------------------------------------------------------
\* activate(), close() and abort().

Activate ==
  /\ phase = "prepared"
  /\ lock = Free
  /\ \A a \in Apps : ~Invalid(a)
  /\ phase' = "running"
  /\ client' = [a \in Apps |-> [client[a] EXCEPT !.active = TRUE, !.generation = @ + 1]]
  /\ UNCHANGED <<at, lock, app, server, status, events, call, told>>

\* _closing: the one release that every caller waits for.
Asked == \E k \in DOMAIN told : told[k] \in {"owner", "waiting"}

AskClose(k) ==
  /\ at.step = "done"
  /\ told[k] = "-"
  /\ told' = [told EXCEPT ![k] = IF phase = "closed" THEN "returned"
                                 ELSE IF Asked THEN "waiting" ELSE "owner"]
  /\ UNCHANGED <<phase, at, lock, app, client, server, status, events, call>>

Deactivated(c) == IF c.active THEN [c EXCEPT !.active = FALSE, !.generation = @ + 1] ELSE c

BeginClose ==
  /\ Asked
  /\ ~Ending
  /\ lock = Free
  /\ phase' = "closing"
  /\ client' = [a \in Apps |-> Deactivated(client[a])]
  /\ UNCHANGED <<at, lock, app, server, status, events, call, told>>

Bug_ToClose == {a \in Apps : client[a].open /\ ~client[a].closed /\ app[a].state # "unavailable"}
ToClose == {a \in Apps : client[a].open /\ ~client[a].closed /\ app[a].state # "close_failed"}

\* SdkMcpClient.close: whatever the connection was still handling goes with it.
CloseClient(ok) ==
  /\ phase = "closing"
  /\ ToClose # {}
  /\ LET a == CHOOSE a \in ToClose : \A b \in ToClose : b <= a IN
     /\ client' = [client EXCEPT ![a] =
          IF ok THEN [@ EXCEPT !.connected = FALSE, !.closed = TRUE, !.telling = FALSE,
                               !.queue = {}, !.handling = {}]
          ELSE @]
     /\ app' = [app EXCEPT ![a].state = IF ok THEN "closed" ELSE "close_failed"]
  /\ UNCHANGED <<phase, at, lock, server, status, events, call, told>>

\* Who asked first delivers the failures, the others only wait.
Failures == {a \in Apps : app[a].state = "close_failed"}

Bug_Answer(k) == IF told[k] = "owner" THEN "returned" ELSE told[k]
Answer(k) ==
  IF told[k] = "owner" /\ (k = Prepare \/ Failures # {}) THEN "raised"
  ELSE IF told[k] \in {"owner", "waiting"} THEN "returned" ELSE told[k]

Finish ==
  /\ phase = "closing"
  /\ ToClose = {}
  /\ phase' = "closed"
  /\ told' = [k \in DOMAIN told |-> Answer(k)]
  /\ UNCHANGED <<at, lock, app, client, server, status, events, call>>

-----------------------------------------------------------------------------
\* Servers, and the callbacks of their connections.

Reachable(a) == client[a].open /\ ~client[a].closed /\ server[a].alive

Sent == FoldFunction(LAMBDA s, n : s.sent + n, 0, server)

\* A modern server notifies subscribers only.
Notifies(a) == a \in Modern => client[a].bound /\ at # [step |-> "flush", app |-> a]

Change(a) ==
  /\ Reachable(a)
  /\ a \in Changing
  /\ server[a].version < MaxChanges
  /\ server' = [server EXCEPT ![a].version = @ + 1,
                              ![a].changes = IF Notifies(a) THEN @ + 1 ELSE @]
  /\ UNCHANGED <<phase, at, lock, app, client, status, events, call, told>>

\* With the connection its notices are gone; the loss itself is seen by the
\* watch or by the message handler.
Lose(a) ==
  /\ a \in Losing
  /\ Reachable(a)
  /\ server' = [server EXCEPT ![a].alive = FALSE, ![a].changes = 0, ![a].lost = TRUE]
  /\ UNCHANGED <<phase, at, lock, app, client, status, events, call, told>>

\* emit_catalog: counted before the observers are bound, else told under lock.
NoticeCatalog(a) ==
  /\ server[a].changes > 0
  /\ client[a].open /\ ~client[a].closed
  /\ server' = [server EXCEPT ![a].changes = @ - 1]
  /\ IF ~client[a].bound
     THEN /\ client' = [client EXCEPT ![a].catalog = @ + 1]
          /\ UNCHANGED <<app, lock>>
     ELSE /\ lock = Free
          /\ app' = [app EXCEPT ![a] = CatalogChanged(@)]
          /\ lock' = IF phase = "running" /\ ~app[a].restart
                     THEN [app |-> a, kind |-> "catalog"] ELSE Free
          /\ UNCHANGED client
  /\ UNCHANGED <<phase, at, status, events, call, told>>

NoticeLost(a) ==
  /\ server[a].lost
  /\ client[a].open /\ ~client[a].closed
  /\ server' = [server EXCEPT ![a].lost = FALSE]
  /\ client' = [client EXCEPT ![a] = MarkLost(@)]
  /\ UNCHANGED <<phase, at, lock, app, status, events, call, told>>

TellLost(a) ==
  /\ client[a].telling
  /\ lock = Free
  /\ client' = [client EXCEPT ![a].telling = FALSE]
  /\ app' = [app EXCEPT ![a] = Disconnected(@)]
  /\ lock' = IF phase = "running" /\ app[a].state # "unavailable"
             THEN [app |-> a, kind |-> "lost"] ELSE Free
  /\ UNCHANGED <<phase, at, server, status, events, call, told>>

\* The record was changed before; an append that raises leaves it so.
AppendStatus(ok) ==
  /\ lock # Free
  /\ status' =
       IF ~ok THEN [status EXCEPT ![lock.app].refused = @ \cup {lock.kind}]
       ELSE IF lock.kind = "lost" THEN [status EXCEPT ![lock.app].lost = @ + 1]
       ELSE [status EXCEPT ![lock.app].catalog = @ + 1]
  /\ lock' = Free
  /\ UNCHANGED <<phase, at, app, client, server, events, call, told>>

\* A business event arrives: extension parameters are stamped, and refused, on
\* arrival; a legacy notification is stamped when it is handled.
Event(a) ==
  /\ Reachable(a)
  /\ Sent < MaxEvents
  /\ server' = [server EXCEPT ![a].sent = @ + 1]
  /\ client' = [client EXCEPT ![a].queue =
       IF a \in Modern /\ ~Accepts(client[a], client[a].generation) THEN @
       ELSE @ \cup {[id |-> server'[a].sent, stamp |-> client[a].generation, early |-> phase # "running"]}]
  /\ UNCHANGED <<phase, at, lock, app, status, events, call, told>>

Stamp(a, e) == IF a \in Modern THEN e.stamp ELSE client[a].generation

\* gate.deliver: accepted events are appended, after an await.
Deliver(a) ==
  /\ \E e \in client[a].queue :
       client' = [client EXCEPT ![a].queue = @ \ {e},
                    ![a].handling = IF Accepts(client[a], Stamp(a, e))
                                    THEN @ \cup {[e EXCEPT !.stamp = client[a].generation]} ELSE @]
  /\ UNCHANGED <<phase, at, lock, app, server, status, events, call, told>>

\* _append_inbound_event: validated, recorded once per id; or it raises.
Record(a, ok) ==
  /\ \E e \in client[a].handling :
       /\ client' = [client EXCEPT ![a].handling = @ \ {e}]
       /\ events' = IF ok THEN events \cup
                       {[app |-> a, id |-> e.id, early |-> e.early, accepted |-> e.stamp]}
                    ELSE events
  /\ UNCHANGED <<phase, at, lock, app, server, status, call, told>>

-----------------------------------------------------------------------------
\* McpTool.execute and call_tool.

Execute(c, a) ==
  /\ call[c].place = "none" /\ a \in Called
  /\ phase \in {"running", "closing", "closed"}
  /\ app[a].tools
  /\ call' = [call EXCEPT ![c].to = a, ![c].place = IF client[a].connected THEN "sent" ELSE "failed"]
  /\ UNCHANGED <<phase, at, lock, app, client, server, status, events, told>>

\* The server acts; what it will answer may be no text.
TakeEffect(c, plain) ==
  /\ call[c].place = "sent"
  /\ ~call[c].effect
  /\ server[call[c].to].alive
  /\ call' = [call EXCEPT ![c].effect = TRUE, ![c].plain = plain]
  /\ UNCHANGED <<phase, at, lock, app, client, server, status, events, told>>

\* _normalize_result, and the codes of call_tool.
Bug_Outcome(r, answer) == IF answer = "result" /\ r.plain THEN "succeeded" ELSE "failed"
Outcome(r, answer) ==
  CASE answer = "result" -> IF r.plain THEN "succeeded" ELSE "failed"
    [] answer = "refused" -> "failed"
    [] OTHER -> "unknown"

\* A server refuses what it has not done, and reports an error without effect.
Possible(r, answer) ==
  CASE answer = "result" -> r.effect /\ Reachable(r.to)
    [] answer = "refused" -> ~r.effect /\ Reachable(r.to)
    [] answer = "lost" -> ~Reachable(r.to)
    [] OTHER -> TRUE

\* A lost connection is seen by the call that meets it, and marked for the app.
Answered(c, answer) ==
  /\ call[c].place = "sent"
  /\ Possible(call[c], answer)
  /\ call' = [call EXCEPT ![c].place = Outcome(call[c], answer)]
  /\ client' = IF answer = "lost" THEN [client EXCEPT ![call[c].to] = MarkLost(@)] ELSE client
  /\ UNCHANGED <<phase, at, lock, app, server, status, events, told>>

-----------------------------------------------------------------------------
Runtime ==
  \/ Open \/ Bind \/ Flush \/ ListTools \/ Register \/ Freeze
  \/ BeginClose \/ \E ok \in BOOLEAN : CloseClient(ok) \/ AppendStatus(ok)
  \/ Finish

Preparing == Runtime \/ \E cancelled \in BOOLEAN : PrepareFails(cancelled)

Callbacks(a) ==
  \/ NoticeCatalog(a) \/ NoticeLost(a) \/ TellLost(a) \/ Deliver(a)
  \/ \E ok \in BOOLEAN : Record(a, ok)

Next ==
  \/ Preparing
  \/ Activate
  \/ \E k \in Closers : AskClose(k)
  \/ \E a \in Apps : Callbacks(a) \/ Change(a) \/ Lose(a) \/ Event(a)
  \/ \E c \in Calls :
       \/ \E a \in Apps : Execute(c, a)
       \/ \E plain \in BOOLEAN : TakeEffect(c, plain)
       \/ \E answer \in {"result", "refused", "lost", "timeout"} : Answered(c, answer)

Spec == Init /\ [][Next]_vars

\* Connecting and listing end within the app's timeout, closing and appending
\* answer; servers and hosts owe nothing.
FairSpec == Spec /\ WF_vars(Preparing)

-----------------------------------------------------------------------------
\* Properties.

TypeOK ==
  /\ phase \in {"preparing", "prepared", "running", "closing", "closed"}
  /\ lock \in [app : Apps, kind : {"catalog", "lost"}] \cup {Free}
  /\ \A a \in Apps :
       /\ app[a].state \in {"disabled", "starting", "ready", "unavailable", "closed", "close_failed"}
       /\ client[a].generation \in 0..2
       /\ server[a].version \in Nat
  /\ \A c \in Calls : call[c].place \in {"none", "sent", "succeeded", "failed", "unknown"}
  /\ told \in [Closers \cup {Prepare} -> {"-", "owner", "waiting", "returned", "raised"}]

\* Once the tools of an app are listed, a catalogue that differs from them is
\* known to the runtime as soon as no notice of it is under way, wherever the
\* notice fell: before the observers were bound, during the other apps'
\* start, at the activation, behind another status.  The same for a
\* connection that was seen to be lost.  A running runtime started clean.
NoticesKept ==
  \A a \in Apps :
    /\ ~Ending /\ app[a].tools /\ Reachable(a) /\ server[a].changes = 0
         /\ server[a].version # server[a].listed => app[a].changed \/ app[a].restart
    /\ ~Ending /\ app[a].tools /\ client[a].lost /\ ~client[a].telling =>
         app[a].state = "unavailable"
    /\ phase = "running" => ~app[a].changed /\ ~app[a].lost

\* A restart is asked for with one commit of each kind at most, and never in
\* silence unless the journal refused the commit.
StatusTold ==
  \A a \in Apps :
    /\ status[a].catalog <= 1 /\ status[a].lost <= 1
    /\ app[a].restart /\ lock.app # a =>
         status[a].catalog + status[a].lost + Cardinality(status[a].refused) >= 1

\* What the runtime knows of its apps is complete: types, notices and statuses.
AppsKnown == TypeOK /\ NoticesKept /\ StatusTold

\* An event in the world was accepted while the runtime ran; one of a modern
\* app had also arrived then: what queued up before the activation or over
\* the beginning of the close is refused by its generation.
EventsGated ==
  \A e \in events :
    e.accepted = 1 /\ (e.app \in Modern => ~e.early)

\* A call that is told as done was done, and one that is told as failed was
\* not, except when only its answer could not be shown.
CallsTold ==
  \A c \in Calls :
    /\ call[c].place = "succeeded" => call[c].effect
    /\ call[c].place = "failed" /\ call[c].effect => ~call[c].plain

\* What passes between apps and the bot is what it seems: events and calls.
TrafficSound == EventsGated /\ CallsTold

\* docs (runtime-core.md, the table of outcomes): failed means refused, or
\* known to have had no effect.
FailedMeansNoEffect == \A c \in Calls : call[c].place = "failed" => ~call[c].effect

\* A closed runtime has closed every connection it opened, or said which it
\* could not close, later apps before earlier ones, with every gate shut; the
\* failures reach exactly one caller.
CloseReleases ==
  LET Done(a) == client[a].closed \/ app[a].state = "close_failed" IN
  /\ \A a, b \in Apps : a < b /\ client[a].closed /\ client[b].open => Done(b)
  /\ phase = "closed" =>
       /\ \A a \in Apps : ~client[a].active /\ (client[a].open => Done(a))
       /\ Failures # {} => Cardinality({k \in DOMAIN told : told[k] = "raised"}) = 1

\* A start comes to a catalogue or to a complete release, and every close
\* returns, however notices, appends and failing connections fall.
StartAndCloseEnd ==
  (phase = "preparing" \/ Asked) ~> (phase # "preparing" /\ ~Asked)
=============================================================================
