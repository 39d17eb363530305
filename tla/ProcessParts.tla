---------------------------- MODULE ProcessParts ----------------------------
(***************************************************************************)
(* What goes on in a running process: TerminalConsole, from which lines    *)
(* come, RuntimeCore, the entry of every request for cognition, RunEvents, *)
(* which shows a run to its subscribers, ModelGateway, which asks the      *)
(* model, and ArtifactStore, which calls of all of them put to and read    *)
(* from.  They share no state here: a behaviour is of one of Parts.        *)
(***************************************************************************)
EXTENDS Naturals, Sequences, FiniteSets

CONSTANTS Callers, Way, Given, MaxDeaths
VARIABLES where, result, queue, holder, counts, runsRecorded, foreign, inputs, deaths

entryVars == <<where, result, queue, holder, counts, runsRecorded, foreign, inputs, deaths>>
Entry == INSTANCE RuntimeCore
  WITH place <- where, Calls <- Callers, MaxEnds <- MaxDeaths, recorded <- runsRecorded, ends <- deaths

-----------------------------------------------------------------------------
CONSTANTS MaxLines
VARIABLES asked, spot, reader, waiter, line, typed, committed, answered, exit

consoleVars == <<asked, spot, reader, waiter, line, typed, committed, answered, exit>>
Console == INSTANCE TerminalConsole WITH stop <- asked, place <- spot

-----------------------------------------------------------------------------
CONSTANTS Subscribers, MaxEvents
VARIABLES emitted, terminal, pulse, cursor, subscriber

streamVars == <<emitted, terminal, pulse, cursor, subscriber>>
Stream == INSTANCE RunEvents WITH finished <- terminal, changed <- pulse, at <- subscriber

-----------------------------------------------------------------------------
CONSTANTS Timeouts, Totals, Counts
VARIABLES binding, now, attempting, tries, told

gatewayVars == <<binding, now, attempting, tries, told>>
Gateway == INSTANCE ModelGateway WITH place <- attempting

-----------------------------------------------------------------------------
CONSTANTS Puts, Reads, MaxDamage
VARIABLES object, bound, verified, call, damage

fileVars == <<object, bound, verified, call, damage>>
Artifacts == INSTANCE ArtifactStore WITH binding <- bound

-----------------------------------------------------------------------------
partVars == <<entryVars, consoleVars, streamVars, gatewayVars, fileVars>>
Parts == {"entry", "console", "stream", "gateway", "artifacts"}
PartsInit == Entry!Init /\ Console!Init /\ Stream!Init /\ Gateway!Init /\ Artifacts!Init

PartsNext(part) ==
  \/ part = "entry" /\ Entry!Next /\ UNCHANGED <<consoleVars, streamVars, gatewayVars, fileVars>>
  \/ part = "console" /\ Console!Next /\ UNCHANGED <<entryVars, streamVars, gatewayVars, fileVars>>
  \/ part = "stream" /\ Stream!Next /\ UNCHANGED <<entryVars, consoleVars, gatewayVars, fileVars>>
  \/ part = "gateway" /\ Gateway!Next /\ UNCHANGED <<entryVars, consoleVars, streamVars, fileVars>>
  \/ part = "artifacts" /\ Artifacts!Next /\ UNCHANGED <<entryVars, consoleVars, streamVars, gatewayVars>>

\* Lines are taken in turn, and requests for cognition let in one at a time:
\* see TerminalConsole and RuntimeCore.
EntrySound == Entry!RuntimeSound /\ Console!ConsoleSound

\* Subscribers of a run sleep only when there is nothing for them: see
\* RunEvents.
EventsSound == Stream!EventsSound

\* Every subscription of a finished run drains it: see RunEvents.
SubscriptionsDrain == Stream!SubscriptionsDrain

\* Attempts follow one another within the total deadline: see ModelGateway.
GatewaySound == Gateway!GatewaySound

\* Bound content is there and true for puts and reads side by side: see
\* ArtifactStore.
ArtifactsSound == Artifacts!ArtifactsSound
=============================================================================
