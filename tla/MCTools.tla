------------------------------ MODULE MCTools ------------------------------
(***************************************************************************)
(* TLC instance of the two sources of tools: Operations, a command whose   *)
(* handler dispatches another command and requests of the remaining kinds, *)
(* and McpRuntime.  They share no state, so a behaviour is one of the one  *)
(* or of the other; part says which.                                       *)
(***************************************************************************)
EXTENDS Operations

KindOf(i) ==
  CASE i = "outer" -> "command"
    [] i = "inner" -> "retry_safe"
    [] i = "query" -> "query"
    [] i = "invalid" -> "invalid"
MCKind == [i \in Ids |-> KindOf(i)]
MCNested ==
  [i \in Ids |-> CASE i = "outer" -> "inner"
                   [] i = "query" -> "query"
                   [] OTHER -> NoId]

CONSTANTS N, Modern, Closers, Calls, Changing, MaxChanges, Losing, Called, MaxEvents
VARIABLES phase, at, lock, app, client, server, status, events, call, told, part

mcpVars == <<phase, at, lock, app, client, server, status, events, call, told>>
Mcp == INSTANCE McpRuntime

-----------------------------------------------------------------------------
MCInit == part \in {"operations", "calls", "events"} /\ Init /\ Mcp!Init

\* Calls and business events touch different state: each with all the rest.
MCNext ==
  \/ part = "operations" /\ Next /\ UNCHANGED <<mcpVars, part>>
  \/ /\ part # "operations" /\ Mcp!Next
     /\ part = "calls" => \A a \in 1..N : server'[a].sent = 0
     /\ part = "events" => UNCHANGED call
     /\ UNCHANGED <<vars, part>>

\* The fairness of both.
MCSpec ==
  /\ MCInit
  /\ [][MCNext]_<<vars, mcpVars, part>>
  /\ \A t \in Tasks : WF_vars(part = "operations" /\ Step(t))
  /\ WF_mcpVars(part # "operations" /\ Mcp!Preparing)

\* What the runtime knows of its apps is complete, events pass the gate, calls
\* are told as they happened, and whatever was opened is released and reported:
\* see McpRuntime.
McpSound == Mcp!AppsKnown /\ Mcp!TrafficSound /\ Mcp!CloseReleases

\* Starting and closing come to an end: see McpRuntime.
StartAndCloseEnd == part # "operations" => Mcp!StartAndCloseEnd
=============================================================================
