--------------------------- MODULE MCSupervision ---------------------------
(***************************************************************************)
(* TLC instance of the process: Supervision, the host in its process;      *)
(* Resolution and ScopeCatalog, which decide what that host holds; and     *)
(* EngineRun and the parts of ProcessParts, what goes on in it.  They      *)
(* share no state; part says of which of them a behaviour is.  Resolution  *)
(* gets every list of three of the shapes of modules below, under every    *)
(* naming, so that the listed order and the names disagree.                *)
(***************************************************************************)
EXTENDS Supervision, SequencesExt, ProcessParts

Plain == [depends |-> {}, provides |-> {}, requires |-> {}, contributes |-> {}, consumes |-> {},
          declares |-> {}, priority |-> 0, optional |-> FALSE, order |-> {},
          hooks |-> {"activate", "close"}, points |-> {}, handlers |-> <<>>]
Handler(n) == [target |-> 2, priority |-> n]
Shapes ==
  { [Plain EXCEPT !.provides = {"p"}],
    [Plain EXCEPT !.provides = {"p"}, !.priority = 1, !.requires = {"q"}],
    [Plain EXCEPT !.provides = {"q"}, !.consumes = {"k"}, !.declares = {"k"}],
    [Plain EXCEPT !.provides = {"q"}, !.requires = {"p"}, !.optional = TRUE],
    [Plain EXCEPT !.requires = {"q"}, !.optional = TRUE, !.handlers = <<Handler(1)>>],
    [Plain EXCEPT !.depends = {1}, !.contributes = {"k"},
                  !.order = {[phase |-> "activate", after |-> "p"]}],
    [Plain EXCEPT !.depends = {2}, !.optional = TRUE, !.points = {"single"}],
    [Plain EXCEPT !.handlers = <<Handler(0), Handler(1), Handler(0)>>, !.order = {[phase |-> "close", after |-> "q"]}],
    [Plain EXCEPT !.points = {"all"}, !.handlers = <<Handler(0), Handler(0)>>, !.provides = {"p"}] }

Named(shape, name) ==
  [shape EXCEPT !.points = {[name |-> name, mode |-> m] : m \in shape.points}] @@ [id |-> name]
MCListings ==
  {[i \in 1..3 |-> Named(shapes[i], names[i])] :
     names \in {f \in [1..3 -> 1..3] : IsInjective(f)}, shapes \in [1..3 -> Shapes]}

VARIABLES listed, step, left, providers, order, plan, routes

resVars == <<listed, step, left, providers, order, plan, routes>>
Res == INSTANCE Resolution WITH stage <- step, Listings <- MCListings

-----------------------------------------------------------------------------
\* Two declarations of modules under at most one of the project; paths of up
\* to three characters.
VARIABLES configured, defaults, catalog, built

Declarations(paths, kinds) == [owner : {"x", "*"}, path : paths, kind : kinds]
MCPaths == {<<"a">>, <<"*">>, <<"a", "a">>, <<"a", "*">>, <<"*", "a">>, <<"a", "*", "a">>, <<"*", "a", "*">>}
MCConfigurations == {<<>>} \cup {<<d>> : d \in Declarations({<<"*">>, <<"a", "*">>}, {"run"})}
MCDefaults ==
  {<<d, e>> : d \in Declarations(MCPaths, {"resource"}), e \in Declarations(MCPaths, {"resource", "run"})}
MCWorlds == [owner : {"x", "y"}, path : UNION {[1..n -> {"a", "b"}] : n \in 1..3}]

scopeVars == <<configured, defaults, catalog, built>>
Declared == INSTANCE ScopeCatalog
  WITH Configurations <- MCConfigurations, Defaults <- MCDefaults, Worlds <- MCWorlds

-----------------------------------------------------------------------------
\* Two texts that name the same new run, a launch and an event.
MCWay == [a |-> "text", b |-> "text", c |-> "launch", d |-> "event"]
MCGiven == [a |-> "r", b |-> "r", c |-> "c", d |-> "d"]

\* The same version put twice, with two descriptions, and read.
MCPuts == [first |-> [key |-> "k", content |-> "x", media |-> "text"],
           again |-> [key |-> "k", content |-> "x", media |-> "image"]]
MCReads == [read |-> [key |-> "k", content |-> "x"]]

-----------------------------------------------------------------------------
\* An execution up to its end, in a small instance: one tool that reads the
\* request's scope and publishes to none, so that every commit of that scope is
\* somebody else's.
CONSTANTS CallIds, Catalog, MaxModelCalls, MaxToolCalls, MaxBatch, HostInputs, MaxInputs,
          MaxWorld, Scopes, RequestScopes, PageSize
VARIABLES
  status, messages, queued, calls, callOrder, modelCalls, toolCalls, cancelRequested, pc,
  continuous, policed, batch, accepted, executions, finishes,
  log, at, sub, reply, failure, settling, ended, frontier, observed, reviewed, moreToCome,
  sealed, callsRecorded, notified, published, finished, disclosed, arrived

MCObserve == [c \in CallIds |-> RequestScopes]
MCPublish == [c \in CallIds |-> {}]
executionVars == <<
  status, messages, queued, calls, callOrder, modelCalls, toolCalls, cancelRequested, pc,
  continuous, policed, batch, accepted, executions, finishes,
  log, at, sub, reply, failure, settling, ended, frontier, observed, reviewed, moreToCome,
  sealed, callsRecorded, notified, published, finished, disclosed, arrived>>
Execution == INSTANCE EngineRun
  WITH Observe <- MCObserve, Publish <- MCPublish, order <- callOrder, recorded <- callsRecorded

-----------------------------------------------------------------------------
VARIABLE part
allVars == <<vars, resVars, scopeVars, executionVars, partVars, part>>

\* A part that is not chosen has one initial state.
MCInit ==
  /\ part \in {"process", "resolution", "scopes", "execution"} \cup Parts
  /\ listed \in IF part = "resolution" THEN MCListings ELSE {CHOOSE l \in MCListings : TRUE}
  /\ configured \in IF part = "scopes" THEN MCConfigurations ELSE {<<>>}
  /\ binding \in IF part = "gateway" THEN Gateway!Bindings ELSE {CHOOSE b \in Gateway!Bindings : TRUE}
  /\ defaults \in IF part = "scopes" THEN MCDefaults ELSE {CHOOSE ds \in MCDefaults : TRUE}
  /\ cursor \in IF part = "stream" THEN [Subscribers -> 0..1] ELSE {[s \in Subscribers |-> 0]}
  /\ Init /\ Res!Init /\ Declared!Init /\ Execution!Init /\ PartsInit

MCNext ==
  \/ part = "process" /\ Next /\ UNCHANGED <<resVars, scopeVars, executionVars, partVars>>
  \/ part = "resolution" /\ Res!Next /\ UNCHANGED <<vars, scopeVars, executionVars, partVars>>
  \/ part = "scopes" /\ Declared!Next /\ UNCHANGED <<vars, resVars, executionVars, partVars>>
  \/ part = "execution" /\ Execution!Next /\ UNCHANGED <<vars, resVars, scopeVars, partVars>>
  \/ PartsNext(part) /\ UNCHANGED <<vars, resVars, scopeVars, executionVars>>

\* The fairness of Supervision, RunEvents and EngineRun.
MCSpec ==
  /\ MCInit
  /\ [][MCNext /\ UNCHANGED part]_allVars
  /\ WF_vars(part = "process" /\ Process)
  /\ WF_vars(part = "process" /\ Monitor)
  /\ WF_vars(part = "process" /\ Release)
  /\ \A m \in Modules : WF_vars(part = "process" /\ tasks[m] = "stopping" /\ Task(m))
  /\ \A f \in Fronts : WF_vars(part = "process" /\ fronts[f] = "stopping" /\ FrontReturns(f))
  /\ \A s \in Subscribers : WF_streamVars(part = "stream" /\ Stream!Advance(s))
  /\ WF_executionVars(part = "execution" /\ (Execution!Loop \/ Execution!Steps \/ Execution!Interruption))

\* The host holds what the declarations ask for, and a scope is what its
\* narrowest declaration says: see Resolution and ScopeCatalog.
ResolutionSound == Res!ResolutionSound /\ Declared!ScopesSound

\* In scopes the run does not publish to, nothing is passed over: see EngineRun.
NothingSkippedElsewhere == Execution!NothingSkippedElsewhere

\* Every execution that was begun returns or raises: see EngineRun.
ExecuteEnds == part = "execution" => Execution!ExecuteEnds
=============================================================================
