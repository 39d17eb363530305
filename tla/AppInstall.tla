----------------------------- MODULE AppInstall -----------------------------
(***************************************************************************)
(* One `aurora app install` from its arguments to its end: the checks, the *)
(* manifest, the clone in a staging directory, the plan that is confirmed, *)
(* the MCP handshake, the commit and what is cleaned up afterwards.  Every *)
(* call may fail, the user may press Ctrl-C, the repository may move and   *)
(* other commands may take the package or the path.  The commit is atomic  *)
(* here; AppTransaction takes it apart.                                    *)
(***************************************************************************)
EXTENDS Integers

CONSTANT Requests     \* what may be asked for

VARIABLES
  request,   \* the arguments
  at,        \* where the command is, see Places
  heads,     \* [ref -> version the repository has there]
  taken,     \* what others have taken since: subset of {"package", "path"}
  launch,    \* whose launch command the plan holds: a version, <<"given">>, or <<>>
  cloned,    \* version in the staging directory, or <<>>
  answer,    \* "none", "accepted" or "declined"
  approved,  \* history: launch and cloned when the plan was accepted
  dirs,      \* directories of this command: subset of {"scratch", "root"}
  server,    \* connection to the MCP server: "none", "open", "closed"
  tools,     \* number of tools it lists
  entry,     \* the registered command, or <<>>
  final,     \* version in the install directory, or <<>>
  errors,    \* errors that happened
  hit,       \* where Ctrl-C was pressed, or "none"
  stuck,     \* directories that cannot be removed
  result     \* what the caller gets: {"installed"}, {"declined"} or the errors raised

vars == <<request, at, heads, taken, launch, cloned, answer, approved, dirs, server, tools,
          entry, final, errors, hit, stuck, result>>

Init ==
  /\ request \in Requests
  /\ at = "arguments"
  /\ heads = [ref \in {"default", "tag"} |-> 0]
  /\ taken = {}
  /\ launch = <<>>
  /\ cloned = <<>>
  /\ answer = "none"
  /\ approved = <<>>
  /\ dirs = {}
  /\ server = "none"
  /\ tools = 0
  /\ entry = <<>>
  /\ final = <<>>
  /\ errors = {}
  /\ hit = "none"
  /\ stuck = {}
  /\ result = {}

Places == {"arguments", "registry", "repository", "free", "manifest", "scratch", "root",
           "clone", "head", "plan", "confirm", "connect", "inspect", "disconnect", "judge",
           "commit", "sweep root", "sweep scratch", "ended"}

\* Operators named Bug_... are one-slip variants of the operator that follows
\* them; no action uses them.

-----------------------------------------------------------------------------
\* _install_source: which of the three ways the arguments ask for.
Repository == request.ref # "-" \/ request.command
Kind ==
  CASE request.npx /\ request.uvx -> "invalid"
    [] request.npx # request.uvx ->
         IF request.source # "none" \/ Repository \/ request.auth THEN "invalid" ELSE "runner"
    [] ~(request.npx \/ request.uvx) /\ request.source = "url" ->
         IF Repository \/ request.arg THEN "invalid" ELSE "remote"
    [] ~(request.npx \/ request.uvx) /\ request.source # "url" ->
         IF request.source \in {"none", "name"} \/ request.auth \/ request.arg
         THEN "invalid" ELSE "source"

Ref == IF request.ref = "-" THEN "default" ELSE request.ref

\* A repository is put in place under a path; the other kinds leave no files.
Needed == IF Kind = "source" THEN {"package", "path"} ELSE {"package"}

To(place) == at' = place
Repo == <<heads, taken>>
Staged == <<cloned, dirs>>
World == <<entry, final>>
History == <<request, hit, approved>>

\* Where an error leads: the release of the connection, the end of the staging
\* context, or out of the command.
AfterError ==
  CASE at = "inspect" -> "disconnect"
    [] at \in {"root", "clone", "head", "plan", "confirm", "connect", "disconnect", "judge",
               "commit"} /\ Kind = "source" -> "sweep root"
    [] OTHER -> "ended"

\* A command that ends raises all its errors: the first, with the others of the
\* release joined to it.
Raised(all) == IF all # {} THEN all ELSE result
Ended(all) == result' = IF at' = "ended" THEN Raised(all) ELSE result

Raise(error) ==
  /\ errors' = errors \cup {error}
  /\ To(AfterError)
  /\ Ended(errors')
  /\ UNCHANGED <<Repo, launch, cloned, answer, dirs, server, tools, World, stuck>>

\* Calls that leave the process or touch the disk may fail of themselves.
Fails ==
  /\ at \in {"arguments", "registry", "repository", "free", "manifest", "scratch", "root", "clone",
             "head", "plan", "connect", "inspect", "commit"}
  /\ Raise(at)
  /\ UNCHANGED History

\* Ctrl-C: KeyboardInterrupt, in the handshake a cancellation that the release
\* waits out.  Between mkdtemp and the try nothing cleans up.  In the commit it is AppTransaction's matter.
Interrupt ==
  /\ at \notin {"commit", "ended"} /\ hit = "none"
  /\ hit' = at
  /\ errors' = errors \cup {"interrupt"}
  /\ \/ at # "disconnect" /\ To(AfterError)
     \/ at = "disconnect" /\ UNCHANGED at
     \/ at = "root" /\ To("ended")
  /\ Ended(errors')
  /\ UNCHANGED <<request, approved, Repo, launch, cloned, answer, dirs, server, tools, World, stuck>>

-----------------------------------------------------------------------------
\* Before anything is fetched.

Same == UNCHANGED <<Repo, stuck, History>>
Quiet == UNCHANGED <<errors, result>>

Arguments ==
  /\ at = "arguments"
  /\ IF Kind = "invalid" THEN Raise("usage")
     ELSE /\ To("registry") /\ Quiet
          /\ UNCHANGED <<launch, Staged, answer, server, tools, World>>
  /\ Same

\* require_registry comes first in all three ways.
Registry ==
  /\ at = "registry"
  /\ To(IF Kind = "source" THEN "repository" ELSE "free")
  /\ Quiet /\ Same /\ UNCHANGED <<launch, Staged, answer, server, tools, World>>

\* The repository as GitHub names it: neither archived nor disabled, with the
\* clone URL of that name.
Admit ==
  /\ at = "repository"
  /\ \/ To("free") /\ Quiet /\ UNCHANGED <<launch, Staged, answer, server, tools, World>>
     \/ Raise("not admitted")
  /\ Same

\* check_final_path and check_package_collision.
CheckFree ==
  /\ at = "free"
  /\ IF taken \cap Needed # {} THEN Raise("taken")
     ELSE /\ To(IF Kind # "source" THEN "confirm" ELSE IF request.command THEN "scratch" ELSE "manifest")
          /\ launch' = IF Kind # "source" \/ request.command THEN <<"given">> ELSE launch
          /\ Quiet /\ UNCHANGED <<Staged, answer, server, tools, World>>
  /\ Same

\* Read from the default branch whatever is asked for.
Bug_ManifestRef == "default"
\* _ref_parameters: the ref that will be cloned.
ManifestRef == Ref

Manifest ==
  /\ at = "manifest"
  /\ \/ /\ launch' = <<ManifestRef, heads[ManifestRef]>>
        /\ To("scratch") /\ Quiet
        /\ UNCHANGED <<Staged, answer, server, tools, World>>
     \/ Raise("no manifest")
  /\ Same

-----------------------------------------------------------------------------
\* The staging directory; the context manager removes both parts of it.

MakeScratch ==
  /\ at = "scratch"
  /\ dirs' = {"scratch"}
  /\ To("root")
  /\ Quiet /\ Same /\ UNCHANGED <<launch, cloned, answer, server, tools, World>>

MakeRoot ==
  /\ at = "root"
  /\ dirs' = dirs \cup {"root"}
  /\ To("clone")
  /\ Quiet /\ Same /\ UNCHANGED <<launch, cloned, answer, server, tools, World>>

Clone ==
  /\ at = "clone"
  /\ cloned' = <<Ref, heads[Ref]>>
  /\ To("head")
  /\ Quiet /\ Same /\ UNCHANGED <<launch, dirs, answer, server, tools, World>>

\* _head_commit asks git for what was checked out; the plan names it.
Head ==
  /\ at = "head"
  /\ To("plan")
  /\ Quiet /\ Same /\ UNCHANGED <<launch, Staged, answer, server, tools, World>>

MakePlan ==
  /\ at = "plan"
  /\ To("confirm")
  /\ Quiet /\ Same /\ UNCHANGED <<launch, Staged, answer, server, tools, World>>

\* --yes answers for the user; without a terminal there is nobody to ask.
Confirm ==
  /\ at = "confirm"
  /\ \/ /\ request.yes \/ request.terminal
        /\ answer' = "accepted"
        /\ approved' = <<launch, cloned>>
        /\ To("connect")
        /\ Quiet /\ UNCHANGED <<launch, Staged, server, tools, World>>
     \/ /\ ~request.yes /\ request.terminal
        /\ answer' = "declined"
        /\ To(AfterError)
        /\ result' = {"declined"}
        /\ UNCHANGED <<launch, Staged, server, tools, World, errors, approved>>
     \/ /\ ~request.yes /\ ~request.terminal
        /\ Raise("not confirmed")
        /\ UNCHANGED approved
  /\ UNCHANGED <<Repo, stuck, request, hit>>

-----------------------------------------------------------------------------
\* MCPVerifier: connect, list all tools, release the connection.

\* open() releases what it had acquired before it raises.  A remote endpoint
\* needs its token, if one is named.
Connect ==
  /\ at = "connect"
  /\ \/ /\ server' = "open"
        /\ To("inspect")
        /\ Quiet /\ UNCHANGED <<launch, Staged, answer, tools, World>>
     \/ request.auth /\ Raise("no token")
  /\ Same

Inspect ==
  /\ at = "inspect"
  /\ \E n \in {0, 1} : tools' = n
  /\ To("disconnect")
  /\ Quiet /\ Same /\ UNCHANGED <<launch, Staged, answer, server, World>>

\* The close is awaited to its end; its error joins an earlier one.
Disconnect ==
  /\ at = "disconnect"
  /\ server' = "closed"
  /\ \E failure \in {{}, {"close"}} :
       /\ errors' = errors \cup failure
       /\ To(IF errors' = {} THEN "judge" ELSE AfterError)
       /\ Ended(errors')
  /\ Same /\ UNCHANGED <<launch, Staged, answer, tools, World>>

\* require_contribution: tools, or events that the command asked for.
Judge ==
  /\ at = "judge"
  /\ IF tools = 0 /\ ~request.events THEN Raise("contributes nothing")
     ELSE To("commit") /\ Quiet /\ UNCHANGED <<launch, Staged, answer, server, tools, World>>
  /\ Same

-----------------------------------------------------------------------------
\* The commit and the end.

\* Package and path are checked again; then the clone moves and the entry is
\* written, or neither.
Commit ==
  /\ at = "commit"
  /\ IF taken \cap Needed # {} THEN Raise("taken")
     ELSE /\ entry' = launch
          /\ final' = cloned
          /\ dirs' = dirs \ {"root"}
          /\ To(IF Kind = "source" THEN "sweep root" ELSE "ended")
          /\ result' = {"installed"}
          /\ UNCHANGED <<launch, cloned, answer, server, tools, errors>>
  /\ Same

\* _remove keeps its own failure to itself.
Sweep(dir, here, then) ==
  /\ at = here
  /\ \/ dirs' = dirs \ {dir} /\ UNCHANGED stuck
     \/ dir \in dirs /\ stuck' = stuck \cup {dir} /\ UNCHANGED dirs
  /\ To(then)
  /\ Ended(errors)
  /\ UNCHANGED <<Repo, History, launch, cloned, answer, server, tools, World, errors>>

SweepRoot == Sweep("root", "sweep root", "sweep scratch")
SweepScratch == Sweep("scratch", "sweep scratch", "ended")

-----------------------------------------------------------------------------
\* The world around the command.

Others ==
  /\ at # "ended"
  /\ \/ /\ \E ref \in DOMAIN heads :
             heads[ref] = 0 /\ heads' = [heads EXCEPT ![ref] = 1]
        /\ UNCHANGED taken
     \/ /\ \E what \in {"package", "path"} \ taken :
             /\ entry = <<>>
             /\ taken' = taken \cup {what}
        /\ UNCHANGED heads
  /\ UNCHANGED <<at, launch, Staged, answer, server, tools, World, errors, stuck, result, History>>

Proceed ==
  \/ Arguments \/ Registry \/ Admit \/ CheckFree \/ Manifest
  \/ MakeScratch \/ MakeRoot \/ Clone \/ Head \/ MakePlan \/ Confirm
  \/ Connect \/ Inspect \/ Disconnect \/ Judge
  \/ Commit \/ SweepRoot \/ SweepScratch

Next == Proceed \/ Fails \/ Interrupt \/ Others

InstallSpec == Init /\ [][Next]_vars

-----------------------------------------------------------------------------
\* Properties.

\* Types.
TypeOK ==
  /\ at \in Places
  /\ taken \subseteq {"package", "path"}
  /\ answer \in {"none", "accepted", "declined"}
  /\ dirs \subseteq {"scratch", "root"}
  /\ server \in {"none", "open", "closed"}

\* Nothing of the app runs, and nothing of it is kept, before the plan was
\* accepted; what is kept is what the plan showed, and never in the place of
\* what others took.
OnlyApproved ==
  /\ server # "none" => answer = "accepted"
  /\ entry # <<>> => <<entry, final>> = approved /\ server = "closed"
  /\ entry # <<>> => taken \cap Needed = {}

\* The launch command comes from the ref that is cloned, and from the very
\* version if the repository did not move meanwhile.
CommandOfClone ==
  launch \notin {<<>>, <<"given">>} /\ cloned # <<>> =>
    launch[1] = cloned[1] /\ (heads[Ref] = 0 => launch = cloned)

\* Whatever happened, the connection is released; a directory is left only if
\* it could not be removed, or Ctrl-C came before or within the removal.
LeavesNothing ==
  at = "ended" =>
    /\ server # "open"
    /\ hit \notin {"root", "sweep root", "sweep scratch"} => dirs \subseteq stuck

\* An installed app, an app declined and an error are told apart, and every
\* error reaches the user.
ToldTruly ==
  at = "ended" =>
    /\ result = {"installed"} => entry # <<>>
    /\ result = {"declined"} => entry = <<>> /\ answer = "declined"
    /\ errors # {} => result = errors
    /\ entry # <<>> => errors \subseteq {"interrupt"}

InstallSound == TypeOK /\ OnlyApproved /\ CommandOfClone /\ LeavesNothing /\ ToldTruly
=============================================================================
