---------------------------- MODULE ArtifactStore ----------------------------
(***************************************************************************)
(* The content store of aurora_bot/artifacts.  A put stages its bytes,     *)
(* links them under their digest, verifies what lies there and only then   *)
(* links the binding of its key; links never replace a file.  A read       *)
(* checks the bytes against the digest, or against the signature of a file *)
(* it has checked before, on one open file.  Each call is a worker thread; *)
(* somebody else may damage or delete files, and the process may end.      *)
(***************************************************************************)
EXTENDS Naturals, FiniteSets

CONSTANTS
  Puts,         \* put -> [key, content, media]
  Reads,        \* read -> [key, content]
  MaxDamage     \* bound: changes from outside, and ends of the process

Jobs == DOMAIN Puts \cup DOMAIN Reads
Want(j) == IF j \in DOMAIN Puts THEN Puts[j] ELSE Reads[j]
Contents == {Want(j).content : j \in Jobs}
Refs == {<<Want(j).key, Want(j).content>> : j \in Jobs}
None == "none"
Attempts == 3                          \* _READ_ATTEMPTS

VARIABLES
  object,       \* content -> the file under its digest; mark is its signature
  binding,      \* <<key, content>> -> the media type it is bound with, or None
  verified,     \* content -> the signature last verified, 0 for none
  call,          \* what each call holds: its place, attempts, open file, bytes
  damage        \* history: what was done from outside

artVars == <<object, binding, verified, call, damage>>

New == [at |-> "new", left |-> Attempts, before |-> 0, hashed |-> TRUE, bytes |-> FALSE,
        linked |-> FALSE]
Ended == {"ok", "missing", "corrupt", "changing", "conflict", "failed"}

Init ==
  /\ object = [c \in Contents |-> [there |-> FALSE, good |-> FALSE, mark |-> 0]]
  /\ binding = [r \in Refs |-> None]
  /\ verified = [c \in Contents |-> 0]
  /\ call = [j \in Jobs |-> New]
  /\ damage = <<0, 0>>

-----------------------------------------------------------------------------
Content(j) == Want(j).content
Ref(j) == <<Want(j).key, Want(j).content>>
Put(j) == j \in DOMAIN Puts
To(j, at) == call' = [call EXCEPT ![j].at = at]
\* The number of links is part of a file's change time.
Touched(o) == [o EXCEPT !.mark = @ + 1]

\* _put: publish() of the object; an existing file is kept.
LinkObject(j) ==
  /\ call[j].at = "new" /\ Put(j)
  /\ IF object[Content(j)].there
     THEN To(j, "unlink") /\ UNCHANGED object
     ELSE /\ object' = [object EXCEPT ![Content(j)] = [there |-> TRUE, good |-> TRUE, mark |-> @.mark + 1]]
          /\ call' = [call EXCEPT ![j].at = "unlink", ![j].linked = TRUE]
  /\ UNCHANGED <<binding, verified, damage>>

\* The staged name goes; fails is an error in between, when the rest is left.
Unlink(j, fails) ==
  /\ call[j].at = "unlink"
  /\ object' = IF call[j].linked /\ object[Content(j)].there
               THEN [object EXCEPT ![Content(j)] = Touched(@)] ELSE object
  /\ call' = [call EXCEPT ![j].at = IF fails THEN "failed" ELSE "open", ![j].linked = FALSE]
  /\ UNCHANGED <<binding, verified, damage>>

\* _metadata of a read.
Lookup(j) ==
  /\ call[j].at = "new" /\ ~Put(j)
  /\ To(j, IF binding[Ref(j)] = None THEN "missing" ELSE "open")
  /\ UNCHANGED <<object, binding, verified, damage>>

-----------------------------------------------------------------------------
\* _checked_content: one attempt on one open file.

Known(c) == verified[c] = object[c].mark

Open(j) ==
  /\ call[j].at = "open"
  /\ LET c == Content(j) IN
     call' = IF ~object[c].there THEN [call EXCEPT ![j].at = "corrupt"]
            ELSE [call EXCEPT ![j].at = IF Known(c) THEN "bytes" ELSE "hash",
                             ![j].before = object[c].mark, ![j].hashed = TRUE]
  /\ UNCHANGED <<object, binding, verified, damage>>

\* An open file outlives its name: a deleted one reads as it was.
Hash(j) ==
  /\ call[j].at = "hash"
  /\ call' = [call EXCEPT ![j].at = "bytes", ![j].hashed = object[Content(j)].good]
  /\ UNCHANGED <<object, binding, verified, damage>>

ReadBytes(j) ==
  /\ call[j].at = "bytes"
  /\ call' = [call EXCEPT ![j].at = "close", ![j].bytes = object[Content(j)].good]
  /\ UNCHANGED <<object, binding, verified, damage>>

Bug_Unchanged(j) == TRUE
Unchanged(j) == object[Content(j)].mark = call[j].before

Close(j) ==
  /\ call[j].at = "close"
  /\ IF ~Unchanged(j)
     THEN /\ call' = [call EXCEPT ![j].left = @ - 1, ![j].at = IF @ = "close" /\ call[j].left = 1
                                                            THEN "changing" ELSE "open"]
          /\ UNCHANGED verified
     ELSE IF ~call[j].hashed THEN To(j, "corrupt") /\ UNCHANGED verified
     ELSE /\ verified' = [verified EXCEPT ![Content(j)] = call[j].before]
          /\ To(j, IF Put(j) THEN "bind" ELSE "ok")
  /\ UNCHANGED <<object, binding, damage>>

\* publish() of the binding; fails as above.
Bind(j, fails) ==
  /\ call[j].at = "bind"
  /\ binding' = IF binding[Ref(j)] = None THEN [binding EXCEPT ![Ref(j)] = Want(j).media] ELSE binding
  /\ To(j, IF fails THEN "failed" ELSE "compare")
  /\ UNCHANGED <<object, verified, damage>>

\* What is bound must be what this call describes.
Agrees(j) == binding[Ref(j)] = Want(j).media

Compare(j) ==
  /\ call[j].at = "compare"
  /\ To(j, IF Agrees(j) THEN "ok" ELSE "conflict")
  /\ UNCHANGED <<object, binding, verified, damage>>

\* Staging fails (a full disk, an import whose source changed): nothing was
\* published.
Refuse(j) ==
  /\ call[j].at = "new"
  /\ To(j, "failed")
  /\ UNCHANGED <<object, binding, verified, damage>>

-----------------------------------------------------------------------------
\* Bytes are changed in place, or the file is deleted.
Damage(c) ==
  /\ damage[1] < MaxDamage
  /\ object[c].there
  /\ object' = [object EXCEPT ![c].good = FALSE, ![c].mark = @ + 1]
  /\ damage' = [damage EXCEPT ![1] = @ + 1]
  /\ UNCHANGED <<binding, verified, call>>

Delete(c) ==
  /\ damage[1] < MaxDamage
  /\ object[c].there
  /\ object' = [object EXCEPT ![c].there = FALSE, ![c].mark = @ + 1]
  /\ damage' = [damage EXCEPT ![1] = @ + 1]
  /\ UNCHANGED <<binding, verified, call>>

\* The process ends: calls and the cache are gone, a staged name may stay.
Crash ==
  /\ damage[2] < MaxDamage
  /\ \E j \in Jobs : call[j].at \notin Ended \cup {"new"}
  /\ verified' = [c \in Contents |-> 0]
  /\ call' = [j \in Jobs |-> IF call[j].at \in Ended \cup {"new"} THEN call[j]
                            ELSE [New EXCEPT !.at = "failed"]]
  /\ damage' = [damage EXCEPT ![2] = @ + 1]
  /\ UNCHANGED <<object, binding>>

Step(j) == \/ LinkObject(j) \/ Lookup(j) \/ Refuse(j) \/ Open(j) \/ Hash(j) \/ ReadBytes(j)
           \/ Close(j) \/ Compare(j) \/ \E fails \in BOOLEAN : Unlink(j, fails) \/ Bind(j, fails)

Next == \/ \E j \in Jobs : Step(j)
        \/ \E c \in Contents : Damage(c) \/ Delete(c)
        \/ Crash

ArtSpec == Init /\ [][Next]_artVars

-----------------------------------------------------------------------------
\* Properties.

\* A binding names content that was published and verified before it: as long
\* as nobody else touches the files the content is there and whole, whatever
\* put ended halfway and whenever the process did.
BoundContent ==
  \A r \in Refs : binding[r] # None /\ damage[1] = 0 => object[r[2]].there /\ object[r[2]].good

\* What a read returns, and what a put vouches for, are the bytes of the
\* digest, although the file may change at any point and most reads trust an
\* earlier check.
ReadsTrue == \A j \in Jobs : call[j].at \in {"ok", "bind", "compare"} => call[j].bytes

\* Publishing beside a reader never makes it give up.
AttemptsSuffice == \A j \in Jobs : call[j].at = "changing" => damage[1] > 0

\* Two puts of the same version that both succeed describe it alike.
OneDescription ==
  \A i, j \in DOMAIN Puts :
    call[i].at = "ok" /\ call[j].at = "ok" /\ Ref(i) = Ref(j) => Puts[i].media = Puts[j].media

ArtifactsSound == BoundContent /\ ReadsTrue /\ AttemptsSuffice /\ OneDescription
=============================================================================
