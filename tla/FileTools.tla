------------------------------ MODULE FileTools ------------------------------
(***************************************************************************)
(* The file tools of internal/tools, as cmd/opendev/register.go serves     *)
(* them to all agents of one worktree: read_file, the tools that look at a *)
(* file without authorising an edit (read_lines, grep_search), create_file *)
(* and search_and_replace, on the locks of LockTable and on the            *)
(* RevisionAuthorizer.  A revision is the hash of a content; it stands for *)
(* the content.                                                            *)
(*                                                                         *)
(* The body of a tool runs under its lock in the steps it has on disk:     *)
(* os.ReadFile, then the truncation and the writing of os.WriteFile.       *)
(***************************************************************************)
EXTENDS LockTable

CONSTANTS
    Contents,    \* what agents write
    Absent,      \* the content of a file that does not exist
    Torn,        \* the content of a file whose writing is not finished
    NoToken,
    Mixes        \* bound: the tools each request is used for, and what it writes

Content == Contents \union {Absent, Torn}

Kinds == {"read", "look", "create", "edit"}

Mix == [Requests -> [kinds: SUBSET Kinds, writes: Content]]

ASSUME ToolAssumption == Mixes \subseteq Mix /\ NoToken # Absent

VARIABLES
    file,        \* the content of every file
    approved,    \* RevisionAuthorizer.approved
    tool,        \* the tool call of every request
    mix          \* which of Mixes it is

toolVars == <<lockVars, file, approved, tool, mix>>

\* Where a call is: verified, before its lock; in acquireLock; in its body; in the
\* deferred unlock; back in register.go.
Points == {"verified", "wait", "load", "truncate", "write", "leave", "answer"}

Tool == [kind: Kinds, path: Paths, token: Content,
         new: Content, seen: Content, ok: BOOLEAN, pc: Points]

NoTool == [kind |-> "none", path |-> NoPath, token |-> Absent, new |-> Absent,
           seen |-> Absent, ok |-> FALSE, pc |-> "none"]

ToolTypeOK ==
    /\ LockTypeOK
    /\ file \in [Paths -> Content]
    /\ approved \in [Paths -> Content \union {NoToken}]
    /\ tool \in [Requests -> Tool \union {NoTool}]
    /\ \A p \in Paths : approved[p] # Absent
    /\ mix \in Mixes

ToolInit ==
    /\ LockInit
    /\ file \in [Paths -> Contents \union {Absent}]
    /\ approved = [p \in Paths |-> NoToken]
    /\ tool = [r \in Requests |-> NoTool]
    /\ mix \in Mixes

----------------------------------------------------------------------------
(* Calls. *)

Calls(r, kind, p, token, pc) ==
    /\ kind \in mix[r].kinds
    /\ request[r] = NoRequest /\ tool[r] = NoTool
    /\ tool' = [tool EXCEPT ![r] = [NoTool EXCEPT !.kind = kind, !.path = p, !.pc = pc,
                                                  !.token = token, !.new = mix[r].writes]]
    /\ UNCHANGED <<file, approved, mix>>

At(r, pc) == tool[r].pc = pc

Goto(r, pc) == tool' = [tool EXCEPT ![r].pc = pc]

Ends(r, ok) == tool' = [tool EXCEPT ![r].pc = "leave", ![r].ok = ok, ![r].seen = Absent]

\* read_file; read_lines and grep_search, file by file.
ReadFile(r, p) ==
    /\ \E kind \in {"read", "look"} : Calls(r, kind, p, Absent, "wait")
    /\ Acquire(r, p, FALSE)

CreateFile(r, p) ==
    /\ Calls(r, "create", p, Absent, "wait")
    /\ Acquire(r, p, TRUE)

\* search_and_replace: Verify, of a revision that is authorised.
Verify(r, p) ==
    /\ approved[p] # NoToken
    /\ Calls(r, "edit", p, approved[p], "verified")
    /\ UNCHANGED lockVars

SearchAndReplace(r) ==
    /\ At(r, "verified")
    /\ Goto(r, "wait")
    /\ Acquire(r, tool[r].path, TRUE)
    /\ UNCHANGED <<file, approved, mix>>

Enter(r) ==
    /\ At(r, "wait")
    /\ Acquired(r)
    /\ Goto(r, "load")
    /\ UNCHANGED <<file, approved, mix>>

\* The context of a call ends before it has its lock: the call does, too.
GiveUp(r) ==
    /\ At(r, "wait")
    /\ Cancel(r)
    /\ tool' = [tool EXCEPT ![r] = NoTool]
    /\ UNCHANGED <<file, approved, mix>>

----------------------------------------------------------------------------
(* Bodies. *)

\* Broken variant: the content is not compared with the revision again.
StaleUnchecked(r) == file[tool[r].path] = Absent

\* An edit of another content than the one its revision names is refused.
Stale(r) == file[tool[r].path] # tool[r].token

\* os.ReadFile or os.Stat, and what the tool makes of it.  Every tool may fail here:
\* the file is there or not, too long, or without the one block to replace.
Load(r) ==
    /\ At(r, "load")
    /\ LET c == file[tool[r].path]
       IN \/ /\ tool[r].kind \in {"read", "look"} /\ c # Absent
             /\ tool' = [tool EXCEPT ![r].pc = "leave", ![r].ok = TRUE, ![r].seen = c]
          \/ /\ tool[r].kind = "create" /\ c = Absent
             /\ Goto(r, "truncate")
          \/ /\ tool[r].kind = "edit" /\ ~Stale(r)
             /\ Goto(r, "truncate")
          \/ Ends(r, FALSE)
    /\ UNCHANGED <<lockVars, file, approved, mix>>

\* os.WriteFile opens the file, which truncates it, or fails to.
Truncate(r) ==
    /\ At(r, "truncate")
    /\ LET p == tool[r].path
       IN \/ /\ file' = [file EXCEPT ![p] = Torn]
             /\ tool' = [tool EXCEPT ![r].pc = "write", ![r].seen = file[p]]
          \/ /\ Ends(r, FALSE)
             /\ UNCHANGED file
    /\ UNCHANGED <<lockVars, approved, mix>>

\* It writes the content, or fails to.
Write(r) ==
    /\ At(r, "write")
    /\ \/ /\ file' = [file EXCEPT ![tool[r].path] = tool[r].new]
          /\ Ends(r, TRUE)
       \/ /\ Ends(r, FALSE)
          /\ UNCHANGED file
    /\ UNCHANGED <<lockVars, approved, mix>>

----------------------------------------------------------------------------
(* Ends. *)

\* The deferred Unlock or RUnlock, and the goroutines nobody waits for.
Leave(r) ==
    /\ \/ At(r, "leave") /\ LookUp(r) /\ UNCHANGED tool
       \/ Unlock(r) /\ UNCHANGED tool
       \/ At(r, "leave") /\ Release(r) /\ Goto(r, "answer")
       \/ At(r, "none") /\ Release(r) /\ UNCHANGED tool
    /\ UNCHANGED <<file, approved, mix>>

\* Broken variant: a revision is authorised also when the read failed.
AuthorizedAnyway(t) ==
    CASE t.kind = "read" -> t.seen
      [] t.ok /\ t.kind = "edit" /\ approved[t.path] = t.token -> NoToken
      [] OTHER -> approved[t.path]

\* Authorize after a read, Consume after an edit.
Authorized(t) ==
    CASE t.ok /\ t.kind = "read" -> t.seen
      [] t.ok /\ t.kind = "edit" /\ approved[t.path] = t.token -> NoToken
      [] OTHER -> approved[t.path]

Answer(r) ==
    /\ At(r, "answer")
    /\ approved' = [approved EXCEPT ![tool[r].path] = Authorized(tool[r])]
    /\ tool' = [tool EXCEPT ![r] = NoTool]
    /\ UNCHANGED <<lockVars, file, mix>>

Locking(r) == (Ask(r) \/ Drain(r)) /\ UNCHANGED <<file, approved, tool, mix>>

\* The process stops; locks and revisions are in memory only.
Stop ==
    /\ locks' = [p \in Paths |-> NoEntry]
    /\ refs' = [e \in Entries |-> 0]
    /\ request' = [r \in Requests |-> NoRequest]
    /\ approved' = [p \in Paths |-> NoToken]
    /\ tool' = [r \in Requests |-> NoTool]
    /\ UNCHANGED <<file, mix>>

----------------------------------------------------------------------------
\* What goes on by itself once a call has begun.
Progress(r) ==
    \/ SearchAndReplace(r) \/ Enter(r)
    \/ Load(r) \/ Truncate(r) \/ Write(r)
    \/ Leave(r) \/ Answer(r)

ToolNext ==
    \/ Stop
    \/ \E r \in Requests :
          \/ \E p \in Paths : ReadFile(r, p) \/ CreateFile(r, p) \/ Verify(r, p)
          \/ Progress(r) \/ Locking(r) \/ GiveUp(r)

ToolSpec == ToolInit /\ [][ToolNext]_toolVars

\* Goroutines are scheduled, and sync.Mutex, for which the writers of an RWMutex
\* queue, starves none of them.
FairTools ==
    /\ ToolSpec
    /\ \A r \in Requests : WF_toolVars(Progress(r)) /\ SF_toolVars(Locking(r))

----------------------------------------------------------------------------
\* The tools implement AtomicFiles: a call takes effect where it reads, or where it
\* has written; a file that is being written is, to everybody else, what it was.
Writing(p) == {r \in Requests : At(r, "write") /\ tool[r].path = p}

FileOf(p) ==
    IF Writing(p) = {} THEN file[p] ELSE tool[CHOOSE r \in Writing(p) : TRUE].seen

OpOf(t) ==
    IF t = NoTool THEN [kind |-> "none", path |-> NoPath, expected |-> Absent,
                        new |-> Absent, seen |-> Absent, state |-> "none"]
    ELSE [kind |-> IF t.kind = "look" THEN "read" ELSE t.kind,
          path |-> t.path, expected |-> t.token, new |-> t.new,
          seen |-> IF t.kind \in {"read", "look"} THEN t.seen ELSE Absent,
          state |-> IF t.pc \notin {"leave", "answer"} THEN "open"
                    ELSE IF t.ok THEN "ok" ELSE "refused"]

Files == [p \in Paths |-> FileOf(p)]
Ops == [r \in Requests |-> OpOf(tool[r])]

AF == INSTANCE AtomicFiles WITH file <- Files, op <- Ops

\* Whatever agents do at the same time, and whenever calls give up, fail or die with
\* the process: nobody reads half a file, no edit is lost to another, and no edit is
\* applied to a content other than the one whose revision it names.
ImplementsAtomicFiles == AF!Spec

\* Every call ends, and what a cancelled one leaves behind goes away with it: no
\* entry is locked, and none kept, for nobody.
EveryCallEnds ==
    \A r \in Requests :
        (tool[r] # NoTool \/ request[r] # NoRequest)
            ~> (tool[r] = NoTool /\ request[r] = NoRequest)
=============================================================================
