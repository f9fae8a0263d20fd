----------------------------- MODULE AtomicFiles -----------------------------
(***************************************************************************)
(* What the file tools promise to the agents that share a worktree: every  *)
(* call takes effect in one instant between its beginning and its end, or  *)
(* not at all, and an edit only replaces the very content whose revision   *)
(* it names.  A write that breaks off leaves part of a file behind.        *)
(***************************************************************************)
CONSTANTS
    Requests,    \* calls under way
    Paths,
    Contents,    \* what agents write
    Absent,      \* the content of a file that does not exist
    Torn,        \* the content of a file whose writing broke off
    NoPath

VARIABLES
    file,        \* the content of every file
    op           \* the calls under way

fileVars == <<file, op>>

Content == Contents \union {Absent, Torn}

\* expected: the content whose revision an edit names; seen: what a read returns.
Op == [kind: {"read", "create", "edit"}, path: Paths, expected: Content, new: Content,
       seen: Content, state: {"open", "ok", "refused"}]

NoOp == [kind |-> "none", path |-> NoPath, expected |-> Absent, new |-> Absent,
         seen |-> Absent, state |-> "none"]

Init ==
    /\ file \in [Paths -> Contents \union {Absent}]
    /\ op = [r \in Requests |-> NoOp]

Begin(r) ==
    /\ op[r] = NoOp
    /\ \E o \in Op : o.state = "open" /\ o.seen = Absent /\ op' = [op EXCEPT ![r] = o]
    /\ UNCHANGED file

Read(r) ==
    /\ op[r].state = "open" /\ op[r].kind = "read"
    /\ file[op[r].path] # Absent
    /\ op' = [op EXCEPT ![r].state = "ok", ![r].seen = file[op[r].path]]
    /\ UNCHANGED file

\* A file is created only where there is none, and edited only as it was expected.
Applicable(o) ==
    /\ o.state = "open"
    /\ \/ o.kind = "create" /\ file[o.path] = Absent
       \/ o.kind = "edit" /\ file[o.path] = o.expected /\ o.expected # Absent

Write(r) ==
    /\ Applicable(op[r])
    /\ file' = [file EXCEPT ![op[r].path] = op[r].new]
    /\ op' = [op EXCEPT ![r].state = "ok"]

BreakOff(r) ==
    /\ Applicable(op[r])
    /\ file' = [file EXCEPT ![op[r].path] = Torn]
    /\ op' = [op EXCEPT ![r].state = "refused"]

\* A call that is refused has had no effect.
Refuse(r) ==
    /\ op[r].state = "open"
    /\ op' = [op EXCEPT ![r].state = "refused"]
    /\ UNCHANGED file

\* The caller gets its answer, or gave up on a call that had no effect.
End(r) ==
    /\ op[r] # NoOp
    /\ op' = [op EXCEPT ![r] = NoOp]
    /\ UNCHANGED file

\* The process stops, in the middle of some writes perhaps.
Stop ==
    /\ op' = [r \in Requests |-> NoOp]
    /\ \E broken \in SUBSET {r \in Requests : Applicable(op[r])} :
          file' = [p \in Paths |->
                     IF \E r \in broken : op[r].path = p THEN Torn ELSE file[p]]

Next ==
    \/ Stop
    \/ \E r \in Requests :
          Begin(r) \/ Read(r) \/ Write(r) \/ BreakOff(r) \/ Refuse(r) \/ End(r)

Spec == Init /\ [][Next]_fileVars
=============================================================================
