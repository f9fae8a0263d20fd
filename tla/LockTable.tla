------------------------------ MODULE LockTable ------------------------------
(***************************************************************************)
(* internal/locks: one reference-counted RWMutex per path that is in use.  *)
(* acquireLock leaves the locking to a goroutine of its own and waits for  *)
(* it or for the end of the caller's context, whichever comes first; a     *)
(* caller that gave up leaves a second goroutine behind, which unlocks as  *)
(* soon as the lock is granted after all.                                  *)
(*                                                                         *)
(* A request is one call of Lock or RLock together with what it leaves     *)
(* behind, up to the release of its reference.                             *)
(***************************************************************************)
EXTENDS Integers, FiniteSets

CONSTANTS
    Requests,    \* bound: requests under way at a time
    Paths,       \* absolute file names
    Entries,     \* lockEntry objects
    NoPath,
    NoEntry

ASSUME LockAssumption ==
    IsFiniteSet(Requests) /\ NoPath \notin Paths /\ NoEntry \notin Entries

VARIABLES
    locks,       \* Manager.locks: the entry of every path in use
    refs,        \* lockEntry.refs
    request      \* every request, with the entry it works on

lockVars == <<locks, refs, request>>

\* How far the lock is: its goroutine has been started; it waits as a reader for a
\* writer, or as the one writer for the readers before it; it has the lock; its entry
\* has been looked up to be unlocked; it is unlocked.
States == {"asked", "parked", "announced", "granted", "found", "unlocked"}

\* The caller waits in the select, has returned with the lock, or with ctx.Err().
Request == [state: States, caller: {"waiting", "holding", "gone"}, path: Paths,
            exclusive: BOOLEAN, entry: Entries]

NoRequest == [state |-> "none", caller |-> "none", path |-> NoPath, exclusive |-> FALSE,
              entry |-> NoEntry]

LockTypeOK ==
    /\ locks \in [Paths -> Entries \union {NoEntry}]
    /\ refs \in [Entries -> Int]
    /\ request \in [Requests -> Request \union {NoRequest}]

LockInit ==
    /\ locks = [p \in Paths |-> NoEntry]
    /\ refs = [e \in Entries |-> 0]
    /\ request = [r \in Requests |-> NoRequest]

Users(p) == {r \in Requests : request[r].path = p}

Has(r) == request[r].state \in {"granted", "found"}

----------------------------------------------------------------------------
(* sync.RWMutex. *)

\* A writer has announced itself, or has the lock: readers that come now wait.
Closed(e) ==
    \E r \in Requests : /\ request[r].entry = e /\ request[r].exclusive
                        /\ request[r].state = "announced" \/ Has(r)

\* Lock waits for the writers before it, one of which is let through at a time, and
\* keeps new readers out; RLock gets the lock at once or waits for the writer.
Ask(r) ==
    /\ request[r].state = "asked"
    /\ request[r].exclusive => ~Closed(request[r].entry)
    /\ request' = [request EXCEPT ![r].state =
                     IF request[r].exclusive THEN "announced"
                     ELSE IF Closed(request[r].entry) THEN "parked" ELSE "granted"]
    /\ UNCHANGED <<locks, refs>>

\* Broken variant: a writer does not wait for the readers before it.
DrainAnytime(r) ==
    /\ request[r].state = "announced"
    /\ request' = [request EXCEPT ![r].state = "granted"]
    /\ UNCHANGED <<locks, refs>>

\* The readers before the writer are gone.
Drain(r) ==
    /\ request[r].state = "announced"
    /\ \A s \in Requests : request[s].entry = request[r].entry => ~Has(s)
    /\ request' = [request EXCEPT ![r].state = "granted"]
    /\ UNCHANGED <<locks, refs>>

\* Broken variant: the readers that wait are not told.
UnlockedAlone(r) == [request EXCEPT ![r].state = "unlocked"]

\* rwmu.Unlock lets every reader in that waited for this writer.
Unlocked(r) ==
    [s \in Requests |->
        IF s = r THEN [request[r] EXCEPT !.state = "unlocked"]
        ELSE IF /\ request[r].exclusive /\ request[s].entry = request[r].entry
                /\ request[s].state = "parked"
        THEN [request[s] EXCEPT !.state = "granted"]
        ELSE request[s]]

----------------------------------------------------------------------------
(* Manager. *)

\* Entries that nobody refers to.
Fresh == {e \in Entries : \A r \in Requests : request[r].entry # e}

\* getOrCreate, and the goroutine.
Acquire(r, p, exclusive) ==
    /\ request[r] = NoRequest
    /\ locks[p] # NoEntry \/ Fresh # {}
    /\ LET e == IF locks[p] # NoEntry THEN locks[p] ELSE CHOOSE e \in Fresh : TRUE
       IN /\ locks' = [locks EXCEPT ![p] = e]
          /\ refs' = [refs EXCEPT ![e] = IF locks[p] = NoEntry THEN 1 ELSE @ + 1]
          /\ request' = [request EXCEPT ![r] =
               [state |-> "asked", caller |-> "waiting", path |-> p,
                exclusive |-> exclusive, entry |-> e]]

\* The two ways out of the select; with both ready, either.
Acquired(r) ==
    /\ request[r].caller = "waiting" /\ request[r].state = "granted"
    /\ request' = [request EXCEPT ![r].caller = "holding"]
    /\ UNCHANGED <<locks, refs>>

\* Without its reference, and with the last one without its entry.
Dropped(r) ==
    LET p == request[r].path
    IN IF locks[p] = NoEntry THEN UNCHANGED <<locks, refs>>
       ELSE /\ refs' = [refs EXCEPT ![locks[p]] = @ - 1]
            /\ locks' = [locks EXCEPT ![p] = IF refs[@] <= 1 THEN NoEntry ELSE @]

\* Broken variant: the caller that gives up drops its reference itself.
CancelAndDrop(r) ==
    /\ request[r].caller = "waiting"
    /\ request' = [request EXCEPT ![r].caller = "gone"]
    /\ Dropped(r)

Cancel(r) ==
    /\ request[r].caller = "waiting"
    /\ request' = [request EXCEPT ![r].caller = "gone"]
    /\ UNCHANGED <<locks, refs>>

\* Unlock and RUnlock look the entry up by its path ...
LookUp(r) ==
    /\ request[r].caller = "holding" /\ request[r].state = "granted"
    /\ LET e == locks[request[r].path]
       IN request' = [request EXCEPT ![r].state = IF e = NoEntry THEN "unlocked" ELSE "found",
                                     ![r].entry = IF e = NoEntry THEN @ ELSE e]
    /\ UNCHANGED <<locks, refs>>

\* ... and unlock it; the goroutine that a caller left behind knows the entry.
Unlock(r) ==
    /\ \/ request[r].state = "found"
       \/ request[r].caller = "gone" /\ request[r].state = "granted"
    /\ request' = Unlocked(r)
    /\ UNCHANGED <<locks, refs>>

Release(r) ==
    /\ request[r].state = "unlocked"
    /\ Dropped(r)
    /\ request' = [request EXCEPT ![r] = NoRequest]

----------------------------------------------------------------------------
\* The lock by itself, with callers that lock, unlock and give up as they please.
LockNext ==
    \E r \in Requests :
        \/ \E p \in Paths, exclusive \in BOOLEAN : Acquire(r, p, exclusive)
        \/ Ask(r) \/ Drain(r) \/ Acquired(r) \/ Cancel(r)
        \/ LookUp(r) \/ Unlock(r) \/ Release(r)

LockSpec == LockInit /\ [][LockNext]_lockVars

----------------------------------------------------------------------------
\* Two requests have the lock of one path only if both only read, although entries
\* are dropped and made anew while callers give up, whose goroutines still lock and
\* unlock: no request works on another entry of a path than the table's.
Exclusion ==
    \A r, s \in Requests :
        Has(r) /\ Has(s) /\ r # s /\ request[r].path = request[s].path =>
            ~request[r].exclusive /\ ~request[s].exclusive

\* An entry is in the table exactly as long as requests use it, cancelled ones
\* included, its references are as many, and they all use that entry.
RefsAreUsers ==
    \A p \in Paths :
        /\ locks[p] = NoEntry <=> Users(p) = {}
        /\ locks[p] # NoEntry =>
             /\ refs[locks[p]] = Cardinality(Users(p))
             /\ \A r \in Users(p) : request[r].entry = locks[p]
=============================================================================
