--------------------------- MODULE FileToolsProofs ---------------------------
(***************************************************************************)
(* The lock table and the file tools that use it, for any number of calls, *)
(* paths, entries, files and contents.                                     *)
(*                                                                         *)
(* First exclusion and reference counting of the table.  The invariant     *)
(* says of every path that its users share the table's entry, of every     *)
(* entry that it belongs to one path, and of every two requests of an      *)
(* entry what an RWMutex allows.                                           *)
(*                                                                         *)
(* Then the tools implement AtomicFiles.  Between the lock table and the   *)
(* abstract files stands an invariant of two parts: where a call is in its *)
(* body says what its request has of the lock (Linked), and what its lock  *)
(* protects is what the call has seen of the file (Sound).                 *)
(***************************************************************************)
EXTENDS FileTools, FiniteSetTheorems, TLAPS

----------------------------------------------------------------------------
(* The lock table. *)

\* A writer that is let through: announced, or in possession of the lock.
Inside(r) == request[r].exclusive /\ (request[r].state = "announced" \/ Has(r))

SharedEntry == \A p \in Paths : \A r \in Users(p) : request[r].entry = locks[p]

OwnEntry == \A p, q \in Paths : locks[p] = locks[q] /\ locks[p] # NoEntry => p = q

Counted ==
    \A p \in Paths :
        /\ locks[p] = NoEntry <=> Users(p) = {}
        /\ locks[p] # NoEntry => refs[locks[p]] = Cardinality(Users(p))

Modes ==
    \A r \in Requests : /\ request[r].state = "parked" => ~request[r].exclusive
                        /\ request[r].state = "announced" => request[r].exclusive

OneInside ==
    \A r, s \in Requests :
        request[r].entry = request[s].entry /\ Inside(r) /\ Inside(s) => r = s

ReadersOut ==
    \A r, s \in Requests :
        /\ request[r].entry = request[s].entry /\ r # s
        /\ Has(r) /\ request[r].exclusive
        => ~Has(s)

Table == SharedEntry /\ OwnEntry /\ Counted
Mutex == Modes /\ OneInside /\ ReadersOut
LInv == LockTypeOK /\ Table /\ Mutex

----------------------------------------------------------------------------

LEMMA UserOf ==
  ASSUME LockTypeOK, NEW r \in Requests, request[r] # NoRequest
  PROVE  /\ request[r] \in Request
         /\ request[r].path \in Paths
         /\ r \in Users(request[r].path)
BY DEF LockTypeOK, Request, Users

LEMMA NoUser ==
  ASSUME NEW r \in Requests, request[r] = NoRequest, NEW p \in Paths
  PROVE  r \notin Users(p)
BY LockAssumption DEF NoRequest, Users

LEMMA UsersFinite ==
  ASSUME NEW p \in Paths
  PROVE  IsFiniteSet(Users(p)) /\ Cardinality(Users(p)) \in Nat
<1>1. Users(p) \in SUBSET Requests
  BY DEF Users
<1>2. IsFiniteSet(Users(p))
  BY <1>1, FS_Subset, LockAssumption
<1> QED
  BY <1>2, FS_CardinalityType

LEMMA InitInv == LockInit => LInv
<1> SUFFICES ASSUME LockInit PROVE LInv
  OBVIOUS
<1>1. \A r \in Requests : request[r] = NoRequest
  BY DEF LockInit
<1>2. \A p \in Paths : Users(p) = {}
  BY <1>1, LockAssumption DEF Users, NoRequest
<1>3. LockTypeOK
  BY DEF LockInit, LockTypeOK
<1>4. Table
  BY <1>2, LockAssumption DEF LockInit, Table, SharedEntry, OwnEntry, Counted
<1>5. Mutex
  BY <1>1 DEF Mutex, Modes, OneInside, ReadersOut, Inside, Has, NoRequest
<1> QED
  BY <1>3, <1>4, <1>5 DEF LInv

----------------------------------------------------------------------------
(* Steps that leave the table and every path alone. *)

LEMMA SameUsers ==
  ASSUME Table, UNCHANGED <<locks, refs>>,
         \A r \in Requests : /\ request'[r].path = request[r].path
                             /\ request'[r].entry = request[r].entry
  PROVE  Table'
<1>1. \A p \in Paths : Users(p)' = Users(p)
  BY DEF Users
<1> QED
  BY <1>1 DEF Table, SharedEntry, OwnEntry, Counted, Users

LEMMA AskInv ==
  ASSUME LInv, NEW r \in Requests, Ask(r)
  PROVE  LInv'
<1> USE DEF LInv, LockTypeOK
<1>1. /\ request[r] \in Request
      /\ request[r].state = "asked"
      /\ \A s \in Requests \ {r} : request'[s] = request[s]
      /\ request'[r] \in Request
      /\ request'[r].path = request[r].path
      /\ request'[r].entry = request[r].entry
      /\ request'[r].exclusive = request[r].exclusive
      /\ request'[r].state = IF request[r].exclusive THEN "announced"
                             ELSE IF Closed(request[r].entry) THEN "parked" ELSE "granted"
  BY DEF Ask, Request, States, NoRequest
<1>2. LockTypeOK'
  BY <1>1 DEF Ask
<1>3. Table'
  BY <1>1, SameUsers DEF Ask
<1>4. request[r].exclusive => ~Closed(request[r].entry)
  BY DEF Ask
<1>5. Mutex'
  BY <1>1, <1>4 DEF Mutex, Modes, OneInside, ReadersOut, Inside, Has, Closed, Request
<1> QED
  BY <1>2, <1>3, <1>5

LEMMA DrainInv ==
  ASSUME LInv, NEW r \in Requests, Drain(r)
  PROVE  LInv'
<1> USE DEF LInv, LockTypeOK
<1>1. /\ request[r] \in Request
      /\ request[r].state = "announced"
      /\ request' = [request EXCEPT ![r].state = "granted"]
      /\ request'[r] \in Request
      /\ UNCHANGED <<locks, refs>>
  BY DEF Drain, Request, States, NoRequest
<1>2. LockTypeOK'
  BY <1>1
<1>3. Table'
  BY <1>1, SameUsers DEF Request
<1>4. \A s \in Requests : request[s].entry = request[r].entry => ~Has(s)
  BY DEF Drain
<1>5. Mutex'
  BY <1>1, <1>4 DEF Mutex, Modes, OneInside, ReadersOut, Inside, Has, Request
<1> QED
  BY <1>2, <1>3, <1>5

\* Steps of the caller, which change neither the entry nor who has the lock.
LEMMA CallerInv ==
  ASSUME LInv, NEW r \in Requests, Acquired(r) \/ Cancel(r)
  PROVE  LInv'
<1> USE DEF LInv, LockTypeOK
<1>1. /\ request[r] \in Request
      /\ \E c \in {"holding", "gone"} : request' = [request EXCEPT ![r].caller = c]
      /\ UNCHANGED <<locks, refs>>
  BY DEF Acquired, Cancel, Request, NoRequest
<1>2. PICK c \in {"holding", "gone"} : request' = [request EXCEPT ![r].caller = c]
  BY <1>1
<1>3. /\ request'[r] \in Request
      /\ \A s \in Requests : /\ request'[s].path = request[s].path
                             /\ request'[s].entry = request[s].entry
                             /\ request'[s].state = request[s].state
                             /\ request'[s].exclusive = request[s].exclusive
  BY <1>1, <1>2 DEF Request
<1>4. LockTypeOK'
  BY <1>1, <1>2, <1>3
<1>5. Table'
  BY <1>1, <1>3, SameUsers
<1>6. Mutex'
  BY <1>3 DEF Mutex, Modes, OneInside, ReadersOut, Inside, Has
<1> QED
  BY <1>4, <1>5, <1>6

LEMMA LookUpInv ==
  ASSUME LInv, NEW r \in Requests, LookUp(r)
  PROVE  LInv'
<1> USE DEF LInv, LockTypeOK
<1>1. /\ request[r] \in Request
      /\ request[r].state = "granted"
  BY DEF LookUp, Request, NoRequest
<1>2. /\ request[r].entry = locks[request[r].path]
      /\ request[r].entry # NoEntry
  BY <1>1, UserOf, LockAssumption DEF Table, SharedEntry, Request, NoRequest
<1>3. /\ request' = [request EXCEPT ![r].state = "found", ![r].entry = locks[request[r].path]]
      /\ UNCHANGED <<locks, refs>>
  BY <1>2 DEF LookUp
<1>a. /\ request'[r] = [request[r] EXCEPT !.state = "found",
                                          !.entry = locks[request[r].path]]
      /\ \A s \in Requests \ {r} : request'[s] = request[s]
  BY <1>3
<1>b. request'[r] = [request[r] EXCEPT !.state = "found"]
  BY <1>a, <1>1, <1>2 DEF Request
<1>4. /\ request'[r] \in Request
      /\ request'[r].path = request[r].path
      /\ request'[r].entry = request[r].entry
      /\ request'[r].exclusive = request[r].exclusive
      /\ request'[r].state = "found"
  BY <1>b, <1>1 DEF Request, States
<1>c. \A s \in Requests : /\ request'[s].path = request[s].path
                          /\ request'[s].entry = request[s].entry
                          /\ request'[s].exclusive = request[s].exclusive
                          /\ Has(s)' <=> Has(s)
                          /\ s # r => request'[s].state = request[s].state
  BY <1>a, <1>4, <1>1 DEF Has
<1>5. LockTypeOK'
  BY <1>3, <1>4
<1>6. Table'
  BY <1>3, <1>c, SameUsers
<1>7. Mutex'
  BY <1>1, <1>4, <1>c DEF Mutex, Modes, OneInside, ReadersOut, Inside
<1> QED
  BY <1>5, <1>6, <1>7

LEMMA UnlockInv ==
  ASSUME LInv, NEW r \in Requests, Unlock(r)
  PROVE  LInv'
<1> USE DEF LInv, LockTypeOK
<1>1. /\ request[r] \in Request
      /\ Has(r)
      /\ request' = Unlocked(r)
      /\ UNCHANGED <<locks, refs>>
  BY DEF Unlock, Request, NoRequest, Has
<1> DEFINE Woken(s) == /\ s # r /\ request[r].exclusive
                       /\ request[s].entry = request[r].entry
                       /\ request[s].state = "parked"
<1>2. /\ request'[r] = [request[r] EXCEPT !.state = "unlocked"]
      /\ \A s \in Requests : s # r /\ Woken(s) =>
            request'[s] = [request[s] EXCEPT !.state = "granted"]
      /\ \A s \in Requests : s # r /\ ~Woken(s) => request'[s] = request[s]
  BY <1>1 DEF Unlocked
<1>3. \A s \in Requests : Woken(s) => request[s] \in Request
  BY DEF NoRequest
<1>a. /\ request'[r] \in Request
      /\ request'[r].path = request[r].path
      /\ request'[r].entry = request[r].entry
      /\ request'[r].exclusive = request[r].exclusive
      /\ request'[r].state = "unlocked"
  BY <1>1, <1>2 DEF Request, States
<1>b. ASSUME NEW s \in Requests, Woken(s)
      PROVE  /\ request'[s] \in Request
             /\ request'[s].path = request[s].path
             /\ request'[s].entry = request[s].entry
             /\ request'[s].exclusive = request[s].exclusive
             /\ request'[s].state = "granted"
  <2>1. request[s] \in Request /\ request'[s] = [request[s] EXCEPT !.state = "granted"]
    BY <1>b, <1>2, <1>3
  <2> QED
    BY <2>1 DEF Request, States
<1>4. \A s \in Requests :
         /\ request'[s] \in Request \union {NoRequest}
         /\ request'[s].path = request[s].path
         /\ request'[s].entry = request[s].entry
         /\ request'[s].exclusive = request[s].exclusive
         /\ request'[s].state = IF s = r THEN "unlocked"
                                ELSE IF Woken(s) THEN "granted" ELSE request[s].state
  <2> SUFFICES ASSUME NEW s \in Requests
               PROVE  /\ request'[s] \in Request \union {NoRequest}
                      /\ request'[s].path = request[s].path
                      /\ request'[s].entry = request[s].entry
                      /\ request'[s].exclusive = request[s].exclusive
                      /\ request'[s].state = IF s = r THEN "unlocked"
                                ELSE IF Woken(s) THEN "granted" ELSE request[s].state
    OBVIOUS
  <2>1. CASE s = r
    BY <2>1, <1>a
  <2>2. CASE Woken(s)
    BY <2>2, <1>b
  <2>3. CASE s # r /\ ~Woken(s)
    BY <2>3, <1>2
  <2> QED
    BY <2>1, <2>2, <2>3
<1>5. LockTypeOK'
  BY <1>1, <1>4 DEF Unlocked
<1>6. Table'
  BY <1>1, <1>4, SameUsers
<1>7. \A s \in Requests : Woken(s) => ~request[s].exclusive
  BY DEF Mutex, Modes
<1>8. \A s \in Requests : Inside(s)' => Inside(s) /\ s # r
  BY <1>4, <1>7 DEF Inside, Has
<1>9. \A s \in Requests : Has(s)' => (Has(s) /\ s # r) \/ Woken(s)
  BY <1>4 DEF Has
<1>10. \A s, u \in Requests :
         /\ request[s].entry = request[u].entry /\ s # u /\ s # r
         /\ Has(s) /\ request[s].exclusive
         => ~Has(u) /\ ~Woken(u)
  BY <1>1 DEF Mutex, OneInside, ReadersOut, Inside
<1>11. ReadersOut'
  BY <1>4, <1>7, <1>9, <1>10 DEF ReadersOut
<1>12. Modes' /\ OneInside'
  BY <1>4, <1>8, <1>1 DEF Mutex, Modes, OneInside
<1>13. Mutex'
  BY <1>11, <1>12 DEF Mutex
<1> QED
  BY <1>5, <1>6, <1>13

----------------------------------------------------------------------------
(* Steps that change the table. *)

LEMMA AcquireInv ==
  ASSUME LInv, NEW r \in Requests, NEW p \in Paths, NEW x \in BOOLEAN, Acquire(r, p, x)
  PROVE  LInv'
<1> USE DEF LInv
<1> DEFINE e == IF locks[p] # NoEntry THEN locks[p] ELSE CHOOSE f \in Fresh : TRUE
<1> DEFINE new == [state |-> "asked", caller |-> "waiting", path |-> p,
                   exclusive |-> x, entry |-> e]
<1>1. /\ request[r] = NoRequest
      /\ locks' = [locks EXCEPT ![p] = e]
      /\ refs' = [refs EXCEPT ![e] = IF locks[p] = NoEntry THEN 1 ELSE @ + 1]
      /\ request' = [request EXCEPT ![r] = new]
      /\ locks[p] = NoEntry => e \in Fresh
      /\ locks[p] # NoEntry => e = locks[p]
  BY DEF Acquire
<1>2. e \in Entries /\ e # NoEntry
  BY <1>1, LockAssumption DEF LockTypeOK, Fresh
<1>3. new \in Request /\ new # NoRequest
  BY <1>2, LockAssumption DEF Request, States, NoRequest
<1> HIDE DEF e
<1>4. /\ request'[r] = new
      /\ new.path = p /\ new.entry = e /\ new.state = "asked" /\ new.exclusive = x
      /\ \A s \in Requests \ {r} : request'[s] = request[s]
  BY <1>1 DEF LockTypeOK
<1> HIDE DEF new
<1>5. LockTypeOK'
  BY <1>1, <1>2, <1>3 DEF LockTypeOK
<1>6. /\ Users(p)' = Users(p) \union {r}
      /\ r \notin Users(p)
      /\ \A q \in Paths \ {p} : Users(q)' = Users(q)
  BY <1>1, <1>4, NoUser DEF Users
<1>7. \A q \in Paths \ {p} : locks[q] # e
  <2>1. SUFFICES ASSUME NEW q \in Paths \ {p}, locks[q] = e PROVE FALSE
    OBVIOUS
  <2>2. CASE locks[p] # NoEntry
    BY <2>1, <2>2, <1>1 DEF Table, OwnEntry
  <2>3. CASE locks[p] = NoEntry
    <3>1. PICK s \in Requests : s \in Users(q)
      BY <2>1, <1>2 DEF Table, Counted, Users
    <3> QED
      BY <3>1, <2>1, <2>3, <1>1 DEF Table, SharedEntry, Fresh
  <2> QED
    BY <2>2, <2>3
<1>8. /\ locks'[p] = e
      /\ \A q \in Paths \ {p} : locks'[q] = locks[q]
      /\ refs'[e] = IF locks[p] = NoEntry THEN 1 ELSE refs[e] + 1
      /\ \A f \in Entries \ {e} : refs'[f] = refs[f]
  BY <1>1, <1>2 DEF LockTypeOK
<1>9. SharedEntry'
  <2> SUFFICES ASSUME NEW q \in Paths, NEW s \in Users(q)'
               PROVE  request'[s].entry = locks'[q]
    BY DEF SharedEntry
  <2>1. s \in Requests /\ request'[s].path = q
    BY DEF Users
  <2>2. CASE s = r
    BY <2>1, <2>2, <1>4, <1>8
  <2>3. CASE s # r
    <3>1. s \in Users(q) /\ request'[s].entry = request[s].entry
      BY <2>1, <2>3, <1>4 DEF Users
    <3>2. request[s].entry = locks[q] /\ locks[q] # NoEntry
      BY <3>1 DEF Table, SharedEntry, Counted
    <3> QED
      BY <3>1, <3>2, <1>1, <1>8
  <2> QED
    BY <2>2, <2>3
<1>10. OwnEntry'
  BY <1>7, <1>8 DEF Table, OwnEntry
<1>11. Cardinality(Users(p)') = Cardinality(Users(p)) + 1
  BY <1>6, UsersFinite, FS_AddElement
<1>12. locks[p] = NoEntry => Cardinality(Users(p)) = 0
  BY FS_EmptySet DEF Table, Counted
<1>13. refs'[e] = Cardinality(Users(p)')
  BY <1>1, <1>8, <1>11, <1>12 DEF Table, Counted
<1>14. Counted'
  <2> SUFFICES ASSUME NEW q \in Paths
               PROVE  /\ locks'[q] = NoEntry <=> Users(q)' = {}
                      /\ locks'[q] # NoEntry => refs'[locks'[q]] = Cardinality(Users(q)')
    BY DEF Counted
  <2>1. CASE q = p
    BY <2>1, <1>2, <1>6, <1>8, <1>13
  <2>2. CASE q # p
    BY <2>2, <1>6, <1>7, <1>8, LockAssumption DEF Table, Counted, LockTypeOK
  <2> QED
    BY <2>1, <2>2
<1>15. Mutex'
  BY <1>4 DEF Mutex, Modes, OneInside, ReadersOut, Inside, Has
<1> QED
  BY <1>5, <1>9, <1>10, <1>14, <1>15 DEF Table

LEMMA ReleaseInv ==
  ASSUME LInv, NEW r \in Requests, Release(r)
  PROVE  LInv'
<1> USE DEF LInv
<1>a. /\ request[r] \in Request /\ request[r] # NoRequest
      /\ request' = [request EXCEPT ![r] = NoRequest]
  BY DEF Release, LockTypeOK, Request, NoRequest
<1>b. PICK p \in Paths : request[r].path = p
  BY <1>a DEF Request
<1>c. PICK e \in Entries : request[r].entry = e
  BY <1>a DEF Request
<1>1. /\ request[r] \in Request /\ request[r] # NoRequest
      /\ request[r].path = p /\ request[r].entry = e /\ e # NoEntry
      /\ request' = [request EXCEPT ![r] = NoRequest]
  BY <1>a, <1>b, <1>c, LockAssumption
<1>2. r \in Users(p) /\ locks[p] = e
  BY <1>1, UserOf DEF Table, SharedEntry
<1>3. /\ refs' = [refs EXCEPT ![e] = @ - 1]
      /\ locks' = [locks EXCEPT ![p] = IF refs[e] <= 1 THEN NoEntry ELSE e]
  BY <1>1, <1>2 DEF Release, Dropped
<1>4. /\ request'[r] = NoRequest
      /\ \A s \in Requests \ {r} : request'[s] = request[s]
  BY <1>1 DEF LockTypeOK
<1>5. LockTypeOK'
  BY <1>1, <1>3 DEF LockTypeOK
<1>6. /\ Users(p)' = Users(p) \ {r}
      /\ \A q \in Paths \ {p} : Users(q)' = Users(q)
  <2>1. \A q \in Paths : r \notin Users(q)'
    BY <1>4, LockAssumption DEF Users, NoRequest
  <2>2. \A q \in Paths, s \in Requests \ {r} : s \in Users(q)' <=> s \in Users(q)
    BY <1>4 DEF Users
  <2>3. \A q \in Paths : Users(q) \subseteq Requests /\ Users(q)' \subseteq Requests
    BY DEF Users
  <2>4. \A q \in Paths \ {p} : r \notin Users(q)
    BY <1>1 DEF Users
  <2>5. Users(p)' = Users(p) \ {r}
    BY <2>1, <2>2, <2>3
  <2>6. ASSUME NEW q \in Paths \ {p} PROVE Users(q)' = Users(q)
    BY <2>1, <2>2, <2>3, <2>4
  <2> QED
    BY <2>5, <2>6
<1>7. /\ locks'[p] = IF refs[e] <= 1 THEN NoEntry ELSE e
      /\ \A q \in Paths \ {p} : locks'[q] = locks[q]
      /\ refs'[e] = refs[e] - 1
      /\ \A f \in Entries \ {e} : refs'[f] = refs[f]
  BY <1>1, <1>3 DEF LockTypeOK
<1>8. \A q \in Paths \ {p} : locks[q] # e
  BY <1>1, <1>2 DEF Table, OwnEntry
<1>9. SharedEntry'
  <2> SUFFICES ASSUME NEW q \in Paths, NEW s \in Users(q)'
               PROVE  request'[s].entry = locks'[q]
    BY DEF SharedEntry
  <2>1. s \in Users(q) /\ s # r /\ s \in Requests
    BY <1>1, <1>4, <1>6, LockAssumption DEF Users, NoRequest
  <2>2. request'[s].entry = locks[q]
    BY <2>1, <1>4 DEF Table, SharedEntry
  <2>3. CASE q # p
    BY <2>2, <2>3, <1>7
  <2>4. CASE q = p
    <3>1. Cardinality(Users(p)) > 1
      <4>1. {r, s} \subseteq Users(p)
        BY <2>1, <2>4, <1>2
      <4>2. Cardinality({r, s}) = 2
        <5>1. /\ {r, s} = {s} \union {r} /\ r \notin {s}
              /\ IsFiniteSet({s}) /\ Cardinality({s}) = 1
          BY <2>1, FS_Singleton
        <5>2. Cardinality({s} \union {r}) = Cardinality({s}) + 1
          BY <5>1, FS_AddElement
        <5> QED
          BY <5>1, <5>2
      <4> QED
        BY <4>1, <4>2, UsersFinite, FS_Subset, <1>1
    <3>2. refs[e] = Cardinality(Users(p))
      BY <1>1, <1>2 DEF Table, Counted
    <3> QED
      BY <3>1, <3>2, <2>2, <2>4, <1>2, <1>7, UsersFinite, <1>1
  <2> QED
    BY <2>3, <2>4
<1>10. OwnEntry'
  BY <1>7, <1>8, <1>1 DEF Table, OwnEntry
<1>11. /\ refs[e] = Cardinality(Users(p))
       /\ Cardinality(Users(p)') = Cardinality(Users(p)) - 1
       /\ Cardinality(Users(p)') \in Nat
  BY <1>1, <1>2, <1>6, UsersFinite, FS_RemoveElement, FS_CardinalityType DEF Table, Counted
<1>12. Users(p)' = {} <=> Cardinality(Users(p)') = 0
  BY <1>1, <1>6, UsersFinite, FS_RemoveElement, FS_EmptySet
<1>13. Counted'
  <2> SUFFICES ASSUME NEW q \in Paths
               PROVE  /\ locks'[q] = NoEntry <=> Users(q)' = {}
                      /\ locks'[q] # NoEntry => refs'[locks'[q]] = Cardinality(Users(q)')
    BY DEF Counted
  <2>1. CASE q = p
    BY <2>1, <1>1, <1>7, <1>11, <1>12, UsersFinite
  <2>2. CASE q # p
    BY <2>2, <1>6, <1>7, <1>8, LockAssumption DEF Table, Counted, LockTypeOK
  <2> QED
    BY <2>1, <2>2
<1>14. Mutex'
  BY <1>4 DEF Mutex, Modes, OneInside, ReadersOut, Inside, Has, NoRequest
<1> QED
  BY <1>5, <1>9, <1>10, <1>13, <1>14 DEF Table

----------------------------------------------------------------------------

LEMMA StepInv ==
  ASSUME LInv, [LockNext]_lockVars
  PROVE  LInv'
<1>1. CASE LockNext
  <2> SUFFICES ASSUME NEW r \in Requests,
                      \/ \E p \in Paths, exclusive \in BOOLEAN : Acquire(r, p, exclusive)
                      \/ Ask(r) \/ Drain(r) \/ Acquired(r) \/ Cancel(r)
                      \/ LookUp(r) \/ Unlock(r) \/ Release(r)
               PROVE  LInv'
    BY <1>1 DEF LockNext
  <2> QED
    BY AcquireInv, AskInv, DrainInv, CallerInv, LookUpInv, UnlockInv, ReleaseInv
<1>2. CASE UNCHANGED lockVars
  BY <1>2 DEF lockVars, LInv, LockTypeOK, Table, SharedEntry, OwnEntry, Counted, Users,
              Mutex, Modes, OneInside, ReadersOut, Inside, Has
<1> QED
  BY <1>1, <1>2

\* What the invariant says of the runs' properties.
LEMMA InvImplies ==
  ASSUME LInv
  PROVE  Exclusion /\ RefsAreUsers
<1> USE DEF LInv
<1>1. Exclusion
  <2> SUFFICES ASSUME NEW r \in Requests, NEW s \in Requests, Has(r), Has(s), r # s,
                      request[r].path = request[s].path
               PROVE  ~request[r].exclusive /\ ~request[s].exclusive
    BY DEF Exclusion
  <2>1. request[r] # NoRequest /\ request[s] # NoRequest
    BY DEF Has, NoRequest
  <2>2. request[r].entry = request[s].entry
    BY <2>1, UserOf DEF Table, SharedEntry
  <2> QED
    BY <2>2 DEF Mutex, ReadersOut
<1>2. RefsAreUsers
  BY DEF RefsAreUsers, Table, SharedEntry, Counted
<1> QED
  BY <1>1, <1>2

\* Two users have the lock of one path only if both read (locks.go:42-137), with any
\* number of requests, paths and entries.
THEOREM LockExclusion == LockSpec => []Exclusion
<1>1. LInv /\ [LockNext]_lockVars => LInv'
  BY StepInv
<1>2. LInv => Exclusion
  BY InvImplies
<1> QED
  BY InitInv, <1>1, <1>2, PTL DEF LockSpec

\* The table holds the entry of a path exactly while requests use it, and its
\* references are as many (locks.go:42-66).
THEOREM LockReferences == LockSpec => []RefsAreUsers
<1>1. LInv /\ [LockNext]_lockVars => LInv'
  BY StepInv
<1>2. LInv => RefsAreUsers
  BY InvImplies
<1> QED
  BY InitInv, <1>1, <1>2, PTL DEF LockSpec

----------------------------------------------------------------------------
(* The file tools. *)

Changing == {"create", "edit"}

Expected(t) == IF t.kind = "create" THEN Absent ELSE t.token

LinkedAt(r) ==
    /\ At(r, "none") => request[r] = NoRequest \/ request[r].caller = "gone"
    /\ tool[r].pc \in {"verified", "answer"} => request[r] = NoRequest
    /\ At(r, "wait") => request[r].caller = "waiting"
    /\ tool[r].pc \in {"load", "truncate", "write"} =>
          request[r].caller = "holding" /\ request[r].state = "granted"
    /\ At(r, "leave") => /\ request[r].caller = "holding"
                         /\ request[r].state \in {"granted", "found", "unlocked"}
    /\ tool[r].pc \in {"wait", "load", "truncate", "write", "leave"} =>
          /\ request[r].path = tool[r].path
          /\ tool[r].kind \in Changing => request[r].exclusive

SoundAt(r) ==
    /\ At(r, "verified") => tool[r].kind = "edit"
    /\ tool[r].kind = "edit" => tool[r].token # Absent
    /\ tool[r].pc \in {"truncate", "write"} => tool[r].kind \in Changing
    /\ tool[r].pc \in {"verified", "wait", "load"} => tool[r].seen = Absent
    /\ At(r, "truncate") => file[tool[r].path] = Expected(tool[r])
    /\ At(r, "write") => /\ file[tool[r].path] = Torn
                         /\ tool[r].seen = Expected(tool[r])
    /\ tool[r].kind = "read" /\ tool[r].pc \in {"leave", "answer"} /\ tool[r].ok =>
          tool[r].seen # Absent

Linked == \A r \in Requests : LinkedAt(r)
Sound == \A r \in Requests : SoundAt(r)

TInv == LInv /\ ToolTypeOK /\ Linked /\ Sound

----------------------------------------------------------------------------
(* The locks. *)

LEMMA Called ==
  ASSUME ToolTypeOK, NEW r \in Requests, ~At(r, "none")
  PROVE  tool[r] \in Tool /\ tool[r].path \in Paths
BY DEF ToolTypeOK, At, Tool, NoTool

LEMMA InitInvNext == LockInit' => LInv'
BY InitInv, PTL

LEMMA LockInv ==
  ASSUME TInv, [ToolNext]_toolVars
  PROVE  LInv'
<1>1. CASE Stop
  BY <1>1, InitInvNext DEF Stop, LockInit
<1>2. CASE \E r \in Requests :
              \/ \E p \in Paths : ReadFile(r, p) \/ CreateFile(r, p) \/ Verify(r, p)
              \/ Progress(r) \/ Locking(r) \/ GiveUp(r)
  <2>1. PICK r \in Requests :
              \/ \E p \in Paths : ReadFile(r, p) \/ CreateFile(r, p) \/ Verify(r, p)
              \/ Progress(r) \/ Locking(r) \/ GiveUp(r)
    BY <1>2
  <2>2. CASE \E p \in Paths : ReadFile(r, p) \/ CreateFile(r, p) \/ Verify(r, p)
    <3>1. \/ \E p \in Paths, x \in BOOLEAN : Acquire(r, p, x)
          \/ UNCHANGED lockVars
      BY <2>2 DEF ReadFile, CreateFile, Verify
    <3> QED
      BY <3>1, StepInv DEF LockNext, TInv
  <2>3. CASE SearchAndReplace(r)
    <3>1. tool[r].path \in Paths
      BY <2>3, Called DEF SearchAndReplace, At, TInv
    <3> QED
      BY <2>3, <3>1, AcquireInv DEF SearchAndReplace, TInv
  <2>4. CASE Enter(r) \/ GiveUp(r)
    BY <2>4, CallerInv DEF Enter, GiveUp, TInv
  <2>5. CASE Leave(r)
    BY <2>5, LookUpInv, UnlockInv, ReleaseInv DEF Leave, TInv
  <2>6. CASE Locking(r)
    BY <2>6, AskInv, DrainInv DEF Locking, TInv
  <2>7. CASE Load(r) \/ Truncate(r) \/ Write(r) \/ Answer(r)
    BY <2>7, StepInv DEF Load, Truncate, Write, Answer, TInv
  <2> QED
    BY <2>1, <2>2, <2>3, <2>4, <2>5, <2>6, <2>7 DEF Progress
<1>3. CASE UNCHANGED toolVars
  BY <1>3, StepInv DEF toolVars, TInv
<1> QED
  BY <1>1, <1>2, <1>3 DEF ToolNext

\* Nobody else is in the body of a tool on the file that r changes.
LEMMA Alone ==
  ASSUME TInv, NEW r \in Requests, NEW s \in Requests, tool[r].path = tool[s].path,
         tool[r].pc \in {"truncate", "write"}, tool[s].pc \in {"load", "truncate", "write"}
  PROVE  r = s
<1>1. tool[r].kind \in Changing
  BY DEF TInv, Sound, SoundAt
<1>2. Has(r) /\ Has(s) /\ request[r].path = request[s].path /\ request[r].exclusive
  BY <1>1 DEF TInv, Linked, LinkedAt, Has
<1> QED
  BY <1>2, InvImplies DEF TInv, Exclusion

----------------------------------------------------------------------------
(* Steps of calls. *)

\* What r does to its own call, if the others keep theirs and what they have seen.
LEMMA Others ==
  ASSUME TInv, NEW r \in Requests, LinkedAt(r)', SoundAt(r)',
         \A s \in Requests \ {r} :
            /\ tool'[s] = tool[s]
            /\ \/ request'[s] = request[s]
               \/ /\ request[s].state = "parked"
                  /\ request'[s] = [request[s] EXCEPT !.state = "granted"]
            /\ \/ file'[tool[s].path] = file[tool[s].path]
               \/ tool[s].pc \notin {"truncate", "write"}
  PROVE  Linked' /\ Sound'
<1>1. ASSUME NEW s \in Requests \ {r} PROVE LinkedAt(s)'
  <2>1. LinkedAt(s) /\ tool'[s] = tool[s]
    BY DEF TInv, Linked
  <2>2. CASE request'[s] = request[s]
    BY <2>1, <2>2 DEF LinkedAt, At
  <2>3. CASE /\ request[s].state = "parked"
             /\ request'[s] = [request[s] EXCEPT !.state = "granted"]
    <3>1. request[s] # NoRequest
      BY <2>3 DEF NoRequest
    <3>2. /\ request'[s].caller = request[s].caller /\ request'[s].path = request[s].path
          /\ request'[s].exclusive = request[s].exclusive
          /\ request'[s].state = "granted"
      BY <2>3, <3>1 DEF TInv, LInv, LockTypeOK, Request
    <3> QED
      BY <2>1, <2>3, <3>1, <3>2 DEF LinkedAt, At
  <2> QED
    BY <2>2, <2>3
<1>2. ASSUME NEW s \in Requests \ {r} PROVE SoundAt(s)'
  <2>1. SoundAt(s) /\ tool'[s] = tool[s]
    BY DEF TInv, Sound
  <2>2. \/ file'[tool[s].path] = file[tool[s].path]
        \/ tool[s].pc \notin {"truncate", "write"}
    OBVIOUS
  <2>3. Expected(tool[s])' = Expected(tool[s])
    BY <2>1 DEF Expected
  <2>4. /\ At(s, "truncate")' => file'[tool'[s].path] = Expected(tool[s])'
        /\ At(s, "write")' => /\ file'[tool'[s].path] = Torn
                              /\ tool'[s].seen = Expected(tool[s])'
    BY <2>1, <2>2, <2>3 DEF SoundAt, At
  <2>5. (/\ tool[s].kind = "read" /\ tool[s].pc \in {"leave", "answer"} /\ tool[s].ok
         => tool[s].seen # Absent)'
    BY <2>1, Zenon DEF SoundAt
  <2>6. /\ At(s, "verified")' => tool'[s].kind = "edit"
        /\ tool'[s].kind = "edit" => tool'[s].token # Absent
        /\ tool'[s].pc \in {"truncate", "write"} => tool'[s].kind \in Changing
        /\ tool'[s].pc \in {"verified", "wait", "load"} => tool'[s].seen = Absent
    BY <2>1 DEF SoundAt, At
  <2> QED
    BY <2>4, <2>5, <2>6, Zenon DEF SoundAt
<1> QED
  BY <1>1, <1>2 DEF Linked, Sound

LEMMA CallInv ==
  ASSUME TInv, LInv', NEW r \in Requests, NEW p \in Paths,
         ReadFile(r, p) \/ CreateFile(r, p) \/ Verify(r, p)
  PROVE  (ToolTypeOK /\ Linked /\ Sound)'
<1>1. PICK kind \in Kinds, token \in Content, pc \in {"wait", "verified"} :
        /\ Calls(r, kind, p, token, pc)
        /\ kind = "edit" <=> pc = "verified"
        /\ kind = "edit" => token # Absent
        /\ pc = "verified" => UNCHANGED lockVars
        /\ pc = "wait" => \E x \in BOOLEAN : Acquire(r, p, x) /\ (kind \in Changing => x)
  <2>1. CASE ReadFile(r, p)
    BY <2>1 DEF ReadFile, Kinds, Content, Changing
  <2>2. CASE CreateFile(r, p)
    BY <2>2 DEF CreateFile, Kinds, Content, Changing
  <2>3. CASE Verify(r, p)
    BY <2>3 DEF Verify, Kinds, TInv, ToolTypeOK
  <2> QED
    BY <2>1, <2>2, <2>3
<1> DEFINE t == [NoTool EXCEPT !.kind = kind, !.path = p, !.pc = pc, !.token = token,
                               !.new = mix[r].writes]
<1>2. /\ request[r] = NoRequest /\ tool[r] = NoTool
      /\ tool' = [tool EXCEPT ![r] = t]
      /\ UNCHANGED <<file, approved, mix>>
  BY <1>1 DEF Calls
<1>a. mix[r].writes \in Content
  <2>1. mix \in Mix
    BY ToolAssumption DEF TInv, ToolTypeOK
  <2> QED
    BY <2>1 DEF Mix
<1>b. /\ NoTool \in [kind : {"none"}, path : {NoPath}, token : Content, new : Content,
                     seen : Content, ok : BOOLEAN, pc : {"none"}]
      /\ NoTool.seen = Absent
  BY DEF NoTool, Content
<1>3. t.kind = kind /\ t.path = p /\ t.token = token /\ t.seen = Absent /\ t.pc = pc
  BY <1>b
<1>4. t \in Tool
  BY <1>a, <1>b DEF Tool, Points
<1> HIDE DEF t
<1>5. ToolTypeOK'
  BY <1>2, <1>4 DEF TInv, ToolTypeOK, LInv
<1>6. tool'[r] = t /\ \A s \in Requests \ {r} : tool'[s] = tool[s]
  BY <1>2 DEF TInv, ToolTypeOK
<1>7. /\ \A s \in Requests \ {r} : request'[s] = request[s]
      /\ pc = "verified" => request'[r] = NoRequest
      /\ pc = "wait" => /\ request'[r].caller = "waiting" /\ request'[r].path = p
                        /\ kind \in Changing => request'[r].exclusive
  BY <1>1, <1>2 DEF Acquire, lockVars, TInv, LInv, LockTypeOK
<1>8. LinkedAt(r)'
  BY <1>1, <1>3, <1>6, <1>7 DEF LinkedAt, At
<1>9. SoundAt(r)'
  BY <1>1, <1>3, <1>6, <1>7 DEF SoundAt, At
<1> QED
  BY <1>2, <1>5, <1>6, <1>7, <1>8, <1>9, Others

\* What Goto and Ends do to a call.
LEMMA Moved ==
  ASSUME ToolTypeOK, NEW r \in Requests, ~At(r, "none"), NEW pc \in Points, Goto(r, pc)
  PROVE  /\ tool' \in [Requests -> Tool \union {NoTool}]
         /\ \A s \in Requests \ {r} : tool'[s] = tool[s]
         /\ tool'[r].pc = pc /\ tool'[r].kind = tool[r].kind
         /\ tool'[r].path = tool[r].path /\ tool'[r].token = tool[r].token
         /\ tool'[r].new = tool[r].new /\ tool'[r].seen = tool[r].seen
         /\ tool'[r].ok = tool[r].ok
<1>1. tool[r] \in Tool
  BY Called
<1>2. /\ tool'[r] = [tool[r] EXCEPT !.pc = pc]
      /\ \A s \in Requests \ {r} : tool'[s] = tool[s]
      /\ tool' = [tool EXCEPT ![r] = [tool[r] EXCEPT !.pc = pc]]
  BY DEF Goto, ToolTypeOK
<1>3. [tool[r] EXCEPT !.pc = pc] \in Tool
  BY <1>1 DEF Tool
<1>4. tool' \in [Requests -> Tool \union {NoTool}]
  BY <1>2, <1>3 DEF ToolTypeOK
<1> QED
  BY <1>1, <1>2, <1>4 DEF Tool

LEMMA Finished ==
  ASSUME ToolTypeOK, NEW r \in Requests, ~At(r, "none"), NEW ok \in BOOLEAN, Ends(r, ok)
  PROVE  /\ tool' \in [Requests -> Tool \union {NoTool}]
         /\ \A s \in Requests \ {r} : tool'[s] = tool[s]
         /\ tool'[r].pc = "leave" /\ tool'[r].kind = tool[r].kind
         /\ tool'[r].path = tool[r].path /\ tool'[r].token = tool[r].token
         /\ tool'[r].new = tool[r].new /\ tool'[r].seen = Absent
         /\ tool'[r].ok = ok
<1> DEFINE t == [tool[r] EXCEPT !.pc = "leave", !.ok = ok, !.seen = Absent]
<1>1. tool[r] \in Tool
  BY Called
<1>2. /\ tool'[r] = t
      /\ \A s \in Requests \ {r} : tool'[s] = tool[s]
      /\ tool' = [tool EXCEPT ![r] = t]
  BY DEF Ends, ToolTypeOK
<1>3. /\ t \in Tool
      /\ t.pc = "leave" /\ t.kind = tool[r].kind /\ t.path = tool[r].path
      /\ t.token = tool[r].token /\ t.new = tool[r].new /\ t.seen = Absent /\ t.ok = ok
  BY <1>1 DEF Tool, Points, Content
<1> HIDE DEF t
<1>4. tool' \in [Requests -> Tool \union {NoTool}]
  BY <1>2, <1>3 DEF ToolTypeOK
<1> QED
  BY <1>2, <1>3, <1>4

LEMMA BeginInv ==
  ASSUME TInv, LInv', NEW r \in Requests, SearchAndReplace(r) \/ Enter(r)
  PROVE  (ToolTypeOK /\ Linked /\ Sound)'
<1>1. CASE SearchAndReplace(r)
  <2>1. At(r, "verified") /\ Goto(r, "wait") /\ Acquire(r, tool[r].path, TRUE)
    BY <1>1 DEF SearchAndReplace
  <2>2. /\ tool[r].kind = "edit" /\ tool[r].token # Absent /\ tool[r].seen = Absent
        /\ tool[r].path \in Paths
    BY <2>1, Called DEF TInv, Sound, SoundAt, At
  <2>3. /\ request'[r].caller = "waiting" /\ request'[r].path = tool[r].path
        /\ request'[r].exclusive
        /\ \A s \in Requests \ {r} : request'[s] = request[s]
    BY <2>1 DEF Acquire, TInv, LInv, LockTypeOK
  <2>4. ToolTypeOK'
    BY <1>1, <2>1, Moved DEF SearchAndReplace, TInv, ToolTypeOK, LInv, At, Points
  <2>5. /\ \A s \in Requests \ {r} : tool'[s] = tool[s]
        /\ tool'[r].pc = "wait" /\ tool'[r].kind = "edit" /\ tool'[r].path = tool[r].path
        /\ tool'[r].token # Absent /\ tool'[r].seen = Absent
    BY <2>1, <2>2, Moved DEF TInv, At, Points
  <2>6. LinkedAt(r)'
    BY <2>3, <2>5 DEF LinkedAt, At
  <2>7. SoundAt(r)'
    BY <2>5 DEF SoundAt, At
  <2> QED
    BY <1>1, <2>3, <2>4, <2>5, <2>6, <2>7, Others DEF SearchAndReplace
<1>2. CASE Enter(r)
  <2>1. At(r, "wait") /\ Acquired(r) /\ Goto(r, "load")
    BY <1>2 DEF Enter
  <2>2. /\ request[r] \in Request
        /\ request'[r] = [request[r] EXCEPT !.caller = "holding"]
        /\ \A s \in Requests \ {r} : request'[s] = request[s]
    BY <2>1 DEF Acquired, TInv, LInv, LockTypeOK, NoRequest
  <2>3. /\ request'[r].caller = "holding" /\ request'[r].state = "granted"
        /\ request'[r].path = request[r].path
        /\ request'[r].exclusive = request[r].exclusive
    BY <2>1, <2>2 DEF Request, Acquired
  <2>4. ToolTypeOK'
    BY <1>2, <2>1, Moved DEF Enter, TInv, ToolTypeOK, LInv, At, Points
  <2>5. /\ \A s \in Requests \ {r} : tool'[s] = tool[s]
        /\ tool'[r].pc = "load" /\ tool'[r].kind = tool[r].kind
        /\ tool'[r].path = tool[r].path
        /\ tool'[r].token = tool[r].token /\ tool'[r].seen = tool[r].seen
    BY <2>1, Moved DEF TInv, At, Points
  <2>6. LinkedAt(r)'
    BY <2>1, <2>3, <2>5 DEF LinkedAt, At, TInv, Linked
  <2>7. SoundAt(r)'
    BY <2>1, <2>5 DEF SoundAt, At, TInv, Sound
  <2> QED
    BY <1>2, <2>2, <2>4, <2>5, <2>6, <2>7, Others DEF Enter
<1> QED
  BY <1>1, <1>2

LEMMA GiveUpInv ==
  ASSUME TInv, LInv', NEW r \in Requests, GiveUp(r)
  PROVE  (ToolTypeOK /\ Linked /\ Sound)'
<1>1. /\ request[r] \in Request
      /\ request'[r] = [request[r] EXCEPT !.caller = "gone"]
      /\ \A s \in Requests \ {r} : request'[s] = request[s]
  BY DEF GiveUp, Cancel, TInv, LInv, LockTypeOK, NoRequest
<1>2. request'[r].caller = "gone"
  BY <1>1 DEF Request
<1>3. /\ tool'[r] = NoTool
      /\ \A s \in Requests \ {r} : tool'[s] = tool[s]
  BY DEF GiveUp, TInv, ToolTypeOK
<1>4. ToolTypeOK'
  BY DEF GiveUp, TInv, LInv, ToolTypeOK
<1>5. LinkedAt(r)' /\ SoundAt(r)'
  BY <1>2, <1>3 DEF LinkedAt, SoundAt, At, NoTool
<1> QED
  BY <1>1, <1>3, <1>4, <1>5, Others DEF GiveUp

LEMMA LeaveInv ==
  ASSUME TInv, LInv', NEW r \in Requests, Leave(r)
  PROVE  (ToolTypeOK /\ Linked /\ Sound)'
<1> USE DEF TInv
<1>a. UNCHANGED <<file, approved, mix>>
  BY DEF Leave
<1>1. CASE At(r, "leave") /\ LookUp(r) /\ UNCHANGED tool
  <2>1. request[r] \in Request
    BY <1>1 DEF LookUp, LInv, LockTypeOK, NoRequest
  <2>2. PICK st \in {"unlocked", "found"}, e \in {locks[request[r].path], request[r].entry} :
           request' = [request EXCEPT ![r].state = st, ![r].entry = e]
    BY <1>1 DEF LookUp
  <2>3. /\ request'[r] = [request[r] EXCEPT !.state = st, !.entry = e]
        /\ \A s \in Requests \ {r} : request'[s] = request[s]
    BY <2>2 DEF LInv, LockTypeOK
  <2>4. /\ request'[r].state = st /\ request'[r].caller = request[r].caller
        /\ request'[r].path = request[r].path
        /\ request'[r].exclusive = request[r].exclusive
    BY <2>1, <2>3 DEF Request
  <2>5. LinkedAt(r)'
    BY <1>1, <2>4 DEF LinkedAt, At, Linked
  <2>6. SoundAt(r)'
    BY <1>a, <1>1 DEF SoundAt, At, Expected, Sound
  <2> QED
    BY <1>a, <1>1, <2>3, <2>5, <2>6, Others DEF ToolTypeOK, LInv
<1>2. CASE Unlock(r) /\ UNCHANGED tool
  <2>1. /\ request[r] \in Request
        /\ request[r].state = "found" \/ (request[r].caller = "gone" /\ request[r].state = "granted")
    BY <1>2 DEF Unlock, LInv, LockTypeOK, NoRequest
  <2>2. /\ request'[r] = [request[r] EXCEPT !.state = "unlocked"]
        /\ \A s \in Requests \ {r} :
             \/ request'[s] = request[s]
             \/ /\ request[s].state = "parked"
                /\ request'[s] = [request[s] EXCEPT !.state = "granted"]
    BY <1>2 DEF Unlock, Unlocked
  <2>3. /\ request'[r].state = "unlocked" /\ request'[r].caller = request[r].caller
        /\ request'[r].path = request[r].path
        /\ request'[r].exclusive = request[r].exclusive
    BY <2>1, <2>2 DEF Request
  <2>4. LinkedAt(r)'
    BY <1>2, <2>1, <2>3 DEF LinkedAt, At, Linked, NoRequest
  <2>5. SoundAt(r)'
    BY <1>a, <1>2 DEF SoundAt, At, Expected, Sound
  <2> QED
    BY <1>a, <1>2, <2>2, <2>4, <2>5, Others DEF ToolTypeOK, LInv
<1>3. CASE At(r, "leave") /\ Release(r) /\ Goto(r, "answer")
  <2>1. request'[r] = NoRequest /\ \A s \in Requests \ {r} : request'[s] = request[s]
    BY <1>3 DEF Release, LInv, LockTypeOK
  <2>2. ToolTypeOK'
    BY <1>a, <1>3, Moved DEF ToolTypeOK, LInv, At, Points
  <2>3. /\ \A s \in Requests \ {r} : tool'[s] = tool[s]
        /\ tool'[r].pc = "answer" /\ tool'[r].kind = tool[r].kind
        /\ tool'[r].token = tool[r].token /\ tool'[r].seen = tool[r].seen
        /\ tool'[r].ok = tool[r].ok
    BY <1>3, Moved DEF At, Points
  <2>4. LinkedAt(r)'
    BY <2>1, <2>3 DEF LinkedAt, At
  <2>5. SoundAt(r)'
    BY <1>3, <2>3 DEF SoundAt, At, Sound
  <2> QED
    BY <1>a, <2>1, <2>2, <2>3, <2>4, <2>5, Others
<1>4. CASE At(r, "none") /\ Release(r) /\ UNCHANGED tool
  <2>1. request'[r] = NoRequest /\ \A s \in Requests \ {r} : request'[s] = request[s]
    BY <1>4 DEF Release, LInv, LockTypeOK
  <2>2. LinkedAt(r)'
    BY <1>4, <2>1 DEF LinkedAt, At
  <2>3. SoundAt(r)'
    BY <1>a, <1>4 DEF SoundAt, At, Expected, Sound
  <2> QED
    BY <1>a, <1>4, <2>1, <2>2, <2>3, Others DEF ToolTypeOK, LInv
<1> QED
  BY <1>1, <1>2, <1>3, <1>4 DEF Leave

LEMMA LockingInv ==
  ASSUME TInv, LInv', NEW r \in Requests, Locking(r)
  PROVE  (ToolTypeOK /\ Linked /\ Sound)'
<1> USE DEF TInv
<1>1. /\ request[r] \in Request
      /\ request[r].state \in {"asked", "announced"}
      /\ UNCHANGED <<file, approved, tool, mix>>
  BY DEF Locking, Ask, Drain, LInv, LockTypeOK, NoRequest
<1>2. PICK st : request' = [request EXCEPT ![r].state = st]
  BY DEF Locking, Ask, Drain
<1>3. /\ request'[r] = [request[r] EXCEPT !.state = st]
      /\ \A s \in Requests \ {r} : request'[s] = request[s]
  BY <1>2 DEF LInv, LockTypeOK
<1>4. /\ request'[r].caller = request[r].caller
      /\ request'[r].path = request[r].path
      /\ request'[r].exclusive = request[r].exclusive
  BY <1>1, <1>3 DEF Request
<1>5. LinkedAt(r)'
  BY <1>1, <1>4 DEF LinkedAt, At, Linked, NoRequest
<1>6. SoundAt(r)'
  BY <1>1 DEF SoundAt, At, Expected, Sound
<1> QED
  BY <1>1, <1>3, <1>5, <1>6, Others DEF ToolTypeOK, LInv

\* Load in its four outcomes, of which a read keeps what it has seen.
LEMMA Loaded ==
  ASSUME TInv, NEW r \in Requests, Load(r)
  PROVE  \/ /\ tool[r].kind \in {"read", "look"} /\ file[tool[r].path] # Absent
            /\ tool' \in [Requests -> Tool \union {NoTool}]
            /\ \A s \in Requests \ {r} : tool'[s] = tool[s]
            /\ tool'[r].pc = "leave" /\ tool'[r].kind = tool[r].kind
            /\ tool'[r].path = tool[r].path /\ tool'[r].token = tool[r].token
            /\ tool'[r].new = tool[r].new /\ tool'[r].seen = file[tool[r].path]
            /\ tool'[r].ok = TRUE
         \/ /\ tool[r].kind \in Changing /\ file[tool[r].path] = Expected(tool[r])
            /\ Goto(r, "truncate")
         \/ Ends(r, FALSE)
<1> USE DEF TInv
<1>1. tool[r] \in Tool /\ file[tool[r].path] \in Content
  BY Called DEF Load, At, ToolTypeOK
<1>2. CASE /\ tool[r].kind \in {"read", "look"} /\ file[tool[r].path] # Absent
           /\ tool' = [tool EXCEPT ![r].pc = "leave", ![r].ok = TRUE,
                                   ![r].seen = file[tool[r].path]]
  <2> DEFINE t == [tool[r] EXCEPT !.pc = "leave", !.ok = TRUE,
                                  !.seen = file[tool[r].path]]
  <2>1. /\ tool'[r] = t
        /\ \A s \in Requests \ {r} : tool'[s] = tool[s]
        /\ tool' = [tool EXCEPT ![r] = t]
    BY <1>2 DEF ToolTypeOK
  <2>2. /\ t \in Tool
        /\ t.pc = "leave" /\ t.kind = tool[r].kind /\ t.path = tool[r].path
        /\ t.token = tool[r].token /\ t.new = tool[r].new
        /\ t.seen = file[tool[r].path] /\ t.ok = TRUE
    BY <1>1 DEF Tool, Points
  <2> HIDE DEF t
  <2>3. tool' \in [Requests -> Tool \union {NoTool}]
    BY <2>1, <2>2 DEF ToolTypeOK
  <2> QED
    BY <1>2, <2>1, <2>2, <2>3
<1>3. CASE \/ /\ tool[r].kind = "create" /\ file[tool[r].path] = Absent
              /\ Goto(r, "truncate")
           \/ /\ tool[r].kind = "edit" /\ ~Stale(r)
              /\ Goto(r, "truncate")
  BY <1>3 DEF Changing, Expected, Stale
<1> QED
  BY <1>2, <1>3 DEF Load

LEMMA BodyInv ==
  ASSUME TInv, LInv', NEW r \in Requests, Load(r) \/ Truncate(r) \/ Write(r)
  PROVE  (ToolTypeOK /\ Linked /\ Sound)'
<1> USE DEF TInv
<1>1. /\ tool[r].pc \in {"load", "truncate", "write"} /\ ~At(r, "none")
      /\ UNCHANGED <<request, approved, mix>>
      /\ tool[r] \in Tool /\ tool[r].path \in Paths
  BY Called DEF Load, Truncate, Write, At, lockVars
<1>2. /\ request[r].caller = "holding" /\ request[r].state = "granted"
      /\ request[r].path = tool[r].path
      /\ tool[r].kind \in Changing => request[r].exclusive
  BY <1>1 DEF Linked, LinkedAt
\* Whatever a body does, it ends with the lock in its hands.
<1>3. ASSUME tool'[r].pc \in {"truncate", "write", "leave"},
             tool'[r].kind = tool[r].kind, tool'[r].path = tool[r].path
      PROVE  LinkedAt(r)'
  BY <1>1, <1>2, <1>3 DEF LinkedAt, At
<1>4. ASSUME NEW ok \in BOOLEAN, Ends(r, ok), ok => tool[r].kind \in Changing,
             file' \in [Paths -> Content],
             \A s \in Requests \ {r} : \/ file'[tool[s].path] = file[tool[s].path]
                                       \/ tool[s].pc \notin {"truncate", "write"}
      PROVE  (ToolTypeOK /\ Linked /\ Sound)'
  <2>1. /\ tool' \in [Requests -> Tool \union {NoTool}]
        /\ \A s \in Requests \ {r} : tool'[s] = tool[s]
        /\ tool'[r].pc = "leave" /\ tool'[r].kind = tool[r].kind
        /\ tool'[r].path = tool[r].path /\ tool'[r].token = tool[r].token
        /\ tool'[r].ok = ok
    BY <1>1, <1>4, Finished
  <2>2. ToolTypeOK'
    BY <1>1, <1>4, <2>1 DEF ToolTypeOK, LInv
  <2>3. LinkedAt(r)'
    BY <1>3, <2>1
  <2>4. SoundAt(r)'
    BY <1>4, <2>1 DEF SoundAt, At, Changing, Sound
  <2> QED
    BY <1>1, <1>4, <2>1, <2>2, <2>3, <2>4, Others
<1>5. \A s \in Requests \ {r} :
         /\ tool[r].pc \in {"truncate", "write"} /\ tool[s].path = tool[r].path
         => tool[s].pc \notin {"truncate", "write"}
  BY Alone
<1>6. CASE Load(r)
  <2>1. CASE Ends(r, FALSE)
    BY <1>4, <1>6, <2>1 DEF Load, ToolTypeOK
  <2>2. CASE /\ tool[r].kind \in {"read", "look"} /\ file[tool[r].path] # Absent
             /\ tool' \in [Requests -> Tool \union {NoTool}]
             /\ \A s \in Requests \ {r} : tool'[s] = tool[s]
             /\ tool'[r].pc = "leave" /\ tool'[r].kind = tool[r].kind
             /\ tool'[r].path = tool[r].path /\ tool'[r].token = tool[r].token
             /\ tool'[r].new = tool[r].new /\ tool'[r].seen = file[tool[r].path]
             /\ tool'[r].ok = TRUE
    <3>1. ToolTypeOK'
      BY <1>1, <1>6, <2>2 DEF Load, ToolTypeOK, LInv
    <3>2. SoundAt(r)'
      BY <2>2 DEF SoundAt, At
    <3> QED
      BY <1>1, <1>3, <1>6, <2>2, <3>1, <3>2, Others DEF Load
  <2>3. CASE /\ tool[r].kind \in Changing /\ file[tool[r].path] = Expected(tool[r])
             /\ Goto(r, "truncate")
    <3>1. /\ tool' \in [Requests -> Tool \union {NoTool}]
          /\ \A s \in Requests \ {r} : tool'[s] = tool[s]
          /\ tool'[r].pc = "truncate" /\ tool'[r].kind = tool[r].kind
          /\ tool'[r].path = tool[r].path /\ tool'[r].token = tool[r].token
          /\ tool'[r].seen = tool[r].seen
      BY <1>1, <2>3, Moved DEF Points
    <3>2. ToolTypeOK'
      BY <1>1, <1>6, <3>1 DEF Load, ToolTypeOK, LInv
    <3>3. Expected(tool[r])' = Expected(tool[r])
      BY <3>1 DEF Expected
    <3>4. SoundAt(r)'
      BY <1>6, <2>3, <3>1, <3>3 DEF SoundAt, At, Sound, Load
    <3> QED
      BY <1>1, <1>3, <1>6, <3>1, <3>2, <3>4, Others DEF Load
  <2> QED
    BY <1>6, <2>1, <2>2, <2>3, Loaded
<1>7. CASE Truncate(r)
  <2>1. CASE Ends(r, FALSE) /\ UNCHANGED file
    BY <1>4, <2>1 DEF ToolTypeOK
  <2>2. CASE /\ file' = [file EXCEPT ![tool[r].path] = Torn]
             /\ tool' = [tool EXCEPT ![r].pc = "write", ![r].seen = file[tool[r].path]]
    <3> DEFINE t == [tool[r] EXCEPT !.pc = "write", !.seen = file[tool[r].path]]
    <3>1. /\ tool'[r] = t
          /\ \A s \in Requests \ {r} : tool'[s] = tool[s]
          /\ tool' = [tool EXCEPT ![r] = t]
      BY <2>2 DEF ToolTypeOK
    <3>2. /\ t \in Tool
          /\ t.pc = "write" /\ t.kind = tool[r].kind /\ t.path = tool[r].path
          /\ t.token = tool[r].token /\ t.seen = file[tool[r].path]
      BY <1>1 DEF Tool, Points, ToolTypeOK
    <3> HIDE DEF t
    <3>3. /\ file' \in [Paths -> Content] /\ file'[tool[r].path] = Torn
          /\ \A s \in Requests \ {r} : \/ file'[tool[s].path] = file[tool[s].path]
                                       \/ tool[s].pc \notin {"truncate", "write"}
      BY <1>1, <1>5, <1>7, <2>2 DEF ToolTypeOK, Content, Truncate, At
    <3>4. ToolTypeOK'
      BY <1>1, <3>1, <3>2, <3>3 DEF ToolTypeOK, LInv
    <3>5. Expected(tool[r])' = Expected(tool[r])
      BY <3>1, <3>2 DEF Expected
    <3>6. SoundAt(r)'
      BY <1>7, <3>1, <3>2, <3>3, <3>5 DEF SoundAt, At, Sound, Truncate
    <3> QED
      BY <1>1, <1>3, <3>1, <3>2, <3>3, <3>4, <3>6, Others
  <2> QED
    BY <1>7, <2>1, <2>2 DEF Truncate
<1>8. CASE Write(r)
  <2>1. CASE Ends(r, FALSE) /\ UNCHANGED file
    BY <1>4, <2>1 DEF ToolTypeOK
  <2>2. CASE /\ file' = [file EXCEPT ![tool[r].path] = tool[r].new]
             /\ Ends(r, TRUE)
    <3>1. /\ file' \in [Paths -> Content]
          /\ \A s \in Requests \ {r} : \/ file'[tool[s].path] = file[tool[s].path]
                                       \/ tool[s].pc \notin {"truncate", "write"}
      BY <1>1, <1>5, <1>8, <2>2 DEF ToolTypeOK, Tool, Write, At
    <3>2. tool[r].kind \in Changing
      BY <1>8 DEF Write, At, Sound, SoundAt
    <3> QED
      BY <1>4, <2>2, <3>1, <3>2
  <2> QED
    BY <1>8, <2>1, <2>2 DEF Write
<1> QED
  BY <1>6, <1>7, <1>8

LEMMA AnswerInv ==
  ASSUME TInv, LInv', NEW r \in Requests, Answer(r)
  PROVE  (ToolTypeOK /\ Linked /\ Sound)'
<1> USE DEF TInv
<1>1. /\ tool[r] \in Tool /\ tool[r].path \in Paths
      /\ request'[r] = NoRequest /\ UNCHANGED <<request, file, mix>>
  BY Called DEF Answer, At, Linked, LinkedAt, lockVars
<1>2. tool'[r] = NoTool /\ \A s \in Requests \ {r} : tool'[s] = tool[s]
  BY DEF Answer, ToolTypeOK
<1>3. Authorized(tool[r]) \in (Content \union {NoToken}) \ {Absent}
  BY <1>1, ToolAssumption DEF Authorized, ToolTypeOK, Sound, SoundAt, Tool, Answer, At
<1>4. ToolTypeOK'
  BY <1>1, <1>3 DEF Answer, ToolTypeOK, LInv
<1>5. LinkedAt(r)' /\ SoundAt(r)'
  BY <1>1, <1>2 DEF LinkedAt, SoundAt, At, NoTool
<1> QED
  BY <1>1, <1>2, <1>4, <1>5, Others DEF Answer

LEMMA StopInv ==
  ASSUME TInv, LInv', Stop
  PROVE  (ToolTypeOK /\ Linked /\ Sound)'
<1>1. \A r \in Requests : tool'[r] = NoTool /\ request'[r] = NoRequest
  BY DEF Stop
<1>2. ToolTypeOK'
  BY ToolAssumption DEF Stop, TInv, ToolTypeOK, LInv
<1> QED
  BY <1>1, <1>2 DEF Linked, Sound, LinkedAt, SoundAt, At, NoTool

LEMMA ToolStepInv ==
  ASSUME TInv, [ToolNext]_toolVars
  PROVE  TInv'
<1>1. LInv'
  BY LockInv
<1>2. CASE UNCHANGED toolVars
  BY <1>1, <1>2 DEF toolVars, lockVars, TInv, ToolTypeOK, LInv, Linked, Sound, LinkedAt,
                    SoundAt, At, Expected
<1>3. CASE ToolNext
  BY <1>1, <1>3, CallInv, BeginInv, BodyInv, LeaveInv, AnswerInv, LockingInv, GiveUpInv,
     StopInv DEF ToolNext, Progress, TInv
<1> QED
  BY <1>1, <1>2, <1>3

LEMMA ToolInitInv == ToolInit => TInv
<1> SUFFICES ASSUME ToolInit PROVE TInv
  OBVIOUS
<1>1. LInv
  BY InitInv DEF ToolInit
<1>2. \A r \in Requests : tool[r] = NoTool /\ request[r] = NoRequest
  BY DEF ToolInit, LockInit
<1>3. ToolTypeOK
  BY <1>1, ToolAssumption DEF ToolInit, ToolTypeOK, LInv, Content
<1>4. Linked /\ Sound
  BY <1>2 DEF Linked, Sound, LinkedAt, SoundAt, At, NoTool
<1> QED
  BY <1>1, <1>3, <1>4 DEF TInv

----------------------------------------------------------------------------
(* What the abstract files and calls are. *)

LEMMA ChooseOne ==
  ASSUME NEW r
  PROVE  (CHOOSE s \in {r} : TRUE) = r
OBVIOUS

\* To others a file is what its only writer found, or what it is.
Viewed ==
    \A p \in Paths :
        /\ Writing(p) = {} => FileOf(p) = file[p]
        /\ \A r \in Writing(p) : Writing(p) = {r} /\ FileOf(p) = tool[r].seen

LEMMA View == TInv => Viewed
<1> SUFFICES ASSUME TInv, NEW p \in Paths, NEW r \in Writing(p)
             PROVE  Writing(p) = {r} /\ FileOf(p) = tool[r].seen
  BY DEF FileOf, Viewed
<1>1. \A s \in Writing(p) : s = r
  BY Alone DEF Writing, At
<1>2. Writing(p) = {r}
  BY <1>1
<1> QED
  BY <1>2, ChooseOne DEF FileOf

LEMMA ViewNext == TInv' => Viewed'
BY View, PTL

\* Files that nobody begins or ends to write are the same.
LEMMA SameFiles ==
  ASSUME TInv, TInv', UNCHANGED file,
         \A s \in Requests :
            /\ At(s, "write")' <=> At(s, "write")
            /\ At(s, "write") => /\ tool'[s].path = tool[s].path
                                 /\ tool'[s].seen = tool[s].seen
  PROVE  Files' = Files
<1>1. ASSUME NEW p \in Paths PROVE FileOf(p)' = FileOf(p)
  <2>1. Writing(p)' = Writing(p)
    BY DEF Writing
  <2>2. CASE Writing(p) = {}
    BY <2>1, <2>2, View, ViewNext DEF Viewed
  <2>3. ASSUME NEW r \in Writing(p) PROVE FileOf(p)' = FileOf(p)
    <3>1. r \in Writing(p)' /\ tool'[r].seen = tool[r].seen
      BY <2>1, <2>3 DEF Writing
    <3> QED
      BY <3>1, View, ViewNext DEF Viewed
  <2> QED
    BY <2>2, <2>3
<1> QED
  BY <1>1 DEF Files

LEMMA OpFields ==
  ASSUME NEW t \in Tool
  PROVE  /\ OpOf(t) \in AF!Op
         /\ OpOf(t).kind = IF t.kind = "look" THEN "read" ELSE t.kind
         /\ OpOf(t).path = t.path /\ OpOf(t).expected = t.token /\ OpOf(t).new = t.new
         /\ OpOf(t).seen = IF t.kind \in {"read", "look"} THEN t.seen ELSE Absent
         /\ OpOf(t).state = IF t.pc \notin {"leave", "answer"} THEN "open"
                            ELSE IF t.ok THEN "ok" ELSE "refused"
         /\ OpOf(t) # AF!NoOp
<1>1. t # NoTool
  BY DEF Tool, NoTool, Points
<1> QED
  BY <1>1 DEF OpOf, AF!Op, AF!NoOp, Tool, Kinds, Content, AF!Content

LEMMA NoOpOf == OpOf(NoTool) = AF!NoOp
BY DEF OpOf, AF!NoOp

LEMMA OpChange ==
  ASSUME NEW t \in Tool, NEW u \in Tool, u.kind = t.kind, u.path = t.path,
         u.token = t.token, u.new = t.new
  PROVE  /\ OpOf(u) = [OpOf(t) EXCEPT !.state = OpOf(u).state, !.seen = OpOf(u).seen]
         /\ OpOf(u).seen = OpOf(t).seen =>
              OpOf(u) = [OpOf(t) EXCEPT !.state = OpOf(u).state]
<1> DEFINE v == [OpOf(t) EXCEPT !.state = OpOf(u).state, !.seen = OpOf(u).seen]
           w == [OpOf(t) EXCEPT !.state = OpOf(u).state]
<1>1. OpOf(t) \in AF!Op /\ OpOf(u) \in AF!Op
  BY OpFields
<1>2. /\ OpOf(u).kind = OpOf(t).kind /\ OpOf(u).path = OpOf(t).path
      /\ OpOf(u).expected = OpOf(t).expected /\ OpOf(u).new = OpOf(t).new
  BY OpFields
<1> HIDE DEF v, w
<1>3. /\ v \in AF!Op
      /\ v.kind = OpOf(t).kind /\ v.path = OpOf(t).path /\ v.new = OpOf(t).new
      /\ v.expected = OpOf(t).expected
      /\ v.state = OpOf(u).state /\ v.seen = OpOf(u).seen
  BY <1>1 DEF AF!Op, v
<1>4. /\ w \in AF!Op
      /\ w.kind = OpOf(t).kind /\ w.path = OpOf(t).path /\ w.new = OpOf(t).new
      /\ w.expected = OpOf(t).expected
      /\ w.state = OpOf(u).state /\ w.seen = OpOf(t).seen
  BY <1>1 DEF AF!Op, w
<1>5. v = OpOf(u)
  BY <1>1, <1>2, <1>3 DEF AF!Op
<1>6. OpOf(u).seen = OpOf(t).seen => w = OpOf(u)
  BY <1>1, <1>2, <1>4 DEF AF!Op
<1> QED
  BY <1>5, <1>6 DEF v, w

\* A call of r changes nothing of the others.
LEMMA OpsStep ==
  ASSUME NEW r \in Requests, \A s \in Requests \ {r} : tool'[s] = tool[s]
  PROVE  /\ Ops' = [Ops EXCEPT ![r] = OpOf(tool'[r])]
         /\ Ops[r] = OpOf(tool[r])
BY DEF Ops

----------------------------------------------------------------------------
(* Steps of AtomicFiles. *)

\* The call of r is where it was for AtomicFiles.
LEMMA Silent ==
  ASSUME NEW r \in Requests, \A s \in Requests \ {r} : tool'[s] = tool[s],
         \/ tool'[r] = tool[r]
         \/ /\ tool[r] \in Tool /\ tool'[r] \in Tool
            /\ tool'[r].kind = tool[r].kind /\ tool'[r].path = tool[r].path
            /\ tool'[r].token = tool[r].token /\ tool'[r].new = tool[r].new
            /\ OpOf(tool'[r]).seen = OpOf(tool[r]).seen
            /\ OpOf(tool'[r]).state = OpOf(tool[r]).state
  PROVE  Ops' = Ops
<1>1. CASE tool'[r] = tool[r]
  BY <1>1 DEF Ops
<1>2. CASE /\ tool[r] \in Tool /\ tool'[r] \in Tool
           /\ tool'[r].kind = tool[r].kind /\ tool'[r].path = tool[r].path
           /\ tool'[r].token = tool[r].token /\ tool'[r].new = tool[r].new
           /\ OpOf(tool'[r]).seen = OpOf(tool[r]).seen
           /\ OpOf(tool'[r]).state = OpOf(tool[r]).state
  <2>1. OpOf(tool'[r]) = OpOf(tool[r])
    <3>1. OpOf(tool[r]) \in AF!Op /\ OpOf(tool'[r]) \in AF!Op
      BY <1>2, OpFields
    <3>2. /\ OpOf(tool'[r]).kind = OpOf(tool[r]).kind
          /\ OpOf(tool'[r]).path = OpOf(tool[r]).path
          /\ OpOf(tool'[r]).expected = OpOf(tool[r]).expected
          /\ OpOf(tool'[r]).new = OpOf(tool[r]).new
      BY <1>2, OpFields
    <3> QED
      BY <1>2, <3>1, <3>2 DEF AF!Op
  <2> QED
    BY <2>1 DEF Ops
<1> QED
  BY <1>1, <1>2

LEMMA CallStep ==
  ASSUME TInv, TInv', NEW r \in Requests, NEW p \in Paths,
         ReadFile(r, p) \/ CreateFile(r, p) \/ Verify(r, p)
  PROVE  AF!Begin(r)
<1>1. PICK kind \in Kinds, token \in {Absent, approved[p]}, pc \in {"wait", "verified"} :
        Calls(r, kind, p, token, pc)
  BY DEF ReadFile, CreateFile, Verify, Kinds
<1>2. /\ tool[r] = NoTool /\ UNCHANGED file
      /\ tool'[r] = [NoTool EXCEPT !.kind = kind, !.path = p, !.pc = pc, !.token = token,
                                   !.new = mix[r].writes]
      /\ \A s \in Requests \ {r} : tool'[s] = tool[s]
  BY <1>1 DEF Calls, TInv, ToolTypeOK
<1>3. NoTool \in [kind : {"none"}, path : {NoPath}, token : Content, new : Content,
                  seen : Content, ok : BOOLEAN, pc : {"none"}]
  BY DEF NoTool, Content
<1>4. tool'[r].pc = pc
  BY <1>2, <1>3
<1>5. tool'[r] \in Tool
  BY <1>4 DEF TInv, ToolTypeOK, NoTool
<1>6. tool'[r].seen = Absent
  BY <1>4 DEF TInv, Sound, SoundAt
<1>7. /\ OpOf(tool'[r]) \in AF!Op
      /\ OpOf(tool'[r]).state = "open" /\ OpOf(tool'[r]).seen = Absent
  BY <1>4, <1>5, <1>6, OpFields
<1>8. Files' = Files
  <2>1. tool[r].pc = "none"
    BY <1>2, <1>3
  <2> QED
    BY <1>2, <1>4, <2>1, SameFiles DEF At
<1> QED
  BY <1>2, <1>7, <1>8, OpsStep, NoOpOf DEF AF!Begin

LEMMA EndStep ==
  ASSUME TInv, TInv', NEW r \in Requests, GiveUp(r) \/ Answer(r)
  PROVE  AF!End(r)
<1>1. /\ tool'[r] = NoTool /\ UNCHANGED file
      /\ \A s \in Requests \ {r} : tool'[s] = tool[s]
      /\ At(r, "wait") \/ At(r, "answer")
  BY DEF GiveUp, Answer, TInv, ToolTypeOK
<1>2. tool[r] \in Tool
  BY <1>1, Called DEF TInv, At
<1>3. Ops[r] # AF!NoOp
  BY <1>1, <1>2, OpsStep, OpFields
<1>4. Files' = Files
  BY <1>1, SameFiles DEF At, NoTool
<1> QED
  BY <1>1, <1>3, <1>4, OpsStep, NoOpOf DEF AF!End

\* A step inside a call that AtomicFiles does not see.
LEMMA GotoStep ==
  ASSUME TInv, TInv', NEW r \in Requests, NEW pc \in Points, Goto(r, pc), UNCHANGED file,
         ~At(r, "none"), ~At(r, "write"), pc # "write",
         pc \in {"leave", "answer"} <=> tool[r].pc \in {"leave", "answer"}
  PROVE  UNCHANGED AF!fileVars
<1>1. /\ \A s \in Requests \ {r} : tool'[s] = tool[s]
      /\ tool'[r].pc = pc /\ tool'[r].kind = tool[r].kind
      /\ tool'[r].path = tool[r].path /\ tool'[r].token = tool[r].token
      /\ tool'[r].new = tool[r].new /\ tool'[r].seen = tool[r].seen
      /\ tool'[r].ok = tool[r].ok
  BY Moved DEF TInv
<1>2. tool[r] \in Tool /\ tool'[r] \in Tool
  BY <1>1, Called DEF TInv, ToolTypeOK, NoTool, Points
<1>3. /\ OpOf(tool'[r]).seen = OpOf(tool[r]).seen
      /\ OpOf(tool'[r]).state = OpOf(tool[r]).state
  BY <1>1, <1>2, OpFields
<1>4. Ops' = Ops
  BY <1>1, <1>2, <1>3, Silent
<1>5. Files' = Files
  BY <1>1, SameFiles DEF At
<1> QED
  BY <1>4, <1>5 DEF AF!fileVars

LEMMA SilentStep ==
  ASSUME TInv, TInv', NEW r \in Requests,
         SearchAndReplace(r) \/ Enter(r) \/ Leave(r) \/ Locking(r)
  PROVE  UNCHANGED AF!fileVars
<1>1. CASE UNCHANGED <<tool, file>>
  <2>1. Ops' = Ops
    BY <1>1 DEF Ops
  <2>2. Files' = Files
    BY <1>1, SameFiles DEF At
  <2> QED
    BY <2>1, <2>2 DEF AF!fileVars
<1>2. CASE SearchAndReplace(r)
  BY <1>2, GotoStep DEF SearchAndReplace, At, Points
<1>3. CASE Enter(r)
  BY <1>3, GotoStep DEF Enter, At, Points
<1>4. CASE Leave(r)
  BY <1>1, <1>4, GotoStep DEF Leave, At, Points
<1> QED
  BY <1>1, <1>2, <1>3, <1>4 DEF Locking

LEMMA RefuseStep ==
  ASSUME TInv, TInv', NEW r \in Requests, At(r, "load") \/ At(r, "truncate"),
         Ends(r, FALSE), UNCHANGED file
  PROVE  AF!Refuse(r)
<1>1. /\ \A s \in Requests \ {r} : tool'[s] = tool[s]
      /\ tool'[r].pc = "leave" /\ tool'[r].kind = tool[r].kind
      /\ tool'[r].path = tool[r].path /\ tool'[r].token = tool[r].token
      /\ tool'[r].new = tool[r].new /\ tool'[r].seen = Absent /\ tool'[r].ok = FALSE
  BY Finished DEF TInv, At
<1>2. tool[r] \in Tool /\ tool'[r] \in Tool
  BY <1>1, Called DEF TInv, ToolTypeOK, NoTool, At
<1>3. At(r, "load") => tool[r].seen = Absent
  BY DEF TInv, Sound, SoundAt, At
<1>4. At(r, "truncate") => tool[r].kind \in Changing
  BY DEF TInv, Sound, SoundAt, At
<1>5. /\ OpOf(tool[r]).state = "open" /\ OpOf(tool'[r]).state = "refused"
      /\ OpOf(tool'[r]).seen = OpOf(tool[r]).seen
  BY <1>1, <1>2, <1>3, <1>4, OpFields DEF At, Changing
<1>6. OpOf(tool'[r]) = [OpOf(tool[r]) EXCEPT !.state = "refused"]
  <2>1. OpOf(tool'[r]) = [OpOf(tool[r]) EXCEPT !.state = OpOf(tool'[r]).state]
    BY <1>1, <1>2, <1>5, OpChange
  <2> QED
    BY <1>5, <2>1
<1>7. Files' = Files
  BY <1>1, SameFiles DEF At
<1> QED
  BY <1>1, <1>5, <1>6, <1>7, OpsStep DEF AF!Refuse

LEMMA LoadStep ==
  ASSUME TInv, TInv', NEW r \in Requests, Load(r)
  PROVE  AF!Read(r) \/ AF!Refuse(r) \/ UNCHANGED AF!fileVars
<1> USE DEF TInv
<1>1. At(r, "load") /\ UNCHANGED file
  BY DEF Load
<1>2. tool[r] \in Tool /\ tool[r].path \in Paths
  BY <1>1, Called DEF At
<1>3. CASE /\ tool[r].kind \in {"read", "look"} /\ file[tool[r].path] # Absent
           /\ tool' \in [Requests -> Tool \union {NoTool}]
           /\ \A s \in Requests \ {r} : tool'[s] = tool[s]
           /\ tool'[r].pc = "leave" /\ tool'[r].kind = tool[r].kind
           /\ tool'[r].path = tool[r].path /\ tool'[r].token = tool[r].token
           /\ tool'[r].new = tool[r].new /\ tool'[r].seen = file[tool[r].path]
           /\ tool'[r].ok = TRUE
  <2>1. tool'[r] \in Tool
    BY <1>3 DEF NoTool
  <2>2. Writing(tool[r].path) = {}
    BY <1>1, Alone DEF Writing, At
  <2>3. Files[tool[r].path] = file[tool[r].path]
    BY <1>2, <2>2 DEF Files, FileOf
  <2>4. /\ OpOf(tool[r]).state = "open" /\ OpOf(tool[r]).kind = "read"
        /\ OpOf(tool[r]).path = tool[r].path
        /\ OpOf(tool'[r]).state = "ok" /\ OpOf(tool'[r]).seen = file[tool[r].path]
    BY <1>1, <1>2, <1>3, <2>1, OpFields DEF At
  <2>5. OpOf(tool'[r]) = [OpOf(tool[r]) EXCEPT !.state = "ok",
                                               !.seen = Files[OpOf(tool[r]).path]]
    <3>1. OpOf(tool'[r]) = [OpOf(tool[r]) EXCEPT !.state = OpOf(tool'[r]).state,
                                                 !.seen = OpOf(tool'[r]).seen]
      BY <1>2, <1>3, <2>1, OpChange
    <3> QED
      BY <2>3, <2>4, <3>1
  <2>6. Files' = Files
    BY <1>1, <1>3, SameFiles DEF At
  <2>7. /\ Ops[r] = OpOf(tool[r])
        /\ Ops' = [Ops EXCEPT ![r] = OpOf(tool'[r])]
    BY <1>3, OpsStep
  <2>8. Ops' = [Ops EXCEPT ![r].state = "ok", ![r].seen = Files[Ops[r].path]]
    BY <2>5, <2>7 DEF Ops
  <2>9. Ops[r].state = "open" /\ Ops[r].kind = "read" /\ Files[Ops[r].path] # Absent
    BY <1>3, <2>3, <2>4, <2>7
  <2>10. AF!Read(r)
    BY <2>6, <2>8, <2>9 DEF AF!Read
  <2> QED
    BY <2>10
<1>4. CASE Goto(r, "truncate")
  BY <1>1, <1>4, GotoStep DEF At, Points
<1>5. CASE Ends(r, FALSE)
  BY <1>1, <1>5, RefuseStep
<1> QED
  BY <1>3, <1>4, <1>5, Loaded

\* A file that r is not about is the same.
LEMMA OtherFile ==
  ASSUME TInv, TInv', NEW r \in Requests, \A s \in Requests \ {r} : tool'[s] = tool[s],
         NEW p \in Paths, tool[r].path # p, tool'[r].path # p, file'[p] = file[p]
  PROVE  FileOf(p)' = FileOf(p)
<1>1. Writing(p)' = Writing(p)
  <2>1. \A s \in Requests : s \in Writing(p)' <=> s \in Writing(p)
    BY DEF Writing, At
  <2> QED
    BY <2>1 DEF Writing
<1>2. CASE Writing(p) = {}
  BY <1>1, <1>2, View, ViewNext DEF Viewed
<1>3. ASSUME NEW s \in Writing(p) PROVE FileOf(p)' = FileOf(p)
  <2>1. s \in Writing(p)' /\ tool'[s] = tool[s]
    BY <1>1, <1>3 DEF Writing
  <2> QED
    BY <2>1, View, ViewNext DEF Viewed
<1> QED
  BY <1>2, <1>3

\* The truncated file is, to everybody else, what it was.
LEMMA TruncateStep ==
  ASSUME TInv, TInv', NEW r \in Requests, Truncate(r)
  PROVE  AF!Refuse(r) \/ UNCHANGED AF!fileVars
<1> USE DEF TInv
<1>1. At(r, "truncate") /\ tool[r].kind \in Changing
  BY DEF Truncate, Sound, SoundAt, At
<1>2. tool[r] \in Tool /\ tool[r].path \in Paths
  BY <1>1, Called DEF At
<1>3. CASE Ends(r, FALSE) /\ UNCHANGED file
  BY <1>1, <1>3, RefuseStep
<1>4. CASE /\ file' = [file EXCEPT ![tool[r].path] = Torn]
           /\ tool' = [tool EXCEPT ![r].pc = "write", ![r].seen = file[tool[r].path]]
  <2>1. /\ tool'[r] = [tool[r] EXCEPT !.pc = "write", !.seen = file[tool[r].path]]
        /\ \A s \in Requests \ {r} : tool'[s] = tool[s]
    BY <1>4 DEF ToolTypeOK
  <2>2. /\ tool'[r].pc = "write" /\ tool'[r].kind = tool[r].kind
        /\ tool'[r].path = tool[r].path /\ tool'[r].token = tool[r].token
        /\ tool'[r].new = tool[r].new /\ tool'[r].seen = file[tool[r].path]
    BY <1>2, <2>1 DEF Tool
  <2>3. tool'[r] \in Tool
    BY <2>2 DEF ToolTypeOK, NoTool
  <2>4. /\ OpOf(tool'[r]).seen = OpOf(tool[r]).seen
        /\ OpOf(tool'[r]).state = OpOf(tool[r]).state
    BY <1>1, <1>2, <2>2, <2>3, OpFields DEF At, Changing
  <2>5. Ops' = Ops
    BY <1>2, <2>1, <2>2, <2>3, <2>4, Silent
  <2>6. ASSUME NEW p \in Paths PROVE FileOf(p)' = FileOf(p)
    <3>1. CASE p = tool[r].path
      <4>1. Writing(p) = {}
        BY <1>1, <3>1, Alone DEF Writing, At
      <4>2. r \in Writing(p)'
        BY <2>2, <3>1 DEF Writing, At
      <4> QED
        BY <4>1, <4>2, <2>2, <3>1, View, ViewNext DEF Viewed
    <3>2. CASE p # tool[r].path
      <4>1. file'[p] = file[p]
        BY <1>4, <3>2 DEF ToolTypeOK
      <4> QED
        BY <4>1, <2>1, <2>2, <3>2, OtherFile
    <3> QED
      BY <3>1, <3>2
  <2>7. Files' = Files
    BY <2>6 DEF Files
  <2> QED
    BY <2>5, <2>7 DEF AF!fileVars
<1> QED
  BY <1>3, <1>4 DEF Truncate

\* The write takes effect when it is complete, or leaves part of a file.
LEMMA WriteStep ==
  ASSUME TInv, TInv', NEW r \in Requests, Write(r)
  PROVE  AF!Write(r) \/ AF!BreakOff(r)
<1> USE DEF TInv
<1>1. /\ At(r, "write") /\ tool[r].kind \in Changing
      /\ file[tool[r].path] = Torn /\ tool[r].seen = Expected(tool[r])
      /\ tool[r].kind = "edit" => tool[r].token # Absent
  BY DEF Write, Sound, SoundAt, At
<1>2. tool[r] \in Tool /\ tool[r].path \in Paths
  BY <1>1, Called DEF At
<1>3. PICK ok \in BOOLEAN : Ends(r, ok) /\ file' = [file EXCEPT ![tool[r].path] =
                                                   IF ok THEN tool[r].new ELSE Torn]
  <2>1. CASE file' = [file EXCEPT ![tool[r].path] = tool[r].new] /\ Ends(r, TRUE)
    BY <2>1
  <2>2. CASE Ends(r, FALSE) /\ UNCHANGED file
    <3>1. file = [file EXCEPT ![tool[r].path] = Torn]
      BY <1>1, <1>2 DEF ToolTypeOK
    <3> QED
      BY <2>2, <3>1
  <2> QED
    BY <2>1, <2>2 DEF Write
<1>4. /\ \A s \in Requests \ {r} : tool'[s] = tool[s]
      /\ tool'[r].pc = "leave" /\ tool'[r].kind = tool[r].kind
      /\ tool'[r].path = tool[r].path /\ tool'[r].token = tool[r].token
      /\ tool'[r].new = tool[r].new /\ tool'[r].ok = ok
  BY <1>1, <1>3, Finished DEF At
<1>5. tool'[r] \in Tool
  BY <1>4 DEF ToolTypeOK, NoTool
<1>6. r \in Writing(tool[r].path)
  BY <1>1 DEF Writing
<1>7. /\ Files[tool[r].path] = tool[r].seen
      /\ Writing(tool[r].path) = {r}
  BY <1>2, <1>6, View DEF Viewed, Files
<1>8. /\ OpOf(tool[r]).state = "open" /\ OpOf(tool[r]).kind = tool[r].kind
      /\ OpOf(tool[r]).path = tool[r].path /\ OpOf(tool[r]).expected = tool[r].token
      /\ OpOf(tool[r]).new = tool[r].new
      /\ OpOf(tool'[r]).seen = OpOf(tool[r]).seen
      /\ OpOf(tool'[r]).state = IF ok THEN "ok" ELSE "refused"
  BY <1>1, <1>2, <1>4, <1>5, OpFields DEF At, Changing
<1>9. AF!Applicable(Ops[r])
  BY <1>1, <1>4, <1>7, <1>8, OpsStep DEF AF!Applicable, Changing, Expected
<1>10. /\ Ops' = [Ops EXCEPT ![r].state = IF ok THEN "ok" ELSE "refused"]
       /\ Ops[r] = OpOf(tool[r])
  <2>1. OpOf(tool'[r]) = [OpOf(tool[r]) EXCEPT !.state = OpOf(tool'[r]).state]
    BY <1>2, <1>4, <1>5, <1>8, OpChange
  <2>2. /\ Ops' = [Ops EXCEPT ![r] = OpOf(tool'[r])]
        /\ Ops[r] = OpOf(tool[r])
    BY <1>4, OpsStep
  <2> QED
    BY <1>8, <2>1, <2>2
<1>11. Files' = [Files EXCEPT ![tool[r].path] = IF ok THEN tool[r].new ELSE Torn]
  <2>1. PICK q \in Paths : q = tool[r].path
    BY <1>2
  <2>2. Writing(q)' = {}
    <3>1. \A s \in Requests : s \notin Writing(q)'
      BY <1>4, <1>7, <2>1 DEF Writing, At
    <3> QED
      BY <3>1 DEF Writing
  <2>3. file'[q] = IF ok THEN tool[r].new ELSE Torn
    BY <1>3, <2>1 DEF ToolTypeOK
  <2>4. FileOf(q)' = file'[q]
    BY <2>2, ViewNext DEF Viewed
  <2>5. ASSUME NEW p \in Paths, p # q PROVE FileOf(p)' = FileOf(p)
    <3>1. file'[p] = file[p]
      BY <1>3, <2>1, <2>5 DEF ToolTypeOK
    <3> QED
      BY <1>4, <2>1, <2>5, <3>1, OtherFile
  <2> QED
    BY <2>1, <2>3, <2>4, <2>5 DEF Files
<1> QED
  BY <1>3, <1>8, <1>9, <1>10, <1>11 DEF AF!Write, AF!BreakOff

\* What is being written when the process stops stays half written.
LEMMA StopStep ==
  ASSUME TInv, TInv', Stop
  PROVE  AF!Stop
<1> DEFINE broken == {r \in Requests : At(r, "write")}
<1>1. \A r \in Requests : tool'[r] = NoTool
  BY DEF Stop
<1>2. Ops' = [r \in Requests |-> AF!NoOp]
  BY <1>1, NoOpOf DEF Ops
<1>3. \A p \in Paths : FileOf(p)' = file[p]
  <2>1. \A p \in Paths : Writing(p)' = {}
    BY <1>1 DEF Writing, At, NoTool
  <2> QED
    BY <2>1, ViewNext DEF Viewed, Stop
<1>4. \A r \in broken : /\ AF!Applicable(Ops[r]) /\ Ops[r].path = tool[r].path
                        /\ file[tool[r].path] = Torn
  <2> SUFFICES ASSUME NEW r \in broken
               PROVE  /\ AF!Applicable(Ops[r]) /\ Ops[r].path = tool[r].path
                      /\ file[tool[r].path] = Torn
    OBVIOUS
  <2>1. /\ At(r, "write") /\ tool[r].kind \in Changing
        /\ file[tool[r].path] = Torn /\ tool[r].seen = Expected(tool[r])
        /\ tool[r].kind = "edit" => tool[r].token # Absent
    BY DEF TInv, Sound, SoundAt, At
  <2>2. tool[r] \in Tool /\ tool[r].path \in Paths
    BY <2>1, Called DEF At, TInv
  <2>3. Files[tool[r].path] = tool[r].seen
    BY <2>1, <2>2, View DEF Viewed, Files, Writing
  <2>4. /\ OpOf(tool[r]).state = "open" /\ OpOf(tool[r]).kind = tool[r].kind
        /\ OpOf(tool[r]).path = tool[r].path /\ OpOf(tool[r]).expected = tool[r].token
    BY <2>1, <2>2, OpFields DEF At, Changing
  <2>5. Ops[r] = OpOf(tool[r])
    BY DEF Ops
  <2> QED
    BY <2>1, <2>3, <2>4, <2>5 DEF AF!Applicable, Changing, Expected
<1>5. ASSUME NEW p \in Paths
      PROVE  file[p] = IF \E r \in broken : Ops[r].path = p THEN Torn ELSE Files[p]
  <2>1. CASE \E r \in broken : Ops[r].path = p
    BY <1>4, <2>1
  <2>2. CASE ~\E r \in broken : Ops[r].path = p
    <3>1. Writing(p) = {}
      BY <1>4, <2>2 DEF Writing
    <3> QED
      BY <2>2, <3>1 DEF Files, FileOf
  <2> QED
    BY <2>1, <2>2
<1>6. Files' = [p \in Paths |->
                  IF \E r \in broken : Ops[r].path = p THEN Torn ELSE Files[p]]
  BY <1>3, <1>5 DEF Files
<1>7. broken \in SUBSET {r \in Requests : AF!Applicable(Ops[r])}
  BY <1>4
<1> HIDE DEF broken
<1> QED
  BY <1>2, <1>6, <1>7 DEF AF!Stop

LEMMA ToolStep ==
  ASSUME TInv, TInv', [ToolNext]_toolVars
  PROVE  [AF!Next]_(AF!fileVars)
<1>1. CASE UNCHANGED toolVars
  <2>1. Ops' = Ops
    BY <1>1 DEF toolVars, Ops
  <2>2. Files' = Files
    BY <1>1, SameFiles DEF toolVars, At
  <2> QED
    BY <2>1, <2>2 DEF AF!fileVars
<1>2. CASE Stop
  BY <1>2, StopStep DEF AF!Next
<1>3. CASE \E r \in Requests :
              \/ \E p \in Paths : ReadFile(r, p) \/ CreateFile(r, p) \/ Verify(r, p)
              \/ Progress(r) \/ Locking(r) \/ GiveUp(r)
  <2>1. PICK r \in Requests :
              \/ \E p \in Paths : ReadFile(r, p) \/ CreateFile(r, p) \/ Verify(r, p)
              \/ Progress(r) \/ Locking(r) \/ GiveUp(r)
    BY <1>3
  <2>2. CASE \E p \in Paths : ReadFile(r, p) \/ CreateFile(r, p) \/ Verify(r, p)
    BY <2>2, CallStep DEF AF!Next
  <2>3. CASE SearchAndReplace(r) \/ Enter(r) \/ Leave(r) \/ Locking(r)
    BY <2>3, SilentStep
  <2>4. CASE Load(r)
    BY <2>4, LoadStep DEF AF!Next
  <2>5. CASE Truncate(r)
    BY <2>5, TruncateStep DEF AF!Next
  <2>6. CASE Write(r)
    BY <2>6, WriteStep DEF AF!Next
  <2>7. CASE GiveUp(r) \/ Answer(r)
    BY <2>7, EndStep DEF AF!Next
  <2> QED
    BY <2>1, <2>2, <2>3, <2>4, <2>5, <2>6, <2>7 DEF Progress
<1> QED
  BY <1>1, <1>2, <1>3 DEF ToolNext

LEMMA ToolInitAbstract == ToolInit => AF!Init
<1> SUFFICES ASSUME ToolInit PROVE AF!Init
  OBVIOUS
<1>1. \A r \in Requests : tool[r] = NoTool
  BY DEF ToolInit
<1>2. Ops = [r \in Requests |-> AF!NoOp]
  BY <1>1, NoOpOf DEF Ops
<1>3. Files \in [Paths -> Contents \union {Absent}]
  <2>1. \A p \in Paths : Writing(p) = {}
    BY <1>1 DEF Writing, At, NoTool
  <2> QED
    BY <2>1 DEF Files, FileOf, ToolInit
<1> QED
  BY <1>2, <1>3 DEF AF!Init

----------------------------------------------------------------------------

\* The locks of the tools exclude and are counted, whatever the tools do with them and
\* whenever their callers give up or the process stops (locks.go, file tools).
THEOREM ToolLocks == ToolSpec => [](ToolTypeOK /\ Exclusion /\ RefsAreUsers)
<1>1. TInv /\ [ToolNext]_toolVars => TInv'
  BY ToolStepInv
<1>2. TInv => ToolTypeOK /\ Exclusion /\ RefsAreUsers
  BY InvImplies DEF TInv
<1> QED
  BY ToolInitInv, <1>1, <1>2, PTL DEF ToolSpec

\* The file tools implement AtomicFiles (internal/tools/filesystem.go with its
\* RevisionAuthorizer, on internal/locks/locks.go), for any number of calls, files, entries and contents:
\* no read of half a file, no lost edit, no edit of another content than expected.
THEOREM ToolsAreAtomic == ToolSpec => ImplementsAtomicFiles
<1>1. TInv /\ [ToolNext]_toolVars => TInv'
  BY ToolStepInv
<1>2. TInv /\ TInv' /\ [ToolNext]_toolVars => [AF!Next]_(AF!fileVars)
  BY ToolStep
<1> QED
  BY ToolInitInv, ToolInitAbstract, <1>1, <1>2, PTL
     DEF ToolSpec, ImplementsAtomicFiles, AF!Spec

\* Every call is one of the tools' at one of their points, and every file holds some
\* content, none or a torn one (filesystem.go:60-210, locks.go).
THEOREM ToolTypeCorrect == ToolSpec => []ToolTypeOK
BY ToolLocks, PTL
=============================================================================
