---------------------------- MODULE ClientProofs ----------------------------
(***************************************************************************)
(* What clients are given: connections and statements (ResultSets) and the *)
(* wrappers of the C++ interface (ApiHandles).                             *)
(*                                                                         *)
(* ResultSets, for any number of clients, any sizes of the pool and any    *)
(* failures.  DedicatedConnections is about what a client holds, and so    *)
(* needs to know where it holds something (Holding) and that nothing is in *)
(* the pool of a processor that does not exist (Closed).  RowsOnce follows *)
(* from where the statement of a client stands (Position).                 *)
(*                                                                         *)
(* ApiHandles, for any number of variables of the caller and any sequence  *)
(* of constructions, copies, moves, assignments and calls that fail.  That *)
(* no handle is shared needs to know that a handle that is made is a new   *)
(* one, above all of those that any object or any wrapper has (Objects);   *)
(* that no status leaks needs to know that there is one where the          *)
(* exception is a status (Statuses).  That errors arrive as they were      *)
(* thrown is a fact about the order of the catch clauses: the first that   *)
(* catches a type is its own.                                              *)
(***************************************************************************)
EXTENDS ResultSets, ApiHandles, SequenceTheorems, TLAPS

\* A client has a connection from the time it gets it to the time it is back.
Holding ==
    \A c \in Clients :
        db[c] # NoConnection <=> pc[c] \in {"prepare", "ready", "return", "close"}

Closed == ~up => pool = <<>> /\ \A c \in Clients : pc[c] = "idle"

\* The rows given are those up to the one the statement stands on, or all.
Position ==
    \A c \in Clients : pc[c] = "ready" =>
        /\ at[c] <= size[c]
        /\ given[c] = [i \in 1..(IF consumed[c] THEN size[c] ELSE at[c]) |-> i]

IInv == /\ TypeOK /\ Holding /\ Closed
        /\ DedicatedConnections /\ NoStatementLeftBehind /\ Position

-----------------------------------------------------------------------------
LEMMA InitEstablishes == Init => IInv
<1> SUFFICES ASSUME Init PROVE IInv
  OBVIOUS
<1> USE ResultSetsAssumption DEF Init
<1>1. TypeOK
  <2>1. <<>> \in Seq(Connections) /\ Len(<<>>) = 0 /\ <<>> \in Seq(1..MaxRows)
    OBVIOUS
  <2>2. /\ pool \in Seq(Connections) /\ Len(pool) <= Capacity
        /\ size \in [Clients -> 0..MaxRows] /\ at \in [Clients -> 0..MaxRows]
        /\ failures \in 0..MaxFailures
    BY <2>1
  <2>3. given \in [Clients -> Seq(1..MaxRows)]
    BY <2>1, Zenon
  <2>4. up \in BOOLEAN /\ consumed \in [Clients -> BOOLEAN]
    BY Zenon
  <2>5. /\ stmt \in [Connections -> {"none", "prepared", "active", "failed"}]
        /\ pc \in [Clients -> {"idle", "open", "prepare", "ready", "return", "close"}]
        /\ db \in [Clients -> Connections \cup {NoConnection}]
    BY Zenon
  <2> QED
    BY <2>2, <2>3, <2>4, <2>5 DEF TypeOK
<1>2. Holding /\ Closed /\ NoStatementLeftBehind /\ Position
  BY DEF Holding, Closed, NoStatementLeftBehind, Position
<1>3. DedicatedConnections
  BY DEF DedicatedConnections, Held, ToSet
<1> QED
  BY <1>1, <1>2, <1>3 DEF IInv

\* What is held and what is in the pool is open, and known to nobody else.
LEMMA OpenConnectionsAreKept ==
    ASSUME IInv
    PROVE  Held \cup ToSet(pool) \subseteq opened
BY DEF IInv, DedicatedConnections

LEMMA OpenPoolKeeps == ASSUME IInv, OpenPool PROVE IInv'
<1> USE DEF OpenPool, select
<1>1. PICK ks \in [1..InitialSize -> Fresh] : IsInjective(ks) /\ pool' = ks
  OBVIOUS
<1>2. /\ ks \in Seq(Connections) /\ Len(ks) = InitialSize
      /\ ToSet(ks) \subseteq Fresh
  BY ResultSetsAssumption DEF Fresh, ToSet
<1>3. TypeOK'
  <2>1. pool' \in Seq(Connections) /\ Len(pool') <= Capacity
    BY <1>1, <1>2, ResultSetsAssumption
  <2>2. leaked' \subseteq opened' /\ opened' \subseteq Connections
    BY <1>1, <1>2 DEF IInv, TypeOK, Fresh
  <2> QED
    BY <2>1, <2>2, Zenon DEF IInv, TypeOK
<1>4. Holding' /\ Closed' /\ NoStatementLeftBehind' /\ Position'
  BY DEF IInv, Holding, Closed, NoStatementLeftBehind, Position
<1>5. Held = {} /\ Held' = {} /\ pool = <<>>
  <2>1. pool = <<>> /\ \A c \in Clients : pc[c] = "idle"
    BY DEF IInv, Closed
  <2>2. \A c \in Clients : db[c] = NoConnection
    BY <2>1 DEF IInv, Holding
  <2> QED
    BY <2>1, <2>2 DEF Held
<1>6. opened' \ leaked' = ToSet(pool')
  BY <1>1, <1>2, <1>5 DEF IInv, DedicatedConnections, ToSet, TypeOK, Fresh
<1>7. \A i, j \in DOMAIN pool' : pool'[i] = pool'[j] => i = j
  BY <1>1 DEF IsInjective
<1>8. DedicatedConnections'
  BY <1>5, <1>6, <1>7 DEF IInv, DedicatedConnections, Held
<1> QED
  BY <1>3, <1>4, <1>8 DEF IInv

LEMMA OpenPoolFailsKeeps == ASSUME IInv, OpenPoolFails PROVE IInv'
<1> USE DEF OpenPoolFails, select, CanFail
<1>1. TypeOK'
  BY ResultSetsAssumption DEF IInv, TypeOK, Fresh
<1>2. Holding' /\ Closed' /\ NoStatementLeftBehind' /\ Position'
  BY DEF IInv, Holding, Closed, NoStatementLeftBehind, Position
<1>3. DedicatedConnections'
  BY DEF IInv, DedicatedConnections, Held, Fresh, TypeOK
<1> QED
  BY <1>1, <1>2, <1>3 DEF IInv

LEMMA ClosePoolKeeps == ASSUME IInv, ClosePool PROVE IInv'
<1> USE DEF ClosePool, select
<1>1. Held = {} /\ Held' = {}
  BY DEF IInv, Holding, Held
<1>2. opened \ leaked = ToSet(pool) /\ ToSet(pool') = {}
  BY <1>1 DEF IInv, DedicatedConnections, ToSet
<1>3. TypeOK'
  <2>1. pool' \in Seq(Connections) /\ Len(pool') <= Capacity
    BY ResultSetsAssumption
  <2>2. leaked' \subseteq opened' /\ opened' \subseteq Connections
    BY <1>2 DEF IInv, TypeOK, DedicatedConnections
  <2> QED
    BY <2>1, <2>2, Zenon DEF IInv, TypeOK
<1>4. Holding' /\ Closed' /\ NoStatementLeftBehind' /\ Position'
  BY DEF IInv, Holding, Closed, NoStatementLeftBehind, Position
<1>5. DedicatedConnections'
  BY <1>1, <1>2 DEF IInv, DedicatedConnections, Held, TypeOK
<1> QED
  BY <1>3, <1>4, <1>5 DEF IInv
-----------------------------------------------------------------------------
(* The steps of a client.  Each says first what it does to what is held. *)

LEMMA FrontIsAPrefix ==
    ASSUME NEW S, NEW s \in Seq(S), s # <<>>
    PROVE  /\ Front(s) \in Seq(S) /\ Len(Front(s)) = Len(s) - 1
           /\ \A i \in 1..Len(Front(s)) : Front(s)[i] = s[i]
<1>1. Len(s) \in Nat \ {0} /\ \A i \in 1..(Len(s) - 1) : s[i] \in S
  OBVIOUS
<1> DEFINE t == SubSeq(s, 1, Len(s) - 1)
<1>2. /\ t \in Seq(S)
      /\ Len(t) = IF 1 <= Len(s) - 1 THEN Len(s) - 1 - 1 + 1 ELSE 0
      /\ \A i \in 1..(Len(s) - 1 - 1 + 1) : t[i] = s[1 + i - 1]
  BY <1>1, SubSeqProperties
<1> HIDE DEF t
<1>3. Len(t) = Len(s) - 1
  <2>1. \A n \in Nat \ {0} : (IF 1 <= n - 1 THEN n - 1 - 1 + 1 ELSE 0) = n - 1
    OBVIOUS
  <2> QED
    BY <1>1, <1>2, <2>1
<1>4. Front(s) = t
  BY DEF Front, t
<1> QED
  BY <1>1, <1>2, <1>3, <1>4

LEMMA TakeKeeps == ASSUME IInv, NEW c \in Clients, Take(c) PROVE IInv'
<1> USE DEF Take, GoTo
<1> DEFINE k == Last(pool)
<1>1. /\ pool \in Seq(Connections) /\ Len(pool) \in Nat \ {0} /\ k \in ToSet(pool)
      /\ k = pool[Len(pool)]
  BY DEF IInv, TypeOK, Last, ToSet
<1>2. /\ pool' \in Seq(Connections) /\ Len(pool') = Len(pool) - 1
      /\ \A i \in 1..Len(pool') : pool'[i] = pool[i]
  BY <1>1, FrontIsAPrefix
<1>3. db[c] = NoConnection
  BY DEF IInv, Holding
<1>4. k \in Connections /\ k # NoConnection /\ k \notin Held
  BY <1>1, ResultSetsAssumption DEF IInv, DedicatedConnections
<1>5. Held' = Held \cup {k}
  BY <1>3, <1>4 DEF Held, IInv, TypeOK
<1>6. ToSet(pool') = ToSet(pool) \ {k}
  <2>1. \A i \in DOMAIN pool : pool[i] = k => i = Len(pool)
    BY <1>1 DEF IInv, DedicatedConnections
  <2>2. DOMAIN pool = 1..Len(pool) /\ DOMAIN pool' = 1..(Len(pool) - 1)
    BY <1>1, <1>2
  <2>3. \A i \in DOMAIN pool : i = Len(pool) \/ i \in DOMAIN pool'
    BY <1>1, <2>2
  <2>4. \A i \in DOMAIN pool' : i \in DOMAIN pool /\ pool'[i] = pool[i] /\ i # Len(pool)
    BY <1>1, <1>2, <2>2
  <2> HIDE DEF k
  <2> QED
    BY <1>1, <2>1, <2>3, <2>4, Zenon DEF ToSet
<1>7. TypeOK'
  <2>1. pool' \in Seq(Connections) /\ Len(pool') <= Capacity
    BY <1>1, <1>2, ResultSetsAssumption DEF IInv, TypeOK
  <2>2. db' \in [Clients -> Connections \cup {NoConnection}]
    BY <1>4 DEF IInv, TypeOK
  <2>3. pc' \in [Clients -> {"idle", "open", "prepare", "ready", "return", "close"}]
    BY DEF IInv, TypeOK
  <2> QED
    BY <2>1, <2>2, <2>3, Zenon DEF IInv, TypeOK
<1>8. Holding' /\ Closed' /\ Position'
  BY <1>4 DEF IInv, TypeOK, Holding, Closed, Position
<1>9. NoStatementLeftBehind'
  BY <1>3 DEF IInv, TypeOK, NoStatementLeftBehind, Holding
<1>10. DedicatedConnections'
  <2>1. \A a, b \in Clients : db'[a] = db'[b] /\ db'[a] # NoConnection => a = b
    BY <1>4 DEF IInv, TypeOK, DedicatedConnections, Held
  <2>2. \A i, j \in DOMAIN pool' : pool'[i] = pool'[j] => i = j
    <3>1. \A i \in DOMAIN pool' : i \in DOMAIN pool /\ pool'[i] = pool[i]
      BY <1>1, <1>2
    <3>2. \A i, j \in DOMAIN pool : pool[i] = pool[j] => i = j
      BY DEF IInv, DedicatedConnections
    <3> QED
      BY <3>1, <3>2, Zenon
  <2>3. Held' \cap ToSet(pool') = {} /\ opened' \ leaked' = Held' \cup ToSet(pool')
    BY <1>1, <1>4, <1>5, <1>6 DEF IInv, DedicatedConnections
  <2> QED
    BY <2>1, <2>2, <2>3 DEF DedicatedConnections
<1> QED
  BY <1>7, <1>8, <1>9, <1>10 DEF IInv

\* Steps that leave connections where they are.
LEMMA HeldIsKept ==
    ASSUME IInv, UNCHANGED <<db, pool, opened, leaked>>
    PROVE  DedicatedConnections'
BY DEF IInv, DedicatedConnections, Held

LEMMA TakeNoneKeeps == ASSUME IInv, NEW c \in Clients, TakeNone(c) PROVE IInv'
<1> USE DEF TakeNone, GoTo
<1>1. pc' \in [Clients -> {"idle", "open", "prepare", "ready", "return", "close"}]
  BY DEF IInv, TypeOK
<1>2. TypeOK'
  BY <1>1, Zenon DEF IInv, TypeOK
<1>3. Holding' /\ Closed' /\ NoStatementLeftBehind' /\ Position'
  BY DEF IInv, TypeOK, Holding, Closed, NoStatementLeftBehind, Position
<1> QED
  BY <1>2, <1>3, HeldIsKept DEF IInv

LEMMA OpenConnectionKeeps ==
    ASSUME IInv, NEW c \in Clients, OpenConnection(c) PROVE IInv'
<1> USE DEF OpenConnection, GoTo
<1>1. pc' \in [Clients -> {"idle", "open", "prepare", "ready", "return", "close"}]
  BY DEF IInv, TypeOK
<1>2. up
  BY DEF IInv, Closed
<1>3. CASE GoTo(c, "idle") /\ UNCHANGED <<opened, db>>
  <2>1. TypeOK'
    BY <1>1, <1>3, Zenon DEF IInv, TypeOK
  <2>3. Holding' /\ Closed' /\ NoStatementLeftBehind' /\ Position'
    BY <1>2, <1>3 DEF IInv, TypeOK, Holding, Closed, NoStatementLeftBehind, Position
  <2> QED
    BY <1>3, <2>1, <2>3, HeldIsKept DEF IInv
<1>4. CASE \E k \in Fresh : /\ opened' = opened \cup {k}
                            /\ db' = [db EXCEPT ![c] = k]
                            /\ GoTo(c, "prepare")
  <2>1. PICK k \in Fresh : /\ opened' = opened \cup {k}
                           /\ db' = [db EXCEPT ![c] = k]
                           /\ GoTo(c, "prepare")
    BY <1>4
  <2>2. /\ k \in Connections /\ k # NoConnection /\ k \notin Held
        /\ k \notin ToSet(pool) /\ k \notin leaked
    BY ResultSetsAssumption DEF Fresh, IInv, DedicatedConnections, TypeOK
  <2>3. db[c] = NoConnection
    BY DEF IInv, Holding
  <2>4. Held' = Held \cup {k}
    BY <2>1, <2>2, <2>3 DEF Held, IInv, TypeOK
  <2>5. TypeOK'
    <3>1. leaked' \subseteq opened' /\ opened' \subseteq Connections
      BY <2>1, <2>2 DEF IInv, TypeOK
    <3>2. db' \in [Clients -> Connections \cup {NoConnection}]
      BY <2>1, <2>2 DEF IInv, TypeOK
    <3> QED
      BY <1>1, <3>1, <3>2, Zenon DEF IInv, TypeOK
  <2>6. /\ Holding' /\ Closed' /\ NoStatementLeftBehind' /\ Position'
    <3>1. Holding'
      BY <2>1, <2>2 DEF IInv, TypeOK, Holding
    <3>2. Closed' /\ Position'
      BY <1>2, <2>1 DEF IInv, TypeOK, Closed, Position
    <3>3. NoStatementLeftBehind'
      BY <2>1, <2>3 DEF IInv, TypeOK, NoStatementLeftBehind
    <3> QED
      BY <3>1, <3>2, <3>3
  <2>7. DedicatedConnections'
    <3>1. \A a, b \in Clients : db'[a] = db'[b] /\ db'[a] # NoConnection => a = b
      BY <2>1, <2>2 DEF IInv, TypeOK, DedicatedConnections, Held
    <3> QED
      BY <2>1, <2>2, <2>4, <3>1 DEF IInv, DedicatedConnections
  <2> QED
    BY <2>5, <2>6, <2>7 DEF IInv
<1> QED
  BY <1>3, <1>4
\* The client that has a connection is the only one, and it is open.
LEMMA HeldByOne ==
    ASSUME IInv, NEW c \in Clients,
           pc[c] \in {"prepare", "ready", "return", "close"}
    PROVE  /\ up /\ db[c] \in Connections /\ db[c] # NoConnection /\ db[c] \in Held
           /\ \A d \in Clients : db[d] = db[c] => d = c
           /\ pc[c] # "ready" => stmt[db[c]] = "none"
<1>1. db[c] # NoConnection /\ db[c] \in Connections /\ db[c] \in Held /\ up
  BY DEF IInv, TypeOK, Holding, Closed, Held
<1>2. \A d \in Clients : db[d] = db[c] => d = c
  BY <1>1 DEF IInv, DedicatedConnections
<1>3. pc[c] # "ready" => stmt[db[c]] = "none"
  BY <1>1, <1>2 DEF IInv, NoStatementLeftBehind
<1> QED
  BY <1>1, <1>2, <1>3

LEMMA PrepareKeeps == ASSUME IInv, NEW c \in Clients, Prepare(c) PROVE IInv'
<1> USE DEF Prepare, GoTo
<1>1. db[c] \in Connections /\ \A d \in Clients : db[d] = db[c] => d = c
  BY HeldByOne
<1>2. TypeOK'
  <2>1. /\ pc' \in [Clients -> {"idle", "open", "prepare", "ready", "return", "close"}]
        /\ stmt' \in [Connections -> {"none", "prepared", "active", "failed"}]
    BY DEF IInv, TypeOK
  <2>2. size' \in [Clients -> 0..MaxRows] /\ at' \in [Clients -> 0..MaxRows]
    BY ResultSetsAssumption DEF IInv, TypeOK
  <2>3. <<>> \in Seq(1..MaxRows)
    OBVIOUS
  <2>4. given' \in [Clients -> Seq(1..MaxRows)]
    BY <2>3, Zenon DEF IInv, TypeOK
  <2>5. consumed' \in [Clients -> BOOLEAN]
    BY Zenon DEF IInv, TypeOK
  <2> QED
    BY <2>1, <2>2, <2>4, <2>5, Zenon DEF IInv, TypeOK
<1>3. Holding' /\ Closed'
  BY HeldByOne DEF IInv, TypeOK, Holding, Closed
<1>4. NoStatementLeftBehind'
  BY <1>1 DEF IInv, TypeOK, NoStatementLeftBehind
<1>5. Position'
  <2>1. at'[c] <= size'[c] /\ ~consumed'[c] /\ at'[c] = 0 /\ given'[c] = <<>>
    BY DEF IInv, TypeOK
  <2>2. <<>> = [i \in 1..0 |-> i]
    OBVIOUS
  <2> QED
    BY <2>1, <2>2 DEF IInv, TypeOK, Position
<1> QED
  BY <1>2, <1>3, <1>4, <1>5, HeldIsKept DEF IInv

LEMMA PrepareFailsKeeps == ASSUME IInv, NEW c \in Clients, PrepareFails(c) PROVE IInv'
<1> USE DEF PrepareFails, GoTo
<1>1. pc' \in [Clients -> {"idle", "open", "prepare", "ready", "return", "close"}]
  BY DEF IInv, TypeOK
<1>2. TypeOK'
  BY <1>1, Zenon DEF IInv, TypeOK
<1>3. Holding' /\ Closed' /\ NoStatementLeftBehind' /\ Position'
  BY HeldByOne DEF IInv, TypeOK, Holding, Closed, NoStatementLeftBehind, Position
<1> QED
  BY <1>2, <1>3, HeldIsKept DEF IInv

LEMMA NextKeeps == ASSUME IInv, NEW c \in Clients, Next(c) PROVE IInv'
<1> USE DEF Next
<1>1. db[c] \in Connections /\ \A d \in Clients : db[d] = db[c] => d = c
  BY HeldByOne
<1>2. /\ at[c] \in 0..size[c] /\ size[c] \in 0..MaxRows
      /\ given[c] = [i \in 1..at[c] |-> i]
  BY ResultSetsAssumption DEF IInv, TypeOK, Position
<1>3. Holding' /\ Closed'
  BY DEF IInv, TypeOK, Holding, Closed
<1>4. /\ NoStatementLeftBehind'
      /\ stmt' \in [Connections -> {"none", "prepared", "active", "failed"}]
  <2>1. \E x \in {"prepared", "active", "failed"} : stmt' = [stmt EXCEPT ![db[c]] = x]
    BY DEF StepRow, StepDone, StepFails
  <2> QED
    BY <1>1, <2>1 DEF IInv, TypeOK, NoStatementLeftBehind
<1>5. CASE StepRow(c)
  <2> USE DEF StepRow
  <2>1. at' \in [Clients -> 0..MaxRows] /\ at'[c] = at[c] + 1 /\ at'[c] <= size[c]
    BY <1>2, <1>5, ResultSetsAssumption DEF IInv, TypeOK
  <2>2. given'[c] = Append([i \in 1..at[c] |-> i], at[c] + 1)
    BY <1>2, <1>5, <2>1 DEF IInv, TypeOK
  <2>3. given'[c] = [i \in 1..(at[c] + 1) |-> i]
    BY <1>2, <2>2
  <2>4. given' \in [Clients -> Seq(1..MaxRows)]
    BY <1>2, <1>5, <2>1, ResultSetsAssumption DEF IInv, TypeOK
  <2>5. TypeOK'
    BY <1>4, <1>5, <2>1, <2>4, Zenon DEF IInv, TypeOK
  <2>6. Position'
    <3>1. given'[c] = [i \in 1..at'[c] |-> i] /\ ~consumed'[c] /\ at'[c] <= size'[c]
      BY <1>5, <2>1, <2>3
    <3>2. \A d \in Clients \ {c} : at'[d] = at[d] /\ given'[d] = given[d]
      BY <1>5 DEF IInv, TypeOK
    <3> QED
      BY <1>5, <3>1, <3>2, Zenon DEF IInv, Position
  <2> QED
    BY <1>3, <1>4, <1>5, <2>5, <2>6, HeldIsKept DEF IInv
<1>6. CASE StepDone(c)
  <2> USE DEF StepDone
  <2>1. at' \in [Clients -> 0..MaxRows]
    BY <1>6, ResultSetsAssumption DEF IInv, TypeOK
  <2>2. consumed' \in [Clients -> BOOLEAN]
    BY <1>6, Zenon DEF IInv, TypeOK
  <2>3. TypeOK'
    BY <1>4, <1>6, <2>1, <2>2, Zenon DEF IInv, TypeOK
  <2>4. Position'
    BY <1>2, <1>6 DEF IInv, TypeOK, Position
  <2> QED
    BY <1>3, <1>4, <1>6, <2>3, <2>4, HeldIsKept DEF IInv
<1>7. CASE StepFails(c)
  <2> USE DEF StepFails, CanFail
  <2>1. at' \in [Clients -> 0..MaxRows] /\ failures' \in 0..MaxFailures
    BY <1>7, ResultSetsAssumption DEF IInv, TypeOK
  <2>2. <<>> \in Seq(1..MaxRows) /\ <<>> = [i \in 1..0 |-> i]
    OBVIOUS
  <2>3. given' \in [Clients -> Seq(1..MaxRows)]
    BY <1>7, <2>2, Zenon DEF IInv, TypeOK
  <2>4. TypeOK'
    BY <1>4, <1>7, <2>1, <2>3, Zenon DEF IInv, TypeOK
  <2>5. Position'
    <3>1. /\ given'[c] = [i \in 1..at'[c] |-> i] /\ ~consumed'[c]
          /\ at'[c] <= size'[c]
      BY <1>2, <1>7, <2>2 DEF IInv, TypeOK
    <3>2. \A d \in Clients \ {c} : at'[d] = at[d] /\ given'[d] = given[d]
      BY <1>7 DEF IInv, TypeOK
    <3> QED
      BY <1>7, <3>1, <3>2, Zenon DEF IInv, Position
  <2> QED
    BY <1>3, <1>4, <1>7, <2>4, <2>5, HeldIsKept DEF IInv
<1> QED
  BY <1>5, <1>6, <1>7
LEMMA FinalizeKeeps == ASSUME IInv, NEW c \in Clients, Finalize(c) PROVE IInv'
<1> USE DEF Finalize, GoTo
<1>1. /\ pc' \in [Clients -> {"idle", "open", "prepare", "ready", "return", "close"}]
      /\ stmt' \in [Connections -> {"none", "prepared", "active", "failed"}]
  BY DEF IInv, TypeOK
<1>2. TypeOK'
  BY <1>1, Zenon DEF IInv, TypeOK
<1>3. Holding' /\ Closed' /\ Position'
  BY HeldByOne DEF IInv, TypeOK, Holding, Closed, Position
<1>4. NoStatementLeftBehind'
  BY HeldByOne DEF IInv, TypeOK, NoStatementLeftBehind
<1> QED
  BY <1>2, <1>3, <1>4, HeldIsKept DEF IInv

\* A client that gives its connection up holds no other.
LEMMA GivenUp ==
    ASSUME IInv, NEW c \in Clients, pc[c] \in {"return", "close"},
           db' = [db EXCEPT ![c] = NoConnection], GoTo(c, "idle")
    PROVE  /\ Held' = Held \ {db[c]}
           /\ \A a, b \in Clients : db'[a] = db'[b] /\ db'[a] # NoConnection => a = b
           /\ db' \in [Clients -> Connections \cup {NoConnection}]
           /\ pc' \in [Clients -> {"idle", "open", "prepare", "ready", "return",
                 "close"}]
           /\ Holding'
           /\ stmt' = stmt => NoStatementLeftBehind'
           /\ UNCHANGED <<consumed, size, at, given>> => Position'
<1> USE DEF GoTo
<1>1. /\ db' \in [Clients -> Connections \cup {NoConnection}]
      /\ pc' \in [Clients -> {"idle", "open", "prepare", "ready", "return", "close"}]
      /\ \A d \in Clients \ {c} : db'[d] = db[d] /\ pc'[d] = pc[d]
      /\ db'[c] = NoConnection /\ pc'[c] = "idle"
  BY DEF IInv, TypeOK
<1>2. Held' = Held \ {db[c]}
  BY <1>1, HeldByOne DEF Held
<1>3. \A a, b \in Clients : db'[a] = db'[b] /\ db'[a] # NoConnection => a = b
  BY <1>1 DEF IInv, DedicatedConnections
<1>4. Holding'
  BY <1>1 DEF IInv, Holding
<1>5. stmt' = stmt => NoStatementLeftBehind'
  BY <1>1 DEF IInv, NoStatementLeftBehind
<1>6. UNCHANGED <<consumed, size, at, given>> => Position'
  <2> SUFFICES ASSUME UNCHANGED <<consumed, size, at, given>>,
                      NEW d \in Clients, pc'[d] = "ready"
               PROVE  /\ at[d] <= size[d]
                      /\ given[d] = [i \in 1..(IF consumed[d] THEN size[d] ELSE at[d]) |-> i]
    BY DEF Position
  <2>1. pc[d] = "ready"
    BY <1>1
  <2> QED
    BY <2>1, Zenon DEF IInv, Position
<1> QED
  BY <1>1, <1>2, <1>3, <1>4, <1>5, <1>6

LEMMA ReturnKeeps == ASSUME IInv, NEW c \in Clients, Return(c) PROVE IInv'
<1> USE DEF Return
<1>1. up /\ db[c] \in Connections /\ db[c] \in Held
  BY HeldByOne
<1>2. CASE /\ HasRoom
           /\ pool' = Append(pool, db[c])
           /\ db' = [db EXCEPT ![c] = NoConnection]
           /\ GoTo(c, "idle")
  <2>1. /\ pool' \in Seq(Connections) /\ Len(pool') = Len(pool) + 1
        /\ pool'[Len(pool) + 1] = db[c]
        /\ \A i \in 1..Len(pool) : pool'[i] = pool[i]
    BY <1>1, <1>2 DEF IInv, TypeOK
  <2>2. Len(pool') <= Capacity
    BY <1>2, <2>1, ResultSetsAssumption DEF HasRoom, IInv, TypeOK
  <2>3. ToSet(pool') = ToSet(pool) \cup {db[c]}
    <3>1. /\ DOMAIN pool' = 1..(Len(pool) + 1) /\ DOMAIN pool = 1..Len(pool)
          /\ Len(pool) \in Nat
      BY <2>1 DEF IInv, TypeOK
    <3>2. \A i \in DOMAIN pool' : i \in DOMAIN pool \/ i = Len(pool) + 1
      BY <3>1
    <3> QED
      BY <2>1, <3>1, <3>2 DEF ToSet
  <2>4. TypeOK'
    BY <1>2, <2>1, <2>2, GivenUp, Zenon DEF IInv, TypeOK
  <2>5. Closed'
    BY <1>1 DEF Closed
  <2>6. \A i, j \in DOMAIN pool' : pool'[i] = pool'[j] => i = j
    <3>1. \A i \in 1..Len(pool) : pool'[i] # db[c]
      BY <1>1, <2>1 DEF IInv, DedicatedConnections, ToSet, TypeOK
    <3>2. DOMAIN pool' = 1..(Len(pool) + 1) /\ DOMAIN pool = 1..Len(pool) /\ Len(pool) \in Nat
      BY <2>1 DEF IInv, TypeOK
    <3> QED
      BY <2>1, <3>1, <3>2 DEF IInv, DedicatedConnections
  <2>7. DedicatedConnections'
    <3>1. /\ Held' = Held \ {db[c]}
          /\ \A a, b \in Clients : db'[a] = db'[b] /\ db'[a] # NoConnection => a = b
      BY <1>2, GivenUp
    <3>2. Held' \cap ToSet(pool') = {} /\ opened' \ leaked' = Held' \cup ToSet(pool')
      BY <1>1, <2>3, <3>1 DEF IInv, DedicatedConnections
    <3> QED
      BY <2>6, <3>1, <3>2, Zenon DEF DedicatedConnections
  <2> QED
    BY <1>2, <2>4, <2>5, <2>7, GivenUp DEF IInv
<1>3. CASE GoTo(c, "close") /\ UNCHANGED <<pool, db>>
  <2> USE <1>3 DEF GoTo
  <2>1. pc' \in [Clients -> {"idle", "open", "prepare", "ready", "return", "close"}]
    BY DEF IInv, TypeOK
  <2>2. TypeOK'
    BY <2>1, Zenon DEF IInv, TypeOK
  <2>3. Holding' /\ Closed' /\ NoStatementLeftBehind' /\ Position'
    BY <1>1 DEF IInv, TypeOK, Holding, Closed, NoStatementLeftBehind, Position
  <2> QED
    BY <2>2, <2>3, HeldIsKept DEF IInv
<1> QED
  BY <1>2, <1>3

LEMMA CloseConnectionKeeps ==
    ASSUME IInv, NEW c \in Clients, CloseConnection(c) PROVE IInv'
<1> USE DEF CloseConnection
<1>1. up /\ db[c] \in Connections /\ db[c] \in Held
  BY HeldByOne
<1>2. db[c] \notin leaked /\ db[c] \notin ToSet(pool)
  BY <1>1 DEF IInv, DedicatedConnections
<1>3. TypeOK'
  <2>1. leaked' \subseteq opened' /\ opened' \subseteq Connections
    BY <1>2 DEF IInv, TypeOK
  <2> QED
    BY <2>1, GivenUp, Zenon DEF IInv, TypeOK
<1>4. Closed'
  BY <1>1 DEF Closed
<1>5. DedicatedConnections'
  <2>1. /\ Held' = Held \ {db[c]}
        /\ \A a, b \in Clients : db'[a] = db'[b] /\ db'[a] # NoConnection => a = b
    BY GivenUp
  <2>2. ToSet(pool') = ToSet(pool)
    BY DEF ToSet
  <2>3. Held' \cap ToSet(pool') = {} /\ opened' \ leaked' = Held' \cup ToSet(pool')
    BY <1>1, <1>2, <2>1, <2>2 DEF IInv, DedicatedConnections
  <2>4. \A i, j \in DOMAIN pool' : pool'[i] = pool'[j] => i = j
    BY DEF IInv, DedicatedConnections
  <2> QED
    BY <2>1, <2>3, <2>4, Zenon DEF DedicatedConnections
<1> QED
  BY <1>3, <1>4, <1>5, GivenUp DEF IInv

-----------------------------------------------------------------------------
LEMMA StepKeeps == IInv /\ [Step]_vars => IInv'
<1> SUFFICES ASSUME IInv, [Step]_vars PROVE IInv'
  OBVIOUS
<1>1. CASE UNCHANGED vars
  <2>1. TypeOK'
    BY <1>1, Zenon DEF IInv, TypeOK, vars, select
  <2>2. Holding' /\ Closed' /\ NoStatementLeftBehind' /\ Position'
    BY <1>1, Zenon DEF IInv, Holding, Closed, NoStatementLeftBehind, Position, vars, select
  <2> QED
    BY <1>1, <2>1, <2>2, HeldIsKept DEF IInv, vars, select
<1>2. CASE OpenPool \/ OpenPoolFails \/ ClosePool
  BY <1>2, OpenPoolKeeps, OpenPoolFailsKeeps, ClosePoolKeeps
<1>3. ASSUME NEW c \in Clients,
             \/ Take(c) \/ TakeNone(c) \/ OpenConnection(c)
             \/ Prepare(c) \/ PrepareFails(c) \/ Next(c)
             \/ Finalize(c) \/ Return(c) \/ CloseConnection(c)
      PROVE  IInv'
  BY <1>3, TakeKeeps, TakeNoneKeeps, OpenConnectionKeeps, PrepareKeeps,
     PrepareFailsKeeps, NextKeeps, FinalizeKeeps, ReturnKeeps, CloseConnectionKeeps
<1> QED
  BY <1>1, <1>2, <1>3 DEF Step

LEMMA Invariance == Spec => []IInv
BY InitEstablishes, StepKeeps, PTL DEF Spec

\* No connection is ever held twice, or held and in the pool, or in it twice, and
\* none is lost, whatever clients of ObjectPool take, open, return and close.
THEOREM ConnectionsAreDedicated == Spec => []DedicatedConnections
<1>1. IInv => DedicatedConnections
  BY DEF IInv
<1> QED
  BY <1>1, Invariance, PTL

\* Whenever a connection goes back to the pool or is closed, its statement is
\* finalized, in whatever state ResultSetImpl left it.
THEOREM StatementsAreFinalized == Spec => []NoStatementLeftBehind
<1>1. IInv => NoStatementLeftBehind
  BY DEF IInv
<1> QED
  BY <1>1, Invariance, PTL

\* ResultSetImpl::Next gives each row once, in order, and none after the last.
THEOREM RowsAreGivenOnce == Spec => []RowsOnce
<1>1. IInv => RowsOnce
  <2> SUFFICES ASSUME IInv, NEW c \in Clients, pc[c] = "ready"
               PROVE  /\ given[c] = [i \in DOMAIN given[c] |-> i]
                      /\ consumed[c] => Len(given[c]) = size[c]
    BY DEF RowsOnce
  <2> DEFINE n == IF consumed[c] THEN size[c] ELSE at[c]
  <2>1. given[c] = [i \in 1..n |-> i] /\ n \in Nat
    BY ResultSetsAssumption DEF IInv, Position, TypeOK
  <2> HIDE DEF n
  <2>2. DOMAIN given[c] = 1..n /\ Len(given[c]) = n
    BY <2>1
  <2> QED
    BY <2>1, <2>2 DEF n
<1> QED
  BY <1>1, Invariance, PTL

-----------------------------------------------------------------------------
(* The wrappers. *)

Objects ==
    /\ made \in Nat
    /\ DOMAIN value = DOMAIN opaque
    /\ \A v \in DOMAIN opaque : opaque[v] \in 0..made
    /\ DOMAIN heap \subseteq 1..made

Statuses == statuses = IF error.at = "status" THEN 1 ELSE 0

WrapperInv == Objects /\ Statuses /\ HandlesAreOwned /\ ObjectsAreValues

LEMMA WrapperInit == ApiInit => WrapperInv
BY DEF ApiInit, WrapperInv, Objects, Statuses, HandlesAreOwned,
   ObjectsAreValues, NoError

-----------------------------------------------------------------------------
(* The steps, by what they do to the handles. *)

\* An exception under way changes no handle.
LEMMA ExceptionKeeps ==
    ASSUME WrapperInv,
           \/ TranslateExceptions \/ ThrowOnError \/ Handle
           \/ CallFails \/ NextOrSetTypeFails
    PROVE  WrapperInv'
<1> USE DEF TranslateExceptions, ThrowOnError, Handle, CallFails,
            NextOrSetTypeFails, Raise, NoError
<1>1. UNCHANGED <<kind, opaque, heap, made, value>>
  OBVIOUS
<1>2. Objects' /\ ObjectsAreValues'
  BY <1>1 DEF WrapperInv, Objects, ObjectsAreValues
<1>3. Statuses'
  BY DEF WrapperInv, Statuses
<1>4. HandlesAreOwned'
  BY <1>1, <1>3 DEF WrapperInv, HandlesAreOwned, Statuses
<1> QED
  BY <1>2, <1>3, <1>4 DEF WrapperInv

\* So does a call that fails before it makes anything.
LEMMA RefusalKeeps ==
    ASSUME WrapperInv, NEW v, NEW w,
           ConstructFails(v) \/ CopyAssignBufferFails(v, w)
    PROVE  WrapperInv'
<1> USE DEF ConstructFails, CopyAssignBufferFails, Calling, Assigns,
            Raise, NoError
<1>1. UNCHANGED <<kind, opaque, heap, made, value>> /\ Statuses'
  BY DEF WrapperInv, Statuses
<1>2. Objects' /\ ObjectsAreValues'
  BY <1>1 DEF WrapperInv, Objects, ObjectsAreValues
<1>3. HandlesAreOwned'
  BY <1>1 DEF WrapperInv, HandlesAreOwned, Statuses
<1> QED
  BY <1>1, <1>2, <1>3 DEF WrapperInv

\* A new object gets a new handle.
LEMMA NewHandleIsOwned ==
    ASSUME WrapperInv, NEW v, v \notin DOMAIN opaque,
           opaque' = With(opaque, v, NewHandle),
           DOMAIN heap' = DOMAIN heap \cup {NewHandle}, kind' = kind, statuses' = 0
    PROVE  HandlesAreOwned'
<1>1. /\ DOMAIN opaque' = DOMAIN opaque \cup {v} /\ opaque'[v] = NewHandle
      /\ \A x \in DOMAIN opaque : opaque'[x] = opaque[x]
  BY DEF With
<1>2. /\ NewHandle # Null /\ NewHandle \notin DOMAIN heap
      /\ \A x \in DOMAIN opaque : opaque[x] # NewHandle
  BY DEF WrapperInv, Objects, NewHandle, Null
<1>3. \A x \in DOMAIN opaque' :
         /\ opaque'[x] \in DOMAIN heap' \/ (kind' # "Buffer" /\ opaque'[x] = Null)
         /\ \A y \in DOMAIN opaque' \ {x} :
               opaque'[x] = opaque'[y] => opaque'[x] = Null
  BY <1>1, <1>2 DEF WrapperInv, HandlesAreOwned
<1>4. {opaque'[x] : x \in DOMAIN opaque'} \ {Null}
         = ({opaque[x] : x \in DOMAIN opaque} \ {Null}) \cup {NewHandle}
  BY <1>1, <1>2
<1>5. kind' # "IndexInfo" =>
        DOMAIN heap' = {opaque'[x] : x \in DOMAIN opaque'} \ {Null}
  BY <1>4 DEF WrapperInv, HandlesAreOwned
<1> QED
  BY <1>3, <1>5 DEF HandlesAreOwned

LEMMA MakingKeeps ==
    ASSUME WrapperInv, NEW v, NEW w,
           Construct(v) \/ CopyConstruct(v, w)
    PROVE  WrapperInv'
<1> USE DEF Construct, CopyConstruct, Make, NoStatus
<1>1. Objects'
  BY DEF WrapperInv, Objects, NewHandle, With
<1>2. Statuses' /\ statuses' = 0
  BY DEF WrapperInv, Statuses, Calling, NoError
<1>3. /\ v \notin DOMAIN opaque /\ opaque' = With(opaque, v, NewHandle)
      /\ kind' = kind
      /\ DOMAIN heap' = DOMAIN heap \cup {NewHandle}
  BY DEF With
<1>4. HandlesAreOwned'
  BY <1>2, <1>3, NewHandleIsOwned
<1>5. ObjectsAreValues'
  BY DEF WrapperInv, Objects, HandlesAreOwned, ObjectsAreValues, NewHandle,
     With, Null
<1> QED
  BY <1>1, <1>2, <1>4, <1>5 DEF WrapperInv

\* An IndexInfo that does not come about leaves a handle that nobody has.
LEMMA CopyUntypedKeeps ==
    ASSUME WrapperInv, NEW v, NEW w,
           CopyUntyped(v, w)
    PROVE  WrapperInv'
<1> USE DEF CopyUntyped, Make, NewHandle, With, Calling,
            NoError, NoStatus, Null
<1>1. Objects'
  BY DEF WrapperInv, Objects
<1>2. Statuses'
  BY DEF WrapperInv, Statuses
<1>3. HandlesAreOwned'
  BY DEF WrapperInv, Objects, Statuses, HandlesAreOwned
<1>4. ObjectsAreValues'
  BY DEF WrapperInv, Objects, HandlesAreOwned, ObjectsAreValues
<1> QED
  BY <1>1, <1>2, <1>3, <1>4 DEF WrapperInv

\* A move takes the handle along, and leaves none or a new one.
LEMMA MoveConstructKeeps ==
    ASSUME WrapperInv, NEW v, NEW w,
           MoveConstruct(v, w) \/ MoveConstructBuffer(v, w)
    PROVE  WrapperInv'
<1> USE DEF MoveConstruct, MoveConstructBuffer, Make, NewHandle,
            With, Moved, Calling, NoError, NoStatus, Null
<1>1. Objects'
  BY DEF WrapperInv, Objects
<1>2. Statuses'
  BY DEF WrapperInv, Statuses
<1>3. HandlesAreOwned'
  BY DEF WrapperInv, Objects, Statuses, HandlesAreOwned
<1>4. ObjectsAreValues'
  BY DEF WrapperInv, Objects, HandlesAreOwned, ObjectsAreValues
<1> QED
  BY <1>1, <1>2, <1>3, <1>4 DEF WrapperInv

\* A copy is assigned under a new handle, or into the object that is there.
LEMMA CopyAssignKeeps ==
    ASSUME WrapperInv, NEW v, NEW w,
           CopyAssignOptions(v, w) \/ CopyAssignBuffer(v, w) \/
           CopyAssignIndexInfo(v, w)
    PROVE  WrapperInv'
<1> USE DEF CopyAssignOptions, CopyAssignBuffer, CopyAssignIndexInfo,
            Assigns, Make, NewHandle, With, Without, Default,
            Calling, NoError, NoStatus, Null
<1>1. Objects'
  BY DEF WrapperInv, Objects
<1>2. Statuses'
  BY DEF WrapperInv, Statuses
<1>3. HandlesAreOwned'
  <2>1. CASE CopyAssignOptions(v, w)
    BY <2>1 DEF WrapperInv, Objects, Statuses, HandlesAreOwned
  <2>2. CASE CopyAssignBuffer(v, w)
    BY <2>2 DEF WrapperInv, Objects, Statuses, HandlesAreOwned
  <2>3. CASE CopyAssignIndexInfo(v, w)
    BY <2>3 DEF WrapperInv, Objects, Statuses, HandlesAreOwned
  <2> QED
    BY <2>1, <2>2, <2>3
<1>4. ObjectsAreValues'
  <2>1. CASE CopyAssignOptions(v, w)
    BY <2>1 DEF WrapperInv, Objects, HandlesAreOwned, ObjectsAreValues
  <2>2. CASE CopyAssignBuffer(v, w)
    BY <2>2 DEF WrapperInv, Objects, HandlesAreOwned, ObjectsAreValues
  <2>3. CASE CopyAssignIndexInfo(v, w)
    BY <2>3 DEF WrapperInv, Objects, HandlesAreOwned, ObjectsAreValues
  <2> QED
    BY <2>1, <2>2, <2>3
<1> QED
  BY <1>1, <1>2, <1>3, <1>4 DEF WrapperInv

\* A move assigns the handle, and swaps, loses or destructs the one it had.
LEMMA MoveAssignKeeps ==
    ASSUME WrapperInv, NEW v, NEW w,
           MoveAssign(v, w) \/ MoveAssignIndexInfo(v, w) \/
           MoveAssignResultSet(v, w)
    PROVE  WrapperInv'
<1> USE DEF MoveAssign, MoveAssignIndexInfo, MoveAssignResultSet,
            Assigns, Without, Moved, Calling, NoError,
            NoStatus, Null
<1>1. Objects'
  BY DEF WrapperInv, Objects
<1>2. Statuses'
  BY DEF WrapperInv, Statuses
<1>3. HandlesAreOwned'
  BY DEF WrapperInv, Objects, Statuses, HandlesAreOwned
<1>4. ObjectsAreValues'
  BY DEF WrapperInv, Objects, HandlesAreOwned, ObjectsAreValues
<1> QED
  BY <1>1, <1>2, <1>3, <1>4 DEF WrapperInv

\* Setters, closing and destruction.
LEMMA MemberKeeps ==
    ASSUME WrapperInv, NEW v,
           Set(v) \/ Close(v) \/ Destruct(v)
    PROVE  WrapperInv'
<1> USE DEF Set, Close, Destruct, Without, Moved, Calling,
            NoError, NoStatus, Null
<1>1. Objects'
  BY DEF WrapperInv, Objects
<1>2. Statuses'
  BY DEF WrapperInv, Statuses
<1>3. HandlesAreOwned'
  BY DEF WrapperInv, Objects, Statuses, HandlesAreOwned
<1>4. ObjectsAreValues'
  BY DEF WrapperInv, Objects, HandlesAreOwned, ObjectsAreValues
<1> QED
  BY <1>1, <1>2, <1>3, <1>4 DEF WrapperInv

-----------------------------------------------------------------------------
LEMMA WrapperNext == WrapperInv /\ [ApiNext]_apiVars => WrapperInv'
<1> SUFFICES ASSUME WrapperInv, [ApiNext]_apiVars PROVE WrapperInv'
  OBVIOUS
<1>1. CASE UNCHANGED apiVars
  BY <1>1 DEF WrapperInv, Objects, Statuses, HandlesAreOwned,
     ObjectsAreValues, apiVars
<1>2. CASE \/ TranslateExceptions \/ ThrowOnError \/ Handle
           \/ CallFails \/ NextOrSetTypeFails
  BY <1>2, ExceptionKeeps
<1>3. ASSUME NEW v \in Vars,
             \/ Construct(v) \/ ConstructFails(v) \/ Destruct(v)
             \/ Set(v) \/ Close(v)
      PROVE  WrapperInv'
  BY <1>3, MakingKeeps, RefusalKeeps, MemberKeeps
<1>4. ASSUME NEW v \in Vars, NEW w \in Vars,
             \/ CopyConstruct(v, w) \/ CopyUntyped(v, w)
             \/ MoveConstruct(v, w) \/ MoveConstructBuffer(v, w)
             \/ CopyAssignOptions(v, w) \/ CopyAssignBuffer(v, w)
             \/ CopyAssignBufferFails(v, w) \/ CopyAssignIndexInfo(v, w)
             \/ MoveAssign(v, w) \/ MoveAssignIndexInfo(v, w)
             \/ MoveAssignResultSet(v, w)
      PROVE  WrapperInv'
  BY <1>4, MakingKeeps, CopyUntypedKeeps, MoveConstructKeeps, CopyAssignKeeps,
     RefusalKeeps, MoveAssignKeeps
<1> QED
  BY <1>1, <1>2, <1>3, <1>4 DEF ApiNext

LEMMA WrapperInvariance == ApiSpec => []WrapperInv
BY WrapperInit, WrapperNext, PTL DEF ApiSpec

\* Whatever was copied, moved, assigned and destructed, and whichever calls failed,
\* no handle of a wrapper is shared or dangling, and none is lost but IndexInfo's.
THEOREM HandlesStayOwned == ApiSpec => []HandlesAreOwned
<1>1. WrapperInv => HandlesAreOwned
  BY DEF WrapperInv
<1> QED
  BY <1>1, WrapperInvariance, PTL

\* Whatever was copied, moved and assigned, a wrapper shows what it was last given.
THEOREM ObjectsStayValues == ApiSpec => []ObjectsAreValues
<1>1. WrapperInv => ObjectsAreValues
  BY DEF WrapperInv
<1> QED
  BY <1>1, WrapperInvariance, PTL
-----------------------------------------------------------------------------
(* Exceptions *)

\* The first thirteen clauses catch a class each of which no other is the base.
LEMMA Subclasses ==
    /\ \A i \in 1..13 : Clauses[i][1] \notin {"JonoonDB", "std::exception", "unknown"}
    /\ \A i, j \in 1..13 : Clauses[i][1] = Clauses[j][1] => i = j
    /\ \A i \in 1..13 : Thrown[Clauses[i][2]] = Clauses[i][1]
    /\ \A type \in JonoonDBTypes \ {"MissingDocument"} :
         \E i \in 1..13 : Clauses[i][1] = type
<1>1. \A i \in 1..13 : Clauses[i][1] \notin {"JonoonDB", "std::exception", "unknown"}
  BY DEF Clauses
<1>2. \A i, j \in 1..13 : Clauses[i][1] = Clauses[j][1] => i = j
  BY DEF Clauses
<1>3. \A i \in 1..13 : Thrown[Clauses[i][2]] = Clauses[i][1]
  BY DEF Clauses, Thrown
<1>4. \A type \in JonoonDBTypes \ {"MissingDocument"} :
         \E i \in 1..13 : Clauses[i][1] = type
  BY DEF Clauses, JonoonDBTypes
<1> QED
  BY <1>1, <1>2, <1>3, <1>4

\* The last three are of the bases.
LEMMA Bases ==
    /\ Clauses[14][1] = "JonoonDB" /\ Clauses[15][1] = "std::exception"
    /\ Clauses[16][1] = "unknown"
    /\ \A i \in 14..16 : Thrown[Clauses[i][2]] = "JonoonDB"
BY DEF Clauses, Thrown

\* The first clause that is of the type's class catches it.
LEMMA FirstClauseCatches ==
    ASSUME NEW type, NEW i \in 1..16, IsA(type, Clauses[i][1]),
           \A j \in 1..(i - 1) : ~IsA(type, Clauses[j][1])
    PROVE  CodeOf(type) = Clauses[i][2]
<1> DEFINE I == {j \in 1..16 : IsA(type, Clauses[j][1])}
<1>1. Len(Clauses) = 16
  BY DEF Clauses
<1>2. i \in I /\ \A j \in I : i <= j
  OBVIOUS
<1> HIDE DEF I
<1>3. Min(I) = i
  <2>1. I \subseteq Int
    BY DEF I
  <2>2. Min(I) \in I /\ \A j \in I : Min(I) <= j
    BY <1>2 DEF Min
  <2>3. Min(I) <= i /\ i <= Min(I) /\ Min(I) \in Int /\ i \in Int
    BY <1>2, <2>1, <2>2
  <2> QED
    BY <2>3
<1>4. SelectInSeq(Clauses, LAMBDA c : IsA(type, c[1])) = i
  BY <1>1, <1>2, <1>3 DEF SelectInSeq, I
<1> QED
  BY <1>4 DEF CodeOf

\* What is thrown comes back as it was, or as the base class.
LEMMA TypesComeBack ==
    ASSUME NEW type \in ExceptionTypes
    PROVE  \/ Thrown[CodeOf(type)] = type
           \/ /\ Thrown[CodeOf(type)] = "JonoonDB"
              /\ type \in {"MissingDocument", "std::exception", "unknown"}
<1>1. CASE type \in JonoonDBTypes \ {"MissingDocument"}
  <2>1. PICK i \in 1..13 : Clauses[i][1] = type
    BY <1>1, Subclasses
  <2>2. \A j \in 1..(i - 1) : ~IsA(type, Clauses[j][1])
    <3> SUFFICES ASSUME NEW j \in 1..(i - 1) PROVE ~IsA(type, Clauses[j][1])
      OBVIOUS
    <3>1. j \in 1..13 /\ j # i
      OBVIOUS
    <3> QED
      BY <2>1, <3>1, Subclasses DEF IsA
  <2>3. CodeOf(type) = Clauses[i][2]
    <3>1. i \in 1..16 /\ IsA(type, Clauses[i][1])
      BY <2>1 DEF IsA
    <3> QED
      BY <2>2, <3>1, FirstClauseCatches
  <2> QED
    BY <2>1, <2>3, Subclasses
<1>2. CASE type \in {"MissingDocument", "JonoonDB", "std::exception", "unknown"}
  <2>1. \A j \in 1..13 : ~IsA(type, Clauses[j][1])
    <3>1. \A j \in 1..13 : Clauses[j][1] # "MissingDocument"
      BY DEF Clauses
    <3>2. \A j \in 1..13 : Clauses[j][1] \notin {"JonoonDB", "std::exception", "unknown"}
      BY Subclasses
    <3> QED
      BY <1>2, <3>1, <3>2 DEF IsA
  <2> DEFINE i == IF type = "unknown" THEN 16 ELSE IF type = "std::exception" THEN 15 ELSE 14
  <2>2. /\ i \in 14..16 /\ i \in 1..16 /\ IsA(type, Clauses[i][1])
        /\ \A j \in 14..(i - 1) : ~IsA(type, Clauses[j][1])
    BY <1>2, Bases DEF IsA, JonoonDBTypes
  <2> HIDE DEF i
  <2>3. \A j \in 1..(i - 1) : j \in 1..13 \/ j \in 14..(i - 1)
    BY <2>2
  <2>4. CodeOf(type) = Clauses[i][2]
    BY <2>1, <2>2, <2>3, FirstClauseCatches
  <2> QED
    BY <1>2, <2>2, <2>4, Bases
<1> QED
  BY <1>1, <1>2 DEF ExceptionTypes

\* The exception under way keeps its type until it is caught.
Passing ==
    /\ error.at \in {"thrown", "status"} => error.type \in ExceptionTypes
    /\ error.at = "status" => error.code = CodeOf(error.type)

\* A caller catches the type that was thrown on the other side of the C interface,
\* wherever it was thrown, translated and thrown again (cdatabase.cc, database.h), or
\* JonoonDBException for the three kinds that have no code of their own.
THEOREM ErrorsArrive == ApiSpec => []ErrorsArriveAsThrown
<1>1. ApiInit => Passing /\ ErrorsArriveAsThrown
  BY DEF ApiInit, NoError, Passing, ErrorsArriveAsThrown
<1>2. Passing /\ ErrorsArriveAsThrown /\ [ApiNext]_apiVars
      => Passing' /\ ErrorsArriveAsThrown'
  <2> SUFFICES ASSUME Passing, ErrorsArriveAsThrown, [ApiNext]_apiVars
               PROVE  Passing' /\ ErrorsArriveAsThrown'
    OBVIOUS
  <2>1. CASE TranslateExceptions
    BY <2>1 DEF TranslateExceptions, Passing, ErrorsArriveAsThrown
  <2>2. CASE ThrowOnError
    <3>1. error.type \in ExceptionTypes /\ error.code = CodeOf(error.type)
      BY <2>2 DEF ThrowOnError, Passing
    <3>2. error' = [at |-> "caught", type |-> error.type, as |-> Thrown[error.code]]
      BY <2>2 DEF ThrowOnError
    <3> QED
      BY <3>1, <3>2, TypesComeBack DEF Passing, ErrorsArriveAsThrown
  <2>3. CASE Handle \/ CallFails \/ NextOrSetTypeFails
    BY <2>3 DEF Handle, CallFails, NextOrSetTypeFails, Raise,
       NoError, Passing, ErrorsArriveAsThrown
  <2>4. ASSUME NEW v \in Vars, ConstructFails(v)
        PROVE  Passing' /\ ErrorsArriveAsThrown'
    BY <2>4 DEF ConstructFails, Raise, ExceptionTypes,
       JonoonDBTypes, Passing, ErrorsArriveAsThrown
  <2>5. ASSUME NEW v \in Vars, NEW w \in Vars,
               \/ CopyUntyped(v, w) \/ CopyAssignBufferFails(v, w)
               \/ CopyAssignIndexInfo(v, w)
        PROVE  Passing' /\ ErrorsArriveAsThrown'
    BY <2>5 DEF CopyUntyped, CopyAssignBufferFails, CopyAssignIndexInfo,
       Raise, ExceptionTypes, Passing, ErrorsArriveAsThrown
  <2>6. CASE UNCHANGED error
    BY <2>6 DEF Passing, ErrorsArriveAsThrown
  <2>7. ASSUME NEW v \in Vars, Construct(v) \/ Destruct(v) \/ Set(v) \/ Close(v)
        PROVE  UNCHANGED error
    BY <2>7 DEF Construct, Destruct, Set, Close, NoStatus
  <2>8. ASSUME NEW v \in Vars, NEW w \in Vars,
               \/ CopyConstruct(v, w) \/ MoveConstruct(v, w) \/ MoveConstructBuffer(v, w)
               \/ CopyAssignOptions(v, w) \/ CopyAssignBuffer(v, w) \/ MoveAssign(v, w)
               \/ MoveAssignIndexInfo(v, w) \/ MoveAssignResultSet(v, w)
        PROVE  UNCHANGED error
    BY <2>8 DEF CopyConstruct, MoveConstruct, MoveConstructBuffer, CopyAssignOptions,
       CopyAssignBuffer, MoveAssign, MoveAssignIndexInfo, MoveAssignResultSet, NoStatus
  <2>9. CASE UNCHANGED apiVars
    BY <2>6, <2>9 DEF apiVars
  <2> QED
    BY <2>1, <2>2, <2>3, <2>4, <2>5, <2>6, <2>7, <2>8, <2>9 DEF ApiNext
<1> QED
  BY <1>1, <1>2, PTL DEF ApiSpec
=============================================================================
