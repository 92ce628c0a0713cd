----------------------------- MODULE ResultSets -----------------------------
(***************************************************************************)
(* SELECT statements of concurrent clients: QueryProcessor::ExecuteSelect  *)
(* takes a connection out of the ObjectPool, ResultSetImpl prepares and    *)
(* steps a statement on it, and the end of the result set finalizes the    *)
(* statement (m_stmt, declared last, goes first) and gives the connection  *)
(* back (m_db).  The pool has a mutex; a connection that it lacks is       *)
(* opened, and one that it has no room for is closed, outside of it.       *)
(*                                                                         *)
(* SQLite is external: a statement in the middle of its rows is active     *)
(* (its read transaction locks the schema of the shared cache against      *)
(* CREATE and DROP), one whose last step failed says so again when it is   *)
(* finalized, and stepping behind the end or behind an error starts anew.  *)
(*                                                                         *)
(* Built without assert(); what the assertions claim is stated as          *)
(* properties.  A client holds one result set at a time, and all are gone  *)
(* before the database is closed: their guards point into its pool.        *)
(***************************************************************************)
EXTENDS Integers, Sequences, FiniteSets, SequencesExt

CONSTANTS
    Clients,      \* threads that select, and the result set each has
    Connections,  \* sqlite3 handles
    InitialSize,  \* m_poolInitialiSize
    Capacity,     \* m_poolCapacity
    MaxRows,      \* bound: rows of a statement
    MaxFailures   \* bound: steps and initial connections that fail

NoConnection == "none"

ASSUME ResultSetsAssumption ==
    /\ IsFiniteSet(Connections) /\ NoConnection \notin Connections
    /\ InitialSize \in Nat /\ Capacity \in Nat \ {0} /\ InitialSize <= Capacity
    /\ MaxRows \in Nat /\ MaxFailures \in Nat

VARIABLES
    up,        \* the QueryProcessor exists
    pool,      \* m_objects, up to m_currentObjectIndex
    opened,    \* connections that are open
    leaked,    \* history: those a constructor that failed has left behind
    stmt,      \* the statement on each connection
    pc,        \* where each client is
    db,        \* m_db
    consumed,  \* m_resultSetConsumed
    size,      \* rows the statement has
    at,        \* row it stands on
    given,     \* history: rows delivered since the statement began or failed
    failures

select == <<pc, db, consumed, size, at, given>>
vars   == <<up, pool, opened, leaked, stmt, select, failures>>

Fresh   == Connections \ opened
CanFail == failures < MaxFailures /\ failures' = failures + 1
GoTo(c, place) == pc' = [pc EXCEPT ![c] = place]

-----------------------------------------------------------------------------
Init ==
    /\ up = FALSE /\ pool = <<>>
    /\ opened = {} /\ leaked = {}
    /\ stmt = [k \in Connections |-> "none"]
    /\ pc = [c \in Clients |-> "idle"]
    /\ db = [c \in Clients |-> NoConnection]
    /\ consumed = [c \in Clients |-> FALSE]
    /\ size = [c \in Clients |-> 0] /\ at = [c \in Clients |-> 0]
    /\ given = [c \in Clients |-> <<>>]
    /\ failures = 0

\* The constructor of the pool.
OpenPool ==
    /\ ~up /\ up' = TRUE
    /\ \E ks \in [1..InitialSize -> Fresh] : IsInjective(ks) /\ pool' = ks
    /\ opened' = opened \cup ToSet(pool')
    /\ UNCHANGED <<leaked, stmt, select, failures>>

\* One of its connections cannot be opened.  The loop that closes the others
\* runs up to m_currentObjectIndex, which is still -1.
OpenPoolFails ==
    /\ ~up
    /\ CanFail
    /\ \E ks \in SUBSET Fresh :
          /\ Cardinality(ks) < InitialSize
          /\ opened' = opened \cup ks /\ leaked' = leaked \cup ks
    /\ UNCHANGED <<up, pool, stmt, select>>

\* The destructor of the pool closes the connections that are in it.
ClosePool ==
    /\ up /\ \A c \in Clients : pc[c] = "idle"
    /\ up' = FALSE
    /\ opened' = opened \ ToSet(pool) /\ pool' = <<>>
    /\ UNCHANGED <<leaked, stmt, select, failures>>

-----------------------------------------------------------------------------
(* ExecuteSelect of client c. *)

\* Mutant: m_currentObjectIndex is not decremented.
TakeAndKeep(c) ==
    /\ up /\ pc[c] = "idle" /\ pool # <<>>
    /\ db' = [db EXCEPT ![c] = Last(pool)]
    /\ GoTo(c, "prepare")
    /\ UNCHANGED <<up, pool, opened, leaked, stmt, consumed, size, at, given,
                   failures>>

\* ObjectPool::Take, under its mutex.
Take(c) ==
    /\ up /\ pc[c] = "idle" /\ pool # <<>>
    /\ db' = [db EXCEPT ![c] = Last(pool)]
    /\ pool' = Front(pool)
    /\ GoTo(c, "prepare")
    /\ UNCHANGED <<up, opened, leaked, stmt, consumed, size, at, given, failures>>

TakeNone(c) ==
    /\ up /\ pc[c] = "idle" /\ pool = <<>>
    /\ GoTo(c, "open")
    /\ UNCHANGED <<up, pool, opened, leaked, stmt, db, consumed, size, at,
                   given, failures>>

\* QueryProcessor::OpenConnection; it may throw.
OpenConnection(c) ==
    /\ pc[c] = "open"
    /\ \/ \E k \in Fresh :
             /\ opened' = opened \cup {k}
             /\ db' = [db EXCEPT ![c] = k]
             /\ GoTo(c, "prepare")
       \/ GoTo(c, "idle") /\ UNCHANGED <<opened, db>>
    /\ UNCHANGED <<up, pool, leaked, stmt, consumed, size, at, given, failures>>

\* The constructor of ResultSetImpl; moving it to the heap changes nothing more,
\* since it has not been stepped.
Prepare(c) ==
    /\ pc[c] = "prepare"
    /\ stmt' = [stmt EXCEPT ![db[c]] = "prepared"]
    /\ \E n \in 0..MaxRows : size' = [size EXCEPT ![c] = n]
    /\ at' = [at EXCEPT ![c] = 0]
    /\ consumed' = [consumed EXCEPT ![c] = FALSE]
    /\ given' = [given EXCEPT ![c] = <<>>]
    /\ GoTo(c, "ready")
    /\ UNCHANGED <<up, pool, opened, leaked, db, failures>>

\* The SQL is wrong; the constructor throws, without a statement.
PrepareFails(c) ==
    /\ pc[c] = "prepare"
    /\ GoTo(c, "return")
    /\ UNCHANGED <<up, pool, opened, leaked, stmt, db, consumed, size, at,
                   given, failures>>

-----------------------------------------------------------------------------
(* Next: sqlite3_step, with its three results. *)

StepRow(c) ==
    /\ at[c] < size[c]
    /\ at' = [at EXCEPT ![c] = @ + 1]
    /\ given' = [given EXCEPT ![c] = Append(@, at'[c])]
    /\ stmt' = [stmt EXCEPT ![db[c]] = "active"]
    /\ UNCHANGED <<consumed, failures>>

StepDone(c) ==
    /\ at[c] = size[c]
    /\ consumed' = [consumed EXCEPT ![c] = TRUE]
    /\ stmt' = [stmt EXCEPT ![db[c]] = "prepared"]
    /\ at' = [at EXCEPT ![c] = 0]
    /\ UNCHANGED <<given, failures>>

\* It throws; the result set can be asked for its next row all the same.
StepFails(c) ==
    /\ CanFail
    /\ stmt' = [stmt EXCEPT ![db[c]] = "failed"]
    /\ at' = [at EXCEPT ![c] = 0]
    /\ given' = [given EXCEPT ![c] = <<>>]
    /\ UNCHANGED consumed

\* Mutant: m_resultSetConsumed is not looked at.
NextUnguarded(c) ==
    /\ pc[c] = "ready"
    /\ StepRow(c) \/ StepDone(c) \/ StepFails(c)
    /\ UNCHANGED <<up, pool, opened, leaked, pc, db, size>>

Next(c) ==
    /\ pc[c] = "ready" /\ ~consumed[c]
    /\ StepRow(c) \/ StepDone(c) \/ StepFails(c)
    /\ UNCHANGED <<up, pool, opened, leaked, pc, db, size>>

-----------------------------------------------------------------------------
(* The end of a result set, on any row or before the first. *)

\* Mutant: the guard of the connection goes before the statement.
FinalizeLast(c) ==
    /\ pc[c] = "ready"
    /\ GoTo(c, "return")
    /\ UNCHANGED <<up, pool, opened, leaked, stmt, db, consumed, size, at,
                   given, failures>>

\* GuardFuncs::SQLite3Finalize
Finalize(c) ==
    /\ pc[c] = "ready"
    /\ stmt' = [stmt EXCEPT ![db[c]] = "none"]
    /\ GoTo(c, "return")
    /\ UNCHANGED <<up, pool, opened, leaked, db, consumed, size, at, given,
                   failures>>

HasRoom == Len(pool) < Capacity

\* ~ObjectPoolGuard: ObjectPool::Return, under its mutex.
Return(c) ==
    /\ pc[c] = "return"
    /\ \/ /\ HasRoom
          /\ pool' = Append(pool, db[c])
          /\ db' = [db EXCEPT ![c] = NoConnection]
          /\ GoTo(c, "idle")
       \/ /\ ~HasRoom
          /\ GoTo(c, "close")
          /\ UNCHANGED <<pool, db>>
    /\ UNCHANGED <<up, opened, leaked, stmt, consumed, size, at, given, failures>>

\* GuardFuncs::SQLite3Close of a connection dropped to the floor.
CloseConnection(c) ==
    /\ pc[c] = "close"
    /\ opened' = opened \ {db[c]}
    /\ db' = [db EXCEPT ![c] = NoConnection]
    /\ GoTo(c, "idle")
    /\ UNCHANGED <<up, pool, leaked, stmt, consumed, size, at, given, failures>>

Step ==
    \/ OpenPool \/ OpenPoolFails \/ ClosePool
    \/ \E c \in Clients :
          \/ Take(c) \/ TakeNone(c) \/ OpenConnection(c)
          \/ Prepare(c) \/ PrepareFails(c) \/ Next(c)
          \/ Finalize(c) \/ Return(c) \/ CloseConnection(c)

Spec == Init /\ [][Step]_vars

-----------------------------------------------------------------------------
Held == {db[c] : c \in Clients} \ {NoConnection}

\* Every variable has its type; the pool never holds more than its capacity.
TypeOK ==
    /\ up \in BOOLEAN
    /\ pool \in Seq(Connections) /\ Len(pool) <= Capacity
    /\ leaked \subseteq opened /\ opened \subseteq Connections
    /\ stmt \in [Connections -> {"none", "prepared", "active", "failed"}]
    /\ pc \in [Clients -> {"idle", "open", "prepare", "ready", "return", "close"}]
    /\ db \in [Clients -> Connections \cup {NoConnection}]
    /\ consumed \in [Clients -> BOOLEAN]
    /\ size \in [Clients -> 0..MaxRows] /\ at \in [Clients -> 0..MaxRows]
    /\ given \in [Clients -> Seq(1..MaxRows)]
    /\ failures \in 0..MaxFailures

\* "each ResultSetImpl has a dedicated sqlite3 connection": no connection is
\* held twice, or held and in the pool, or in the pool twice; and none that is
\* open is lost but those of a constructor that failed.  So it is whatever
\* order concurrent clients take, open, return and close them in.
DedicatedConnections ==
    /\ \A c, d \in Clients : db[c] = db[d] /\ db[c] # NoConnection => c = d
    /\ \A i, j \in DOMAIN pool : pool[i] = pool[j] => i = j
    /\ Held \cap ToSet(pool) = {}
    /\ opened \ leaked = Held \cup ToSet(pool)

\* A connection that goes back to the pool, or is closed, has no statement left:
\* a result set dropped in the middle of its rows, or behind an error, neither
\* keeps the schema locked nor makes sqlite3_close fail (guard_funcs.cc:16).
NoStatementLeftBehind ==
    \A k \in Connections :
        stmt[k] # "none" => \E c \in Clients : db[c] = k /\ pc[c] = "ready"

\* Between errors a result set gives each of its rows once and in order; once
\* it has said that there are no more it gives none, although SQLite would run
\* the statement again.
RowsOnce ==
    \A c \in Clients : pc[c] = "ready" =>
        /\ given[c] = [i \in DOMAIN given[c] |-> i]
        /\ consumed[c] => Len(given[c]) = size[c]

\* "assert(code == SQLITE_OK)", guard_funcs.cc:25: a result set can be ended
\* with its statement in any state but failed.
FinalizeReturnsOk ==
    \A c \in Clients : pc[c] = "ready" => stmt[db[c]] # "failed"
=============================================================================
