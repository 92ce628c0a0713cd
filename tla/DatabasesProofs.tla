-------------------------- MODULE DatabasesProofs --------------------------
(***************************************************************************)
(* Databases of one process, for any number of databases, collections and  *)
(* connections.                                                            *)
(*                                                                         *)
(* StoredWholeOrNotAtAll holds for any databases.  SharedWithTheDatabase   *)
(* needs that the names of the databases in use tell them apart (Apart),   *)
(* for the keys of the dictionary begin with them, and CollectionsAgree    *)
(* that one database is open at a time, for closing one clears the         *)
(* dictionary of all.                                                      *)
(***************************************************************************)
EXTENDS Databases, FiniteSetTheorems, SequenceTheorems, TLAPS

\* Maps from some of S to T.
Maps(S, T) == UNION {[X -> T] : X \in SUBSET S}

ConnStrs == {ConnStr[d] : d \in DBs}

\* Creating a collection, until its table is made.
Creating == {"create", "recorded", "allocating", "mapped", "built"}

CreateCalls ==
    [op : Creating \cup {"added"}, db : DBs, name : Names, col : Collections]

Calls ==
    {Idle, Failed}
    \cup [op : {"open"}, db : DBs, todo : SUBSET Names]
    \cup CreateCalls

\* Only one database is open at a time.
Single == MaxOpen <= 1

\* The names of databases that may be in use together tell them apart.
Apart == Single \/ \A d, e \in DBs : DBName[d] = DBName[e] => d = e

\* Being constructed, or constructed and not yet destroyed.
InUse == open \cup {d \in DBs : call.op = "open" /\ call.db = d}

-----------------------------------------------------------------------------
\* A pool and what is taken from it.
GoodPool(p, t) ==
    /\ p \in Seq(Slots) /\ Len(p) <= PoolCapacity
    /\ IsInjective(p)
    /\ t \in SUBSET (Slots \ {p[i] : i \in DOMAIN p})

\* TypeOK, with the types of the maps and of the call.
Typed ==
    /\ stored \in [DBs -> SUBSET Names]
    /\ parts \in [DBs -> [Names -> SUBSET Parts]]
    /\ open \in SUBSET DBs
    /\ call \in Calls
    /\ container \in [DBs -> Maps(Names, Collections)]
    /\ dictionary \in Maps(Keys, Collections)
    /\ tables \in [ConnStrs -> Maps(Names, Keys)]
    /\ vtabs \in [DBs -> [Connections -> Maps(Names, Collections)]]
    /\ pool \in [DBs -> Seq(Slots)]
    /\ taken \in [DBs -> SUBSET Slots]
    /\ \A d \in DBs : GoodPool(pool[d], taken[d])
    /\ made \in 0..MaxMade

\* What a database has that is not in use, and what the call is about.
Uses ==
    /\ IsFiniteSet(open) /\ Cardinality(InUse) <= MaxOpen
    /\ call.op = "open" => call.db \notin open
    /\ call.op \in Creating \cup {"added"} =>
          call.db \in open /\ call.name \notin DOMAIN container[call.db]
    /\ \A d \in DBs \ InUse :
          /\ container[d] = Nothing
          /\ vtabs[d] = [c \in Connections |-> Nothing]
    /\ \A d \in DBs \ open : taken[d] = {}

\* The in-memory database goes with its last connection, a collection has its table,
\* and a connection has instances of tables only.
Tables ==
    /\ \A s \in ConnStrs : (\A d \in InUse : ConnStr[d] # s) => tables[s] = Nothing
    /\ \A d \in InUse : \A n \in DOMAIN container[d] :
          n \in DOMAIN tables[ConnStr[d]] /\ tables[ConnStr[d]][n] = Key(d, n)
    /\ \A d \in DBs, c \in Connections : DOMAIN vtabs[d][c] \subseteq DOMAIN tables[ConnStr[d]]
    /\ call.op = "added" =>
          /\ call.name \in DOMAIN tables[ConnStr[call.db]]
          /\ tables[ConnStr[call.db]][call.name] = Key(call.db, call.name)
          /\ \A d \in InUse : ConnStr[d] = ConnStr[call.db] =>
                               call.name \notin DOMAIN container[d]

\* The metadata names the collections; the constructor has some left to load.
Metadata ==
    /\ \A d \in open : DOMAIN container[d] = stored[d]
    /\ call.op = "open" => DOMAIN container[call.db] \cup call.todo = stored[call.db]

\* What RemoveCollection makes of the tables and the instances.
TablesLess(ts, d, n) == [ts EXCEPT ![ConnStr[d]] = Without(@, n)]
InstancesLess(vs, d, n) ==
    [e \in DBs |-> IF ConnStr[e] # ConnStr[d] THEN vs[e]
                   ELSE [c \in Connections |-> Without(vs[e][c], n)]]

\* RemoveCollection gives back the state before AddCollection, save that an entry of the
\* dictionary under the same key may have gone.
Undone ==
    /\ call.op \in Creating \cup {"added"} =>
          /\ stored = before.stored /\ container = before.container
          /\ before.of = <<call.db, call.name>> /\ OnlyPartsAreNew
    /\ call.op \in Creating =>
          /\ tables = before.tables /\ vtabs = before.vtabs
          /\ dictionary = before.dictionary
    /\ call.op = "added" =>
          /\ TablesLess(tables, call.db, call.name) = before.tables
          /\ InstancesLess(vtabs, call.db, call.name) = before.vtabs
          /\ \A k \in DOMAIN dictionary \ {Key(call.db, call.name)} :
                k \in DOMAIN before.dictionary /\ dictionary[k] = before.dictionary[k]

\* What a create that has come to op has put on disk, or has found there.
Done(op) ==
    CASE op = "create" -> {}
      [] op = "recorded" -> {"row"}
      [] op = "allocating" -> {"row", "file"}
      [] op = "mapped" -> {"row", "file", "space"}
      [] OTHER -> Parts

\* The row of a collection is the last thing that is stored of it.
Whole ==
    /\ \A d \in DBs : \A n \in stored[d] : parts[d][n] = Parts
    /\ call.op \in Creating \cup {"added"} => Done(call.op) \subseteq parts[call.db][call.name]

IInv == Typed /\ Uses /\ Tables /\ Metadata /\ Undone /\ Whole /\ StoredWholeOrNotAtAll

-----------------------------------------------------------------------------
\* The dictionary has no other collection under the key of one.
Entries ==
    /\ \A d \in InUse : \A n \in DOMAIN container[d] :
          Key(d, n) \in DOMAIN dictionary => dictionary[Key(d, n)] = container[d][n]
    /\ call.op = "added" =>
          LET k == Key(call.db, call.name)
          IN  k \in DOMAIN dictionary => dictionary[k] = call.col

\* An instance is of the collection, also of the one that is being added.
Instances ==
    /\ \A d \in InUse, c \in Connections : \A n \in DOMAIN vtabs[d][c] :
          n \in DOMAIN container[d] => vtabs[d][c][n] = container[d][n]
    /\ call.op = "added" =>
          \A c \in Connections :
             call.name \in DOMAIN vtabs[call.db][c] => vtabs[call.db][c][call.name] = call.col

SharedIInv == Entries /\ Instances

\* With one database, there are no other tables and no entry is lost.
Exact ==
    \A d \in InUse :
        /\ DOMAIN tables[ConnStr[d]] =
              DOMAIN container[d] \cup {n \in Names : call.op = "added" /\ call.name = n}
        /\ \A n \in DOMAIN tables[ConnStr[d]] : Key(d, n) \in DOMAIN dictionary

-----------------------------------------------------------------------------
(* Maps *)

LEMMA MapsAre ==
    ASSUME NEW S, NEW T, NEW f
    PROVE  f \in Maps(S, T) <=> DOMAIN f \subseteq S /\ f \in [DOMAIN f -> T]
BY DEF Maps

LEMMA NothingMaps == ASSUME NEW S, NEW T PROVE Nothing \in Maps(S, T) /\ DOMAIN Nothing = {}
BY DEF Maps, Nothing

LEMMA WithMaps ==
    ASSUME NEW S, NEW T, NEW f, NEW x, NEW y, f \in Maps(S, T), x \in S, y \in T
    PROVE  With(f, x, y) \in Maps(S, T)
<1>1. DOMAIN f \subseteq S /\ f \in [DOMAIN f -> T]
  BY MapsAre
<1>2. With(f, x, y) \in [DOMAIN f \cup {x} -> T]
  BY <1>1 DEF With
<1> QED
  BY <1>1, <1>2, MapsAre

LEMMA WithoutMaps ==
    ASSUME NEW S, NEW T, NEW f, NEW x, f \in Maps(S, T)
    PROVE  Without(f, x) \in Maps(S, T) /\ (x \notin DOMAIN f => Without(f, x) = f)
<1>1. DOMAIN f \subseteq S /\ f \in [DOMAIN f -> T]
  BY MapsAre
<1>2. Without(f, x) \in [DOMAIN f \ {x} -> T]
  BY <1>1 DEF Without
<1>3. Without(f, x) \in Maps(S, T)
  BY <1>1, <1>2, MapsAre
<1>4. x \notin DOMAIN f => DOMAIN f \ {x} = DOMAIN f
  OBVIOUS
<1> QED
  BY <1>1, <1>3, <1>4 DEF Without

LEMMA WithoutWith ==
    ASSUME NEW S, NEW T, NEW f, NEW x, NEW y, f \in Maps(S, T), x \notin DOMAIN f
    PROVE  Without(With(f, x, y), x) = f
<1>1. f \in [DOMAIN f -> T]
  BY MapsAre
<1>2. DOMAIN With(f, x, y) \ {x} = DOMAIN f /\ \A z \in DOMAIN f : With(f, x, y)[z] = f[z]
  BY DEF With
<1> QED
  BY <1>1, <1>2 DEF Without

\* What the calls are, by their op.
LEMMA CallsAre ==
    ASSUME NEW x \in Calls
    PROVE  /\ x.op \in {"none", "failed", "open", "added"} \cup Creating
           /\ x = Idle <=> x.op = "none"
           /\ x = Failed <=> x.op = "failed"
           /\ x.op = "open" => x \in [op : {"open"}, db : DBs, todo : SUBSET Names]
           /\ x.op \in Creating \cup {"added"} => x \in CreateCalls
BY DEF Calls, CreateCalls, Creating, Idle, Failed

\* What the names of the system are.
LEMMA Strings == Idle.op = "none" /\ Failed.op = "failed"
BY DEF Idle, Failed

LEMMA TypedImpliesTypeOK == ASSUME Typed PROVE TypeOK
<1>1. /\ \A d \in DBs : DOMAIN container[d] \subseteq Names
      /\ DOMAIN dictionary \subseteq Keys
      /\ \A k \in DOMAIN dictionary : dictionary[k] \in Collections
  BY MapsAre DEF Typed
<1> QED
  BY <1>1 DEF Typed, TypeOK, GoodPool

-----------------------------------------------------------------------------
(* The pool *)

LEMMA TakeGood ==
    ASSUME NEW d \in DBs, NEW c \in Slots, NEW left, Take(d, c, left),
           GoodPool(pool[d], taken[d])
    PROVE  c \notin taken[d] /\ GoodPool(left, taken[d] \cup {c})
<1> DEFINE p == pool[d]
           t == taken[d]
<1>1. /\ p \in Seq(Slots) /\ Len(p) <= PoolCapacity /\ Len(p) \in Nat /\ DOMAIN p = 1..Len(p)
      /\ \A i, j \in DOMAIN p : p[i] = p[j] => i = j
      /\ t \subseteq Slots /\ \A i \in DOMAIN p : p[i] \notin t
  BY DEF GoodPool, IsInjective
<1>2. CASE p # <<>> /\ c = Last(p) /\ left = Front(p)
  <2> HIDE DEF p, t
  <2>1. Len(p) > 0 /\ c = p[Len(p)] /\ left = SubSeq(p, 1, Len(p) - 1)
    BY <1>1, <1>2 DEF Last, Front
  <2>2. /\ left \in Seq(Slots) /\ Len(left) = Len(p) - 1 /\ DOMAIN left = 1..(Len(p) - 1)
        /\ \A i \in 1..(Len(p) - 1) : left[i] = p[i]
    BY <1>1, <2>1, SubSeqProperties
  <2>3. /\ IsInjective(left) /\ Len(left) <= PoolCapacity
        /\ \A i \in DOMAIN left : left[i] # c /\ left[i] \notin t
    BY <1>1, <2>1, <2>2, DatabasesAssumption DEF IsInjective
  <2>4. c \notin t
    BY <1>1, <2>1
  <2> QED
    BY <1>1, <2>2, <2>3, <2>4 DEF GoodPool, p, t
<1>3. CASE p = <<>> /\ c \in Slots \ t /\ left = <<>>
  BY <1>1, <1>3, DatabasesAssumption DEF GoodPool, IsInjective
<1> QED
  BY <1>2, <1>3 DEF Take

LEMMA ReturnGood ==
    ASSUME NEW p, NEW t, NEW c, NEW u, c \in t, u = t \ {c}, GoodPool(p, t)
    PROVE  GoodPool(p, u) /\ (Len(p) < PoolCapacity => GoodPool(Append(p, c), u))
<1>1. /\ p \in Seq(Slots) /\ Len(p) <= PoolCapacity /\ Len(p) \in Nat /\ DOMAIN p = 1..Len(p)
      /\ \A i, j \in DOMAIN p : p[i] = p[j] => i = j
      /\ t \subseteq Slots /\ \A i \in DOMAIN p : p[i] \notin t
  BY DEF GoodPool, IsInjective
<1>2. GoodPool(p, u)
  BY DEF GoodPool
<1>3. ASSUME Len(p) < PoolCapacity PROVE GoodPool(Append(p, c), u)
  <2>1. PICK q : q = Append(p, c)
    OBVIOUS
  <2>2. /\ q \in Seq(Slots) /\ Len(q) = Len(p) + 1 /\ DOMAIN q = 1..(Len(p) + 1)
        /\ \A i \in 1..Len(p) : q[i] = p[i]
        /\ q[Len(p) + 1] = c
    BY <1>1, <2>1
  <2>3. IsInjective(q) /\ Len(q) <= PoolCapacity
    BY <1>1, <1>3, <2>2, DatabasesAssumption DEF IsInjective
  <2>4. \A i \in DOMAIN q : q[i] \notin u
    BY <1>1, <2>2
  <2> QED
    BY <1>1, <2>1, <2>2, <2>3, <2>4 DEF GoodPool
<1> QED
  BY <1>2, <1>3

-----------------------------------------------------------------------------
(* Statements *)

\* What connection c of d knows of n after a statement: what it knew, or the entry of the
\* table's key.
Known(d, c, n, col) ==
    /\ n \in DOMAIN tables[ConnStr[d]]
    /\ \/ n \in DOMAIN vtabs[d][c] /\ col = vtabs[d][c][n]
       \/ /\ tables[ConnStr[d]][n] \in DOMAIN dictionary
          /\ col = dictionary[tables[ConnStr[d]][n]]

\* All that statements and the ends of their results change, but the pool.
Statement(d, c, f) ==
    /\ call = Idle /\ d \in open
    /\ vtabs' = [vtabs EXCEPT ![d][c] = f]
    /\ \A n \in DOMAIN f : Known(d, c, n, f[n])
    /\ \A e \in DBs \ open : taken'[e] = taken[e]
    /\ UNCHANGED <<stored, parts, open, container, dictionary, tables, call, made, before>>

\* The steps of a statement.
StatementOf(d) ==
    SelectFails(d) \/ CloseResult(d) \/ \E n \in Names : Select(d, n) \/ Delete(d, n)

StatementStep(d) ==
    /\ \E c \in Connections, f \in Maps(Names, Collections) : Statement(d, c, f)
    /\ pool' = [pool EXCEPT ![d] = pool'[d]] /\ taken' = [taken EXCEPT ![d] = taken'[d]]
    /\ GoodPool(pool'[d], taken'[d])

LEMMA InstancesAreTyped ==
    ASSUME IInv, NEW d \in DBs, NEW c \in Connections, NEW n \in Names, CanPrepare(d, c, n)
    PROVE  LET f == With(vtabs[d][c], n, Instance(d, c, n))
           IN  f \in Maps(Names, Collections) /\ \A m \in DOMAIN f : Known(d, c, m, f[m])
<1>0. PICK v, s, col : v = vtabs[d][c] /\ s = ConnStr[d] /\ col = Instance(d, c, n)
  OBVIOUS
<1>1. /\ v \in Maps(Names, Collections) /\ dictionary \in Maps(Keys, Collections)
      /\ DOMAIN v \subseteq DOMAIN tables[s]
  BY <1>0 DEF IInv, Typed, Tables
<1>2. Known(d, c, n, col) /\ col \in Collections
  <2>1. CASE n \in DOMAIN v
    BY <1>0, <1>1, <2>1, MapsAre DEF CanPrepare, Instance, Known
  <2>2. CASE n \notin DOMAIN v
    BY <1>0, <1>1, <2>2, MapsAre DEF CanPrepare, Instance, Known
  <2> QED
    BY <2>1, <2>2
<1>3. \A m \in DOMAIN v : Known(d, c, m, v[m])
  BY <1>0, <1>1 DEF Known
<1>4. PICK f : f = With(v, n, col)
  OBVIOUS
<1>5. /\ f \in Maps(Names, Collections) /\ DOMAIN f = DOMAIN v \cup {n}
      /\ f[n] = col /\ \A m \in DOMAIN v \ {n} : f[m] = v[m]
  <2>1. f \in Maps(Names, Collections)
    BY <1>1, <1>2, <1>4, WithMaps
  <2>2. DOMAIN f = DOMAIN v \cup {n} /\ f[n] = col /\ \A m \in DOMAIN v \ {n} : f[m] = v[m]
    BY <1>4 DEF With
  <2> QED
    BY <2>1, <2>2
<1>6. \A m \in DOMAIN f : Known(d, c, m, f[m])
  BY <1>2, <1>3, <1>5
<1> QED
  BY <1>0, <1>4, <1>5, <1>6

\* Closing a connection, or keeping it, is a change of what it knows.
LEMMA ReturnedIs ==
    ASSUME IInv, NEW d \in DBs, NEW c \in Slots, NEW left, Returned(d, c, left),
           GoodPool(left, taken'[d] \cup {c}), c \notin taken'[d]
    PROVE  /\ GoodPool(pool'[d], taken'[d])
           /\ pool' = [pool EXCEPT ![d] = pool'[d]]
           /\ \E f \in Maps(Names, Collections) :
                 /\ vtabs' = [vtabs EXCEPT ![d][c] = f]
                 /\ \A n \in DOMAIN f : Known(d, c, n, f[n])
<1>1. /\ pool \in [DBs -> Seq(Slots)] /\ c \in Connections
      /\ vtabs \in [DBs -> [Connections -> Maps(Names, Collections)]]
      /\ DOMAIN vtabs[d][c] \subseteq DOMAIN tables[ConnStr[d]]
  BY DEF IInv, Typed, Connections, Tables
<1>2. PICK t : t = taken'[d] \cup {c}
  OBVIOUS
<1>3. /\ GoodPool(left, taken'[d])
      /\ Len(left) < PoolCapacity => GoodPool(Append(left, c), taken'[d])
  <2>1. PICK u : u = taken'[d]
    OBVIOUS
  <2>2. c \in t /\ u = t \ {c} /\ GoodPool(left, t)
    BY <1>2, <2>1
  <2>3. GoodPool(left, u) /\ (Len(left) < PoolCapacity => GoodPool(Append(left, c), u))
    BY <2>2, ReturnGood
  <2> QED
    BY <2>1, <2>3
<1>4. CASE Len(left) < PoolCapacity
  <2>1. pool' = [pool EXCEPT ![d] = Append(left, c)] /\ vtabs' = vtabs
    BY <1>4 DEF Returned
  <2>2. vtabs' = [vtabs EXCEPT ![d][c] = vtabs[d][c]]
    BY <1>1, <2>1
  <2>3. \A n \in DOMAIN vtabs[d][c] : Known(d, c, n, vtabs[d][c][n])
    BY <1>1 DEF Known
  <2> QED
    BY <1>1, <1>3, <1>4, <2>1, <2>2, <2>3
<1>5. CASE ~(Len(left) < PoolCapacity)
  <2>1. pool' = [pool EXCEPT ![d] = left] /\ vtabs' = [vtabs EXCEPT ![d][c] = Nothing]
    BY <1>5 DEF Returned
  <2> QED
    BY <1>1, <1>3, <2>1, NothingMaps
<1> QED
  BY <1>4, <1>5

LEMMA StatementsAre ==
    ASSUME IInv, NEW d \in DBs, StatementOf(d)
    PROVE  StatementStep(d)
<1>1. /\ GoodPool(pool[d], taken[d]) /\ pool \in [DBs -> Seq(Slots)]
      /\ taken \in [DBs -> SUBSET Slots] /\ Slots \subseteq Connections
      /\ open \subseteq DBs /\ \A e \in DBs \ open : taken[e] = {}
  BY DEF IInv, Typed, Connections, Uses
<1>2. ASSUME NEW n \in Names, Select(d, n) PROVE StatementStep(d)
  <2>1. PICK c \in Slots : \E left \in {pool[d], <<>>, SubSeq(pool[d], 1, Len(pool[d]) - 1)} :
            /\ Take(d, c, left) /\ CanPrepare(d, c, n) /\ Prepare(d, c, n)
            /\ taken' = [taken EXCEPT ![d] = @ \cup {c}]
            /\ pool' = [pool EXCEPT ![d] = left]
    BY <1>2 DEF Select
  <2>2. PICK left :
            /\ Take(d, c, left) /\ CanPrepare(d, c, n) /\ Prepare(d, c, n)
            /\ taken' = [taken EXCEPT ![d] = @ \cup {c}]
            /\ pool' = [pool EXCEPT ![d] = left]
    BY <2>1
  <2>3. GoodPool(left, taken[d] \cup {c})
    BY <1>1, <2>2, TakeGood
  <2>4. pool'[d] = left /\ taken'[d] = taken[d] \cup {c} /\ \A e \in DBs \ open : taken'[e] = taken[e]
    BY <1>1, <1>2, <2>2 DEF Select
  <2>5. \E f \in Maps(Names, Collections) :
           vtabs' = [vtabs EXCEPT ![d][c] = f] /\ \A m \in DOMAIN f : Known(d, c, m, f[m])
    BY <1>1, <2>2, InstancesAreTyped DEF Prepare
  <2>6. \E f \in Maps(Names, Collections) : Statement(d, c, f)
    BY <1>2, <2>4, <2>5 DEF Select, Statement
  <2> QED
    BY <1>1, <2>2, <2>3, <2>4, <2>6 DEF StatementStep
<1>3. CASE SelectFails(d)
  <2>1. PICK c \in Slots : \E left \in {pool[d], <<>>, SubSeq(pool[d], 1, Len(pool[d]) - 1)} :
            Take(d, c, left) /\ Returned(d, c, left)
    BY <1>3 DEF SelectFails
  <2>2. PICK left : Take(d, c, left) /\ Returned(d, c, left)
    BY <2>1
  <2>3. taken' = taken
    BY <1>3 DEF SelectFails
  <2>4. c \notin taken'[d] /\ GoodPool(left, taken'[d] \cup {c})
    BY <1>1, <2>2, <2>3, TakeGood
  <2>5. /\ GoodPool(pool'[d], taken'[d]) /\ pool' = [pool EXCEPT ![d] = pool'[d]]
        /\ \E f \in Maps(Names, Collections) :
              /\ vtabs' = [vtabs EXCEPT ![d][c] = f]
              /\ \A m \in DOMAIN f : Known(d, c, m, f[m])
    BY <2>2, <2>4, ReturnedIs, Zenon
  <2>6. \E f \in Maps(Names, Collections) : Statement(d, c, f)
    BY <1>3, <2>3, <2>5 DEF SelectFails, Statement
  <2> QED
    BY <1>1, <2>3, <2>5, <2>6 DEF StatementStep
<1>4. CASE CloseResult(d)
  <2>1. PICK c \in taken[d] :
            taken' = [taken EXCEPT ![d] = @ \ {c}] /\ Returned(d, c, pool[d])
    BY <1>4 DEF CloseResult
  <2>2. /\ c \in Slots /\ d \in open /\ taken'[d] = taken[d] \ {c}
        /\ taken'[d] \cup {c} = taken[d] /\ c \notin taken'[d]
        /\ \A e \in DBs \ open : taken'[e] = taken[e]
    BY <1>1, <2>1
  <2>3. GoodPool(pool[d], taken'[d] \cup {c})
    BY <1>1, <2>2
  <2>4. /\ GoodPool(pool'[d], taken'[d]) /\ pool' = [pool EXCEPT ![d] = pool'[d]]
        /\ \E f \in Maps(Names, Collections) :
              /\ vtabs' = [vtabs EXCEPT ![d][c] = f]
              /\ \A m \in DOMAIN f : Known(d, c, m, f[m])
    BY <2>1, <2>2, <2>3, ReturnedIs, Zenon
  <2>5. \E f \in Maps(Names, Collections) : Statement(d, c, f)
    BY <1>4, <2>2, <2>4 DEF CloseResult, Statement
  <2> QED
    BY <1>1, <2>1, <2>2, <2>4, <2>5 DEF StatementStep
<1>5. ASSUME NEW n \in Names, Delete(d, n) PROVE StatementStep(d)
  <2>1. DeleteStmt \in Connections
    BY DEF Connections
  <2>2. \E f \in Maps(Names, Collections) :
            /\ vtabs' = [vtabs EXCEPT ![d][DeleteStmt] = f]
            /\ \A m \in DOMAIN f : Known(d, DeleteStmt, m, f[m])
    BY <1>5, <2>1, InstancesAreTyped DEF Delete, Prepare
  <2>3. \E f \in Maps(Names, Collections) : Statement(d, DeleteStmt, f)
    BY <1>5, <2>2 DEF Delete, Statement
  <2> QED
    BY <1>1, <1>5, <2>1, <2>3 DEF Delete, StatementStep
<1> QED
  BY <1>2, <1>3, <1>4, <1>5 DEF StatementOf

-----------------------------------------------------------------------------
(* The process starts, and starts again *)

\* Nothing in memory.
Empty ==
    /\ stored \in [DBs -> SUBSET Names] /\ made \in 0..MaxMade
    /\ parts \in [DBs -> [Names -> SUBSET Parts]]
    /\ \A d \in DBs : \A n \in stored[d] : parts[d][n] = Parts
    /\ open = {}
    /\ container = [d \in DBs |-> Nothing]
    /\ dictionary = Nothing
    /\ tables = [s \in {ConnStr[d] : d \in DBs} |-> Nothing]
    /\ vtabs = [d \in DBs |-> [c \in Connections |-> Nothing]]
    /\ pool = [d \in DBs |-> <<>>]
    /\ taken = [d \in DBs |-> {}]
    /\ call = Idle

LEMMA EmptyEstablishes == ASSUME Empty PROVE IInv /\ SharedIInv /\ Exact
<1> USE DEF Empty
<1>1. call \in Calls /\ call.op = "none" /\ InUse = {} /\ call # Failed
  BY Strings DEF Calls, InUse, Failed, Idle
<1>2. Typed
  <2>1. <<>> \in Seq(Slots) /\ Len(<<>>) = 0 /\ DOMAIN <<>> = {}
    OBVIOUS
  <2>2. GoodPool(<<>>, {})
    BY <2>1, DatabasesAssumption DEF GoodPool, IsInjective
  <2>3. /\ pool \in [DBs -> Seq(Slots)] /\ taken \in [DBs -> SUBSET Slots]
        /\ \A d \in DBs : GoodPool(pool[d], taken[d])
    BY <2>1, <2>2
  <2>4. /\ container \in [DBs -> Maps(Names, Collections)]
        /\ dictionary \in Maps(Keys, Collections)
        /\ tables \in [ConnStrs -> Maps(Names, Keys)]
        /\ vtabs \in [DBs -> [Connections -> Maps(Names, Collections)]]
    BY NothingMaps DEF ConnStrs
  <2> QED
    BY <1>1, <2>3, <2>4 DEF Typed
<1>3. Uses
  BY <1>1, FS_EmptySet, DatabasesAssumption DEF Uses, Creating
<1>4. Tables
  BY <1>1, NothingMaps DEF Tables, ConnStrs
<1>5. Metadata /\ Undone /\ Whole /\ StoredWholeOrNotAtAll
  BY <1>1 DEF Metadata, Undone, Whole, StoredWholeOrNotAtAll, Creating
<1>6. SharedIInv /\ Exact
  BY <1>1 DEF SharedIInv, Entries, Instances, Exact
<1> QED
  BY <1>2, <1>3, <1>4, <1>5, <1>6 DEF IInv

LEMMA InitEstablishes == ASSUME Init PROVE IInv /\ SharedIInv /\ Exact
<1>1. Empty
  BY DatabasesAssumption DEF Init, Empty
<1> QED
  BY <1>1, EmptyEstablishes

LEMMA CrashKeeps == ASSUME IInv, Crash PROVE (IInv /\ SharedIInv /\ Exact)'
<1>1. Empty'
  BY DEF IInv, Typed, Whole, Crash, NoMemory, Empty
<1>2. (Empty => IInv /\ SharedIInv /\ Exact)'
  BY EmptyEstablishes, PTL
<1> QED
  BY <1>1, <1>2

-----------------------------------------------------------------------------
(* What AddCollection and Disconnect do *)

LEMMA AddCollectionIs ==
    ASSUME IInv, NEW d \in DBs, NEW n \in Names, NEW col \in Collections,
           AddCollection(d, n, col)
    PROVE  /\ dictionary' \in Maps(Keys, Collections)
           /\ tables' \in [ConnStrs -> Maps(Names, Keys)]
           /\ vtabs' \in [DBs -> [Connections -> Maps(Names, Collections)]]
           /\ n \notin DOMAIN tables[ConnStr[d]]
           /\ tables' = [tables EXCEPT ![ConnStr[d]] = With(@, n, Key(d, n))]
           /\ vtabs' = [vtabs EXCEPT ![d][ReadWrite] = With(@, n, col)]
           /\ dictionary' = With(dictionary, Key(d, n), col)
<1>1. /\ ConnStr[d] \in ConnStrs /\ ReadWrite \in Connections /\ Key(d, n) \in Keys
      /\ tables[ConnStr[d]] \in Maps(Names, Keys)
      /\ vtabs[d][ReadWrite] \in Maps(Names, Collections)
      /\ dictionary \in Maps(Keys, Collections)
      /\ tables \in [ConnStrs -> Maps(Names, Keys)]
      /\ vtabs \in [DBs -> [Connections -> Maps(Names, Collections)]]
  <2>1. ConnStr[d] \in ConnStrs /\ ReadWrite \in Connections
    BY DEF ConnStrs, Connections
  <2>2. Key(d, n) \in Keys
    BY DEF Key, Keys
  <2>3. /\ dictionary \in Maps(Keys, Collections)
        /\ tables \in [ConnStrs -> Maps(Names, Keys)]
        /\ vtabs \in [DBs -> [Connections -> Maps(Names, Collections)]]
    BY DEF IInv, Typed
  <2> QED
    BY <2>1, <2>2, <2>3
<1>2. dictionary' = With(dictionary, Key(d, n), col)
  BY DEF AddCollection, Insert
<1>3. dictionary'[Key(d, n)] = col
  BY <1>2 DEF With
<1>4. /\ tables' = [tables EXCEPT ![ConnStr[d]] = With(@, n, Key(d, n))]
      /\ vtabs' = [vtabs EXCEPT ![d][ReadWrite] = With(@, n, col)]
      /\ n \notin DOMAIN tables[ConnStr[d]]
  BY <1>3 DEF AddCollection
<1>5. With(tables[ConnStr[d]], n, Key(d, n)) \in Maps(Names, Keys)
  BY <1>1, WithMaps
<1>6. With(vtabs[d][ReadWrite], n, col) \in Maps(Names, Collections)
  BY <1>1, WithMaps
<1>7. dictionary' \in Maps(Keys, Collections)
  BY <1>1, <1>2, WithMaps
<1>8. tables' \in [ConnStrs -> Maps(Names, Keys)]
  BY <1>1, <1>4, <1>5
<1>9. vtabs' \in [DBs -> [Connections -> Maps(Names, Collections)]]
  BY <1>1, <1>4, <1>6
<1> QED
  BY <1>2, <1>4, <1>7, <1>8, <1>9

\* The same, value by value.
LEMMA TablesWith ==
    ASSUME IInv, NEW d \in DBs, NEW n \in Names, NEW col \in Collections,
           AddCollection(d, n, col)
    PROVE  /\ DOMAIN tables'[ConnStr[d]] = DOMAIN tables[ConnStr[d]] \cup {n}
           /\ tables'[ConnStr[d]][n] = Key(d, n)
           /\ \A m \in DOMAIN tables[ConnStr[d]] : tables'[ConnStr[d]][m] = tables[ConnStr[d]][m]
           /\ \A s \in ConnStrs \ {ConnStr[d]} : tables'[s] = tables[s]
<1>1. /\ ConnStr[d] \in ConnStrs /\ tables \in [ConnStrs -> Maps(Names, Keys)]
      /\ n \notin DOMAIN tables[ConnStr[d]]
  BY AddCollectionIs DEF IInv, Typed, ConnStrs
<1>2. /\ tables'[ConnStr[d]] = With(tables[ConnStr[d]], n, Key(d, n))
      /\ \A s \in ConnStrs \ {ConnStr[d]} : tables'[s] = tables[s]
  BY <1>1, AddCollectionIs
<1> QED
  BY <1>1, <1>2 DEF With

LEMMA InstancesWith ==
    ASSUME IInv, NEW d \in DBs, NEW n \in Names, NEW col \in Collections,
           AddCollection(d, n, col)
    PROVE  /\ \A e \in DBs \ {d} : vtabs'[e] = vtabs[e]
           /\ \A c \in Connections \ {ReadWrite} : vtabs'[d][c] = vtabs[d][c]
           /\ DOMAIN vtabs'[d][ReadWrite] = DOMAIN vtabs[d][ReadWrite] \cup {n}
           /\ vtabs'[d][ReadWrite][n] = col
           /\ \A m \in DOMAIN vtabs[d][ReadWrite] : vtabs'[d][ReadWrite][m] = vtabs[d][ReadWrite][m]
<1>1. /\ ReadWrite \in Connections
      /\ vtabs \in [DBs -> [Connections -> Maps(Names, Collections)]]
      /\ n \notin DOMAIN vtabs[d][ReadWrite]
  BY AddCollectionIs DEF IInv, Typed, Connections, Tables
<1>2. /\ vtabs'[d][ReadWrite] = With(vtabs[d][ReadWrite], n, col)
      /\ \A e \in DBs \ {d} : vtabs'[e] = vtabs[e]
      /\ \A c \in Connections \ {ReadWrite} : vtabs'[d][c] = vtabs[d][c]
  BY <1>1, AddCollectionIs
<1> QED
  BY <1>1, <1>2 DEF With

LEMMA EntriesWith ==
    ASSUME IInv, NEW d \in DBs, NEW n \in Names, NEW col \in Collections,
           AddCollection(d, n, col)
    PROVE  /\ DOMAIN dictionary' = DOMAIN dictionary \cup {Key(d, n)}
           /\ dictionary'[Key(d, n)] = col
           /\ \A k \in DOMAIN dictionary \ {Key(d, n)} : dictionary'[k] = dictionary[k]
<1>1. dictionary' = With(dictionary, Key(d, n), col)
  BY AddCollectionIs
<1> QED
  BY <1>1 DEF With

LEMMA DisconnectIs ==
    ASSUME IInv, NEW d \in DBs, Disconnect(d)
    PROVE  /\ vtabs' \in [DBs -> [Connections -> Maps(Names, Collections)]]
           /\ vtabs'[d] = [c \in Connections |-> Nothing]
           /\ \A e \in DBs \ {d} : vtabs'[e] = vtabs[e]
           /\ tables' \in [ConnStrs -> Maps(Names, Keys)]
           /\ \A s \in ConnStrs \ {ConnStr[d]} : tables'[s] = tables[s]
           /\ \/ tables'[ConnStr[d]] = tables[ConnStr[d]]
                 /\ \E e \in open \ {d} : ConnStr[e] = ConnStr[d]
              \/ tables'[ConnStr[d]] = Nothing
                 /\ \A e \in open \ {d} : ConnStr[e] # ConnStr[d]
           /\ pool' \in [DBs -> Seq(Slots)] /\ taken' \in [DBs -> SUBSET Slots]
           /\ \A e \in DBs : GoodPool(pool'[e], taken'[e])
           /\ taken'[d] = {} /\ \A e \in DBs \ {d} : taken'[e] = taken[e]
<1>1. /\ ConnStr[d] \in ConnStrs
      /\ vtabs \in [DBs -> [Connections -> Maps(Names, Collections)]]
      /\ tables \in [ConnStrs -> Maps(Names, Keys)]
      /\ pool \in [DBs -> Seq(Slots)] /\ taken \in [DBs -> SUBSET Slots]
      /\ \A e \in DBs : GoodPool(pool[e], taken[e])
  BY DEF IInv, Typed, ConnStrs
<1>2. /\ vtabs' \in [DBs -> [Connections -> Maps(Names, Collections)]]
      /\ vtabs'[d] = [c \in Connections |-> Nothing]
      /\ \A e \in DBs \ {d} : vtabs'[e] = vtabs[e]
  BY <1>1, NothingMaps DEF Disconnect
<1>5. <<>> \in Seq(Slots) /\ Len(<<>>) = 0 /\ DOMAIN <<>> = {}
  OBVIOUS
<1>6. GoodPool(<<>>, {})
  BY <1>5, DatabasesAssumption DEF GoodPool, IsInjective
<1>7. /\ pool' \in [DBs -> Seq(Slots)] /\ taken' \in [DBs -> SUBSET Slots]
      /\ pool'[d] = <<>> /\ taken'[d] = {}
      /\ \A e \in DBs \ {d} : pool'[e] = pool[e] /\ taken'[e] = taken[e]
  BY <1>1, <1>5 DEF Disconnect
<1>8. \A e \in DBs : GoodPool(pool'[e], taken'[e])
  BY <1>1, <1>6, <1>7
<1>9. /\ tables' \in [ConnStrs -> Maps(Names, Keys)]
      /\ \A s \in ConnStrs \ {ConnStr[d]} : tables'[s] = tables[s]
      /\ \/ tables'[ConnStr[d]] = tables[ConnStr[d]]
            /\ \E e \in open \ {d} : ConnStr[e] = ConnStr[d]
         \/ tables'[ConnStr[d]] = Nothing
            /\ \A e \in open \ {d} : ConnStr[e] # ConnStr[d]
  <2>1. CASE \E e \in open \ {d} : ConnStr[e] = ConnStr[d]
    BY <1>1, <2>1 DEF Disconnect
  <2>2. CASE \A e \in open \ {d} : ConnStr[e] # ConnStr[d]
    BY <1>1, <2>2, NothingMaps DEF Disconnect
  <2> QED
    BY <2>1, <2>2
<1> QED
  BY <1>2, <1>7, <1>8, <1>9

-----------------------------------------------------------------------------
(* The steps keep IInv *)

LEMMA InUseIs ==
    ASSUME Typed
    PROVE  /\ call.op # "open" => InUse = open
           /\ call.op = "open" => InUse = open \cup {call.db} /\ call.db \in DBs
<1>1. call.op = "open" => call.db \in DBs
  BY CallsAre DEF Typed
<1> QED
  BY <1>1 DEF InUse

\* Nothing changes on disk, and no collection is being created any more, or yet.
LEMMA DiskKeeps ==
    ASSUME IInv, stored' = stored, parts' = parts,
           call' # Failed, call'.op \in {"none", "open"}
    PROVE  Undone' /\ Whole' /\ StoredWholeOrNotAtAll'
BY DEF IInv, Undone, Whole, StoredWholeOrNotAtAll, Creating

\* A create goes on or fails, with what is on disk as it was.
LEMMA CreateIs ==
    ASSUME IInv, call.op \in Creating \cup {"added"}
    PROVE  /\ call \in CreateCalls /\ call.db \in DBs /\ call.name \in Names
           /\ call.col \in Collections /\ call.db \in open /\ InUse = open
           /\ call.op # "open" /\ call.name \notin DOMAIN container[call.db]
<1>1. call \in CreateCalls /\ call.op # "open"
  BY CallsAre DEF IInv, Typed, Creating
<1> QED
  BY <1>1, InUseIs DEF CreateCalls, IInv, Uses

LEMMA OpenKeeps == ASSUME IInv, NEW d \in DBs, Open(d) PROVE IInv'
<1> USE DEF Open
<1>1. /\ call.op = "none" /\ InUse = open /\ InUse' = open \cup {d}
      /\ call' = [op |-> "open", db |-> d, todo |-> stored[d]]
      /\ call'.op = "open" /\ call'.db = d /\ call'.todo = stored[d] /\ call' # Failed
  BY Strings DEF InUse, IInv, Typed, Failed
<1>2. /\ d \notin open /\ taken[d] = {} /\ container[d] = Nothing
      /\ vtabs[d] = [c \in Connections |-> Nothing]
  BY <1>1 DEF IInv, Uses
<1>3. Typed'
  <2>1. call' \in Calls
    BY <1>1 DEF IInv, Typed, Calls
  <2>2. PICK p : p = [i \in 1..PoolSize |-> i]
    OBVIOUS
  <2>3. p \in Seq(Slots) /\ Len(p) = PoolSize /\ DOMAIN p = 1..PoolSize
    <3>1. Cardinality(Slots) \in Nat
      BY FS_CardinalityType, DatabasesAssumption
    <3>2. \A i \in 1..PoolSize : i \in Slots
      BY <3>1, DatabasesAssumption
    <3> QED
      BY <2>2, <3>2, DatabasesAssumption
  <2>4. GoodPool(p, taken'[d])
    BY <1>2, <2>2, <2>3, DatabasesAssumption DEF GoodPool, IsInjective
  <2>5. pool' \in [DBs -> Seq(Slots)] /\ \A e \in DBs : GoodPool(pool'[e], taken'[e])
    BY <2>2, <2>3, <2>4 DEF IInv, Typed
  <2> QED
    BY <2>1, <2>5 DEF IInv, Typed
<1>4. Uses'
  <2>1. IsFiniteSet(open) /\ Cardinality(open) \in Nat
    BY FS_CardinalityType DEF IInv, Uses
  <2>2. Cardinality(InUse') = Cardinality(open) + 1
    BY <1>1, <1>2, <2>1, FS_AddElement
  <2>3. Cardinality(InUse') <= MaxOpen
    BY <2>1, <2>2, DatabasesAssumption
  <2> QED
    BY <1>1, <1>2, <2>3 DEF IInv, Uses, Creating
<1>5. Tables'
  BY <1>1, <1>2, NothingMaps DEF IInv, Tables
<1>6. Metadata'
  BY <1>1, <1>2, NothingMaps DEF IInv, Metadata
<1>7. Undone' /\ Whole' /\ StoredWholeOrNotAtAll'
  BY <1>1, DiskKeeps
<1> QED
  BY <1>3, <1>4, <1>5, <1>6, <1>7 DEF IInv

LEMMA OpenedKeeps == ASSUME IInv, Opened PROVE IInv'
<1> USE DEF Opened
<1>1. /\ call.op = "open" /\ call'.op = "none" /\ call' # Failed
      /\ call.db \in DBs /\ InUse = open \cup {call.db} /\ InUse' = InUse
      /\ open' = InUse
  BY InUseIs, Strings DEF InUse, IInv, Idle, Failed
<1>2. Typed'
  BY <1>1 DEF IInv, Typed, Calls
<1>3. Uses'
  <2>1. IsFiniteSet(open')
    BY <1>1, FS_AddElement DEF IInv, Uses
  <2> QED
    BY <1>1, <2>1 DEF IInv, Uses, Creating
<1>4. Tables'
  BY <1>1 DEF IInv, Tables
<1>5. Metadata'
  BY <1>1 DEF IInv, Metadata
<1>6. Undone' /\ Whole' /\ StoredWholeOrNotAtAll'
  BY <1>1, DiskKeeps
<1> QED
  BY <1>2, <1>3, <1>4, <1>5, <1>6 DEF IInv

LEMMA CreateCollectionKeeps ==
    ASSUME IInv, NEW d \in DBs, NEW n \in Names, CreateCollection(d, n) PROVE IInv'
<1> USE DEF CreateCollection, memory
<1>1. /\ call.op = "none" /\ InUse = open /\ InUse' = open
      /\ call' = [op |-> "create", db |-> d, name |-> n, col |-> New(d, n)]
      /\ call'.op = "create" /\ call'.db = d /\ call'.name = n /\ call' # Failed
      /\ call'.op \in Creating
  BY Strings DEF InUse, IInv, Typed, Failed, Creating
<1>2. Typed'
  <2>1. New(d, n) \in Collections /\ made' \in 0..MaxMade
    BY DatabasesAssumption DEF New, Collections, IInv, Typed
  <2>2. call' \in Calls
    BY <1>1, <2>1 DEF Calls, CreateCalls, Creating
  <2> QED
    BY <2>1, <2>2 DEF IInv, Typed
<1>3. Uses'
  BY <1>1 DEF IInv, Uses
<1>4. Tables' /\ Metadata'
  BY <1>1 DEF IInv, Tables, Metadata
<1>5. Undone' /\ Whole' /\ StoredWholeOrNotAtAll'
  BY <1>1 DEF IInv, Undone, Whole, StoredWholeOrNotAtAll, OnlyPartsAreNew, Creating, Done
<1> QED
  BY <1>2, <1>3, <1>4, <1>5 DEF IInv

LEMMA CreateFailsKeeps == ASSUME IInv, CreateFails PROVE IInv'
<1> USE DEF CreateFails, memory
<1>1. /\ call.op \in Creating /\ call' = Failed /\ call'.op = "failed"
      /\ InUse = open /\ InUse' = open
  BY Strings DEF InUse, IInv, Typed, Failed, Creating
<1>2. Typed'
  BY <1>1 DEF IInv, Typed, Calls
<1>3. Uses' /\ Tables' /\ Metadata' /\ Undone' /\ Whole'
  BY <1>1 DEF IInv, Uses, Tables, Metadata, Undone, Whole, Creating
<1>4. StoredWholeOrNotAtAll'
  BY <1>1 DEF IInv, Undone, StoredWholeOrNotAtAll, OnlyPartsAreNew, Creating
<1> QED
  BY <1>2, <1>3, <1>4 DEF IInv

LEMMA ThrowKeeps == ASSUME IInv, Throw PROVE IInv'
<1> USE DEF Throw, memory
<1>1. call.op = "failed" /\ call' = Idle /\ call'.op = "none" /\ call' # Failed
      /\ InUse = open /\ InUse' = open
  BY Strings DEF InUse, IInv, Typed, Failed, Idle
<1>2. Typed'
  BY <1>1 DEF IInv, Typed, Calls
<1>3. Uses' /\ Tables' /\ Metadata'
  BY <1>1 DEF IInv, Uses, Tables, Metadata, Creating
<1>4. Undone' /\ Whole' /\ StoredWholeOrNotAtAll'
  BY <1>1, DiskKeeps
<1> QED
  BY <1>2, <1>3, <1>4 DEF IInv

\* The steps of CreateCollectionInternal.
Building == RecordFile \/ CreateFile \/ Allocate \/ MapFile \/ Construct

\* They change the call's op, and what is on disk of its collection, which grows.
LEMMA BuildingIs ==
    ASSUME IInv, Building
    PROVE  /\ call.op \in Creating /\ call'.op \in Creating /\ call' \in CreateCalls
           /\ call'.db = call.db /\ call'.name = call.name /\ call' # Failed
           /\ InUse = open /\ InUse' = open
           /\ parts' \in [DBs -> [Names -> SUBSET Parts]]
           /\ \A d \in DBs, n \in Names :
                 /\ parts[d][n] \subseteq parts'[d][n]
                 /\ <<d, n>> # <<call.db, call.name>> => parts'[d][n] = parts[d][n]
           /\ Done(call'.op) \subseteq parts'[call.db][call.name]
           /\ UNCHANGED <<stored, memory, made, before>>
<1>1. PICK to \in Creating, new \in SUBSET Parts :
         /\ call.op \in Creating
         /\ Build(to, new)
         /\ Done(to) \subseteq parts[call.db][call.name] \cup new
  <2>1. \A op \in Creating : call.op = op => Done(op) \subseteq parts[call.db][call.name]
    BY DEF IInv, Whole
  <2>2. Creating = {"create", "recorded", "allocating", "mapped", "built"}
    BY DEF Creating
  <2>3. /\ Done("create") = {} /\ Done("recorded") = {"row"}
        /\ Done("allocating") = {"row", "file"} /\ Done("mapped") = {"row", "file", "space"}
        /\ Done("built") = Parts /\ Parts = {"row", "file", "space", "vector"}
    BY DEF Done, Parts
  <2>4. CASE RecordFile
    BY <2>2, <2>3, <2>4 DEF RecordFile
  <2>5. CASE CreateFile
    BY <2>1, <2>2, <2>3, <2>5 DEF CreateFile
  <2>6. CASE Allocate
    BY <2>1, <2>2, <2>3, <2>6 DEF Allocate
  <2>7. CASE MapFile
    BY <2>1, <2>2, <2>3, <2>7 DEF MapFile, Left
  <2>8. CASE Construct
    BY <2>1, <2>2, <2>3, <2>8 DEF Construct
  <2> QED
    BY <2>4, <2>5, <2>6, <2>7, <2>8 DEF Building
<1>2. /\ call \in CreateCalls /\ call.db \in DBs /\ call.name \in Names /\ InUse = open
      /\ call' = [call EXCEPT !.op = to]
      /\ parts' = [parts EXCEPT ![call.db][call.name] = @ \cup new]
      /\ parts \in [DBs -> [Names -> SUBSET Parts]]
      /\ UNCHANGED <<stored, memory, made, before>>
  BY <1>1, CreateIs DEF Build, IInv, Typed
<1>3. /\ call'.op = to /\ call' \in CreateCalls
      /\ call'.db = call.db /\ call'.name = call.name /\ call' # Failed
  BY <1>1, <1>2 DEF CreateCalls, Creating, Failed
<1>4. InUse' = open
  BY <1>1, <1>2, <1>3 DEF InUse, memory, Creating
<1>5. /\ parts'[call.db][call.name] = parts[call.db][call.name] \cup new
      /\ \A d \in DBs, n \in Names :
            <<d, n>> # <<call.db, call.name>> => parts'[d][n] = parts[d][n]
      /\ parts' \in [DBs -> [Names -> SUBSET Parts]]
  BY <1>1, <1>2
<1>6. ASSUME NEW d \in DBs, NEW n \in Names PROVE parts[d][n] \subseteq parts'[d][n]
  BY <1>5
<1> QED
  BY <1>1, <1>2, <1>3, <1>4, <1>5, <1>6

LEMMA BuildingKeeps == ASSUME IInv, Building PROVE IInv'
<1>1. /\ call.op \in Creating /\ call'.op \in Creating /\ call' \in CreateCalls
      /\ call'.db = call.db /\ call'.name = call.name /\ call' # Failed
      /\ InUse = open /\ InUse' = open
      /\ parts' \in [DBs -> [Names -> SUBSET Parts]]
      /\ UNCHANGED <<stored, memory, made, before>>
  BY BuildingIs
<1>2. Typed'
  BY <1>1 DEF IInv, Typed, Calls, memory
<1>3. Uses' /\ Tables' /\ Metadata'
  BY <1>1 DEF IInv, Uses, Tables, Metadata, Creating, memory
<1>4. Undone'
  <2>1. OnlyPartsAreNew /\ before.of = <<call.db, call.name>>
    BY <1>1 DEF IInv, Undone
  <2>2. ASSUME NEW d \in DBs, NEW n \in Names
        PROVE  /\ before.parts[d][n] \subseteq parts'[d][n]
               /\ <<d, n>> # before.of => parts'[d][n] = before.parts[d][n]
    <3>1. /\ parts[d][n] \subseteq parts'[d][n]
          /\ <<d, n>> # <<call.db, call.name>> => parts'[d][n] = parts[d][n]
      BY BuildingIs
    <3> QED
      BY <2>1, <3>1 DEF OnlyPartsAreNew
  <2>3. OnlyPartsAreNew'
    BY <1>1, <2>2 DEF OnlyPartsAreNew
  <2> QED
    BY <1>1, <2>1, <2>3 DEF IInv, Undone, Creating, memory
<1>5. Whole'
  <2>1. ASSUME NEW d \in DBs, NEW n \in stored[d] PROVE parts'[d][n] = Parts
    <3>1. n \in Names /\ parts[d][n] = Parts
      BY DEF IInv, Typed, Whole
    <3>2. parts[d][n] \subseteq parts'[d][n] /\ parts'[d][n] \subseteq Parts
      BY <1>1, <3>1, BuildingIs
    <3> QED
      BY <3>1, <3>2
  <2>2. Done(call'.op) \subseteq parts'[call'.db][call'.name]
    BY <1>1, BuildingIs
  <2> QED
    BY <1>1, <2>1, <2>2 DEF Whole
<1> QED
  BY <1>1, <1>2, <1>3, <1>4, <1>5 DEF IInv, Whole, StoredWholeOrNotAtAll

\* A new key and a new table are of no other collection.
LEMMA TablesWithAnother ==
    ASSUME IInv, NEW d \in InUse, NEW n \in Names, NEW col \in Collections,
           AddCollection(d, n, col)
    PROVE  /\ \A e \in InUse : ConnStr[e] = ConnStr[d] => n \notin DOMAIN container[e]
           /\ \A e \in InUse : \A m \in DOMAIN container[e] :
                 /\ m \in DOMAIN tables'[ConnStr[e]]
                 /\ tables'[ConnStr[e]][m] = Key(e, m)
           /\ \A e \in DBs, c \in Connections :
                 DOMAIN vtabs'[e][c] \subseteq DOMAIN tables'[ConnStr[e]]
           /\ \A s \in ConnStrs : (\A e \in InUse : ConnStr[e] # s) => tables'[s] = Nothing
<1>1. d \in DBs /\ InUse \subseteq DBs /\ \A e \in DBs : ConnStr[e] \in ConnStrs
  BY DEF InUse, IInv, Typed, ConnStrs
<1>2. n \notin DOMAIN tables[ConnStr[d]]
  BY <1>1, AddCollectionIs
<1>3. \A e \in InUse : \A m \in DOMAIN container[e] :
         m \in DOMAIN tables[ConnStr[e]] /\ tables[ConnStr[e]][m] = Key(e, m)
  BY DEF IInv, Tables
<1>4. /\ DOMAIN tables'[ConnStr[d]] = DOMAIN tables[ConnStr[d]] \cup {n}
      /\ \A m \in DOMAIN tables[ConnStr[d]] : tables'[ConnStr[d]][m] = tables[ConnStr[d]][m]
      /\ \A s \in ConnStrs \ {ConnStr[d]} : tables'[s] = tables[s]
  BY <1>1, TablesWith
<1>5. \A e \in InUse : ConnStr[e] = ConnStr[d] => n \notin DOMAIN container[e]
  BY <1>2, <1>3
<1>6. ASSUME NEW e \in InUse, NEW m \in DOMAIN container[e]
      PROVE  m \in DOMAIN tables'[ConnStr[e]] /\ tables'[ConnStr[e]][m] = Key(e, m)
  <2>1. m \in DOMAIN tables[ConnStr[e]] /\ tables[ConnStr[e]][m] = Key(e, m) /\ ConnStr[e] \in ConnStrs
    BY <1>1, <1>3
  <2>2. CASE ConnStr[e] = ConnStr[d]
    BY <1>4, <2>1, <2>2
  <2>3. CASE ConnStr[e] # ConnStr[d]
    BY <1>4, <2>1, <2>3
  <2> QED
    BY <2>2, <2>3
<1>7. ASSUME NEW e \in DBs, NEW c \in Connections
      PROVE  DOMAIN vtabs'[e][c] \subseteq DOMAIN tables'[ConnStr[e]]
  <2>1. DOMAIN vtabs[e][c] \subseteq DOMAIN tables[ConnStr[e]]
    BY DEF IInv, Tables
  <2>2. DOMAIN tables[ConnStr[e]] \subseteq DOMAIN tables'[ConnStr[e]]
    BY <1>1, <1>4
  <2>3. CASE e = d /\ c = ReadWrite
    BY <1>1, <1>4, <2>1, <2>3, InstancesWith
  <2>4. CASE ~(e = d /\ c = ReadWrite)
    <3>1. vtabs'[e][c] = vtabs[e][c]
      BY <1>1, <2>4, InstancesWith
    <3> QED
      BY <2>1, <2>2, <3>1
  <2> QED
    BY <2>3, <2>4
<1>8. ASSUME NEW s \in ConnStrs, \A e \in InUse : ConnStr[e] # s PROVE tables'[s] = Nothing
  BY <1>4, <1>8 DEF IInv, Tables
<1> QED
  BY <1>5, <1>6, <1>7, <1>8

LEMMA LoadCollectionKeeps == ASSUME IInv, LoadCollection PROVE IInv'
<1>1. /\ call.op = "open" /\ call \in [op : {"open"}, db : DBs, todo : SUBSET Names]
      /\ made < MaxMade /\ made' = made + 1 /\ made' \in 0..MaxMade
      /\ stored' = stored /\ open' = open /\ pool' = pool /\ taken' = taken /\ before' = before
  BY CallsAre, DatabasesAssumption DEF LoadCollection, IInv, Typed
<1>2. PICK d : d = call.db
  OBVIOUS
<1>3. /\ d \in DBs /\ d \notin open /\ d \in InUse /\ InUse = open \cup {d}
      /\ InUse \subseteq DBs /\ call.todo \subseteq Names
  BY <1>1, <1>2 DEF IInv, Uses, Typed, InUse
<1>4. PICK n \in call.todo :
          /\ AddCollection(d, n, New(d, n))
          /\ container' = [container EXCEPT ![d] = With(@, n, New(d, n))]
          /\ call' = [call EXCEPT !.todo = @ \ {n}]
          /\ parts' = parts
  <2>1. PICK n \in call.todo :
            /\ AddCollection(d, n, New(d, n))
            /\ container' = [container EXCEPT ![d] = With(@, n, New(d, n))]
            /\ call' = [call EXCEPT !.todo = @ \ {n}]
            /\ parts' = [parts EXCEPT ![d][n] = Parts]
    BY <1>1, <1>2 DEF LoadCollection
  <2>2. n \in stored[d] /\ parts \in [DBs -> [Names -> SUBSET Parts]]
    BY <1>1, <1>2 DEF IInv, Typed, Metadata
  <2>3. parts[d][n] = Parts
    BY <1>3, <2>2 DEF IInv, Whole
  <2>4. parts' = parts
    BY <2>1, <2>2, <2>3
  <2> QED
    BY <2>1, <2>4
<1>5. PICK col : col = New(d, n)
  OBVIOUS
<1>6. n \in Names /\ col \in Collections /\ AddCollection(d, n, col)
  BY <1>1, <1>3, <1>4, <1>5, DatabasesAssumption DEF New, Collections, IInv, Typed
<1>7. /\ call' \in [op : {"open"}, db : DBs, todo : SUBSET Names]
      /\ call'.op = "open" /\ call'.db = d /\ call'.todo = call.todo \ {n}
      /\ InUse' = InUse /\ call' # Failed
  BY <1>1, <1>2, <1>4 DEF InUse, Failed
<1>8. /\ container \in [DBs -> Maps(Names, Collections)]
      /\ container'[d] = With(container[d], n, col)
      /\ \A e \in DBs \ {d} : container'[e] = container[e]
      /\ DOMAIN container'[d] = DOMAIN container[d] \cup {n}
  BY <1>3, <1>4, <1>5 DEF IInv, Typed, With
<1>9. Typed'
  <2>1. With(container[d], n, col) \in Maps(Names, Collections)
    BY <1>3, <1>6, <1>8, WithMaps
  <2>2. container' \in [DBs -> Maps(Names, Collections)]
    BY <1>4, <1>5, <1>8, <2>1
  <2>3. call' \in Calls
    BY <1>7 DEF Calls
  <2>4. /\ dictionary' \in Maps(Keys, Collections)
        /\ tables' \in [ConnStrs -> Maps(Names, Keys)]
        /\ vtabs' \in [DBs -> [Connections -> Maps(Names, Collections)]]
    BY <1>3, <1>6, AddCollectionIs
  <2> QED
    BY <1>1, <1>4, <2>2, <2>3, <2>4 DEF IInv, Typed
<1>10. Uses'
  <2>1. \A e \in DBs \ InUse : container'[e] = container[e] /\ vtabs'[e] = vtabs[e]
    BY <1>3, <1>6, <1>8, InstancesWith
  <2> QED
    BY <1>1, <1>3, <1>7, <2>1 DEF IInv, Uses, Creating
<1>11. Tables'
  <2>1. ASSUME NEW e \in InUse, NEW m \in DOMAIN container'[e]
        PROVE  m \in DOMAIN tables'[ConnStr[e]] /\ tables'[ConnStr[e]][m] = Key(e, m)
    <3>1. CASE e = d /\ m = n
      BY <1>3, <1>6, <3>1, TablesWith
    <3>2. CASE ~(e = d /\ m = n)
      <4>1. m \in DOMAIN container[e]
        BY <1>3, <1>8, <3>2
      <4> QED
        BY <1>3, <1>6, <4>1, TablesWithAnother
    <3> QED
      BY <3>1, <3>2
  <2>2. /\ \A e \in DBs, c \in Connections :
               DOMAIN vtabs'[e][c] \subseteq DOMAIN tables'[ConnStr[e]]
        /\ \A s \in ConnStrs : (\A e \in InUse : ConnStr[e] # s) => tables'[s] = Nothing
    BY <1>3, <1>6, TablesWithAnother
  <2> QED
    BY <1>7, <2>1, <2>2 DEF Tables
<1>12. Metadata'
  <2>1. \A e \in open : container'[e] = container[e]
    BY <1>3, <1>8
  <2>2. DOMAIN container'[d] \cup call'.todo = DOMAIN container[d] \cup call.todo
    BY <1>4, <1>7, <1>8
  <2> QED
    BY <1>1, <1>2, <1>7, <2>1, <2>2 DEF IInv, Metadata
<1>13. Undone' /\ Whole' /\ StoredWholeOrNotAtAll'
  BY <1>1, <1>4, <1>7, DiskKeeps
<1> QED
  BY <1>9, <1>10, <1>11, <1>12, <1>13 DEF IInv

LEMMA CreateTableKeeps == ASSUME IInv, CreateTable PROVE IInv'
<1>1. /\ call.op = "built" /\ call.op \in Creating /\ call \in CreateCalls
      /\ AddCollection(call.db, call.name, call.col)
      /\ call' = [call EXCEPT !.op = "added"]
      /\ stored' = stored /\ open' = open /\ container' = container /\ pool' = pool
      /\ taken' = taken /\ made' = made /\ before' = before /\ parts' = parts
  BY CreateIs DEF CreateTable, Creating
<1>2. PICK d, n, col : d = call.db /\ n = call.name /\ col = call.col
  OBVIOUS
<1>3. /\ d \in DBs /\ n \in Names /\ col \in Collections /\ AddCollection(d, n, col)
      /\ call' \in CreateCalls
      /\ call'.op = "added" /\ call'.db = d /\ call'.name = n /\ call'.col = col
      /\ InUse = open /\ InUse' = open /\ d \in open /\ call' # Failed
  BY <1>1, <1>2, CreateIs DEF CreateCalls, InUse, Failed
<1>4. Typed'
  <2>1. call' \in Calls
    BY <1>3 DEF Calls
  <2>2. /\ dictionary' \in Maps(Keys, Collections)
        /\ tables' \in [ConnStrs -> Maps(Names, Keys)]
        /\ vtabs' \in [DBs -> [Connections -> Maps(Names, Collections)]]
    BY <1>3, AddCollectionIs
  <2> QED
    BY <1>1, <2>1, <2>2 DEF IInv, Typed
<1>5. Uses'
  <2>1. \A e \in DBs \ InUse : vtabs'[e] = vtabs[e]
    BY <1>3, InstancesWith
  <2> QED
    BY <1>1, <1>2, <1>3, <2>1 DEF IInv, Uses
<1>6. Tables'
  <2>1. n \in DOMAIN tables'[ConnStr[d]] /\ tables'[ConnStr[d]][n] = Key(d, n)
    BY <1>3, TablesWith
  <2>2. /\ \A e \in InUse : ConnStr[e] = ConnStr[d] => n \notin DOMAIN container[e]
        /\ \A e \in InUse : \A m \in DOMAIN container[e] :
              m \in DOMAIN tables'[ConnStr[e]] /\ tables'[ConnStr[e]][m] = Key(e, m)
        /\ \A e \in DBs, c \in Connections :
              DOMAIN vtabs'[e][c] \subseteq DOMAIN tables'[ConnStr[e]]
        /\ \A s \in ConnStrs : (\A e \in InUse : ConnStr[e] # s) => tables'[s] = Nothing
    BY <1>3, TablesWithAnother
  <2> QED
    BY <1>1, <1>3, <2>1, <2>2 DEF Tables
<1>7. Metadata'
  BY <1>1, <1>3 DEF IInv, Metadata
<1>8. Undone'
  <2>1. /\ stored = before.stored /\ container = before.container
        /\ tables = before.tables /\ vtabs = before.vtabs
        /\ dictionary = before.dictionary
        /\ before.of = <<d, n>> /\ OnlyPartsAreNew
    BY <1>1, <1>2 DEF IInv, Undone
  <2>2. TablesLess(tables', d, n) = tables
    <3>1. /\ tables \in [ConnStrs -> Maps(Names, Keys)] /\ ConnStr[d] \in ConnStrs
          /\ n \notin DOMAIN tables[ConnStr[d]]
          /\ tables' = [tables EXCEPT ![ConnStr[d]] = With(@, n, Key(d, n))]
      <4>1. tables \in [ConnStrs -> Maps(Names, Keys)] /\ ConnStr[d] \in ConnStrs
        BY <1>3 DEF IInv, Typed, ConnStrs
      <4> QED
        BY <1>3, <4>1, AddCollectionIs
    <3>2. Without(With(tables[ConnStr[d]], n, Key(d, n)), n) = tables[ConnStr[d]]
      BY <3>1, WithoutWith
    <3> QED
      BY <3>1, <3>2 DEF TablesLess
  <2>3. InstancesLess(vtabs', d, n) = vtabs
    <3>1. /\ vtabs \in [DBs -> [Connections -> Maps(Names, Collections)]]
          /\ n \notin DOMAIN tables[ConnStr[d]]
          /\ vtabs' \in [DBs -> [Connections -> Maps(Names, Collections)]]
          /\ ReadWrite \in Connections
      BY <1>3, AddCollectionIs DEF IInv, Typed, Connections
    <3>2. ASSUME NEW e \in DBs, ConnStr[e] # ConnStr[d] PROVE vtabs'[e] = vtabs[e]
      BY <1>3, <3>2, InstancesWith
    <3>3. ASSUME NEW e \in DBs, ConnStr[e] = ConnStr[d], NEW c \in Connections
          PROVE  Without(vtabs'[e][c], n) = vtabs[e][c]
      <4>1. vtabs[e][c] \in Maps(Names, Collections) /\ n \notin DOMAIN vtabs[e][c]
        BY <3>1, <3>3 DEF IInv, Tables
      <4>2. CASE e = d /\ c = ReadWrite
        <5>1. vtabs'[e][c] = With(vtabs[e][c], n, col)
          BY <1>3, <3>1, <4>2, AddCollectionIs
        <5> QED
          BY <4>1, <5>1, WithoutWith
      <4>3. CASE ~(e = d /\ c = ReadWrite)
        <5>1. vtabs'[e][c] = vtabs[e][c]
          BY <1>3, <4>3, InstancesWith
        <5> QED
          BY <4>1, <5>1, WithoutMaps
      <4> QED
        BY <4>2, <4>3
    <3>4. ASSUME NEW e \in DBs, ConnStr[e] = ConnStr[d]
          PROVE  [c \in Connections |-> Without(vtabs'[e][c], n)] = vtabs[e]
      <4>1. \A c \in Connections : Without(vtabs'[e][c], n) = vtabs[e][c]
        BY <3>3, <3>4
      <4>2. vtabs[e] \in [Connections -> Maps(Names, Collections)]
        BY <3>1
      <4> QED
        BY <4>1, <4>2
    <3> QED
      BY <3>1, <3>2, <3>4 DEF InstancesLess
  <2>4. \A k \in DOMAIN dictionary' \ {Key(d, n)} :
           k \in DOMAIN dictionary /\ dictionary'[k] = dictionary[k]
    <3>1. dictionary' = With(dictionary, Key(d, n), col)
      BY <1>3, AddCollectionIs
    <3> QED
      BY <3>1 DEF With
  <2> QED
    BY <1>1, <1>3, <2>1, <2>2, <2>3, <2>4 DEF Undone, OnlyPartsAreNew, Creating
<1>9. Whole' /\ StoredWholeOrNotAtAll'
  BY <1>1, <1>2, <1>3 DEF IInv, Whole, StoredWholeOrNotAtAll, Done
<1> QED
  BY <1>4, <1>5, <1>6, <1>7, <1>8, <1>9 DEF IInv

LEMMA CreateTableFailsKeeps == ASSUME IInv, CreateTableFails PROVE IInv'
<1>1. /\ call.op = "built" /\ call' = Failed /\ call'.op = "failed"
      /\ dictionary' = Without(dictionary, Key(call.db, call.name))
      /\ stored' = stored /\ open' = open /\ container' = container /\ pool' = pool
      /\ taken' = taken /\ made' = made /\ before' = before /\ tables' = tables /\ vtabs' = vtabs
      /\ parts' = parts
      /\ InUse = open /\ InUse' = open
  BY Strings DEF CreateTableFails, AddCollectionFails, InUse
<1>2. Typed'
  <2>1. dictionary' \in Maps(Keys, Collections)
    BY <1>1, WithoutMaps DEF IInv, Typed
  <2>2. call' \in Calls
    BY <1>1 DEF Calls
  <2> QED
    BY <1>1, <2>1, <2>2 DEF IInv, Typed
<1>3. Uses' /\ Tables' /\ Metadata' /\ Undone' /\ Whole'
  BY <1>1 DEF IInv, Uses, Tables, Metadata, Undone, Whole, Creating
<1>4. StoredWholeOrNotAtAll'
  <2>1. \A k \in DOMAIN dictionary' : k \in DOMAIN dictionary /\ dictionary'[k] = dictionary[k]
    BY <1>1 DEF Without
  <2> QED
    BY <1>1, <2>1 DEF IInv, Undone, StoredWholeOrNotAtAll, OnlyPartsAreNew, Creating
<1> QED
  BY <1>2, <1>3, <1>4 DEF IInv

\* A call whose table is made.
LEMMA AddedIs ==
    ASSUME IInv, call.op = "added"
    PROVE  /\ call.db \in open /\ call.db \in DBs /\ InUse = open
           /\ call.name \in Names /\ call.col \in Collections
           /\ call.name \notin DOMAIN container[call.db]
BY CreateIs

LEMMA StoreCollectionKeeps == ASSUME IInv, StoreCollection PROVE IInv'
<1>1. PICK d, n, col : d = call.db /\ n = call.name /\ col = call.col
  OBVIOUS
<1>2. /\ call.op = "added" /\ call' = Idle /\ call'.op = "none" /\ call' # Failed
      /\ d \in open /\ d \in DBs /\ InUse = open /\ InUse' = open
      /\ n \in Names /\ col \in Collections /\ n \notin DOMAIN container[d]
      /\ stored' = [stored EXCEPT ![d] = @ \cup {n}]
      /\ container' = [container EXCEPT ![d] = With(@, n, col)]
      /\ open' = open /\ dictionary' = dictionary /\ tables' = tables /\ vtabs' = vtabs
      /\ pool' = pool /\ taken' = taken /\ made' = made /\ parts' = parts
  <2>1. call.op = "added" /\ call' = Idle /\ call'.op = "none" /\ call' # Failed
    BY Strings DEF StoreCollection
  <2>2. /\ d \in open /\ d \in DBs /\ InUse = open /\ n \in Names /\ col \in Collections
        /\ n \notin DOMAIN container[d]
    BY <1>1, <2>1, AddedIs
  <2>3. InUse' = open
    BY <2>1 DEF InUse, StoreCollection
  <2> QED
    BY <1>1, <2>1, <2>2, <2>3 DEF StoreCollection
<1>3. /\ container \in [DBs -> Maps(Names, Collections)] /\ stored \in [DBs -> SUBSET Names]
      /\ container'[d] = With(container[d], n, col) /\ stored'[d] = stored[d] \cup {n}
      /\ \A e \in DBs \ {d} : container'[e] = container[e] /\ stored'[e] = stored[e]
  BY <1>2 DEF IInv, Typed
<1>4. DOMAIN container'[d] = DOMAIN container[d] \cup {n}
  BY <1>3 DEF With
<1>5. Typed'
  <2>1. With(container[d], n, col) \in Maps(Names, Collections)
    BY <1>2, <1>3, WithMaps
  <2>2. container' \in [DBs -> Maps(Names, Collections)] /\ stored' \in [DBs -> SUBSET Names]
    BY <1>2, <1>3, <2>1
  <2>3. call' \in Calls
    BY <1>2 DEF Calls
  <2> QED
    BY <1>2, <2>2, <2>3 DEF IInv, Typed
<1>6. Uses'
  BY <1>2, <1>3 DEF IInv, Uses, Creating
<1>7. Tables'
  <2>1. n \in DOMAIN tables[ConnStr[d]] /\ tables[ConnStr[d]][n] = Key(d, n)
    BY <1>1, <1>2 DEF IInv, Tables
  <2>2. \A e \in open : \A m \in DOMAIN container'[e] :
           m \in DOMAIN tables[ConnStr[e]] /\ tables[ConnStr[e]][m] = Key(e, m)
    <3> SUFFICES ASSUME NEW e \in open, NEW m \in DOMAIN container'[e]
                 PROVE  m \in DOMAIN tables[ConnStr[e]] /\ tables[ConnStr[e]][m] = Key(e, m)
      OBVIOUS
    <3>1. e \in DBs
      BY DEF IInv, Typed
    <3>2. CASE e = d /\ m = n
      BY <2>1, <3>2
    <3>3. CASE ~(e = d /\ m = n)
      <4>1. m \in DOMAIN container[e]
        BY <1>3, <1>4, <3>1, <3>3
      <4> QED
        BY <1>2, <4>1 DEF IInv, Tables
    <3> QED
      BY <3>2, <3>3
  <2> QED
    BY <1>2, <2>2 DEF IInv, Tables
<1>8. Metadata'
  <2>1. \A e \in open : e \in DBs /\ DOMAIN container[e] = stored[e]
    BY DEF IInv, Typed, Metadata
  <2>2. \A e \in open : DOMAIN container'[e] = stored'[e]
    BY <1>3, <1>4, <2>1
  <2> QED
    BY <1>2, <2>2 DEF Metadata
<1>9. Undone' /\ Whole' /\ StoredWholeOrNotAtAll'
  <2>1. parts[d][n] = Parts
    <3>1. Done("added") = Parts
      BY DEF Done
    <3>2. Parts \subseteq parts[d][n] /\ parts[d][n] \subseteq Parts
      BY <1>1, <1>2, <3>1 DEF IInv, Typed, Whole
    <3> QED
      BY <3>2
  <2>2. \A e \in DBs : \A m \in stored'[e] : parts'[e][m] = Parts
    BY <1>2, <1>3, <2>1 DEF IInv, Whole
  <2> QED
    BY <1>2, <2>2 DEF Undone, Whole, StoredWholeOrNotAtAll, Creating
<1> QED
  BY <1>5, <1>6, <1>7, <1>8, <1>9 DEF IInv

LEMMA StoreFailsKeeps == ASSUME IInv, StoreFails PROVE IInv'
<1>1. PICK d, n : d = call.db /\ n = call.name
  OBVIOUS
<1>2. /\ call.op = "added" /\ call' = Failed /\ call'.op = "failed"
      /\ d \in open /\ d \in DBs /\ InUse = open /\ InUse' = open /\ n \in Names
      /\ tables' = TablesLess(tables, d, n) /\ vtabs' = InstancesLess(vtabs, d, n)
      /\ dictionary' = Without(dictionary, Key(d, n))
      /\ stored' = stored /\ open' = open /\ container' = container /\ pool' = pool
      /\ taken' = taken /\ made' = made /\ before' = before /\ parts' = parts
  <2>1. /\ call.op = "added" /\ call' = Failed /\ call'.op = "failed"
        /\ RemoveCollection(d, n)
        /\ stored' = stored /\ open' = open /\ container' = container /\ pool' = pool
        /\ taken' = taken /\ made' = made /\ before' = before /\ parts' = parts
    BY <1>1, Strings DEF StoreFails
  <2>2. d \in open /\ d \in DBs /\ InUse = open /\ n \in Names
    BY <1>1, <2>1, AddedIs
  <2>3. InUse' = open
    BY <2>1 DEF InUse
  <2>4. /\ tables' = TablesLess(tables, d, n) /\ vtabs' = InstancesLess(vtabs, d, n)
        /\ dictionary' = Without(dictionary, Key(d, n))
    BY <2>1 DEF RemoveCollection, TablesLess, InstancesLess
  <2> QED
    BY <2>1, <2>2, <2>3, <2>4
<1>3. /\ tables \in [ConnStrs -> Maps(Names, Keys)] /\ ConnStr[d] \in ConnStrs
      /\ vtabs \in [DBs -> [Connections -> Maps(Names, Collections)]]
      /\ \A e \in DBs : ConnStr[e] \in ConnStrs
  BY <1>2 DEF IInv, Typed, ConnStrs
<1>4. /\ tables'[ConnStr[d]] = Without(tables[ConnStr[d]], n)
      /\ \A s \in ConnStrs \ {ConnStr[d]} : tables'[s] = tables[s]
  BY <1>2, <1>3 DEF TablesLess
<1>5. /\ \A e \in DBs : ConnStr[e] # ConnStr[d] => vtabs'[e] = vtabs[e]
      /\ \A e \in DBs : ConnStr[e] = ConnStr[d] =>
            vtabs'[e] = [c \in Connections |-> Without(vtabs[e][c], n)]
  BY <1>2 DEF InstancesLess
<1>6. /\ DOMAIN tables'[ConnStr[d]] = DOMAIN tables[ConnStr[d]] \ {n}
      /\ \A m \in DOMAIN tables[ConnStr[d]] \ {n} :
            tables'[ConnStr[d]][m] = tables[ConnStr[d]][m]
  BY <1>4 DEF Without
<1>7. Typed'
  <2>1. Without(tables[ConnStr[d]], n) \in Maps(Names, Keys)
    BY <1>3, WithoutMaps
  <2>2. tables' \in [ConnStrs -> Maps(Names, Keys)]
    BY <1>2, <1>3, <2>1 DEF TablesLess
  <2>3. \A e \in DBs, c \in Connections : Without(vtabs[e][c], n) \in Maps(Names, Collections)
    BY <1>3, WithoutMaps
  <2>4. vtabs' \in [DBs -> [Connections -> Maps(Names, Collections)]]
    BY <1>2, <1>3, <2>3 DEF InstancesLess
  <2>5. dictionary' \in Maps(Keys, Collections)
    BY <1>2, WithoutMaps DEF IInv, Typed
  <2>6. call' \in Calls
    BY <1>2 DEF Calls
  <2> QED
    BY <1>2, <2>2, <2>4, <2>5, <2>6 DEF IInv, Typed
<1>8. Uses'
  <2>1. ASSUME NEW e \in DBs \ open PROVE vtabs'[e] = [c \in Connections |-> Nothing]
    <3>1. vtabs[e] = [c \in Connections |-> Nothing]
      BY <1>2 DEF IInv, Uses
    <3>2. Without(Nothing, n) = Nothing
      BY NothingMaps, WithoutMaps
    <3>3. CASE ConnStr[e] # ConnStr[d]
      BY <1>5, <3>1, <3>3
    <3>4. CASE ConnStr[e] = ConnStr[d]
      BY <1>5, <3>1, <3>2, <3>4
    <3> QED
      BY <3>3, <3>4
  <2> QED
    BY <1>2, <2>1 DEF IInv, Uses, Creating
<1>9. Tables'
  <2>1. \A e \in open : ConnStr[e] = ConnStr[d] => n \notin DOMAIN container[e]
    BY <1>1, <1>2 DEF IInv, Tables
  <2>2. ASSUME NEW e \in open, NEW m \in DOMAIN container[e]
        PROVE  m \in DOMAIN tables'[ConnStr[e]] /\ tables'[ConnStr[e]][m] = Key(e, m)
    <3>1. /\ m \in DOMAIN tables[ConnStr[e]] /\ tables[ConnStr[e]][m] = Key(e, m)
          /\ e \in DBs /\ ConnStr[e] \in ConnStrs
      BY <1>2, <1>3 DEF IInv, Tables, Typed
    <3>2. CASE ConnStr[e] = ConnStr[d]
      BY <1>6, <2>1, <3>1, <3>2
    <3>3. CASE ConnStr[e] # ConnStr[d]
      BY <1>4, <3>1, <3>3
    <3> QED
      BY <3>2, <3>3
  <2>3. ASSUME NEW e \in DBs, NEW c \in Connections
        PROVE  DOMAIN vtabs'[e][c] \subseteq DOMAIN tables'[ConnStr[e]]
    <3>1. DOMAIN vtabs[e][c] \subseteq DOMAIN tables[ConnStr[e]] /\ ConnStr[e] \in ConnStrs
      BY <1>3 DEF IInv, Tables
    <3>2. CASE ConnStr[e] = ConnStr[d]
      <4>1. vtabs'[e][c] = Without(vtabs[e][c], n)
        BY <1>5, <3>2
      <4>2. DOMAIN vtabs'[e][c] = DOMAIN vtabs[e][c] \ {n}
        BY <4>1 DEF Without
      <4> QED
        BY <1>6, <3>1, <3>2, <4>2
    <3>3. CASE ConnStr[e] # ConnStr[d]
      BY <1>4, <1>5, <3>1, <3>3
    <3> QED
      BY <3>2, <3>3
  <2>4. \A s \in ConnStrs : (\A e \in open : ConnStr[e] # s) => tables'[s] = Nothing
    BY <1>2, <1>4 DEF IInv, Tables
  <2> QED
    BY <1>2, <2>2, <2>3, <2>4 DEF Tables
<1>10. Metadata' /\ Undone' /\ Whole'
  BY <1>2 DEF IInv, Metadata, Undone, Whole, Creating
<1>11. StoredWholeOrNotAtAll'
  <2>1. /\ stored = before.stored /\ container = before.container
        /\ TablesLess(tables, d, n) = before.tables /\ InstancesLess(vtabs, d, n) = before.vtabs
        /\ \A k \in DOMAIN dictionary \ {Key(d, n)} :
              k \in DOMAIN before.dictionary /\ dictionary[k] = before.dictionary[k]
        /\ OnlyPartsAreNew
    BY <1>1, <1>2 DEF IInv, Undone
  <2>2. \A k \in DOMAIN dictionary' :
           k \in DOMAIN dictionary \ {Key(d, n)} /\ dictionary'[k] = dictionary[k]
    BY <1>2 DEF Without
  <2> QED
    BY <1>2, <2>1, <2>2 DEF IInv, StoredWholeOrNotAtAll, OnlyPartsAreNew
<1> QED
  BY <1>7, <1>8, <1>9, <1>10, <1>11 DEF IInv

\* A database is destroyed, or its constructor throws.
Leave(d) ==
    /\ Disconnect(d)
    /\ container' = [container EXCEPT ![d] = Nothing]
    /\ InUse' = InUse \ {d} /\ open' = InUse'
    /\ call' = Idle
    /\ dictionary' \in Maps(Keys, Collections)
    /\ UNCHANGED <<stored, parts, made>>

LEMMA LeaveKeeps == ASSUME IInv, NEW d \in InUse, open \ {d} = InUse \ {d}, Leave(d) PROVE IInv'
<1> USE DEF Leave
<1>1. /\ d \in DBs /\ InUse \subseteq DBs /\ ConnStr[d] \in ConnStrs
      /\ \A e \in DBs : ConnStr[e] \in ConnStrs
      /\ call'.op = "none" /\ call' # Failed /\ Disconnect(d)
  BY Strings DEF InUse, IInv, Typed, ConnStrs
<1>2. /\ container' \in [DBs -> Maps(Names, Collections)] /\ container'[d] = Nothing
      /\ \A e \in DBs \ {d} : container'[e] = container[e]
  BY <1>1, NothingMaps DEF IInv, Typed
<1>3. /\ vtabs'[d] = [c \in Connections |-> Nothing]
      /\ \A e \in DBs \ {d} : vtabs'[e] = vtabs[e]
      /\ \A s \in ConnStrs \ {ConnStr[d]} : tables'[s] = tables[s]
      /\ \/ tables'[ConnStr[d]] = tables[ConnStr[d]]
            /\ \E e \in InUse' : ConnStr[e] = ConnStr[d]
         \/ tables'[ConnStr[d]] = Nothing
            /\ \A e \in InUse' : ConnStr[e] # ConnStr[d]
      /\ taken'[d] = {} /\ \A e \in DBs \ {d} : taken'[e] = taken[e]
  BY <1>1, DisconnectIs
<1>4. Typed'
  <2>1. /\ vtabs' \in [DBs -> [Connections -> Maps(Names, Collections)]]
        /\ tables' \in [ConnStrs -> Maps(Names, Keys)]
        /\ pool' \in [DBs -> Seq(Slots)] /\ taken' \in [DBs -> SUBSET Slots]
        /\ \A e \in DBs : GoodPool(pool'[e], taken'[e])
    BY <1>1, DisconnectIs
  <2>2. call' \in Calls /\ open' \in SUBSET DBs
    BY <1>1 DEF Calls
  <2> QED
    BY <1>2, <2>1, <2>2 DEF IInv, Typed
<1>5. Uses'
  <2>1. IsFiniteSet(open) /\ Cardinality(open') \in Nat /\ IsFiniteSet(open')
    BY FS_RemoveElement, FS_CardinalityType DEF IInv, Uses
  <2>2. Cardinality(open') <= MaxOpen
    <3>1. IsFiniteSet(InUse)
      BY <2>1, FS_AddElement, InUseIs DEF IInv
    <3>2. Cardinality(open') <= Cardinality(InUse) /\ Cardinality(InUse) \in Nat
      BY <3>1, FS_Subset, FS_CardinalityType
    <3> QED
      BY <2>1, <3>2, DatabasesAssumption DEF IInv, Uses
  <2>3. ASSUME NEW e \in DBs \ InUse'
        PROVE  container'[e] = Nothing /\ vtabs'[e] = [c \in Connections |-> Nothing]
    BY <1>2, <1>3 DEF IInv, Uses
  <2>4. \A e \in DBs \ open' : taken'[e] = {}
    BY <1>3 DEF IInv, Uses
  <2> QED
    BY <1>1, <2>1, <2>2, <2>3, <2>4 DEF Uses, Creating
<1>6. Tables'
  <2>1. ASSUME NEW s \in ConnStrs, \A e \in InUse' : ConnStr[e] # s PROVE tables'[s] = Nothing
    <3>1. CASE s = ConnStr[d]
      BY <1>3, <2>1, <3>1
    <3>2. CASE s # ConnStr[d]
      BY <1>3, <2>1, <3>2 DEF IInv, Tables
    <3> QED
      BY <3>1, <3>2
  <2>2. \A e \in InUse' : ConnStr[e] \in ConnStrs /\ tables'[ConnStr[e]] = tables[ConnStr[e]]
    BY <1>1, <1>3
  <2>3. ASSUME NEW e \in InUse', NEW m \in DOMAIN container'[e]
        PROVE  m \in DOMAIN tables'[ConnStr[e]] /\ tables'[ConnStr[e]][m] = Key(e, m)
    BY <1>1, <1>2, <2>2 DEF IInv, Tables
  <2>4. ASSUME NEW e \in DBs, NEW c \in Connections
        PROVE  DOMAIN vtabs'[e][c] \subseteq DOMAIN tables'[ConnStr[e]]
    <3>1. CASE e \in InUse'
      BY <1>3, <2>2, <3>1 DEF IInv, Tables
    <3>2. CASE e \notin InUse'
      <4>1. vtabs'[e] = [b \in Connections |-> Nothing]
        BY <1>3, <3>2 DEF IInv, Uses
      <4> QED
        BY <4>1, NothingMaps
    <3> QED
      BY <3>1, <3>2
  <2> QED
    BY <1>1, <2>1, <2>3, <2>4 DEF Tables
<1>7. Metadata' /\ Undone' /\ Whole' /\ StoredWholeOrNotAtAll'
  <2>1. \A e \in open' : e \in DBs \ {d} /\ e \in open
    BY <1>1
  <2> QED
    BY <1>1, <1>2, <2>1, DiskKeeps DEF IInv, Metadata
<1> QED
  BY <1>4, <1>5, <1>6, <1>7 DEF IInv

LEMMA OpenFailsLeaves ==
    ASSUME IInv, OpenFails
    PROVE  call.db \in InUse /\ open \ {call.db} = InUse \ {call.db} /\ Leave(call.db)
<1>1. /\ call.op = "open" /\ call' = Idle /\ call'.op = "none" /\ open' = open
      /\ InUse = open \cup {call.db} /\ call.db \notin open /\ InUse' = open
  BY Strings, InUseIs DEF OpenFails, IInv, Uses, InUse
<1>2. dictionary' \in Maps(Keys, Collections)
  <2>1. CASE UNCHANGED dictionary
    BY <2>1 DEF IInv, Typed
  <2>2. CASE \E n \in call.todo : dictionary' = Without(dictionary, Key(call.db, n))
    <3>1. PICK n : dictionary' = Without(dictionary, Key(call.db, n))
      BY <2>2
    <3> QED
      BY <3>1, WithoutMaps DEF IInv, Typed
  <2> QED
    BY <2>1, <2>2 DEF OpenFails
<1> QED
  BY <1>1, <1>2 DEF OpenFails, Leave

LEMMA CloseLeaves ==
    ASSUME IInv, NEW d \in DBs, Close(d)
    PROVE  d \in InUse /\ open \ {d} = InUse \ {d} /\ Leave(d)
<1>1. /\ call.op = "none" /\ call' = Idle /\ open' = open \ {d} /\ d \in open
      /\ InUse = open /\ InUse' = open \ {d}
  BY Strings DEF Close, InUse
<1>2. dictionary' \in Maps(Keys, Collections)
  BY NothingMaps DEF Close
<1> QED
  BY <1>1, <1>2 DEF Close, Leave

LEMMA StatementKeeps == ASSUME IInv, NEW d \in DBs, StatementOf(d) PROVE IInv'
<1>1. PICK c \in Connections, f \in Maps(Names, Collections) : Statement(d, c, f)
  BY StatementsAre DEF StatementStep
<1>2. /\ call = Idle /\ call' = Idle /\ call.op = "none" /\ call'.op = "none" /\ call' # Failed
      /\ d \in open /\ InUse = open /\ InUse' = open
      /\ vtabs' = [vtabs EXCEPT ![d][c] = f]
      /\ DOMAIN f \subseteq DOMAIN tables[ConnStr[d]]
      /\ \A e \in DBs \ open : taken'[e] = taken[e]
      /\ stored' = stored /\ open' = open /\ container' = container
      /\ dictionary' = dictionary /\ tables' = tables /\ made' = made
      /\ parts' = parts
  BY <1>1, Strings DEF Statement, InUse, Known
<1>3. /\ vtabs \in [DBs -> [Connections -> Maps(Names, Collections)]]
      /\ vtabs' \in [DBs -> [Connections -> Maps(Names, Collections)]]
      /\ vtabs'[d][c] = f /\ \A e \in DBs \ {d} : vtabs'[e] = vtabs[e]
      /\ \A b \in Connections \ {c} : vtabs'[d][b] = vtabs[d][b]
  BY <1>2 DEF IInv, Typed
<1>4. Typed'
  <2>1. /\ pool' = [pool EXCEPT ![d] = pool'[d]] /\ taken' = [taken EXCEPT ![d] = taken'[d]]
        /\ GoodPool(pool'[d], taken'[d])
    BY StatementsAre DEF StatementStep
  <2>2. pool'[d] \in Seq(Slots) /\ taken'[d] \in SUBSET Slots
    BY <2>1 DEF GoodPool
  <2>3. /\ pool' \in [DBs -> Seq(Slots)] /\ taken' \in [DBs -> SUBSET Slots]
        /\ \A e \in DBs \ {d} : pool'[e] = pool[e] /\ taken'[e] = taken[e]
    BY <2>1, <2>2 DEF IInv, Typed
  <2>4. \A e \in DBs : GoodPool(pool'[e], taken'[e])
    BY <2>1, <2>3 DEF IInv, Typed
  <2>5. call' \in Calls
    BY <1>2 DEF Calls
  <2> QED
    BY <1>2, <1>3, <2>3, <2>4, <2>5 DEF IInv, Typed
<1>5. Uses'
  BY <1>2, <1>3 DEF IInv, Uses, Creating
<1>6. Tables'
  BY <1>2, <1>3 DEF IInv, Tables
<1>7. Metadata' /\ Undone' /\ Whole' /\ StoredWholeOrNotAtAll'
  BY <1>2, DiskKeeps DEF IInv, Metadata
<1> QED
  BY <1>4, <1>5, <1>6, <1>7 DEF IInv

\* The steps, by what they do to a database that is in use.
LEMMA StepsAre ==
    ASSUME Next
    PROVE  \/ \E d \in DBs : Open(d) \/ Close(d) \/ StatementOf(d)
           \/ \E d \in DBs, n \in Names : CreateCollection(d, n)
           \/ LoadCollection \/ Opened \/ OpenFails
           \/ Building \/ CreateFails \/ CreateTable \/ CreateTableFails
           \/ StoreCollection \/ StoreFails \/ Throw
           \/ Crash
BY DEF Next, StatementOf, Building

LEMMA UnchangedKeeps ==
    ASSUME UNCHANGED vars
    PROVE  (IInv => IInv') /\ (SharedIInv => SharedIInv') /\ (Exact => Exact')
<1> USE DEF vars, memory
<1>1. InUse' = InUse /\ (Typed => Typed')
  BY DEF InUse, Typed, GoodPool
<1>2. /\ Uses => Uses'
      /\ Tables => Tables'
      /\ Metadata => Metadata'
      /\ Undone => Undone'
      /\ Whole => Whole'
      /\ StoredWholeOrNotAtAll => StoredWholeOrNotAtAll'
  BY <1>1 DEF Uses, Tables, Metadata, Undone, Whole, StoredWholeOrNotAtAll, OnlyPartsAreNew
<1>3. (SharedIInv => SharedIInv') /\ (Exact => Exact')
  BY <1>1 DEF SharedIInv, Entries, Instances, Exact
<1> QED
  BY <1>1, <1>2, <1>3 DEF IInv

LEMMA NextKeeps == ASSUME IInv, [Next]_vars PROVE IInv'
<1>1. ASSUME NEW d \in DBs, Open(d) \/ Close(d) \/ StatementOf(d) PROVE IInv'
  BY <1>1, OpenKeeps, CloseLeaves, LeaveKeeps, StatementKeeps
<1>2. ASSUME NEW d \in DBs, NEW n \in Names, CreateCollection(d, n) PROVE IInv'
  BY <1>2, CreateCollectionKeeps
<1>3. CASE LoadCollection \/ Opened
  BY <1>3, LoadCollectionKeeps, OpenedKeeps
<1>4. CASE OpenFails
  BY <1>4, OpenFailsLeaves, LeaveKeeps
<1>5. CASE Building \/ CreateFails \/ CreateTable \/ CreateTableFails
  BY <1>5, BuildingKeeps, CreateFailsKeeps, CreateTableKeeps, CreateTableFailsKeeps
<1>6. CASE StoreCollection \/ StoreFails \/ Throw
  BY <1>6, StoreCollectionKeeps, StoreFailsKeeps, ThrowKeeps
<1>7. CASE Crash
  BY <1>7, CrashKeeps
<1>8. CASE UNCHANGED vars
  BY <1>8, UnchangedKeeps
<1> QED
  BY <1>1, <1>2, <1>3, <1>4, <1>5, <1>6, <1>7, <1>8, StepsAre

THEOREM Invariance == Spec => []IInv
<1>1. Init => IInv
  BY InitEstablishes
<1>2. IInv /\ [Next]_vars => IInv'
  BY NextKeeps
<1> QED
  BY <1>1, <1>2, PTL DEF Spec

\* Every variable has its type; a pooled connection is pooled once and is not taken, and
\* ObjectPool keeps to its capacity (object_pool.h), for any number of databases,
\* collections and connections.
THEOREM TypeCorrect == Spec => []TypeOK
<1>1. IInv => TypeOK
  BY TypedImpliesTypeOK DEF IInv
<1> QED
  BY Invariance, <1>1, PTL

\* Whatever databases are open beside it, also one of the same name or in the same
\* in-memory database: a collection is in table Collection only when its data file, of
\* full size, and the rows of CollectionDataFile and CollectionDeleteVector are there; and
\* a call of DatabaseImpl::CreateCollection that fails, at whichever step, leaves no row of
\* Collection, no table, no instance and no dictionary entry, and on disk nothing but those
\* parts of the one collection.
THEOREM CollectionsAreWhole == Spec => []StoredWholeOrNotAtAll
<1>1. IInv => StoredWholeOrNotAtAll
  BY DEF IInv
<1> QED
  BY Invariance, <1>1, PTL

-----------------------------------------------------------------------------
(* Databases whose names tell them apart *)

LEMMA OneInUse == ASSUME Single, IInv, NEW d \in InUse, NEW e \in InUse PROVE d = e
<1>1. IsFiniteSet(InUse) /\ Cardinality(InUse) <= 1 /\ Cardinality(InUse) \in Nat
  <2>1. IsFiniteSet(InUse)
    BY FS_AddElement, InUseIs DEF IInv, Uses
  <2>2. Cardinality(InUse) \in Nat /\ Cardinality(InUse) <= MaxOpen
    BY <2>1, FS_CardinalityType DEF IInv, Uses
  <2> QED
    BY <2>1, <2>2, DatabasesAssumption DEF Single
<1>2. SUFFICES ASSUME d # e PROVE FALSE
  OBVIOUS
<1>3. IsFiniteSet({d}) /\ Cardinality({d}) = 1
  BY FS_Singleton
<1>4. Cardinality({d} \cup {e}) = 2
  BY <1>2, <1>3, FS_AddElement
<1>5. {d} \cup {e} \subseteq InUse
  OBVIOUS
<1>6. Cardinality({d} \cup {e}) <= Cardinality(InUse)
  BY <1>1, <1>5, FS_Subset
<1> QED
  BY <1>1, <1>4, <1>6

LEMMA KeysApart ==
    ASSUME Apart, IInv, NEW d \in InUse, NEW e \in InUse, NEW n, NEW m, Key(d, n) = Key(e, m)
    PROVE  d = e /\ n = m
<1>1. DBName[d] = DBName[e] /\ n = m
  BY DEF Key
<1>2. d \in DBs /\ e \in DBs
  BY DEF InUse, IInv, Typed
<1> QED
  BY <1>1, <1>2, OneInUse DEF Apart

\* Entries and instances may go, and databases.
LEMMA LessKeeps ==
    ASSUME SharedIInv, InUse' \subseteq InUse, call'.op # "added",
           \A k \in DOMAIN dictionary' : k \in DOMAIN dictionary /\ dictionary'[k] = dictionary[k],
           \A e \in InUse' : container'[e] = container[e],
           \A e \in InUse', c \in Connections : \A n \in DOMAIN vtabs'[e][c] :
              n \in DOMAIN vtabs[e][c] /\ vtabs'[e][c][n] = vtabs[e][c][n]
    PROVE  SharedIInv'
BY DEF SharedIInv, Entries, Instances

\* What a collection that is added does to those that are there.
LEMMA AnotherIsShared ==
    ASSUME Apart, IInv, SharedIInv,
           NEW d \in InUse, NEW n \in Names, NEW col \in Collections, AddCollection(d, n, col)
    PROVE  /\ \A e \in InUse : \A m \in DOMAIN container[e] :
                 Key(e, m) \in DOMAIN dictionary' => dictionary'[Key(e, m)] = container[e][m]
           /\ Key(d, n) \in DOMAIN dictionary' /\ dictionary'[Key(d, n)] = col
           /\ \A e \in InUse, c \in Connections : \A m \in DOMAIN vtabs'[e][c] :
                 m \in DOMAIN container[e] => vtabs'[e][c][m] = container[e][m]
           /\ \A c \in Connections : n \in DOMAIN vtabs'[d][c] => vtabs'[d][c][n] = col
<1>1. d \in DBs /\ InUse \subseteq DBs
  BY DEF InUse, IInv, Typed
<1>2. /\ DOMAIN dictionary' = DOMAIN dictionary \cup {Key(d, n)}
      /\ dictionary'[Key(d, n)] = col
      /\ \A k \in DOMAIN dictionary \ {Key(d, n)} : dictionary'[k] = dictionary[k]
  BY <1>1, EntriesWith
<1>3. \A e \in InUse : ConnStr[e] = ConnStr[d] => n \notin DOMAIN container[e]
  BY TablesWithAnother
<1>4. ASSUME NEW e \in InUse, NEW m \in DOMAIN container[e], Key(e, m) \in DOMAIN dictionary'
      PROVE  dictionary'[Key(e, m)] = container[e][m]
  <2>1. Key(e, m) # Key(d, n)
    BY <1>3, KeysApart
  <2> QED
    BY <1>2, <1>4, <2>1 DEF SharedIInv, Entries
<1>5. n \notin DOMAIN tables[ConnStr[d]]
  BY <1>1, AddCollectionIs
<1>6. /\ \A e \in DBs \ {d} : vtabs'[e] = vtabs[e]
      /\ \A c \in Connections \ {ReadWrite} : vtabs'[d][c] = vtabs[d][c]
      /\ DOMAIN vtabs'[d][ReadWrite] = DOMAIN vtabs[d][ReadWrite] \cup {n}
      /\ vtabs'[d][ReadWrite][n] = col
      /\ \A m \in DOMAIN vtabs[d][ReadWrite] : vtabs'[d][ReadWrite][m] = vtabs[d][ReadWrite][m]
  BY <1>1, InstancesWith
<1>7. ASSUME NEW c \in Connections, n \in DOMAIN vtabs'[d][c] PROVE vtabs'[d][c][n] = col
  <2>1. n \notin DOMAIN vtabs[d][c]
    BY <1>1, <1>5 DEF IInv, Tables
  <2> QED
    BY <1>6, <1>7, <2>1
<1>8. ASSUME NEW e \in InUse, NEW c \in Connections, NEW m \in DOMAIN vtabs'[e][c],
             m \in DOMAIN container[e]
      PROVE  vtabs'[e][c][m] = container[e][m]
  <2>1. ~(e = d /\ m = n)
    BY <1>3, <1>8
  <2>2. m \in DOMAIN vtabs[e][c] /\ vtabs'[e][c][m] = vtabs[e][c][m]
    <3>1. CASE e = d /\ c = ReadWrite
      BY <1>6, <2>1, <3>1
    <3>2. CASE ~(e = d /\ c = ReadWrite)
      BY <1>1, <1>6, <3>2
    <3> QED
      BY <3>1, <3>2
  <2> QED
    BY <1>8, <2>2 DEF SharedIInv, Instances
<1> QED
  BY <1>2, <1>4, <1>7, <1>8

LEMMA LoadCollectionShares ==
    ASSUME Apart, IInv, SharedIInv, LoadCollection PROVE SharedIInv'
<1>1. PICK d : d = call.db
  OBVIOUS
<1>2. /\ call.op = "open" /\ call \in [op : {"open"}, db : DBs, todo : SUBSET Names]
      /\ d \in DBs /\ d \in InUse /\ made \in Nat /\ made < MaxMade /\ open' = open
      /\ container \in [DBs -> Maps(Names, Collections)]
  BY <1>1, CallsAre DEF IInv, Typed, InUse, LoadCollection
<1>3. PICK n \in call.todo :
          /\ AddCollection(d, n, New(d, n))
          /\ container' = [container EXCEPT ![d] = With(@, n, New(d, n))]
          /\ call' = [call EXCEPT !.todo = @ \ {n}]
  BY <1>1, <1>2 DEF LoadCollection
<1>4. PICK col : col = New(d, n)
  OBVIOUS
<1>5. n \in Names /\ col \in Collections /\ AddCollection(d, n, col)
  BY <1>2, <1>3, <1>4, DatabasesAssumption DEF New, Collections
<1>6. call'.op = "open" /\ call'.db = d /\ InUse' = InUse /\ InUse \subseteq DBs
  BY <1>1, <1>2, <1>3 DEF InUse, IInv, Typed
<1>7. container'[d] = With(container[d], n, col) /\ \A e \in DBs \ {d} : container'[e] = container[e]
  BY <1>2, <1>3, <1>4
<1>8. /\ DOMAIN container'[d] = DOMAIN container[d] \cup {n} /\ container'[d][n] = col
      /\ \A m \in DOMAIN container[d] \ {n} : container'[d][m] = container[d][m]
  BY <1>7 DEF With
<1>9. n \notin DOMAIN container[d]
  BY <1>2, <1>5, TablesWithAnother
<1>10. /\ \A e \in InUse : \A m \in DOMAIN container[e] :
             Key(e, m) \in DOMAIN dictionary' => dictionary'[Key(e, m)] = container[e][m]
       /\ Key(d, n) \in DOMAIN dictionary' /\ dictionary'[Key(d, n)] = col
       /\ \A e \in InUse, c \in Connections : \A m \in DOMAIN vtabs'[e][c] :
             m \in DOMAIN container[e] => vtabs'[e][c][m] = container[e][m]
       /\ \A c \in Connections : n \in DOMAIN vtabs'[d][c] => vtabs'[d][c][n] = col
  BY <1>2, <1>5, AnotherIsShared
<1>11. Entries'
  <2>1. ASSUME NEW e \in InUse, NEW m \in DOMAIN container'[e], Key(e, m) \in DOMAIN dictionary'
        PROVE  dictionary'[Key(e, m)] = container'[e][m]
    <3>1. CASE e = d /\ m = n
      BY <1>8, <1>10, <3>1
    <3>2. CASE e = d /\ m # n
      BY <1>8, <1>10, <2>1, <3>2
    <3>3. CASE e # d
      BY <1>6, <1>7, <1>10, <2>1, <3>3
    <3> QED
      BY <3>1, <3>2, <3>3
  <2> QED
    BY <1>6, <2>1 DEF Entries
<1>12. Instances'
  <2>1. ASSUME NEW e \in InUse, NEW c \in Connections, NEW m \in DOMAIN vtabs'[e][c],
               m \in DOMAIN container'[e]
        PROVE  vtabs'[e][c][m] = container'[e][m]
    <3>1. CASE e = d /\ m = n
      BY <1>8, <1>10, <3>1
    <3>2. CASE e = d /\ m # n
      BY <1>8, <1>10, <2>1, <3>2
    <3>3. CASE e # d
      BY <1>6, <1>7, <1>10, <2>1, <3>3
    <3> QED
      BY <3>1, <3>2, <3>3
  <2> QED
    BY <1>6, <2>1 DEF Instances
<1> QED
  BY <1>11, <1>12 DEF SharedIInv

LEMMA CreateTableShares == ASSUME Apart, IInv, SharedIInv, CreateTable PROVE SharedIInv'
<1>1. PICK d, n, col : d = call.db /\ n = call.name /\ col = call.col
  OBVIOUS
<1>2. /\ call.op \in Creating /\ call \in CreateCalls
      /\ call' = [call EXCEPT !.op = "added"] /\ open' = open /\ container' = container
  BY CreateIs DEF CreateTable, Creating
<1>3. /\ d \in InUse /\ n \in Names /\ col \in Collections /\ AddCollection(d, n, col)
      /\ call'.op = "added" /\ call'.db = d /\ call'.name = n /\ call'.col = col
      /\ InUse' = InUse
  BY <1>1, <1>2, CreateIs DEF CreateCalls, InUse, CreateTable
<1>4. /\ \A e \in InUse : \A m \in DOMAIN container[e] :
            Key(e, m) \in DOMAIN dictionary' => dictionary'[Key(e, m)] = container[e][m]
      /\ dictionary'[Key(d, n)] = col
      /\ \A e \in InUse, c \in Connections : \A m \in DOMAIN vtabs'[e][c] :
            m \in DOMAIN container[e] => vtabs'[e][c][m] = container[e][m]
      /\ \A c \in Connections : n \in DOMAIN vtabs'[d][c] => vtabs'[d][c][n] = col
  BY <1>3, AnotherIsShared
<1> QED
  BY <1>2, <1>3, <1>4 DEF SharedIInv, Entries, Instances

LEMMA StoreCollectionShares == ASSUME IInv, SharedIInv, StoreCollection PROVE SharedIInv'
<1>1. PICK d, n, col : d = call.db /\ n = call.name /\ col = call.col
  OBVIOUS
<1>2. /\ call.op = "added" /\ call'.op = "none" /\ d \in open /\ d \in DBs
      /\ InUse = open /\ InUse' = open /\ open \subseteq DBs
      /\ container' = [container EXCEPT ![d] = With(@, n, col)]
      /\ container \in [DBs -> Maps(Names, Collections)]
      /\ dictionary' = dictionary /\ vtabs' = vtabs
  <2>1. call.op = "added" /\ call'.op = "none"
    BY Strings DEF StoreCollection
  <2>2. d \in open /\ d \in DBs /\ InUse = open
    BY <1>1, <2>1, AddedIs
  <2>3. InUse' = open
    BY <2>1 DEF InUse, StoreCollection
  <2> QED
    BY <1>1, <2>1, <2>2, <2>3 DEF StoreCollection, IInv, Typed
<1>3. container'[d] = With(container[d], n, col) /\ \A e \in DBs \ {d} : container'[e] = container[e]
  BY <1>2
<1>4. /\ DOMAIN container'[d] = DOMAIN container[d] \cup {n} /\ container'[d][n] = col
      /\ \A m \in DOMAIN container[d] \ {n} : container'[d][m] = container[d][m]
  BY <1>3 DEF With
<1>5. /\ Key(d, n) \in DOMAIN dictionary => dictionary[Key(d, n)] = col
      /\ \A c \in Connections : n \in DOMAIN vtabs[d][c] => vtabs[d][c][n] = col
  BY <1>1, <1>2 DEF SharedIInv, Entries, Instances
<1>6. \A e \in open : \A m \in DOMAIN container'[e] :
         (e = d /\ m = n) \/ (m \in DOMAIN container[e] /\ container'[e][m] = container[e][m])
  BY <1>2, <1>3, <1>4
<1>7. Entries'
  <2>1. ASSUME NEW e \in open, NEW m \in DOMAIN container'[e], Key(e, m) \in DOMAIN dictionary
        PROVE  dictionary[Key(e, m)] = container'[e][m]
    BY <1>2, <1>4, <1>5, <1>6, <2>1 DEF SharedIInv, Entries
  <2> QED
    BY <1>2, <2>1 DEF Entries
<1>8. Instances'
  <2>1. ASSUME NEW e \in open, NEW c \in Connections, NEW m \in DOMAIN vtabs[e][c],
               m \in DOMAIN container'[e]
        PROVE  vtabs[e][c][m] = container'[e][m]
    BY <1>2, <1>4, <1>5, <1>6, <2>1 DEF SharedIInv, Instances
  <2> QED
    BY <1>2, <2>1 DEF Instances
<1> QED
  BY <1>7, <1>8 DEF SharedIInv

LEMMA StatementShares ==
    ASSUME IInv, SharedIInv, NEW d \in DBs, StatementOf(d) PROVE SharedIInv'
<1>1. PICK c \in Connections, f \in Maps(Names, Collections) : Statement(d, c, f)
  BY StatementsAre DEF StatementStep
<1>2. /\ call'.op = "none" /\ d \in open /\ InUse = open /\ InUse' = open /\ open \subseteq DBs
      /\ vtabs' = [vtabs EXCEPT ![d][c] = f]
      /\ vtabs \in [DBs -> [Connections -> Maps(Names, Collections)]]
      /\ \A n \in DOMAIN f : Known(d, c, n, f[n])
      /\ container' = container /\ dictionary' = dictionary
  BY <1>1, Strings DEF Statement, InUse, IInv, Typed
<1>3. Entries'
  BY <1>2 DEF SharedIInv, Entries
<1>4. ASSUME NEW n \in DOMAIN f, n \in DOMAIN container[d] PROVE f[n] = container[d][n]
  <2>1. tables[ConnStr[d]][n] = Key(d, n)
    BY <1>2, <1>4 DEF IInv, Tables
  <2>2. CASE n \in DOMAIN vtabs[d][c] /\ f[n] = vtabs[d][c][n]
    BY <1>2, <1>4, <2>2 DEF SharedIInv, Instances
  <2>3. CASE Key(d, n) \in DOMAIN dictionary /\ f[n] = dictionary[Key(d, n)]
    BY <1>2, <1>4, <2>3 DEF SharedIInv, Entries
  <2> QED
    BY <1>2, <2>1, <2>2, <2>3 DEF Known
<1>5. ASSUME NEW e \in open, NEW b \in Connections, NEW n \in DOMAIN vtabs'[e][b],
             n \in DOMAIN container[e]
      PROVE  vtabs'[e][b][n] = container[e][n]
  <2>1. CASE e = d /\ b = c
    BY <1>2, <1>4, <1>5, <2>1
  <2>2. CASE ~(e = d /\ b = c)
    <3>1. vtabs'[e][b] = vtabs[e][b]
      BY <1>2, <2>2
    <3> QED
      BY <1>2, <1>5, <3>1 DEF SharedIInv, Instances
  <2> QED
    BY <2>1, <2>2
<1> QED
  BY <1>2, <1>3, <1>5 DEF SharedIInv, Instances

LEMMA LeaveShares ==
    ASSUME IInv, SharedIInv, NEW d \in InUse, Leave(d),
           \A k \in DOMAIN dictionary' : k \in DOMAIN dictionary /\ dictionary'[k] = dictionary[k]
    PROVE  SharedIInv'
<1>1. /\ d \in DBs /\ InUse \subseteq DBs /\ InUse' = InUse \ {d} /\ call'.op # "added"
      /\ container \in [DBs -> Maps(Names, Collections)]
  BY Strings DEF InUse, IInv, Typed, Leave
<1>2. \A e \in DBs \ {d} : vtabs'[e] = vtabs[e]
  BY <1>1, DisconnectIs DEF Leave
<1>3. \A e \in InUse' : vtabs'[e] = vtabs[e] /\ container'[e] = container[e]
  BY <1>1, <1>2 DEF Leave
<1> QED
  BY <1>1, <1>3, LessKeeps

LEMMA OpenShares == ASSUME IInv, SharedIInv, NEW d \in DBs, Open(d) PROVE SharedIInv'
<1>1. /\ InUse' = InUse \cup {d} /\ d \notin InUse /\ call'.op = "open"
      /\ container' = container /\ dictionary' = dictionary /\ vtabs' = vtabs
  BY Strings DEF Open, InUse, IInv, Typed
<1>2. container[d] = Nothing
  BY <1>1 DEF IInv, Uses
<1> QED
  BY <1>1, <1>2, NothingMaps DEF SharedIInv, Entries, Instances

\* Nothing but the call changes.
LEMMA CallShares ==
    ASSUME IInv, SharedIInv,
           \/ \E d \in DBs, n \in Names : CreateCollection(d, n)
           \/ Opened \/ Building \/ CreateFails \/ Throw
    PROVE  SharedIInv'
<1>1. /\ call'.op # "added" /\ InUse' = InUse
      /\ container' = container /\ dictionary' = dictionary /\ vtabs' = vtabs
  <2>1. CASE Opened
    BY <2>1, InUseIs, Strings DEF Opened, InUse, IInv
  <2>2. CASE CreateFails \/ Throw
    BY <2>2, Strings DEF CreateFails, Throw, InUse, memory
  <2>4. CASE Building
    BY <2>4, BuildingIs DEF memory, Creating
  <2>3. CASE \E d \in DBs, n \in Names : CreateCollection(d, n)
    BY <2>3, Strings DEF CreateCollection, InUse, memory
  <2> QED
    BY <2>1, <2>2, <2>3, <2>4
<1> QED
  BY <1>1 DEF SharedIInv, Entries, Instances

LEMMA FailureShares ==
    ASSUME IInv, SharedIInv, CreateTableFails \/ StoreFails PROVE SharedIInv'
<1>1. PICK d, n : d = call.db /\ n = call.name
  OBVIOUS
<1>2. /\ call'.op # "added" /\ InUse' = InUse /\ container' = container
      /\ dictionary' = Without(dictionary, Key(d, n))
      /\ vtabs' = vtabs \/ vtabs' = InstancesLess(vtabs, d, n)
  BY <1>1, Strings DEF CreateTableFails, StoreFails, AddCollectionFails, RemoveCollection,
     InUse, InstancesLess
<1>3. \A k \in DOMAIN dictionary' : k \in DOMAIN dictionary /\ dictionary'[k] = dictionary[k]
  BY <1>2 DEF Without
<1>4. InUse \subseteq DBs
  BY DEF InUse, IInv, Typed
<1>5. ASSUME NEW e \in InUse, NEW c \in Connections, NEW m \in DOMAIN vtabs'[e][c]
      PROVE  m \in DOMAIN vtabs[e][c] /\ vtabs'[e][c][m] = vtabs[e][c][m]
  <2>1. vtabs'[e][c] = vtabs[e][c] \/ vtabs'[e][c] = Without(vtabs[e][c], n)
    BY <1>2, <1>4 DEF InstancesLess
  <2>2. CASE vtabs'[e][c] = vtabs[e][c]
    BY <2>2
  <2>3. CASE vtabs'[e][c] = Without(vtabs[e][c], n)
    BY <2>3 DEF Without
  <2> QED
    BY <2>1, <2>2, <2>3
<1> QED
  BY <1>2, <1>3, <1>5, LessKeeps

LEMMA NextShares == ASSUME Apart, IInv, SharedIInv, [Next]_vars PROVE SharedIInv'
<1>1. ASSUME NEW d \in DBs, Open(d) \/ StatementOf(d) PROVE SharedIInv'
  BY <1>1, OpenShares, StatementShares
<1>2. ASSUME NEW d \in DBs, Close(d) PROVE SharedIInv'
  <2>1. dictionary' = Nothing
    BY <1>2 DEF Close
  <2> QED
    BY <1>2, <2>1, NothingMaps, CloseLeaves, LeaveShares
<1>3. CASE OpenFails
  <2>1. \A k \in DOMAIN dictionary' : k \in DOMAIN dictionary /\ dictionary'[k] = dictionary[k]
    <3>1. CASE UNCHANGED dictionary
      BY <3>1
    <3>2. CASE \E n \in call.todo : dictionary' = Without(dictionary, Key(call.db, n))
      <4>1. PICK n : dictionary' = Without(dictionary, Key(call.db, n))
        BY <3>2
      <4> QED
        BY <4>1 DEF Without
    <3> QED
      BY <1>3, <3>1, <3>2 DEF OpenFails
  <2> QED
    BY <1>3, <2>1, OpenFailsLeaves, LeaveShares
<1>4. CASE \/ \E d \in DBs, n \in Names : CreateCollection(d, n)
           \/ Opened \/ Building \/ CreateFails \/ Throw
  BY <1>4, CallShares
<1>5. CASE LoadCollection \/ CreateTable \/ StoreCollection
  BY <1>5, LoadCollectionShares, CreateTableShares, StoreCollectionShares
<1>6. CASE CreateTableFails \/ StoreFails
  BY <1>6, FailureShares
<1>7. CASE Crash
  BY <1>7, CrashKeeps
<1>8. CASE UNCHANGED vars
  BY <1>8, UnchangedKeeps
<1> QED
  BY <1>1, <1>2, <1>3, <1>4, <1>5, <1>6, <1>7, <1>8, StepsAre

\* While the names of the databases that are in use tell them apart, a statement has its rows
\* from the collection that its database inserts into (jonoondb_vtable.cc:34), whatever
\* connection it has from the pool and whenever that one first saw the table.
THEOREM RowsOfTheDatabase == ASSUME Apart PROVE Spec => []SharedWithTheDatabase
<1>1. Init => SharedIInv
  BY InitEstablishes
<1>2. IInv /\ SharedIInv /\ [Next]_vars => SharedIInv'
  BY NextShares
<1>3. IInv /\ SharedIInv => SharedWithTheDatabase
  BY DEF IInv, SharedIInv, Instances, SharedWithTheDatabase, InUse
<1> QED
  BY <1>1, <1>2, <1>3, Invariance, PTL DEF Spec

-----------------------------------------------------------------------------
(* One database at a time *)

LEMMA AllAreOne == Single /\ IInv => \A d, e \in InUse : d = e
BY OneInUse

LEMMA NextAreOne == (Single /\ IInv => \A d, e \in InUse : d = e)'
BY AllAreOne, PTL

\* A new table and its entry, for the only database.
LEMMA AnotherIsExact ==
    ASSUME IInv, Exact, NEW d \in InUse, call.op # "added",
           NEW n \in Names, NEW col \in Collections, AddCollection(d, n, col)
    PROVE  /\ DOMAIN tables'[ConnStr[d]] = DOMAIN container[d] \cup {n}
           /\ \A m \in DOMAIN tables'[ConnStr[d]] : Key(d, m) \in DOMAIN dictionary'
<1>1. d \in DBs
  BY DEF InUse, IInv, Typed
<1>2. /\ DOMAIN tables'[ConnStr[d]] = DOMAIN tables[ConnStr[d]] \cup {n}
      /\ DOMAIN dictionary' = DOMAIN dictionary \cup {Key(d, n)}
  BY <1>1, TablesWith, EntriesWith
<1>3. /\ DOMAIN tables[ConnStr[d]] = DOMAIN container[d]
      /\ \A m \in DOMAIN tables[ConnStr[d]] : Key(d, m) \in DOMAIN dictionary
  BY DEF Exact
<1> QED
  BY <1>2, <1>3

LEMMA LoadCollectionIsExact ==
    ASSUME Single, IInv, IInv', Exact, LoadCollection PROVE Exact'
<1>1. PICK d : d = call.db
  OBVIOUS
<1>2. /\ call.op = "open" /\ call \in [op : {"open"}, db : DBs, todo : SUBSET Names]
      /\ d \in DBs /\ d \in InUse /\ made \in Nat /\ made < MaxMade /\ open' = open
      /\ container \in [DBs -> Maps(Names, Collections)]
  BY <1>1, CallsAre DEF IInv, Typed, InUse, LoadCollection
<1>3. PICK n \in call.todo :
          /\ AddCollection(d, n, New(d, n))
          /\ container' = [container EXCEPT ![d] = With(@, n, New(d, n))]
          /\ call' = [call EXCEPT !.todo = @ \ {n}]
  BY <1>1, <1>2 DEF LoadCollection
<1>4. n \in Names /\ New(d, n) \in Collections
  BY <1>2, <1>3, DatabasesAssumption DEF New, Collections
<1>5. call'.op = "open" /\ d \in InUse'
  BY <1>1, <1>2, <1>3 DEF InUse
<1>6. container'[d] = With(container[d], n, New(d, n))
  BY <1>2, <1>3
<1>7. DOMAIN container'[d] = DOMAIN container[d] \cup {n}
  BY <1>6 DEF With
<1>8. /\ DOMAIN tables'[ConnStr[d]] = DOMAIN container[d] \cup {n}
      /\ \A m \in DOMAIN tables'[ConnStr[d]] : Key(d, m) \in DOMAIN dictionary'
  BY <1>2, <1>3, <1>4, AnotherIsExact
<1>9. \A e \in InUse' : e = d
  BY <1>5, NextAreOne DEF Single
<1> QED
  BY <1>5, <1>7, <1>8, <1>9 DEF Exact

LEMMA NextIsExact ==
    ASSUME Single, IInv, IInv', Exact, [Next]_vars PROVE Exact'
<1>0. \A d, e \in InUse' : d = e
  BY NextAreOne DEF Single
<1>1. ASSUME NEW d \in DBs, Open(d) PROVE Exact'
  <2>1. /\ call'.op = "open" /\ InUse' = InUse \cup {d} /\ d \notin InUse
        /\ tables' = tables /\ container' = container
    BY <1>1, Strings DEF Open, InUse, IInv, Typed
  <2>2. InUse = {} /\ container[d] = Nothing
    BY <1>0, <2>1 DEF IInv, Uses
  <2>3. tables[ConnStr[d]] = Nothing
    BY <2>2 DEF IInv, Tables, ConnStrs
  <2> QED
    BY <2>1, <2>2, <2>3, NothingMaps DEF Exact
<1>2. ASSUME NEW d \in InUse, Leave(d) PROVE Exact'
  <2>1. InUse' = {}
    BY <1>2, OneInUse DEF Leave
  <2> QED
    BY <2>1 DEF Exact
<1>3. ASSUME NEW d \in DBs, StatementOf(d) PROVE Exact'
  <2>1. PICK c \in Connections, f \in Maps(Names, Collections) : Statement(d, c, f)
    BY <1>3, StatementsAre DEF StatementStep
  <2>2. /\ InUse' = InUse /\ tables' = tables /\ container' = container
        /\ dictionary' = dictionary /\ call' = call
    BY <2>1 DEF Statement, InUse
  <2> QED
    BY <2>2 DEF Exact
<1>4. CASE \/ \E d \in DBs, n \in Names : CreateCollection(d, n)
           \/ Opened \/ Building \/ CreateFails \/ Throw
  <2>1. /\ call.op # "added" /\ call'.op # "added" /\ InUse' = InUse
        /\ container' = container /\ dictionary' = dictionary /\ tables' = tables
    <3>1. CASE Opened
      BY <3>1, InUseIs, Strings DEF Opened, InUse, IInv
    <3>2. CASE CreateFails \/ Throw
      BY <3>2, Strings DEF CreateFails, Throw, InUse, memory
    <3>4. CASE Building
      BY <3>4, BuildingIs DEF memory, Creating
    <3>3. CASE \E d \in DBs, n \in Names : CreateCollection(d, n)
      BY <3>3, Strings DEF CreateCollection, InUse, memory
    <3> QED
      BY <1>4, <3>1, <3>2, <3>3, <3>4
  <2> QED
    BY <2>1 DEF Exact
<1>5. CASE LoadCollection
  BY <1>5, LoadCollectionIsExact
<1>6. CASE CreateTable
  <2>1. PICK d, n : d = call.db /\ n = call.name
    OBVIOUS
  <2>2. /\ call.op = "built" /\ call.op \in Creating /\ call \in CreateCalls
        /\ call' = [call EXCEPT !.op = "added"] /\ open' = open /\ container' = container
    BY <1>6, CreateIs DEF CreateTable, Creating
  <2>3. /\ d \in InUse /\ n \in Names /\ call.col \in Collections
        /\ AddCollection(d, n, call.col)
        /\ call'.op = "added" /\ call'.name = n /\ InUse' = InUse
    BY <1>6, <2>1, <2>2, CreateIs DEF CreateCalls, InUse, CreateTable
  <2>4. /\ DOMAIN tables'[ConnStr[d]] = DOMAIN container[d] \cup {n}
        /\ \A m \in DOMAIN tables'[ConnStr[d]] : Key(d, m) \in DOMAIN dictionary'
    BY <2>2, <2>3, AnotherIsExact
  <2> QED
    BY <1>0, <2>2, <2>3, <2>4 DEF Exact
<1>7. CASE CreateTableFails
  <2>1. PICK d, n : d = call.db /\ n = call.name
    OBVIOUS
  <2>2. /\ call.op = "built" /\ call'.op = "failed" /\ d \in InUse /\ InUse' = InUse
        /\ n \notin DOMAIN container[d]
        /\ tables' = tables /\ container' = container
        /\ dictionary' = Without(dictionary, Key(d, n))
    BY <1>7, <2>1, Strings, CreateIs DEF CreateTableFails, AddCollectionFails, InUse, Creating
  <2>3. DOMAIN dictionary' = DOMAIN dictionary \ {Key(d, n)}
    BY <2>2 DEF Without
  <2>4. /\ DOMAIN tables[ConnStr[d]] = DOMAIN container[d]
        /\ \A m \in DOMAIN tables[ConnStr[d]] : Key(d, m) \in DOMAIN dictionary
    BY <2>2 DEF Exact
  <2>5. \A m \in DOMAIN container[d] : Key(d, m) # Key(d, n)
    BY <2>2 DEF Key
  <2> QED
    BY <1>0, <2>2, <2>3, <2>4, <2>5 DEF Exact
<1>8. CASE StoreCollection
  <2>1. PICK d, n, col : d = call.db /\ n = call.name /\ col = call.col
    OBVIOUS
  <2>2. /\ call.op = "added" /\ call'.op = "none" /\ d \in InUse /\ d \in DBs /\ n \in Names
        /\ InUse' = InUse /\ container' = [container EXCEPT ![d] = With(@, n, col)]
        /\ tables' = tables /\ dictionary' = dictionary
    <3>1. call.op = "added" /\ call'.op = "none"
      BY <1>8, Strings DEF StoreCollection
    <3>2. d \in open /\ d \in DBs /\ InUse = open /\ n \in Names
      BY <2>1, <3>1, AddedIs
    <3>3. InUse' = open
      BY <1>8, <3>1 DEF InUse, StoreCollection
    <3> QED
      BY <1>8, <2>1, <3>1, <3>2, <3>3 DEF StoreCollection
  <2>3. container'[d] = With(container[d], n, col)
    BY <2>2 DEF IInv, Typed
  <2>4. DOMAIN container'[d] = DOMAIN container[d] \cup {n}
    BY <2>3 DEF With
  <2>5. /\ DOMAIN tables[ConnStr[d]] = DOMAIN container[d] \cup {n}
        /\ \A m \in DOMAIN tables[ConnStr[d]] : Key(d, m) \in DOMAIN dictionary
    BY <2>1, <2>2 DEF Exact
  <2> QED
    BY <1>0, <2>2, <2>4, <2>5 DEF Exact
<1>9. CASE StoreFails
  <2>1. PICK d, n : d = call.db /\ n = call.name
    OBVIOUS
  <2>2. /\ call.op = "added" /\ call'.op = "failed" /\ d \in InUse /\ d \in DBs /\ n \in Names
        /\ n \notin DOMAIN container[d] /\ InUse' = InUse /\ container' = container
        /\ tables' = [tables EXCEPT ![ConnStr[d]] = Without(@, n)]
        /\ dictionary' = Without(dictionary, Key(d, n))
    <3>1. call.op = "added" /\ call'.op = "failed"
      BY <1>9, Strings DEF StoreFails
    <3>2. /\ d \in open /\ d \in DBs /\ InUse = open /\ n \in Names
          /\ n \notin DOMAIN container[d]
      BY <2>1, <3>1, AddedIs
    <3>3. InUse' = open
      BY <1>9, <3>1 DEF InUse, StoreFails
    <3> QED
      BY <1>9, <2>1, <3>1, <3>2, <3>3 DEF StoreFails, RemoveCollection
  <2>3. tables'[ConnStr[d]] = Without(tables[ConnStr[d]], n)
    BY <2>2 DEF IInv, Typed, ConnStrs
  <2>4. /\ DOMAIN tables'[ConnStr[d]] = DOMAIN tables[ConnStr[d]] \ {n}
        /\ DOMAIN dictionary' = DOMAIN dictionary \ {Key(d, n)}
    BY <2>2, <2>3 DEF Without
  <2>5. /\ DOMAIN tables[ConnStr[d]] = DOMAIN container[d] \cup {n}
        /\ \A m \in DOMAIN tables[ConnStr[d]] : Key(d, m) \in DOMAIN dictionary
    BY <2>1, <2>2 DEF Exact
  <2>6. \A m \in DOMAIN container[d] : Key(d, m) # Key(d, n)
    BY <2>2 DEF Key
  <2>7. /\ DOMAIN tables'[ConnStr[d]] = DOMAIN container[d]
        /\ \A m \in DOMAIN tables'[ConnStr[d]] : Key(d, m) \in DOMAIN dictionary'
    BY <2>2, <2>4, <2>5, <2>6
  <2> QED
    BY <1>0, <2>2, <2>7 DEF Exact
<1>10. CASE Crash \/ UNCHANGED vars
  BY <1>10, CrashKeeps, UnchangedKeeps
<1>11. ASSUME NEW d \in DBs, Close(d) PROVE Exact'
  BY <1>2, <1>11, CloseLeaves
<1>12. CASE OpenFails
  BY <1>2, <1>12, OpenFailsLeaves
<1> QED
  BY <1>1, <1>3, <1>4, <1>5, <1>6, <1>7, <1>8, <1>9, <1>10, <1>11, <1>12, StepsAre

\* With one database open at a time, what is stored, the collections in memory, the tables
\* and the dictionary agree between calls (query_processor.cc:214).
THEOREM OneDatabaseAgrees == ASSUME Single PROVE Spec => []CollectionsAgree
<1>1. Init => SharedIInv /\ Exact
  BY InitEstablishes
<1>2. IInv /\ IInv' /\ SharedIInv /\ Exact /\ [Next]_vars => (SharedIInv /\ Exact)'
  BY NextShares, NextIsExact DEF Apart
<1>3. IInv /\ SharedIInv /\ Exact => CollectionsAgree
  <2> SUFFICES ASSUME IInv, SharedIInv, Exact, call = Idle, NEW d \in open
               PROVE  /\ DOMAIN container[d] = stored[d]
                      /\ DOMAIN tables[ConnStr[d]] = stored[d]
                      /\ \A n \in stored[d] :
                            /\ Key(d, n) \in DOMAIN dictionary
                            /\ dictionary[Key(d, n)] = container[d][n]
    BY DEF CollectionsAgree
  <2>1. d \in InUse /\ call.op = "none" /\ DOMAIN container[d] = stored[d]
    BY Strings DEF InUse, IInv, Metadata
  <2>2. DOMAIN tables[ConnStr[d]] = stored[d] /\ \A n \in stored[d] : Key(d, n) \in DOMAIN dictionary
    BY <2>1 DEF Exact
  <2> QED
    BY <2>1, <2>2 DEF SharedIInv, Entries
<1> QED
  BY <1>1, <1>2, <1>3, Invariance, PTL DEF Spec

=============================================================================
