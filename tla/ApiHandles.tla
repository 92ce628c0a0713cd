----------------------------- MODULE ApiHandles -----------------------------
(***************************************************************************)
(* The C++ interface over the C one (database.h over cdatabase.cc).  A     *)
(* wrapper object owns a handle, the address of an object on the heap that *)
(* the C functions make and destruct.  Options and WriteOptions, which are *)
(* alike, IndexInfo, Buffer and ResultSet have special members of their    *)
(* own kind each: what copies, moves, assignments and destruction do with  *)
(* the handles is modelled member by member.                               *)
(*                                                                         *)
(* An exception cannot cross the C interface: TranslateExceptions makes a  *)
(* status of it, from which the temporary ThrowOnError throws again.       *)
(*                                                                         *)
(* Callers keep to C++: no object is used before its construction or after *)
(* its destruction, and one that was moved from is only destructed or      *)
(* assigned to, except a Buffer, which stays usable.                       *)
(***************************************************************************)
EXTENDS Integers, Sequences, FiniteSets, SequencesExt

CONSTANTS
    Kinds,    \* classes, of which a behaviour shows one
    Vars,     \* variables of the caller
    Contents, \* what a handle's object can be set to
    MaxMade   \* bound: handles made

ASSUME ApiAssumption == /\ Kinds \subseteq {"Options", "IndexInfo", "Buffer", "ResultSet"}
                        /\ MaxMade \in Nat

VARIABLES
    kind,
    opaque,   \* m_opaque of each variable that holds an object
    heap,     \* the objects that handles stand for
    made,     \* handles made
    error,    \* the exception under way
    statuses, \* status objects on the heap
    value     \* history: the value of each object, as C++ has it

apiVars == <<kind, opaque, heap, made, error, statuses, value>>

Null    == 0         \* nullptr
Default == "default" \* of an Options; a Buffer without memory; an IndexInfo without a type
Moved   == "moved"   \* valid, unspecified

With(f, x, y) == [z \in DOMAIN f \cup {x} |-> IF z = x THEN y ELSE f[z]]
Without(f, S) == [z \in DOMAIN f \ S |-> f[z]]

-----------------------------------------------------------------------------
(* Exceptions and status codes. *)

JonoonDBTypes ==
    {"InvalidArgument", "MissingDatabaseFile", "MissingDatabaseFolder", "OutOfMemory",
     "DuplicateKey", "CollectionAlreadyExist", "IndexAlreadyExist",
     "CollectionNotFound", "InvalidSchema", "IndexOutOfBound", "SQL", "FileIO",
     "MissingDocument", "ApiMisuse"}

ExceptionTypes == JonoonDBTypes \cup {"JonoonDB", "std::exception", "unknown"}

IsA(type, class) ==
    \/ type = class \/ class = "unknown"
    \/ type \in JonoonDBTypes /\ class \in {"JonoonDB", "std::exception"}
    \/ type = "JonoonDB" /\ class = "std::exception"

\* Mutant: the base class is caught before its last subclass.
ClausesBaseFirst ==
    <<<<"InvalidArgument", "invalidargument">>, <<"MissingDatabaseFile", "missingdatabasefile">>,
      <<"MissingDatabaseFolder", "missingdatabasefolder">>, <<"OutOfMemory", "outofmemoryerror">>,
      <<"DuplicateKey", "duplicatekeyerror">>,
      <<"CollectionAlreadyExist", "collectionalreadyexist">>,
      <<"IndexAlreadyExist", "indexalreadyexist">>, <<"CollectionNotFound", "collectionnotfound">>,
      <<"InvalidSchema", "invalidschemaerror">>, <<"IndexOutOfBound", "indexoutofbounderror">>,
      <<"SQL", "sqlerror">>, <<"FileIO", "fileioerror">>, <<"JonoonDB", "genericerror">>,
      <<"ApiMisuse", "apimisuse">>, <<"std::exception", "genericerror">>,
      <<"unknown", "genericerror">>>>

\* The catch clauses of TranslateExceptions, and the code each gives the status.
Clauses ==
    <<<<"InvalidArgument", "invalidargument">>, <<"MissingDatabaseFile", "missingdatabasefile">>,
      <<"MissingDatabaseFolder", "missingdatabasefolder">>, <<"OutOfMemory", "outofmemoryerror">>,
      <<"DuplicateKey", "duplicatekeyerror">>,
      <<"CollectionAlreadyExist", "collectionalreadyexist">>,
      <<"IndexAlreadyExist", "indexalreadyexist">>, <<"CollectionNotFound", "collectionnotfound">>,
      <<"InvalidSchema", "invalidschemaerror">>, <<"IndexOutOfBound", "indexoutofbounderror">>,
      <<"SQL", "sqlerror">>, <<"FileIO", "fileioerror">>, <<"ApiMisuse", "apimisuse">>,
      <<"JonoonDB", "genericerror">>, <<"std::exception", "genericerror">>,
      <<"unknown", "genericerror">>>>

CodeOf(type) == Clauses[SelectInSeq(Clauses, LAMBDA c : IsA(type, c[1]))][2]

\* The switch of ~ThrowOnError.
Thrown ==
    [invalidargument |-> "InvalidArgument", missingdatabasefile |-> "MissingDatabaseFile",
     missingdatabasefolder |-> "MissingDatabaseFolder", outofmemoryerror |-> "OutOfMemory",
     duplicatekeyerror |-> "DuplicateKey", collectionalreadyexist |-> "CollectionAlreadyExist",
     indexalreadyexist |-> "IndexAlreadyExist", collectionnotfound |-> "CollectionNotFound",
     invalidschemaerror |-> "InvalidSchema", indexoutofbounderror |-> "IndexOutOfBound",
     sqlerror |-> "SQL", fileioerror |-> "FileIO", apimisuse |-> "ApiMisuse",
     genericerror |-> "JonoonDB"]

NoError == [at |-> "none"]
Raise(type) == error' = [at |-> "thrown", type |-> type]
NoStatus == UNCHANGED <<error, statuses>>

\* A C function catches what was thrown in it.
TranslateExceptions ==
    /\ error.at = "thrown"
    /\ error' = [at |-> "status", type |-> error.type, code |-> CodeOf(error.type)]
    /\ statuses' = statuses + 1
    /\ UNCHANGED <<kind, opaque, heap, made, value>>

\* Mutant: the status is given away and not destructed.
ThrowOnErrorKeepsStatus ==
    /\ error.at = "status"
    /\ error' = [at |-> "caught", type |-> error.type, as |-> Thrown[error.code]]
    /\ UNCHANGED <<kind, opaque, heap, made, statuses, value>>

\* The destructor of the temporary throws, and its member destructs the status.
ThrowOnError ==
    /\ error.at = "status"
    /\ error' = [at |-> "caught", type |-> error.type, as |-> Thrown[error.code]]
    /\ statuses' = statuses - 1
    /\ UNCHANGED <<kind, opaque, heap, made, value>>

Handle ==
    /\ error.at = "caught"
    /\ error' = NoError
    /\ UNCHANGED <<kind, opaque, heap, made, statuses, value>>

\* A function of the C interface that keeps no handle fails, in any way.
CallFails ==
    /\ error = NoError
    /\ \E type \in ExceptionTypes : Raise(type)
    /\ UNCHANGED <<kind, opaque, heap, made, statuses, value>>

\* jonoondb_resultset_next and jonoondb_indexinfo_settype do not translate, nor
\* does the wrapper: the exception goes through as it is.
NextOrSetTypeFails ==
    /\ error = NoError
    /\ kind \in {"ResultSet", "IndexInfo"}
    /\ \E type \in {"SQL", "InvalidArgument", "std::exception"} :
          error' = [at |-> "caught", type |-> type, as |-> type]
    /\ UNCHANGED <<kind, opaque, heap, made, statuses, value>>

-----------------------------------------------------------------------------
ApiInit ==
    /\ kind \in Kinds
    /\ opaque = [v \in {} |-> Null] /\ heap = [h \in {} |-> Default] /\ made = 0
    /\ error = NoError /\ statuses = 0
    /\ value = [v \in {} |-> Default]

Calling == error = NoError
NewHandle == made + 1

\* The next handle stands for an object with the content c.
Make(c) == made < MaxMade /\ made' = made + 1 /\ heap' = With(heap, NewHandle, c)

\* Constructors, with the defaults or with arguments.
Construct(v) ==
    /\ Calling /\ v \notin DOMAIN opaque
    /\ \E c \in Contents \cup {Default} :
          /\ Make(c)
          /\ value' = With(value, v, c)
    /\ opaque' = With(opaque, v, NewHandle)
    /\ NoStatus /\ UNCHANGED kind

\* The argument is refused, a statement fails, memory is short: no object.  Default
\* constructors and the copies of Options do not translate what `new' throws: it goes
\* through as it is.
ConstructFails(v) ==
    /\ Calling /\ v \notin DOMAIN opaque
    /\ \/ \E type \in {"InvalidArgument", "SQL", "std::exception"} : Raise(type)
       \/ /\ kind # "ResultSet"
          /\ error' = [at |-> "caught", type |-> "std::exception", as |-> "std::exception"]
    /\ UNCHANGED <<kind, opaque, heap, made, statuses, value>>

\* Mutant: the handle is copied in place of its object.
CopyConstructShallow(v, w) ==
    /\ Calling /\ v \notin DOMAIN opaque /\ w \in DOMAIN opaque
    /\ kind # "ResultSet" /\ opaque[w] # Null
    /\ opaque' = With(opaque, v, opaque[w])
    /\ value' = With(value, v, value[w])
    /\ NoStatus /\ UNCHANGED <<kind, heap, made>>

\* Options and Buffer copy the object.  IndexInfo makes an object and sets its
\* members one by one, the type last.
CopyConstruct(v, w) ==
    /\ Calling /\ v \notin DOMAIN opaque /\ w \in DOMAIN opaque
    /\ kind # "ResultSet" /\ opaque[w] # Null
    /\ ~(kind = "IndexInfo" /\ heap[opaque[w]] = Default)
    /\ Make(heap[opaque[w]])
    /\ opaque' = With(opaque, v, NewHandle)
    /\ value' = With(value, v, value[w])
    /\ NoStatus /\ UNCHANGED kind

\* ToIndexType throws for a type that was never set, in GetType of the wrapper: no
\* IndexInfo comes about, and the handle made for it stays.
CopyUntyped(v, w) ==
    /\ Calling /\ v \notin DOMAIN opaque /\ w \in DOMAIN opaque
    /\ kind = "IndexInfo" /\ opaque[w] # Null /\ heap[opaque[w]] = Default
    /\ Make(Default)
    /\ error' = [at |-> "caught", type |-> "InvalidArgument", as |-> "InvalidArgument"]
    /\ UNCHANGED <<kind, opaque, statuses, value>>

\* Mutant: the source keeps the handle.
MoveConstructKept(v, w) ==
    /\ Calling /\ v \notin DOMAIN opaque /\ w \in DOMAIN opaque
    /\ kind # "Buffer"
    /\ opaque' = With(opaque, v, opaque[w])
    /\ value' = With([value EXCEPT ![w] = Moved], v, value[w])
    /\ NoStatus /\ UNCHANGED <<kind, heap, made>>

\* Options, IndexInfo, ResultSet: the source is left without a handle.
MoveConstruct(v, w) ==
    /\ Calling /\ v \notin DOMAIN opaque /\ w \in DOMAIN opaque
    /\ kind # "Buffer"
    /\ opaque' = With([opaque EXCEPT ![w] = Null], v, opaque[w])
    /\ value' = With([value EXCEPT ![w] = Moved], v, value[w])
    /\ NoStatus /\ UNCHANGED <<kind, heap, made>>

\* The source is given a handle of its own.
MoveConstructBuffer(v, w) ==
    /\ Calling /\ v \notin DOMAIN opaque /\ w \in DOMAIN opaque
    /\ kind = "Buffer"
    /\ Make(Default)
    /\ opaque' = With([opaque EXCEPT ![w] = NewHandle], v, opaque[w])
    /\ value' = With([value EXCEPT ![w] = Default], v, value[w])
    /\ NoStatus /\ UNCHANGED kind

-----------------------------------------------------------------------------
(* Assignments; v and w may be one object. *)

Assigns(v, w) == Calling /\ {v, w} \subseteq DOMAIN opaque

\* Copy and swap: the copy takes the old handle with it.
CopyAssignOptions(v, w) ==
    /\ Assigns(v, w) /\ kind = "Options" /\ opaque[w] # Null
    /\ made < MaxMade /\ made' = made + 1
    /\ heap' = Without(With(heap, NewHandle, heap[opaque[w]]), {opaque[v]})
    /\ opaque' = [opaque EXCEPT ![v] = NewHandle]
    /\ value' = [value EXCEPT ![v] = value[w]]
    /\ NoStatus /\ UNCHANGED kind

CopyAssignBuffer(v, w) ==
    /\ Assigns(v, w) /\ kind = "Buffer"
    /\ heap' = [heap EXCEPT ![opaque[v]] = heap[opaque[w]]]
    /\ value' = [value EXCEPT ![v] = value[w]]
    /\ NoStatus /\ UNCHANGED <<kind, opaque, made>>

\* Copying is refused memory before anything is changed.
CopyAssignBufferFails(v, w) ==
    /\ Assigns(v, w) /\ kind = "Buffer" /\ v # w
    /\ heap[opaque[w]] # Default
    /\ Raise("std::exception")
    /\ UNCHANGED <<kind, opaque, heap, made, statuses, value>>

\* IndexInfo makes an object for the copy; nothing destructs the one it had.  A
\* source without a type throws when all but the type has been set, which the new
\* object does not have either: the value that was assigned to is lost, and what is in
\* its place is no value that a caller gave it.
CopyAssignIndexInfo(v, w) ==
    /\ Assigns(v, w) /\ kind = "IndexInfo" /\ v # w /\ opaque[w] # Null
    /\ Make(heap[opaque[w]])
    /\ opaque' = [opaque EXCEPT ![v] = NewHandle]
    /\ IF heap[opaque[w]] # Default
       THEN /\ value' = [value EXCEPT ![v] = value[w]]
            /\ UNCHANGED error
       ELSE /\ value' = [value EXCEPT ![v] = Moved]
            /\ error' = [at |-> "caught", type |-> "InvalidArgument", as |-> "InvalidArgument"]
    /\ UNCHANGED <<kind, statuses>>

\* Options and Buffer swap.
MoveAssign(v, w) ==
    /\ Assigns(v, w) /\ kind \in {"Options", "Buffer"}
    /\ opaque' = [opaque EXCEPT ![v] = opaque[w], ![w] = opaque[v]]
    /\ value' = IF v = w THEN value ELSE [value EXCEPT ![v] = value[w], ![w] = Moved]
    /\ NoStatus /\ UNCHANGED <<kind, heap, made>>

\* IndexInfo takes the other's handle and loses its own.
MoveAssignIndexInfo(v, w) ==
    /\ Assigns(v, w) /\ kind = "IndexInfo" /\ v # w
    /\ opaque' = [opaque EXCEPT ![v] = opaque[w], ![w] = Null]
    /\ value' = [value EXCEPT ![v] = value[w], ![w] = Moved]
    /\ NoStatus /\ UNCHANGED <<kind, heap, made>>

\* Mutant: the result set that was there is not ended.
MoveAssignResultSetOver(v, w) ==
    /\ Assigns(v, w) /\ kind = "ResultSet" /\ v # w
    /\ opaque' = [opaque EXCEPT ![v] = opaque[w], ![w] = Null]
    /\ value' = [value EXCEPT ![v] = value[w], ![w] = Moved]
    /\ NoStatus /\ UNCHANGED <<kind, heap, made>>

MoveAssignResultSet(v, w) ==
    /\ Assigns(v, w) /\ kind = "ResultSet" /\ v # w
    /\ heap' = Without(heap, {opaque[v]})
    /\ opaque' = [opaque EXCEPT ![v] = opaque[w], ![w] = Null]
    /\ value' = [value EXCEPT ![v] = value[w], ![w] = Moved]
    /\ NoStatus /\ UNCHANGED <<kind, made>>

-----------------------------------------------------------------------------
\* Setters, Copy and Resize.
Set(v) ==
    /\ Calling /\ v \in DOMAIN opaque /\ opaque[v] # Null /\ kind # "ResultSet"
    /\ \E c \in Contents :
          /\ heap' = [heap EXCEPT ![opaque[v]] = c]
          /\ value' = [value EXCEPT ![v] = c]
    /\ NoStatus /\ UNCHANGED <<kind, opaque, made>>

\* ResultSet::Close
Close(v) ==
    /\ Calling /\ v \in DOMAIN opaque /\ kind = "ResultSet"
    /\ heap' = Without(heap, {opaque[v]})
    /\ opaque' = [opaque EXCEPT ![v] = Null]
    /\ value' = [value EXCEPT ![v] = Moved]
    /\ NoStatus /\ UNCHANGED <<kind, made>>

\* Destructors; only Buffer's does not look whether there is a handle.
Destruct(v) ==
    /\ Calling /\ v \in DOMAIN opaque
    /\ heap' = Without(heap, {opaque[v]})
    /\ opaque' = Without(opaque, {v})
    /\ value' = Without(value, {v})
    /\ NoStatus /\ UNCHANGED <<kind, made>>

ApiNext ==
    \/ TranslateExceptions \/ ThrowOnError \/ Handle
    \/ CallFails \/ NextOrSetTypeFails
    \/ \E v \in Vars : \/ Construct(v) \/ ConstructFails(v) \/ Destruct(v)
                       \/ Set(v) \/ Close(v)
    \/ \E v, w \in Vars :
          \/ CopyConstruct(v, w) \/ CopyUntyped(v, w)
          \/ MoveConstruct(v, w) \/ MoveConstructBuffer(v, w)
          \/ CopyAssignOptions(v, w) \/ CopyAssignBuffer(v, w)
          \/ CopyAssignBufferFails(v, w) \/ CopyAssignIndexInfo(v, w)
          \/ MoveAssign(v, w) \/ MoveAssignIndexInfo(v, w) \/ MoveAssignResultSet(v, w)

ApiSpec == ApiInit /\ [][ApiNext]_apiVars

-----------------------------------------------------------------------------
\* Every object has a handle that no other has and that is not yet destructed, or
\* none; a Buffer, whose destructor and functions do not ask, always has one.  What
\* the C functions made is destructed with the last wrapper that had it, also when
\* calls fail in between; a status is gone when its exception is caught.  IndexInfo
\* is left out of the second part: its assignments do lose handles.
HandlesAreOwned ==
    /\ \A v \in DOMAIN opaque :
          /\ opaque[v] \in DOMAIN heap \/ (kind # "Buffer" /\ opaque[v] = Null)
          /\ \A w \in DOMAIN opaque \ {v} : opaque[v] = opaque[w] => opaque[v] = Null
    /\ kind # "IndexInfo" => DOMAIN heap = {opaque[v] : v \in DOMAIN opaque} \ {Null}
    /\ error.at # "status" => statuses = 0

\* Objects behave like values, whatever was copied, moved and assigned to what:
\* each has what it was last given, in an object that changes with no other.  Nothing
\* is said of what an assignment that throws leaves in an IndexInfo: it may lose the
\* value that was there.
ObjectsAreValues ==
    \A v \in DOMAIN opaque :
        value[v] # Moved => opaque[v] \in DOMAIN heap /\ heap[opaque[v]] = value[v]

\* The caller catches an exception of the type that was thrown on the other side of
\* the C interface, or of JonoonDBException where the interface has no code for it.
ErrorsArriveAsThrown ==
    error.at = "caught" =>
        \/ error.as = error.type
        \/ error.as = "JonoonDB"
           /\ error.type \in {"MissingDocument", "std::exception", "unknown"}
=============================================================================
