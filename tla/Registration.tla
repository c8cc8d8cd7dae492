---------------------------- MODULE Registration ----------------------------
(***************************************************************************)
(* RegisterHandler: three statements on connections borrowed one by one -  *)
(* is the name taken, insert it, read its id - with other threads between  *)
(* them.  A statement may fail, and then throws out of the handler; an     *)
(* insert may have taken effect before its answer was lost.                *)
(*                                                                         *)
(* Whether the table has a unique key on the name is not in the            *)
(* repository: both are modelled.                                          *)
(***************************************************************************)
EXTENDS Integers, FiniteSets

CONSTANTS Thread,     \* the event-loop threads
          Name        \* the names that are registered

ASSUME RegistrationAssumption == IsFiniteSet(Thread) /\ Name # {}

VARIABLES
    users,          \* the rows of the table, each with the request it is of
    uniqueKey,      \* the table's schema
    registering,    \* per thread: its step, and the name and number of its request
    told            \* history: who was answered 200, with which id, and who 409

registrationVars == <<users, uniqueKey, registering, told>>

Steps == {"none", "check", "insert", "select", "conflict", "registered", "failed"}
NotRegistering == [step |-> "none", name |-> CHOOSE n \in Name : TRUE, by |-> 0]

RegistrationInit ==
    /\ users = {}
    /\ uniqueKey \in BOOLEAN
    /\ registering = [t \in Thread |-> NotRegistering]
    /\ told = {}

In(t, step) == registering[t].step = step
name(t) == registering[t].name
by(t) == registering[t].by
RowsOf(n) == {u \in users : u.name = n}

Goto(t, step) == registering' = [registering EXCEPT ![t].step = step]
Tell(t, code, id) ==
    told' = told \cup {[code |-> code, name |-> name(t), by |-> by(t), id |-> id]}

-----------------------------------------------------------------------------
StartRegistering(t, n, request) ==
    /\ registering' = [registering EXCEPT ![t] = [step |-> "check", name |-> n, by |-> request]]
    /\ UNCHANGED <<users, uniqueKey, told>>

(* isUserExist: of a name that is there, insertUser makes -1, and that 409.  *)
CheckFinds(t) ==
    /\ In(t, "check") /\ RowsOf(name(t)) # {}
    /\ Goto(t, "conflict")
    /\ Tell(t, 409, 0)
    /\ UNCHANGED <<users, uniqueKey>>

NeverChecked(t) ==             \* the key alone is to keep names apart
    /\ In(t, "check")
    /\ Goto(t, "insert")
    /\ UNCHANGED <<users, uniqueKey, told>>

CheckFindsNone(t) ==
    /\ In(t, "check") /\ RowsOf(name(t)) = {}
    /\ Goto(t, "insert")
    /\ UNCHANGED <<users, uniqueKey, told>>

(* INSERT: a new row with the next id, which a unique key refuses for a name *)
(* that is there.  The answer may be lost when the row is in.                *)
Insertable(n) == ~uniqueKey \/ RowsOf(n) = {}

InsertIgnore(t) ==             \* INSERT IGNORE: a duplicate is no error
    /\ In(t, "insert")
    /\ users' = IF Insertable(name(t))
                THEN users \cup {[id |-> Cardinality(users) + 1, name |-> name(t), by |-> by(t)]}
                ELSE users
    /\ Goto(t, "select")
    /\ UNCHANGED <<uniqueKey, told>>

Insert(t) ==
    /\ In(t, "insert") /\ Insertable(name(t))
    /\ users' = users \cup {[id |-> Cardinality(users) + 1, name |-> name(t), by |-> by(t)]}
    /\ \/ Goto(t, "select")
       \/ Goto(t, "failed")
    /\ UNCHANGED <<uniqueKey, told>>

(* SELECT id: of several rows of the name, any one. *)
Select(t) ==
    /\ In(t, "select")
    /\ \E u \in RowsOf(name(t)) : Tell(t, 200, u.id)
    /\ Goto(t, "registered")
    /\ UNCHANGED <<users, uniqueKey>>

(* No link to the database, or a duplicate key: DbException. *)
FailsAsConflict(t) ==          \* insertUser catches, and returns -1
    /\ registering[t].step \in {"check", "insert", "select"}
    /\ Goto(t, "conflict")
    /\ Tell(t, 409, 0)
    /\ UNCHANGED <<users, uniqueKey>>

StatementFails(t) ==
    /\ registering[t].step \in {"check", "insert", "select"}
    /\ Goto(t, "failed")
    /\ UNCHANGED <<users, uniqueKey, told>>

Registering(t) ==
    \/ CheckFinds(t) \/ CheckFindsNone(t) \/ Insert(t) \/ Select(t) \/ StatementFails(t)

(* The handler has returned, or thrown. *)
StillRegistering(t) == UNCHANGED registrationVars
EndRegistering(t) ==
    /\ registering' = [registering EXCEPT ![t] = NotRegistering]
    /\ UNCHANGED <<users, uniqueKey, told>>

-----------------------------------------------------------------------------
(* A name is refused as taken only for a row of an earlier request, never    *)
(* for one's own (RegisterHandler.cpp:44-60).                                *)
ConflictMeansTaken ==
    \A a \in told : a.code = 409 => \E u \in users : u.name = a.name /\ u.by # a.by

(* With a unique key the id that is told is that of one's own row, although  *)
(* it is looked up by name in a statement of its own; so a name is told to   *)
(* be registered once only (RegisterHandler.cpp:51-56).                      *)
OwnId ==
    uniqueKey => \A a \in told : a.code = 200 =>
        \E u \in users : u.id = a.id /\ u.by = a.by /\ u.name = a.name

(* Without one, two registrations of a name that overlap both get a row: as  *)
(* many as there are threads, and never more, however many requests come     *)
(* (RegisterHandler.cpp:47-51).                                              *)
OneRowPerThread == \A n \in Name : Cardinality(RowsOf(n)) <= Cardinality(Thread)
=============================================================================
