------------------------------ MODULE PlantedFx -----------------------------
(***************************************************************************)
(* The faulty baseline in planted_bugs/: a threaded Flask process with one *)
(* SQLite file. It looks the key up in one connection, reads the quote     *)
(* outside of its lock, and commits after it has left the lock. A quote    *)
(* can be executed twice; this module shows what it keeps even so.         *)
(*                                                                         *)
(* SQLite gives the write lock to one connection, from its first UPDATE or *)
(* INSERT to its commit or close; others wait five seconds, then fail.     *)
(* Readers see what is committed. There are no balances, and the stub of   *)
(* a rate provider never changes, so a transaction is told by its call.    *)
(***************************************************************************)
EXTENDS FiniteSets

CONSTANTS Calls, Quotes, Keys, NoKey, None

ASSUME NamesAssumption == NoKey \notin Keys /\ None \notin Calls

VARIABLES
    quotes,         \* none, open or expired
    executed,       \* the quotes with executed = 1
    transactions,   \* [id, quote, key, seen]: seen is a history variable
    idempotency,    \* the call whose response is kept under a key, or None
    pc,             \* what a call does next
    body,           \* the quote and the key it came with
    seen,           \* history: the executions of its quote when it read it
    mutex,          \* who holds _execute_lock
    writer,         \* whose connection has SQLite's write lock
    resp            \* the answer: status and transaction

vars == <<quotes, executed, transactions, idempotency, pc, body, seen, mutex,
          writer, resp>>
tables == <<quotes, executed, transactions, idempotency>>

Goes(c, p) == pc' = [pc EXCEPT ![c] = p]

(* The route answers. *)
Answer(c, status, tx) ==
    /\ Goes(c, "done")
    /\ resp' = [resp EXCEPT ![c] = [status |-> status, tx |-> tx]]

Leaves(holder, c) == holder' = IF holder = c THEN None ELSE holder

(* An exception: the lock is left, the connection closed without a commit. *)
FailInLock(c) ==
    /\ Answer(c, 500, None)
    /\ UNCHANGED mutex /\ Leaves(writer, c)
    /\ UNCHANGED <<tables, body, seen>>
Fail(c) ==
    /\ Answer(c, 500, None)
    /\ Leaves(mutex, c) /\ Leaves(writer, c)
    /\ UNCHANGED <<tables, body, seen>>

-----------------------------------------------------------------------------
(* POST /quotes *)
Issue(q) ==
    /\ quotes[q] = "none" /\ writer = None
    /\ quotes' = [quotes EXCEPT ![q] = "open"]
    /\ UNCHANGED <<executed, transactions, idempotency, pc, body, seen, mutex,
                   writer, resp>>

(* Its 60 seconds are over. *)
Expire(q) ==
    /\ quotes[q] = "open"
    /\ quotes' = [quotes EXCEPT ![q] = "expired"]
    /\ UNCHANGED <<executed, transactions, idempotency, pc, body, seen, mutex,
                   writer, resp>>

(* POST /quotes/<id>/execute *)
Call(c) ==
    /\ pc[c] = "idle"
    /\ \E q \in Quotes, k \in Keys \cup {NoKey} :
          /\ body' = [body EXCEPT ![c] = [quote |-> q, key |-> k]]
          /\ Goes(c, IF k = NoKey THEN "read" ELSE "lookup")
    /\ UNCHANGED <<tables, seen, mutex, writer, resp>>

(* The response under a key is given to whoever sends the key. *)
Lookup(c) ==
    /\ pc[c] = "lookup"
    /\ LET kept == idempotency[body[c].key]
       IN  IF kept # None THEN Answer(c, 200, kept)
           ELSE Goes(c, "read") /\ UNCHANGED resp
    /\ UNCHANGED <<tables, body, seen, mutex, writer>>

(* SELECT, and three checks. *)
ExpiredOnly(q) == quotes[q] # "open"
Refused(q) == quotes[q] # "open" \/ q \in executed

Read(c) ==
    /\ pc[c] = "read"
    /\ IF Refused(body[c].quote) THEN Answer(c, 400, None)
       ELSE Goes(c, "enter") /\ UNCHANGED resp
    /\ seen' = [seen EXCEPT ![c] =
                   {t.id : t \in {u \in transactions : u.quote = body[c].quote}}]
    /\ UNCHANGED <<tables, body, mutex, writer>>

(* with _execute_lock *)
Enter(c) ==
    /\ pc[c] = "enter" /\ mutex = None
    /\ mutex' = c
    /\ Goes(c, "update")
    /\ UNCHANGED <<tables, body, seen, writer, resp>>

(* UPDATE quotes: begins a transaction, waits for the write lock. *)
UpdateAutocommitted(c) ==
    /\ pc[c] = "update" /\ writer = None
    /\ writer' = c
    /\ executed' = executed \cup {body[c].quote}
    /\ Goes(c, "insert")
    /\ UNCHANGED <<quotes, transactions, idempotency, body, seen, mutex, resp>>
Update(c) ==
    /\ pc[c] = "update" /\ writer = None
    /\ writer' = c
    /\ Goes(c, "insert")
    /\ UNCHANGED <<tables, body, seen, mutex, resp>>

(* "database is locked" *)
Busy(c) ==
    /\ pc[c] = "update" /\ writer # None
    /\ Fail(c)

(* INSERT INTO transactions; _execute_lock is left, the write lock is not. *)
Insert(c) ==
    /\ pc[c] = "insert"
    /\ mutex' = None
    /\ Goes(c, IF body[c].key = NoKey THEN "commit" ELSE "keep")
    /\ UNCHANGED <<tables, body, seen, writer, resp>>

(* INSERT INTO idempotency: its primary key refuses a second response. *)
KeepOrReplace(c) ==
    /\ pc[c] = "keep"
    /\ Goes(c, "commit") /\ UNCHANGED <<tables, body, seen, mutex, writer, resp>>
Keep(c) ==
    /\ pc[c] = "keep"
    /\ IF idempotency[body[c].key] # None THEN Fail(c)
       ELSE Goes(c, "commit") /\ UNCHANGED <<tables, body, seen, mutex, writer, resp>>

(* get_db() commits, then the route answers. *)
CommitWithoutTransaction(c) ==
    /\ pc[c] = "commit"
    /\ executed' = executed \cup {body[c].quote}
    /\ idempotency' = IF body[c].key = NoKey THEN idempotency
                      ELSE [idempotency EXCEPT ![body[c].key] = c]
    /\ writer' = None
    /\ Answer(c, 200, c)
    /\ UNCHANGED <<quotes, transactions, body, seen, mutex>>
Commit(c) ==
    /\ pc[c] = "commit"
    /\ executed' = executed \cup {body[c].quote}
    /\ transactions' = transactions \cup
          {[id |-> c, quote |-> body[c].quote, key |-> body[c].key, seen |-> seen[c]]}
    /\ idempotency' = IF body[c].key = NoKey THEN idempotency
                      ELSE [idempotency EXCEPT ![body[c].key] = c]
    /\ writer' = None
    /\ Answer(c, 200, c)
    /\ UNCHANGED <<quotes, body, seen, mutex>>

(* Any statement, or the commit, fails. *)
Break(c) ==
    /\ pc[c] \in {"lookup", "read", "update", "insert", "keep", "commit"}
    /\ Fail(c)

Init ==
    /\ quotes = [q \in Quotes |-> "none"]
    /\ executed = {} /\ transactions = {}
    /\ idempotency = [k \in Keys |-> None]
    /\ pc = [c \in Calls |-> "idle"]
    /\ body = [c \in Calls |-> None]
    /\ seen = [c \in Calls |-> {}]
    /\ mutex = None /\ writer = None
    /\ resp = [c \in Calls |-> [status |-> 0, tx |-> None]]

Execution(c) ==
    \/ Lookup(c) \/ Read(c) \/ Enter(c) \/ Update(c) \/ Busy(c)
    \/ Insert(c) \/ Keep(c) \/ Commit(c)

Next ==
    \/ \E q \in Quotes : Issue(q) \/ Expire(q)
    \/ \E c \in Calls : Call(c) \/ Execution(c) \/ Break(c)

Spec == Init /\ [][Next]_vars

(* A thread that has a call goes on with it when it may. *)
FairSpec == Spec /\ \A c \in Calls : SF_vars(Execution(c))
-----------------------------------------------------------------------------
(* Every variable has its type, and both locks are held exactly where the  *)
(* code is between taking and leaving them.                                *)
TypeOK ==
    /\ quotes \in [Quotes -> {"none", "open", "expired"}]
    /\ executed \subseteq Quotes
    /\ transactions \subseteq [id : Calls, quote : Quotes, key : Keys \cup {NoKey},
                               seen : SUBSET Calls]
    /\ idempotency \in [Keys -> Calls \cup {None}]
    /\ body \in [Calls -> [quote : Quotes, key : Keys \cup {NoKey}] \cup {None}]
    /\ seen \in [Calls -> SUBSET Calls]
    /\ resp \in [Calls -> [status : {0, 200, 400, 500}, tx : Calls \cup {None}]]
    /\ \A c \in Calls : /\ mutex = c <=> pc[c] \in {"update", "insert"}
                        /\ writer = c <=> pc[c] \in {"insert", "keep", "commit"}

(* planted_bugs/fx.py:112-124, and bug 1 of REVIEW.md: two executions of   *)
(* one quote overlapped. A call that reads the quote after a commit of the *)
(* first never executes it again.                                          *)
DoubleOnlyByOverlap ==
    \A t, u \in transactions : t.quote = u.quote => t.id \notin u.seen

(* planted_bugs/db.py:45-49, bug 5: of the calls that race with one key    *)
(* all but one are rolled back whole, so a key pays once, and what is kept *)
(* under it is that transaction.                                           *)
KeyPaysOnce ==
    \A k \in Keys :
        {t.id : t \in {u \in transactions : u.key = k}} = {idempotency[k]} \ {None}

(* planted_bugs/db.py:11-19: a call that is told of a transaction is told  *)
(* of a committed one, though get_db() commits after the return.           *)
AnswersAreCommitted ==
    \A c \in Calls : resp[c].status = 200 =>
        \E t \in transactions :
            t.id = resp[c].tx /\ t.key = body[c].key

(* planted_bugs/fx.py:134-159: the flag and the transaction are written    *)
(* together, whatever fails in between.                                    *)
FlagFollowsTransactions == executed = {t.quote : t \in transactions}

(* planted_bugs/fx.py:134: a thread waits for SQLite with _execute_lock in *)
(* hand, and the one it waits for never needs _execute_lock again: every   *)
(* call is answered.                                                       *)
CallsEnd == \A c \in Calls : (pc[c] # "idle") ~> (pc[c] = "done")
=============================================================================
