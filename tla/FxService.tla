----------------------------- MODULE FxService ------------------------------
(***************************************************************************)
(* One API worker as a whole: its lifespan (app/main.py), the connection   *)
(* pool all routes and the rate provider share (app/services/database.py), *)
(* and the calls it serves, each reduced to what it holds and waits for.   *)
(*                                                                         *)
(* FxExecute has the statements of an execution and RateProvider the age   *)
(* of rates; here an execution is a row lock within a connection, and a    *)
(* quote may find the rates stale at any time. A step is what a coroutine  *)
(* does between two awaits.                                                *)
(***************************************************************************)
EXTENDS Integers, FiniteSets

CONSTANTS
    Clients,        \* each calls again once it has been answered
    PoolSize,       \* max_size of the pool: 20 in the code
    Main,           \* the coroutine of lifespan()
    Loop,           \* the background task of the rate provider
    None

ASSUME PoolAssumption == PoolSize \in Nat \ {0}

ASSUME TasksAssumption ==
    /\ Main # Loop /\ Clients \cap {Main, Loop} = {}
    /\ None \notin Clients \cup {Main, Loop}

(* query: a route with SELECTs or one autocommitted statement: customers,  *)
(*        KYC, balances, the GETs of quotes and transactions, /readyz      *)
(* quote: POST /quotes    write: /execute and /credit                      *)
(* refresh: POST /rates/refresh                                            *)
Kinds == {"query", "quote", "write", "refresh"}
Tasks == Clients \cup {Main, Loop}

VARIABLES
    pc,             \* what a task awaits
    kind,           \* what it is doing
    pool,           \* _pool is set
    pools,          \* how many pools are open
    conn,           \* the tasks that hold a connection
    row,            \* who has locked the row all writes want
    lock            \* who holds the _lock of the rate provider

vars == <<pc, kind, pool, pools, conn, row, lock>>
held == <<conn, row, lock>>

-----------------------------------------------------------------------------
Goes(t, p) == pc' = [pc EXCEPT ![t] = p]
Without(holder, t) == IF holder = t THEN None ELSE holder

(* start() returns, and its background task goes to sleep. *)
Started(p) == [p EXCEPT ![Main] = "serve", ![Loop] = "sleep"]

(* A task has its answer: every "async with" it is in is left. *)
LeaveWithConnection(t) ==
    /\ conn' = conn
    /\ row' = Without(row, t) /\ lock' = Without(lock, t)
    /\ pc' = IF t = Main THEN Started(pc)
             ELSE [pc EXCEPT ![t] = IF t = Loop THEN "sleep" ELSE "idle"]
    /\ kind' = IF t \in Clients THEN [kind EXCEPT ![t] = "none"] ELSE kind
    /\ UNCHANGED <<pool, pools>>
Leave(t) ==
    /\ conn' = conn \ {t}
    /\ row' = Without(row, t) /\ lock' = Without(lock, t)
    /\ pc' = IF t = Main THEN Started(pc)
             ELSE [pc EXCEPT ![t] = IF t = Loop THEN "sleep" ELSE "idle"]
    /\ kind' = IF t \in Clients THEN [kind EXCEPT ![t] = "none"] ELSE kind
    /\ UNCHANGED <<pool, pools>>

-----------------------------------------------------------------------------
(* The pool *)

(* get_pool(): only the first caller creates it, if nobody else comes in   *)
(* while it is being created.                                              *)
GetPool(t) ==
    /\ pc[t] = "get_pool"
    /\ Goes(t, IF ~pool THEN "create_pool"
               ELSE IF kind[t] = "boot" THEN "connect" ELSE "acquire")
    /\ UNCHANGED <<kind, pool, pools, held>>

CreatePool(t) ==
    /\ pc[t] = "create_pool"
    /\ pool' = TRUE /\ pools' = pools + 1
    /\ Goes(t, IF kind[t] = "boot" THEN "connect" ELSE "acquire")
    /\ UNCHANGED <<kind, held>>

(* async with pool.acquire(): whoever is lucky, for as long as it takes. *)
First == [query |-> "query", quote |-> "customer", write |-> "lock_row",
          refresh |-> "persist"]

AcquireTwice(t) ==
    /\ pc[t] = "acquire"
    /\ Cardinality(conn) < PoolSize
    /\ conn' = conn \cup {t}
    /\ Goes(t, IF kind[t] = "write" /\ t \notin conn THEN "acquire"
               ELSE First[kind[t]])
    /\ UNCHANGED <<kind, pool, pools, row, lock>>
AcquireUnbounded(t) ==
    /\ pc[t] = "acquire"
    /\ conn' = conn \cup {t}
    /\ Goes(t, First[kind[t]])
    /\ UNCHANGED <<kind, pool, pools, row, lock>>
Acquire(t) ==
    /\ pc[t] = "acquire"
    /\ Cardinality(conn) < PoolSize
    /\ conn' = conn \cup {t}
    /\ Goes(t, First[kind[t]])
    /\ UNCHANGED <<kind, pool, pools, row, lock>>

-----------------------------------------------------------------------------
(* A refresh: by start(), by the loop, or by a call *)

Ask(t) ==
    /\ pc[t] = "ask" /\ lock = None
    /\ lock' = t
    /\ Goes(t, "http")
    /\ UNCHANGED <<kind, pool, pools, conn, row>>

(* The rates are replaced, then cached; the snapshot needs a connection,   *)
(* and _lock is kept until it has one.                                     *)
Answered(t) ==
    /\ pc[t] = "http"
    /\ Goes(t, "get_pool")
    /\ UNCHANGED <<kind, pool, pools, held>>

(* start() falls back on Redis or on the seed. *)
NotAnswered(t) ==
    /\ pc[t] = "http"
    /\ Leave(t)

Wake ==
    /\ pc[Loop] = "sleep"
    /\ Goes(Loop, "ask")
    /\ UNCHANGED <<kind, pool, pools, held>>

-----------------------------------------------------------------------------
(* The calls *)

CallWhileStopping(c) ==
    /\ pc[c] = "idle" /\ pc[Main] \in {"serve", "drain"}
    /\ \E k \in Kinds :
          /\ kind' = [kind EXCEPT ![c] = k]
          /\ Goes(c, IF k = "refresh" THEN "ask" ELSE "get_pool")
    /\ UNCHANGED <<pool, pools, held>>
Call(c) ==
    /\ pc[c] = "idle" /\ pc[Main] = "serve"
    /\ \E k \in Kinds :
          /\ kind' = [kind EXCEPT ![c] = k]
          /\ Goes(c, IF k = "refresh" THEN "ask" ELSE "get_pool")
    /\ UNCHANGED <<pool, pools, held>>

(* generate_quote(): the customer is there or not, the rates are stale or  *)
(* not.                                                                    *)
ReadRates(c) ==
    /\ pc[c] = "customer"
    /\ \/ Leave(c)
       \/ Goes(c, "insert") /\ UNCHANGED <<kind, pool, pools, held>>

(* The quote is inserted, and then announced. *)
Insert(c) ==
    /\ pc[c] = "insert"
    /\ Goes(c, "publish")
    /\ UNCHANGED <<kind, pool, pools, held>>

(* SELECT ... FOR UPDATE *)
LockRow(c) ==
    /\ pc[c] = "lock_row" /\ row = None
    /\ row' = c
    /\ Goes(c, "write")
    /\ UNCHANGED <<kind, pool, pools, conn, lock>>

(* The transaction commits and quote.executed is published with the        *)
(* connection in hand, or quote.expired before it rolls back.              *)
Write(c) ==
    /\ pc[c] = "write"
    /\ \/ Goes(c, "publish") /\ row' = None
       \/ Goes(c, "publish_expired") /\ UNCHANGED row
    /\ UNCHANGED <<kind, pool, pools, conn, lock>>

(* A query has its rows. *)
Query(c) ==
    /\ pc[c] = "query"
    /\ Leave(c)

(* publish() or _persist_snapshot() returns, the last await of its task.   *)
(* (A credit publishes nothing: its commit returns.)                       *)
Finish(t) ==
    /\ pc[t] \in {"persist", "publish", "publish_expired"}
    /\ Leave(t)

(* A statement fails or exceeds command_timeout, or the engine refuses. *)
Fail(c) ==
    /\ pc[c] \in {"query", "customer", "insert", "lock_row", "write"}
    /\ Leave(c)

-----------------------------------------------------------------------------
(* lifespan() *)

(* The next process: asyncio.run() has seen the tasks of the last one end. *)
BootWithoutPool ==
    /\ pc[Main] = "down" /\ pc[Loop] = "off"
    /\ kind' = [kind EXCEPT ![Main] = "boot"]
    /\ Goes(Main, "connect")
    /\ UNCHANGED <<pool, pools, held>>
Boot ==
    /\ pc[Main] = "down" /\ pc[Loop] = "off"
    /\ kind' = [kind EXCEPT ![Main] = "boot"]
    /\ Goes(Main, "get_pool")
    /\ UNCHANGED <<pool, pools, held>>

(* Without a database the worker exits. *)
NoDatabase ==
    /\ pc[Main] = "create_pool" /\ kind[Main] = "boot"
    /\ Goes(Main, "down")
    /\ UNCHANGED <<kind, pool, pools, held>>

(* get_redis() and connect_events(): neither has to succeed. *)
Connect ==
    /\ pc[Main] = "connect"
    /\ kind' = [kind EXCEPT ![Main] = "refresh"]
    /\ Goes(Main, "ask")
    /\ UNCHANGED <<pool, pools, held>>

(* SIGTERM: no new calls. *)
Terminate ==
    /\ pc[Main] = "serve"
    /\ Goes(Main, "drain")
    /\ UNCHANGED <<kind, pool, pools, held>>

(* Once all calls are answered, stop() cancels the loop, does not wait for *)
(* it, and the connections to upstream, RabbitMQ and Redis are closed.     *)
StopWithoutCancel ==
    /\ pc[Main] = "drain" /\ \A c \in Clients : pc[c] = "idle"
    /\ Goes(Main, "close_pool")
    /\ UNCHANGED <<kind, pool, pools, held>>
Stop ==
    /\ pc[Main] = "drain" /\ \A c \in Clients : pc[c] = "idle"
    /\ pc' = [pc EXCEPT ![Main] = "close_pool", ![Loop] = "cancelled"]
    /\ UNCHANGED <<kind, pool, pools, held>>

(* CancelledError passes through the loop. *)
Unwind ==
    /\ pc[Loop] = "cancelled"
    /\ conn' = conn \ {Loop} /\ lock' = Without(lock, Loop)
    /\ Goes(Loop, "off")
    /\ UNCHANGED <<kind, pool, pools, row>>

(* close_pool() waits for every connection, and for nothing else: the loop *)
(* may still be about to leave _lock, or the wait for a connection.        *)
ClosePool ==
    /\ pc[Main] = "close_pool" /\ conn = {}
    /\ pool' = FALSE /\ pools' = IF pool THEN pools - 1 ELSE pools
    /\ Goes(Main, "down")
    /\ UNCHANGED <<kind, held>>

Init ==
    /\ pc = [t \in Tasks |-> CASE t = Main -> "down" [] t = Loop -> "off"
                               [] OTHER -> "idle"]
    /\ kind = [t \in Tasks |-> IF t \in Clients THEN "none" ELSE "refresh"]
    /\ pool = FALSE /\ pools = 0
    /\ conn = {} /\ row = None /\ lock = None

(* What a task does of its own accord. *)
Refreshing(t) ==
    GetPool(t) \/ CreatePool(t) \/ Acquire(t) \/ Ask(t) \/ Answered(t)
    \/ NotAnswered(t) \/ Finish(t)
Serving(c) ==
    Query(c) \/ ReadRates(c) \/ Insert(c) \/ LockRow(c) \/ Write(c)
Lifespan == Connect \/ Stop \/ ClosePool

Next ==
    \/ \E t \in Tasks : Refreshing(t)
    \/ \E c \in Clients : Call(c) \/ Serving(c) \/ Fail(c)
    \/ Wake \/ Unwind
    \/ Boot \/ NoDatabase \/ Lifespan \/ Terminate

Spec == Init /\ [][Next]_vars

(* Statements, fetches and publish() return. The waiting lines of the pool *)
(* (asyncio.Queue), of _lock (asyncio.Lock) and of PostgreSQL's row locks  *)
(* are served in order, so who waits is not passed over forever: strong    *)
(* fairness. Nobody has to boot, to call, to fail or to stop the process.  *)
Fairness ==
    /\ \A c \in Clients : SF_vars(Refreshing(c) \/ Serving(c))
    /\ SF_vars(Refreshing(Loop) \/ Wake \/ Unwind)
    /\ SF_vars(Refreshing(Main) \/ Lifespan)

FairSpec == Spec /\ Fairness
-----------------------------------------------------------------------------
(* Every variable has its type, there are never more connections than the  *)
(* pool has, and the locks are held exactly where the code is inside them. *)
TypeOK ==
    /\ pc \in [Tasks -> {"down", "get_pool", "create_pool", "connect", "ask",
                 "http", "acquire", "persist", "query", "customer", "insert",
                 "lock_row", "write", "publish", "publish_expired", "idle",
                 "sleep", "serve", "drain", "close_pool", "cancelled", "off"}]
    /\ kind \in [Tasks -> Kinds \cup {"boot", "none"}]
    /\ pool \in BOOLEAN /\ pools \in Nat
    /\ conn \subseteq Tasks /\ Cardinality(conn) <= PoolSize
    /\ row \in Clients \cup {None} /\ lock \in Tasks \cup {None}
    /\ \A c \in Clients : row = c <=> pc[c] \in {"write", "publish_expired"}
    /\ \A t \in Tasks : t \in conn /\ kind[t] = "refresh" => lock = t

(* services/database.py:14-15: get_pool() awaits between its test and its  *)
(* assignment, yet no pool is ever opened beside another and lost: the     *)
(* lifespan opens it before anyone is served.                              *)
OnePool == pools <= 1

(* main.py:67-73: when the worker is down, nothing of it is left in the    *)
(* database: no pool has been opened again by a get_pool() that came late, *)
(* and no connection is out.                                               *)
ClosedForGood == pc[Main] = "down" => ~pool /\ pools = 0 /\ conn = {}

(* What a task cannot go on without: _lock, a connection, the row, or for  *)
(* close_pool() the last connection.                                       *)
Waits(t) ==
    \/ pc[t] = "ask" /\ lock # None
    \/ pc[t] = "acquire" /\ Cardinality(conn) >= PoolSize
    \/ pc[t] = "lock_row" /\ row # None
    \/ pc[t] = "close_pool" /\ conn # {}

(* services/database.py:12-22, providers/rates.py:179: whoever waits, some *)
(* task that holds a connection, the row or _lock waits for nothing: the   *)
(* three waiting lines never close into a circle, however full the pool.   *)
NoStall ==
    (\E t \in Tasks : Waits(t)) =>
        \E t \in Tasks : (t \in conn \/ row = t \/ lock = t) /\ ~Waits(t)

(* services/database.py:17: whatever the calls are that fill the pool, and *)
(* although writers wait for a row with a connection in hand and refreshes *)
(* for a connection with _lock in hand, every call is answered.            *)
CallsEnd == \A c \in Clients : (pc[c] # "idle") ~> (pc[c] = "idle")

(* providers/rates.py:208: and the loop fetches rates again and again for  *)
(* as long as the worker serves.                                           *)
RefreshesGoOn ==
    <>[](pc[Main] = "serve") => []<>(pc[Loop] = "http")

(* main.py:67-73: a worker that is told to stop comes to its end, and so   *)
(* does its loop, though nobody waits for it: it leaves _lock behind free. *)
StopsInTheEnd ==
    (pc[Main] = "drain") ~> (pc[Main] = "down" /\ pc[Loop] = "off" /\ lock = None)
=============================================================================
