--------------------------- MODULE FxServiceProofs ---------------------------
(***************************************************************************)
(* Theorems about a whole worker, for any clients and any size of the pool *)
(* that is not empty. IInv is inductive: which awaits a coroutine of each kind *)
(* can be at, what it holds there, and what each phase of lifespan() means *)
(* for the pool, for the background task and for the clients.              *)
(***************************************************************************)
EXTENDS FxService, FiniteSetTheorems, TLAPS

(* The awaits of FxService. *)
PCs == {"down", "get_pool", "create_pool", "connect", "ask", "http", "acquire",
        "persist", "query", "customer", "insert", "lock_row", "write", "publish",
        "publish_expired", "idle", "sleep", "serve", "drain", "close_pool",
        "cancelled", "off"}

(* Inside "async with self._lock", and inside "async with pool.acquire()". *)
InLock == {"http", "get_pool", "acquire", "persist"}
Connected == {"persist", "query", "customer", "insert", "lock_row", "write",
              "publish", "publish_expired"}

(* The first part of TypeOK. *)
Typed ==
    /\ pc \in [Tasks -> PCs]
    /\ kind \in [Tasks -> Kinds \cup {"boot", "none"}]
    /\ pool \in BOOLEAN /\ pools \in Nat
    /\ conn \subseteq Tasks
    /\ row \in Clients \cup {None} /\ lock \in Tasks \cup {None}

(* The pool never lends more connections than it has. *)
PoolInv == IsFiniteSet(conn) /\ Cardinality(conn) <= PoolSize

(* The awaits that a task of each kind comes to. *)
MainInv ==
    \/ pc[Main] = "down" /\ kind[Main] \in {"boot", "refresh"}
    \/ pc[Main] \in {"get_pool", "create_pool", "connect"} /\ kind[Main] = "boot"
    \/ /\ pc[Main] \in {"ask", "serve", "drain", "close_pool"} \cup InLock
       /\ kind[Main] = "refresh"

LoopInv ==
    kind[Loop] = "refresh" /\ pc[Loop] \in {"off", "sleep", "ask", "cancelled"} \cup InLock

ClientInv(c) ==
    \/ kind[c] = "none" /\ pc[c] = "idle"
    \/ kind[c] = "query" /\ pc[c] \in {"get_pool", "acquire", "query"}
    \/ kind[c] = "quote" /\ pc[c] \in {"get_pool", "acquire", "customer", "insert", "publish"}
    \/ /\ kind[c] = "write"
       /\ pc[c] \in {"get_pool", "acquire", "lock_row", "write", "publish", "publish_expired"}
    \/ kind[c] = "refresh" /\ pc[c] \in {"ask"} \cup InLock

(* What a task holds, and where. *)
HoldInv(t) ==
    /\ kind[t] = "refresh" /\ pc[t] \in InLock => lock = t
    /\ lock = t => kind[t] = "refresh" /\ pc[t] \in InLock \cup {"cancelled"}
    /\ t \in conn => pc[t] \in Connected \cup {"cancelled"}
    /\ t \in conn /\ kind[t] = "refresh" => lock = t

RowInv(c) == row = c <=> pc[c] \in {"write", "publish_expired"}

(* The phases of lifespan(). *)
Serves == pc[Main] \in {"serve", "drain"}
NoPool ==
    \/ pc[Main] = "down"
    \/ pc[Main] \in {"get_pool", "create_pool"} /\ kind[Main] = "boot"

LifeInv ==
    /\ pool <=> ~NoPool
    /\ pools = IF pool THEN 1 ELSE 0
    /\ ~Serves => \A c \in Clients : pc[c] = "idle"
    /\ Serves => pc[Loop] \notin {"off", "cancelled"}
    /\ pc[Main] \in {"close_pool", "down"} => pc[Loop] \in {"off", "cancelled"}
    /\ ~Serves /\ pc[Main] \notin {"close_pool", "down"} => pc[Loop] = "off"
    /\ pc[Main] = "down" => conn = {}

(* All that is invariant of the tasks. *)
TasksInv ==
    /\ MainInv /\ LoopInv
    /\ \A c \in Clients : ClientInv(c) /\ RowInv(c)
    /\ \A t \in Tasks : HoldInv(t)

(* The inductive invariant. *)
IInv == Typed /\ PoolInv /\ TasksInv /\ LifeInv

-----------------------------------------------------------------------------
(* The tasks are told apart, and None is none of them. *)
LEMMA TaskNames ==
  /\ Main \in Tasks /\ Loop \in Tasks /\ Clients \subseteq Tasks
  /\ Main # Loop /\ Main \notin Clients /\ Loop \notin Clients
  /\ None \notin Tasks
  /\ \A t \in Tasks : t = Main \/ t = Loop \/ t \in Clients
BY TasksAssumption DEF Tasks

(* A task goes on and the others stay where they are. *)
LEMMA GoesFacts ==
  ASSUME Typed, NEW t \in Tasks, NEW p \in PCs, Goes(t, p)
  PROVE  pc' \in [Tasks -> PCs] /\ pc'[t] = p /\ \A u \in Tasks \ {t} : pc'[u] = pc[u]
BY DEF Typed, Goes

(* A task takes something up and the others keep what they do. *)
LEMMA KindFacts ==
  ASSUME Typed, NEW t \in Tasks, NEW k \in Kinds \cup {"boot", "none"},
         kind' = [kind EXCEPT ![t] = k]
  PROVE  /\ kind' \in [Tasks -> Kinds \cup {"boot", "none"}]
         /\ kind'[t] = k /\ \A u \in Tasks \ {t} : kind'[u] = kind[u]
BY DEF Typed

(* The pool is what it was when no connection is lent or returned. *)
LEMMA PoolFrame ==
  ASSUME PoolInv, conn' = conn
  PROVE  PoolInv'
BY DEF PoolInv

(* get_pool() (services/database.py) tests _pool: it is missing only while *)
(* the lifespan boots, so nobody but Main ever goes on to create it.       *)
LEMMA GetPoolKeeps ==
  ASSUME IInv, NEW t \in Tasks, GetPool(t)
  PROVE  IInv'
<1> DEFINE p == IF ~pool THEN "create_pool"
                ELSE IF kind[t] = "boot" THEN "connect" ELSE "acquire"
<1>1. Typed /\ PoolInv /\ TasksInv /\ LifeInv
  BY DEF IInv
<1>2. /\ pc[t] = "get_pool" /\ Goes(t, p) /\ p \in {"create_pool", "connect", "acquire"}
      /\ UNCHANGED <<kind, pool, pools, conn, row, lock>>
  BY DEF GetPool, held
<1>3. /\ ~pool => p = "create_pool" /\ t = Main /\ kind[t] = "boot"
      /\ pool /\ kind[t] = "boot" => p = "connect"
      /\ pool /\ kind[t] # "boot" => p = "acquire"
  BY <1>1, <1>2, TaskNames
     DEF TasksInv, LifeInv, NoPool, Serves, MainInv, LoopInv, InLock
<1> HIDE DEF p
<1>4. pc' \in [Tasks -> PCs] /\ pc'[t] = p /\ \A u \in Tasks \ {t} : pc'[u] = pc[u]
  BY <1>1, <1>2, GoesFacts DEF PCs
<1>5. Typed' /\ PoolInv'
  BY <1>1, <1>2, <1>4, PoolFrame DEF Typed
<1>6. MainInv' /\ LoopInv'
  BY <1>1, <1>2, <1>3, <1>4, TaskNames DEF TasksInv, MainInv, LoopInv, InLock
<1>7. ASSUME NEW c \in Clients PROVE ClientInv(c)' /\ RowInv(c)'
  BY <1>1, <1>2, <1>3, <1>4, TaskNames
     DEF TasksInv, ClientInv, RowInv, InLock
<1>8. ASSUME NEW u \in Tasks PROVE HoldInv(u)'
  BY <1>1, <1>2, <1>3, <1>4, TaskNames DEF TasksInv, HoldInv, InLock, Connected
<1>9. LifeInv'
  BY <1>1, <1>2, <1>3, <1>4, TaskNames DEF LifeInv, NoPool, Serves, TasksInv, MainInv, InLock
<1>10. QED
  BY <1>5, <1>6, <1>7, <1>8, <1>9 DEF IInv, TasksInv

(* create_pool() returns: this was the only call of it, so one pool is     *)
(* open.                                                                   *)
LEMMA CreatePoolKeeps ==
  ASSUME IInv, NEW t \in Tasks, CreatePool(t)
  PROVE  IInv'
<1>1. Typed /\ PoolInv /\ TasksInv /\ LifeInv
  BY DEF IInv
<1>2. pc[t] = "create_pool" /\ t = Main /\ kind[t] = "boot"
  BY <1>1, TaskNames
     DEF CreatePool, TasksInv, MainInv, LoopInv, ClientInv, InLock
<1>3. /\ pool' = TRUE /\ pools' = pools + 1 /\ Goes(t, "connect")
      /\ UNCHANGED <<kind, conn, row, lock>>
  BY <1>2 DEF CreatePool, held
<1>4. pc' \in [Tasks -> PCs] /\ pc'[t] = "connect" /\ \A u \in Tasks \ {t} : pc'[u] = pc[u]
  BY <1>1, <1>3, GoesFacts DEF PCs
<1>5. Typed' /\ PoolInv' /\ pools = 0
  BY <1>1, <1>2, <1>3, <1>4, PoolFrame DEF Typed, LifeInv, NoPool
<1>6. MainInv' /\ LoopInv'
  BY <1>1, <1>2, <1>3, <1>4, TaskNames DEF TasksInv, MainInv, LoopInv
<1>7. ASSUME NEW c \in Clients PROVE ClientInv(c)' /\ RowInv(c)'
  BY <1>1, <1>2, <1>3, <1>4, TaskNames DEF TasksInv, ClientInv, RowInv
<1>8. ASSUME NEW u \in Tasks PROVE HoldInv(u)'
  BY <1>1, <1>2, <1>3, <1>4, TaskNames DEF TasksInv, HoldInv, InLock, Connected
<1>9. LifeInv'
  BY <1>1, <1>2, <1>3, <1>4, <1>5, TaskNames DEF LifeInv, NoPool, Serves
<1>10. QED
  BY <1>5, <1>6, <1>7, <1>8, <1>9 DEF IInv, TasksInv

(* pool.acquire() lends a connection where one is left, to a task that had *)
(* none.                                                                   *)
LEMMA AcquireKeeps ==
  ASSUME IInv, NEW t \in Tasks, Acquire(t)
  PROVE  IInv'
<1> DEFINE p == First[kind[t]]
<1>1. Typed /\ PoolInv /\ TasksInv /\ LifeInv
  BY DEF IInv
<1>2. /\ pc[t] = "acquire" /\ Cardinality(conn) < PoolSize /\ conn' = conn \cup {t}
      /\ Goes(t, p) /\ UNCHANGED <<kind, pool, pools, row, lock>>
  BY DEF Acquire
<1>3. /\ kind[t] \in Kinds
      /\ kind[t] = "query" => p = "query"
      /\ kind[t] = "quote" => p = "customer"
      /\ kind[t] = "write" => p = "lock_row"
      /\ kind[t] = "refresh" => p = "persist"
  BY <1>1, <1>2, TaskNames
     DEF TasksInv, MainInv, LoopInv, ClientInv, InLock, First, Kinds
<1> HIDE DEF p
<1>4. p \in {"query", "customer", "lock_row", "persist"}
  BY <1>3 DEF Kinds
<1>5. pc' \in [Tasks -> PCs] /\ pc'[t] = p /\ \A u \in Tasks \ {t} : pc'[u] = pc[u]
  BY <1>1, <1>2, <1>4, GoesFacts DEF PCs
<1>6. Typed'
  BY <1>1, <1>2, <1>5 DEF Typed
<1>7. PoolInv'
  <2>1. IsFiniteSet(conn) /\ Cardinality(conn) \in Nat
    BY <1>1, FS_CardinalityType DEF PoolInv
  <2>2. /\ IsFiniteSet(conn \cup {t})
        /\ Cardinality(conn \cup {t}) = Cardinality(conn)
             \/ Cardinality(conn \cup {t}) = Cardinality(conn) + 1
    BY <2>1, FS_AddElement
  <2>3. QED
    BY <1>2, <2>1, <2>2, PoolAssumption DEF PoolInv
<1>8. MainInv' /\ LoopInv'
  BY <1>1, <1>2, <1>3, <1>4, <1>5, TaskNames DEF TasksInv, MainInv, LoopInv, InLock
<1>9. ASSUME NEW c \in Clients PROVE ClientInv(c)' /\ RowInv(c)'
  BY <1>1, <1>2, <1>3, <1>4, <1>5, TaskNames
     DEF TasksInv, ClientInv, RowInv, InLock, Kinds
<1>10. ASSUME NEW u \in Tasks PROVE HoldInv(u)'
  BY <1>1, <1>2, <1>3, <1>4, <1>5, TaskNames DEF TasksInv, HoldInv, InLock, Connected, Kinds
<1>11. LifeInv'
  BY <1>1, <1>2, <1>3, <1>4, <1>5, TaskNames
     DEF LifeInv, NoPool, Serves, TasksInv, MainInv, LoopInv, InLock, Kinds
<1>12. QED
  BY <1>6, <1>7, <1>8, <1>9, <1>10, <1>11 DEF IInv, TasksInv

(* The lock of the rate provider is taken when nobody has it. *)
LEMMA AskKeeps ==
  ASSUME IInv, NEW t \in Tasks, Ask(t)
  PROVE  IInv'
<1>1. /\ Typed /\ PoolInv /\ TasksInv /\ LifeInv
      /\ t \in Tasks
  BY TaskNames DEF IInv
<1>2. /\ pc[t] = "ask" /\ lock = None /\ lock' = t /\ Goes(t, "http")
      /\ UNCHANGED <<kind, pool, pools, conn, row>>
  BY DEF Ask
<1>3. pc' \in [Tasks -> PCs] /\ pc'[t] = "http" /\ \A u \in Tasks \ {t} : pc'[u] = pc[u]
  BY <1>1, <1>2, GoesFacts DEF PCs
<1>4. kind' = kind
  BY <1>2
<1>5. Typed' /\ PoolInv'
  BY <1>1, <1>2, <1>3, <1>4, PoolFrame DEF Typed
<1>6. MainInv' /\ LoopInv'
  BY <1>1, <1>2, <1>3, <1>4, TaskNames DEF TasksInv, MainInv, LoopInv, ClientInv, InLock
<1>7. ASSUME NEW c \in Clients PROVE ClientInv(c)' /\ RowInv(c)'
  BY <1>1, <1>2, <1>3, <1>4, TaskNames
     DEF TasksInv, ClientInv, RowInv, MainInv, LoopInv, InLock, Kinds, Typed
<1>8. ASSUME NEW u \in Tasks PROVE HoldInv(u)'
  BY <1>1, <1>2, <1>3, <1>4, TaskNames
     DEF TasksInv, HoldInv, InLock, Connected, MainInv, LoopInv, ClientInv
<1>9. LifeInv'
  BY <1>1, <1>2, <1>3, <1>4, TaskNames
     DEF LifeInv, NoPool, Serves, TasksInv, MainInv, LoopInv, ClientInv, InLock
<1>10. QED
  BY <1>5, <1>6, <1>7, <1>8, <1>9 DEF IInv, TasksInv

(* Rates have arrived: the snapshot is next, with _lock still held.        *)
LEMMA AnsweredKeeps ==
  ASSUME IInv, NEW t \in Tasks, Answered(t)
  PROVE  IInv'
<1>1. /\ Typed /\ PoolInv /\ TasksInv /\ LifeInv
      /\ t \in Tasks
  BY TaskNames DEF IInv
<1>2. /\ pc[t] = "http" /\ Goes(t, "get_pool")
      /\ UNCHANGED <<kind, pool, pools, conn, row, lock>>
  BY DEF Answered, held
<1>3. pc' \in [Tasks -> PCs] /\ pc'[t] = "get_pool" /\ \A u \in Tasks \ {t} : pc'[u] = pc[u]
  BY <1>1, <1>2, GoesFacts DEF PCs
<1>4. kind' = kind
  BY <1>2
<1>5. Typed' /\ PoolInv'
  BY <1>1, <1>2, <1>3, <1>4, PoolFrame DEF Typed
<1>6. MainInv' /\ LoopInv'
  BY <1>1, <1>2, <1>3, <1>4, TaskNames DEF TasksInv, MainInv, LoopInv, ClientInv, InLock
<1>7. ASSUME NEW c \in Clients PROVE ClientInv(c)' /\ RowInv(c)'
  BY <1>1, <1>2, <1>3, <1>4, TaskNames
     DEF TasksInv, ClientInv, RowInv, MainInv, LoopInv, InLock, Kinds, Typed
<1>8. ASSUME NEW u \in Tasks PROVE HoldInv(u)'
  BY <1>1, <1>2, <1>3, <1>4, TaskNames
     DEF TasksInv, HoldInv, InLock, Connected, MainInv, LoopInv, ClientInv
<1>9. LifeInv'
  BY <1>1, <1>2, <1>3, <1>4, TaskNames
     DEF LifeInv, NoPool, Serves, TasksInv, MainInv, LoopInv, ClientInv, InLock
<1>10. QED
  BY <1>5, <1>6, <1>7, <1>8, <1>9 DEF IInv, TasksInv

(* The loop wakes. *)
LEMMA WakeKeeps ==
  ASSUME IInv, Wake
  PROVE  IInv'
<1>1. /\ Typed /\ PoolInv /\ TasksInv /\ LifeInv
      /\ Loop \in Tasks
  BY TaskNames DEF IInv
<1>2. /\ pc[Loop] = "sleep" /\ Goes(Loop, "ask")
      /\ UNCHANGED <<kind, pool, pools, conn, row, lock>>
  BY DEF Wake, held
<1>3. pc' \in [Tasks -> PCs] /\ pc'[Loop] = "ask" /\ \A u \in Tasks \ {Loop} : pc'[u] = pc[u]
  BY <1>1, <1>2, GoesFacts DEF PCs
<1>4. kind' = kind
  BY <1>2
<1>5. Typed' /\ PoolInv'
  BY <1>1, <1>2, <1>3, <1>4, PoolFrame DEF Typed
<1>6. MainInv' /\ LoopInv'
  BY <1>1, <1>2, <1>3, <1>4, TaskNames DEF TasksInv, MainInv, LoopInv, ClientInv, InLock
<1>7. ASSUME NEW c \in Clients PROVE ClientInv(c)' /\ RowInv(c)'
  BY <1>1, <1>2, <1>3, <1>4, TaskNames
     DEF TasksInv, ClientInv, RowInv, MainInv, LoopInv, InLock, Kinds, Typed
<1>8. ASSUME NEW u \in Tasks PROVE HoldInv(u)'
  BY <1>1, <1>2, <1>3, <1>4, TaskNames
     DEF TasksInv, HoldInv, InLock, Connected, MainInv, LoopInv, ClientInv
<1>9. LifeInv'
  BY <1>1, <1>2, <1>3, <1>4, TaskNames
     DEF LifeInv, NoPool, Serves, TasksInv, MainInv, LoopInv, ClientInv, InLock
<1>10. QED
  BY <1>5, <1>6, <1>7, <1>8, <1>9 DEF IInv, TasksInv

(* The quote is inserted. *)
LEMMA InsertKeeps ==
  ASSUME IInv, NEW t \in Clients, Insert(t)
  PROVE  IInv'
<1>1. /\ Typed /\ PoolInv /\ TasksInv /\ LifeInv
      /\ t \in Tasks
  BY TaskNames DEF IInv
<1>2. /\ pc[t] = "insert" /\ Goes(t, "publish")
      /\ UNCHANGED <<kind, pool, pools, conn, row, lock>>
  BY DEF Insert, held
<1>3. pc' \in [Tasks -> PCs] /\ pc'[t] = "publish" /\ \A u \in Tasks \ {t} : pc'[u] = pc[u]
  BY <1>1, <1>2, GoesFacts DEF PCs
<1>4. kind' = kind
  BY <1>2
<1>5. Typed' /\ PoolInv'
  BY <1>1, <1>2, <1>3, <1>4, PoolFrame DEF Typed
<1>6. MainInv' /\ LoopInv'
  BY <1>1, <1>2, <1>3, <1>4, TaskNames DEF TasksInv, MainInv, LoopInv, ClientInv, InLock
<1>7. ASSUME NEW c \in Clients PROVE ClientInv(c)' /\ RowInv(c)'
  BY <1>1, <1>2, <1>3, <1>4, TaskNames
     DEF TasksInv, ClientInv, RowInv, MainInv, LoopInv, InLock, Kinds, Typed
<1>8. ASSUME NEW u \in Tasks PROVE HoldInv(u)'
  BY <1>1, <1>2, <1>3, <1>4, TaskNames
     DEF TasksInv, HoldInv, InLock, Connected, MainInv, LoopInv, ClientInv
<1>9. LifeInv'
  BY <1>1, <1>2, <1>3, <1>4, TaskNames
     DEF LifeInv, NoPool, Serves, TasksInv, MainInv, LoopInv, ClientInv, InLock
<1>10. QED
  BY <1>5, <1>6, <1>7, <1>8, <1>9 DEF IInv, TasksInv

(* The row is locked when nobody has it. *)
LEMMA LockRowKeeps ==
  ASSUME IInv, NEW t \in Clients, LockRow(t)
  PROVE  IInv'
<1>1. /\ Typed /\ PoolInv /\ TasksInv /\ LifeInv
      /\ t \in Tasks
  BY TaskNames DEF IInv
<1>2. /\ pc[t] = "lock_row" /\ row = None /\ row' = t /\ Goes(t, "write")
      /\ UNCHANGED <<kind, pool, pools, conn, lock>>
  BY DEF LockRow
<1>3. pc' \in [Tasks -> PCs] /\ pc'[t] = "write" /\ \A u \in Tasks \ {t} : pc'[u] = pc[u]
  BY <1>1, <1>2, GoesFacts DEF PCs
<1>4. kind' = kind
  BY <1>2
<1>5. Typed' /\ PoolInv'
  BY <1>1, <1>2, <1>3, <1>4, PoolFrame DEF Typed
<1>6. MainInv' /\ LoopInv'
  BY <1>1, <1>2, <1>3, <1>4, TaskNames DEF TasksInv, MainInv, LoopInv, ClientInv, InLock
<1>7. ASSUME NEW c \in Clients PROVE ClientInv(c)' /\ RowInv(c)'
  BY <1>1, <1>2, <1>3, <1>4, TaskNames
     DEF TasksInv, ClientInv, RowInv, MainInv, LoopInv, InLock, Kinds, Typed
<1>8. ASSUME NEW u \in Tasks PROVE HoldInv(u)'
  BY <1>1, <1>2, <1>3, <1>4, TaskNames
     DEF TasksInv, HoldInv, InLock, Connected, MainInv, LoopInv, ClientInv
<1>9. LifeInv'
  BY <1>1, <1>2, <1>3, <1>4, TaskNames
     DEF LifeInv, NoPool, Serves, TasksInv, MainInv, LoopInv, ClientInv, InLock
<1>10. QED
  BY <1>5, <1>6, <1>7, <1>8, <1>9 DEF IInv, TasksInv

(* The worker exits without a database: no pool had been opened. *)
LEMMA NoDatabaseKeeps ==
  ASSUME IInv, NoDatabase
  PROVE  IInv'
<1>1. /\ Typed /\ PoolInv /\ TasksInv /\ LifeInv
      /\ Main \in Tasks
  BY TaskNames DEF IInv
<1>2. /\ pc[Main] = "create_pool" /\ kind[Main] = "boot" /\ Goes(Main, "down")
      /\ UNCHANGED <<kind, pool, pools, conn, row, lock>>
  BY DEF NoDatabase, held
<1>3. pc' \in [Tasks -> PCs] /\ pc'[Main] = "down" /\ \A u \in Tasks \ {Main} : pc'[u] = pc[u]
  BY <1>1, <1>2, GoesFacts DEF PCs
<1>4. kind' = kind
  BY <1>2
<1>5. Typed' /\ PoolInv'
  BY <1>1, <1>2, <1>3, <1>4, PoolFrame DEF Typed
<1>6. MainInv' /\ LoopInv'
  BY <1>1, <1>2, <1>3, <1>4, TaskNames DEF TasksInv, MainInv, LoopInv, ClientInv, InLock
<1>7. ASSUME NEW c \in Clients PROVE ClientInv(c)' /\ RowInv(c)'
  BY <1>1, <1>2, <1>3, <1>4, TaskNames
     DEF TasksInv, ClientInv, RowInv, MainInv, LoopInv, InLock, Kinds, Typed
<1>8. ASSUME NEW u \in Tasks PROVE HoldInv(u)'
  BY <1>1, <1>2, <1>3, <1>4, TaskNames
     DEF TasksInv, HoldInv, InLock, Connected, MainInv, LoopInv, ClientInv
<1>9. LifeInv'
  <2>1. ASSUME NEW u \in Tasks PROVE u \notin conn
    <3>1. pc[u] \in {"create_pool", "off", "idle"}
      BY <1>1, <1>2, TaskNames DEF LifeInv, Serves
    <3>2. QED
      BY <1>1, <3>1 DEF TasksInv, HoldInv, Connected
  <2>2. conn = {}
    BY <1>1, <2>1 DEF Typed
  <2>3. QED
    BY <1>1, <1>2, <1>3, <1>4, <2>2, TaskNames DEF LifeInv, NoPool, Serves
<1>10. QED
  BY <1>5, <1>6, <1>7, <1>8, <1>9 DEF IInv, TasksInv

(* The lifespan begins: nothing of an earlier one is left. *)
LEMMA BootKeeps ==
  ASSUME IInv, Boot
  PROVE  IInv'
<1>1. /\ Typed /\ PoolInv /\ TasksInv /\ LifeInv
      /\ Main \in Tasks
  BY TaskNames DEF IInv
<1>2. /\ pc[Main] = "down" /\ pc[Loop] = "off" /\ kind' = [kind EXCEPT ![Main] = "boot"] /\ Goes(Main, "get_pool")
      /\ UNCHANGED <<pool, pools, conn, row, lock>>
  BY DEF Boot, held
<1>3. pc' \in [Tasks -> PCs] /\ pc'[Main] = "get_pool" /\ \A u \in Tasks \ {Main} : pc'[u] = pc[u]
  BY <1>1, <1>2, GoesFacts DEF PCs
<1>4. /\ kind' \in [Tasks -> Kinds \cup {"boot", "none"}]
      /\ kind'[Main] = "boot" /\ \A u \in Tasks \ {Main} : kind'[u] = kind[u]
  BY <1>1, <1>2, KindFacts DEF Kinds
<1>5. Typed' /\ PoolInv'
  BY <1>1, <1>2, <1>3, <1>4, PoolFrame DEF Typed
<1>6. MainInv' /\ LoopInv'
  BY <1>1, <1>2, <1>3, <1>4, TaskNames DEF TasksInv, MainInv, LoopInv, ClientInv, InLock
<1>7. ASSUME NEW c \in Clients PROVE ClientInv(c)' /\ RowInv(c)'
  BY <1>1, <1>2, <1>3, <1>4, TaskNames
     DEF TasksInv, ClientInv, RowInv, MainInv, LoopInv, InLock, Kinds, Typed
<1>8. ASSUME NEW u \in Tasks PROVE HoldInv(u)'
  BY <1>1, <1>2, <1>3, <1>4, TaskNames
     DEF TasksInv, HoldInv, InLock, Connected, MainInv, LoopInv, ClientInv
<1>9. LifeInv'
  BY <1>1, <1>2, <1>3, <1>4, TaskNames
     DEF LifeInv, NoPool, Serves, TasksInv, MainInv, LoopInv, ClientInv, InLock
<1>10. QED
  BY <1>5, <1>6, <1>7, <1>8, <1>9 DEF IInv, TasksInv

(* Redis and RabbitMQ are connected, or not; start() asks for rates. *)
LEMMA ConnectKeeps ==
  ASSUME IInv, Connect
  PROVE  IInv'
<1>1. /\ Typed /\ PoolInv /\ TasksInv /\ LifeInv
      /\ Main \in Tasks
  BY TaskNames DEF IInv
<1>2. /\ pc[Main] = "connect" /\ kind' = [kind EXCEPT ![Main] = "refresh"] /\ Goes(Main, "ask")
      /\ UNCHANGED <<pool, pools, conn, row, lock>>
  BY DEF Connect, held
<1>3. pc' \in [Tasks -> PCs] /\ pc'[Main] = "ask" /\ \A u \in Tasks \ {Main} : pc'[u] = pc[u]
  BY <1>1, <1>2, GoesFacts DEF PCs
<1>4. /\ kind' \in [Tasks -> Kinds \cup {"boot", "none"}]
      /\ kind'[Main] = "refresh" /\ \A u \in Tasks \ {Main} : kind'[u] = kind[u]
  BY <1>1, <1>2, KindFacts DEF Kinds
<1>5. Typed' /\ PoolInv'
  BY <1>1, <1>2, <1>3, <1>4, PoolFrame DEF Typed
<1>6. MainInv' /\ LoopInv'
  BY <1>1, <1>2, <1>3, <1>4, TaskNames DEF TasksInv, MainInv, LoopInv, ClientInv, InLock
<1>7. ASSUME NEW c \in Clients PROVE ClientInv(c)' /\ RowInv(c)'
  BY <1>1, <1>2, <1>3, <1>4, TaskNames
     DEF TasksInv, ClientInv, RowInv, MainInv, LoopInv, InLock, Kinds, Typed
<1>8. ASSUME NEW u \in Tasks PROVE HoldInv(u)'
  BY <1>1, <1>2, <1>3, <1>4, TaskNames
     DEF TasksInv, HoldInv, InLock, Connected, MainInv, LoopInv, ClientInv
<1>9. LifeInv'
  BY <1>1, <1>2, <1>3, <1>4, TaskNames
     DEF LifeInv, NoPool, Serves, TasksInv, MainInv, LoopInv, ClientInv, InLock
<1>10. QED
  BY <1>5, <1>6, <1>7, <1>8, <1>9 DEF IInv, TasksInv

(* SIGTERM changes nothing for the calls under way. *)
LEMMA TerminateKeeps ==
  ASSUME IInv, Terminate
  PROVE  IInv'
<1>1. /\ Typed /\ PoolInv /\ TasksInv /\ LifeInv
      /\ Main \in Tasks
  BY TaskNames DEF IInv
<1>2. /\ pc[Main] = "serve" /\ Goes(Main, "drain")
      /\ UNCHANGED <<kind, pool, pools, conn, row, lock>>
  BY DEF Terminate, held
<1>3. pc' \in [Tasks -> PCs] /\ pc'[Main] = "drain" /\ \A u \in Tasks \ {Main} : pc'[u] = pc[u]
  BY <1>1, <1>2, GoesFacts DEF PCs
<1>4. kind' = kind
  BY <1>2
<1>5. Typed' /\ PoolInv'
  BY <1>1, <1>2, <1>3, <1>4, PoolFrame DEF Typed
<1>6. MainInv' /\ LoopInv'
  BY <1>1, <1>2, <1>3, <1>4, TaskNames DEF TasksInv, MainInv, LoopInv, ClientInv, InLock
<1>7. ASSUME NEW c \in Clients PROVE ClientInv(c)' /\ RowInv(c)'
  BY <1>1, <1>2, <1>3, <1>4, TaskNames
     DEF TasksInv, ClientInv, RowInv, MainInv, LoopInv, InLock, Kinds, Typed
<1>8. ASSUME NEW u \in Tasks PROVE HoldInv(u)'
  BY <1>1, <1>2, <1>3, <1>4, TaskNames
     DEF TasksInv, HoldInv, InLock, Connected, MainInv, LoopInv, ClientInv
<1>9. LifeInv'
  BY <1>1, <1>2, <1>3, <1>4, TaskNames
     DEF LifeInv, NoPool, Serves, TasksInv, MainInv, LoopInv, ClientInv, InLock
<1>10. QED
  BY <1>5, <1>6, <1>7, <1>8, <1>9 DEF IInv, TasksInv

(* A call begins while the worker serves: it has a pool. *)
LEMMA CallKeeps ==
  ASSUME IInv, NEW t \in Clients, Call(t)
  PROVE  IInv'
<1>1. /\ Typed /\ PoolInv /\ TasksInv /\ LifeInv
      /\ t \in Tasks
  BY TaskNames DEF IInv
<1>2. PICK k \in Kinds :
         /\ kind' = [kind EXCEPT ![t] = k]
         /\ Goes(t, IF k = "refresh" THEN "ask" ELSE "get_pool")
  BY DEF Call
<1>3. /\ pc[t] = "idle" /\ pc[Main] = "serve"
      /\ UNCHANGED <<pool, pools, conn, row, lock>>
  BY DEF Call, held
<1> DEFINE p == IF k = "refresh" THEN "ask" ELSE "get_pool"
<1>4. p \in PCs /\ (p = "ask" <=> k = "refresh") /\ (p = "get_pool" <=> k # "refresh")
  BY DEF PCs
<1>5. Goes(t, p)
  BY <1>2
<1> HIDE DEF p
<1>6. pc' \in [Tasks -> PCs] /\ pc'[t] = p /\ \A u \in Tasks \ {t} : pc'[u] = pc[u]
  BY <1>1, <1>4, <1>5, GoesFacts
<1>7. /\ kind' \in [Tasks -> Kinds \cup {"boot", "none"}]
      /\ kind'[t] = k /\ \A u \in Tasks \ {t} : kind'[u] = kind[u]
  BY <1>1, <1>2, KindFacts
<1>8. Typed' /\ PoolInv'
  BY <1>1, <1>3, <1>6, <1>7, PoolFrame DEF Typed
<1>9. MainInv' /\ LoopInv'
  BY <1>1, <1>3, <1>6, <1>7, TaskNames DEF TasksInv, MainInv, LoopInv
<1>10. ASSUME NEW c \in Clients PROVE ClientInv(c)' /\ RowInv(c)'
  BY <1>1, <1>3, <1>4, <1>6, <1>7, TaskNames
     DEF TasksInv, ClientInv, RowInv, Kinds
<1>11. ASSUME NEW u \in Tasks PROVE HoldInv(u)'
  BY <1>1, <1>3, <1>4, <1>6, <1>7, TaskNames
     DEF TasksInv, HoldInv, InLock, Connected
<1>12. LifeInv'
  BY <1>1, <1>3, <1>6, <1>7, TaskNames DEF LifeInv, NoPool, Serves
<1>13. QED
  BY <1>8, <1>9, <1>10, <1>11, <1>12 DEF IInv, TasksInv

(* The transaction ends, or the expired quote is announced with its row    *)
(* still locked.                                                           *)
LEMMA WriteKeeps ==
  ASSUME IInv, NEW t \in Clients, Write(t)
  PROVE  IInv'
<1>1. /\ Typed /\ PoolInv /\ TasksInv /\ LifeInv
      /\ t \in Tasks
  BY TaskNames DEF IInv
<1>2. PICK p \in {"publish", "publish_expired"} :
         /\ pc[t] = "write" /\ Goes(t, p)
         /\ IF p = "publish" THEN row' = None ELSE row' = row
         /\ UNCHANGED <<kind, pool, pools, conn, lock>>
  BY DEF Write
<1>3. pc' \in [Tasks -> PCs] /\ pc'[t] = p /\ \A u \in Tasks \ {t} : pc'[u] = pc[u]
  BY <1>1, <1>2, GoesFacts DEF PCs
<1>4. row = t /\ kind[t] = "write"
  BY <1>1, <1>2 DEF TasksInv, RowInv, ClientInv, InLock
<1>5. Typed' /\ PoolInv'
  BY <1>1, <1>2, <1>3, PoolFrame DEF Typed
<1>6. MainInv' /\ LoopInv'
  BY <1>1, <1>2, <1>3, TaskNames DEF TasksInv, MainInv, LoopInv
<1>7. ASSUME NEW c \in Clients PROVE ClientInv(c)' /\ RowInv(c)'
  BY <1>1, <1>2, <1>3, <1>4, TaskNames DEF TasksInv, ClientInv, RowInv, InLock
<1>8. ASSUME NEW u \in Tasks PROVE HoldInv(u)'
  BY <1>1, <1>2, <1>3, <1>4, TaskNames DEF TasksInv, HoldInv, InLock, Connected
<1>9. LifeInv'
  BY <1>1, <1>2, <1>3, <1>4, TaskNames DEF LifeInv, NoPool, Serves
<1>10. QED
  BY <1>5, <1>6, <1>7, <1>8, <1>9 DEF IInv, TasksInv

(* stop() cancels the loop, which keeps its lock and its connection until  *)
(* the cancellation reaches it.                                            *)
LEMMA StopKeeps ==
  ASSUME IInv, Stop
  PROVE  IInv'
<1>1. /\ Typed /\ PoolInv /\ TasksInv /\ LifeInv
  BY DEF IInv
<1>2. /\ pc[Main] = "drain" /\ \A c \in Clients : pc[c] = "idle"
      /\ pc' = [pc EXCEPT ![Main] = "close_pool", ![Loop] = "cancelled"]
      /\ UNCHANGED <<kind, pool, pools, conn, row, lock>>
  BY DEF Stop, held
<1>3. /\ pc' \in [Tasks -> PCs] /\ pc'[Main] = "close_pool" /\ pc'[Loop] = "cancelled"
      /\ \A c \in Clients : pc'[c] = pc[c]
  BY <1>1, <1>2, TaskNames DEF Typed, PCs
<1>4. Typed' /\ PoolInv'
  BY <1>1, <1>2, <1>3, PoolFrame DEF Typed
<1>5. MainInv' /\ LoopInv'
  BY <1>1, <1>2, <1>3 DEF TasksInv, MainInv, LoopInv
<1>6. ASSUME NEW c \in Clients PROVE ClientInv(c)' /\ RowInv(c)'
  BY <1>1, <1>2, <1>3 DEF TasksInv, ClientInv, RowInv
<1>7. ASSUME NEW u \in Tasks PROVE HoldInv(u)'
  BY <1>1, <1>2, <1>3, TaskNames
     DEF TasksInv, HoldInv, MainInv, LoopInv, InLock, Connected
<1>8. LifeInv'
  BY <1>1, <1>2, <1>3, TaskNames DEF LifeInv, NoPool, Serves
<1>9. QED
  BY <1>4, <1>5, <1>6, <1>7, <1>8 DEF IInv, TasksInv

(* The loop leaves both as CancelledError passes through. *)
LEMMA UnwindKeeps ==
  ASSUME IInv, Unwind
  PROVE  IInv'
<1>1. /\ Typed /\ PoolInv /\ TasksInv /\ LifeInv
  BY DEF IInv
<1>2. /\ pc[Loop] = "cancelled" /\ conn' = conn \ {Loop} /\ Goes(Loop, "off")
      /\ lock' = IF lock = Loop THEN None ELSE lock
      /\ UNCHANGED <<kind, pool, pools, row>>
  BY DEF Unwind, Without
<1>3. /\ pc' \in [Tasks -> PCs] /\ pc'[Loop] = "off"
      /\ \A u \in Tasks \ {Loop} : pc'[u] = pc[u]
  BY <1>1, <1>2, TaskNames, GoesFacts DEF PCs
<1>4. Typed' /\ PoolInv'
  <2>1. IsFiniteSet(conn \ {Loop}) /\ Cardinality(conn \ {Loop}) <= Cardinality(conn)
        /\ Cardinality(conn) \in Nat /\ Cardinality(conn \ {Loop}) \in Nat
    BY <1>1, FS_Subset, FS_CardinalityType DEF PoolInv
  <2>2. QED
    BY <1>1, <1>2, <1>3, <2>1, PoolAssumption DEF Typed, PoolInv
<1>5. MainInv' /\ LoopInv'
  BY <1>1, <1>2, <1>3, TaskNames DEF TasksInv, MainInv, LoopInv
<1>6. ASSUME NEW c \in Clients PROVE ClientInv(c)' /\ RowInv(c)'
  BY <1>1, <1>2, <1>3, TaskNames DEF TasksInv, ClientInv, RowInv
<1>7. ASSUME NEW u \in Tasks PROVE HoldInv(u)'
  BY <1>1, <1>2, <1>3, TaskNames DEF TasksInv, HoldInv, InLock, Connected
<1>8. LifeInv'
  BY <1>1, <1>2, <1>3, TaskNames DEF LifeInv, NoPool, Serves
<1>9. QED
  BY <1>4, <1>5, <1>6, <1>7, <1>8 DEF IInv, TasksInv

(* close_pool() comes back: the pool it closed was the only one. The loop  *)
(* may not have ended yet, but it is cancelled.                            *)
LEMMA ClosePoolKeeps ==
  ASSUME IInv, ClosePool
  PROVE  IInv'
<1>1. /\ Typed /\ PoolInv /\ TasksInv /\ LifeInv
  BY DEF IInv
<1>2. /\ pc[Main] = "close_pool" /\ conn = {} /\ Goes(Main, "down")
      /\ pool' = FALSE /\ pools' = (IF pool THEN pools - 1 ELSE pools)
      /\ UNCHANGED <<kind, conn, row, lock>>
  BY DEF ClosePool, held
<1>3. /\ pc' \in [Tasks -> PCs] /\ pc'[Main] = "down"
      /\ \A u \in Tasks \ {Main} : pc'[u] = pc[u]
  BY <1>1, <1>2, TaskNames, GoesFacts DEF PCs
<1>4. pools' = 0
  BY <1>1, <1>2 DEF LifeInv, NoPool
<1>5. Typed' /\ PoolInv'
  <2>1. pool' \in BOOLEAN
    BY <1>2
  <2>2. pools' \in Nat
    BY <1>4
  <2>3. QED
    BY <1>1, <1>2, <1>3, <2>1, <2>2, PoolFrame DEF Typed
<1>6. MainInv' /\ LoopInv'
  BY <1>1, <1>2, <1>3, TaskNames DEF TasksInv, MainInv, LoopInv, InLock
<1>7. ASSUME NEW c \in Clients PROVE ClientInv(c)' /\ RowInv(c)'
  BY <1>1, <1>2, <1>3, TaskNames DEF TasksInv, ClientInv, RowInv
<1>8. ASSUME NEW u \in Tasks PROVE HoldInv(u)'
  BY <1>1, <1>2, <1>3, TaskNames DEF TasksInv, HoldInv, InLock, Connected
<1>9. LifeInv'
  BY <1>1, <1>2, <1>3, <1>4, TaskNames DEF LifeInv, NoPool, Serves
<1>10. QED
  BY <1>5, <1>6, <1>7, <1>8, <1>9 DEF IInv, TasksInv
-----------------------------------------------------------------------------
(* A task that has its answer leaves every lock and connection it had, and *)
(* no other task loses one.                                                *)
LEMMA LeaveKeeps ==
  ASSUME IInv, NEW t \in Tasks, Leave(t),
         t \in Clients => pc[t] # "idle",
         t = Main \/ t = Loop => pc[t] \in {"http", "persist"}
  PROVE  IInv'
<1>1. /\ Typed /\ PoolInv /\ TasksInv /\ LifeInv
  BY DEF IInv
<1>2. /\ conn' = conn \ {t}
      /\ row' = (IF row = t THEN None ELSE row) /\ lock' = (IF lock = t THEN None ELSE lock)
      /\ UNCHANGED <<pool, pools>>
  BY DEF Leave, Without
<1>3. /\ pc' \in [Tasks -> PCs]
      /\ pc'[t] = IF t = Main THEN "serve" ELSE IF t = Loop THEN "sleep" ELSE "idle"
      /\ t = Main => pc'[Loop] = "sleep"
      /\ \A u \in Tasks \ {t, Loop} : pc'[u] = pc[u]
      /\ t # Main => \A u \in Tasks \ {t} : pc'[u] = pc[u]
  BY <1>1, TaskNames DEF Leave, Started, Typed, PCs
<1>4. /\ kind' \in [Tasks -> Kinds \cup {"boot", "none"}]
      /\ t \in Clients => kind'[t] = "none"
      /\ \A u \in Tasks : u # t \/ t \notin Clients => kind'[u] = kind[u]
  BY <1>1, TaskNames DEF Leave, Typed
<1>6. Typed' /\ PoolInv'
  <2>1. IsFiniteSet(conn \ {t}) /\ Cardinality(conn \ {t}) <= Cardinality(conn)
        /\ Cardinality(conn) \in Nat /\ Cardinality(conn \ {t}) \in Nat
    BY <1>1, FS_Subset, FS_CardinalityType DEF PoolInv
  <2>2. PoolInv'
    BY <1>1, <1>2, <2>1, PoolAssumption DEF PoolInv
  <2>3. QED
    BY <1>1, <1>2, <1>3, <1>4, <2>2 DEF Typed
<1>7. t = Main => /\ kind[Main] = "refresh" /\ pc[Loop] = "off" /\ ~NoPool /\ ~Serves
                  /\ pc[Main] # "close_pool"
  BY <1>1 DEF TasksInv, MainInv, LifeInv, InLock, NoPool, Serves
<1>8. t = Loop \/ t \in Clients => Serves
  BY <1>1, TaskNames DEF LifeInv
<1>9. MainInv' /\ LoopInv'
  BY <1>1, <1>3, <1>4, <1>7, TaskNames DEF TasksInv, MainInv, LoopInv, InLock
<1>10. ASSUME NEW c \in Clients PROVE ClientInv(c)' /\ RowInv(c)'
  <2>1. ClientInv(c)'
    BY <1>1, <1>3, <1>4, TaskNames DEF TasksInv, ClientInv
  <2>2. RowInv(c)'
    BY <1>1, <1>2, <1>3, TaskNames DEF TasksInv, RowInv
  <2>3. QED
    BY <2>1, <2>2
<1>11. ASSUME NEW u \in Tasks PROVE HoldInv(u)'
  <2>1. CASE u = t
    BY <1>2, <1>3, <1>4, <2>1, TaskNames DEF InLock, HoldInv
  <2>2. CASE u # t /\ (u # Loop \/ t # Main)
    BY <1>1, <1>2, <1>3, <1>4, <2>2, TaskNames DEF TasksInv, HoldInv
  <2>3. CASE u = Loop /\ t = Main
    BY <1>1, <1>2, <1>3, <1>4, <1>7, <2>3, TaskNames
       DEF TasksInv, HoldInv, InLock, Connected
  <2>4. QED
    BY <2>1, <2>2, <2>3
<1>12. LifeInv'
  BY <1>1, <1>2, <1>3, <1>4, <1>7, <1>8, TaskNames DEF LifeInv, NoPool, Serves
<1>13. QED
  BY <1>6, <1>9, <1>10, <1>11, <1>12 DEF IInv, TasksInv

(* A failed fetch leaves the lock, and so does start() with its fallback.  *)
LEMMA NotAnsweredKeeps ==
  ASSUME IInv, NEW t \in Tasks, NotAnswered(t)
  PROVE  IInv'
BY LeaveKeeps DEF NotAnswered

(* A task comes to its end. *)
LEMMA FinishKeeps ==
  ASSUME IInv, NEW t \in Tasks, Finish(t)
  PROVE  IInv'
<1>1. pc[t] \in {"persist", "publish", "publish_expired"} /\ Leave(t)
  BY DEF Finish
<1>2. t = Main \/ t = Loop => pc[t] = "persist"
  BY <1>1 DEF IInv, TasksInv, MainInv, LoopInv, InLock
<1>3. QED
  BY <1>1, <1>2, LeaveKeeps

(* A query is answered, or a statement fails. *)
LEMMA QueryKeeps ==
  ASSUME IInv, NEW t \in Clients, Query(t) \/ Fail(t)
  PROVE  IInv'
BY LeaveKeeps, TaskNames DEF Query, Fail

(* generate_quote() goes on to its INSERT, or it refuses. *)
LEMMA ReadRatesKeeps ==
  ASSUME IInv, NEW t \in Clients, ReadRates(t)
  PROVE  IInv'
<1>1. /\ Typed /\ PoolInv /\ TasksInv /\ LifeInv
      /\ t \in Tasks /\ t # Main /\ t # Loop
  BY TaskNames DEF IInv
<1>2. CASE Leave(t)
  BY <1>1, <1>2, LeaveKeeps DEF ReadRates
<1>3. CASE ~Leave(t)
  <2>1. /\ pc[t] = "customer" /\ Goes(t, "insert")
        /\ UNCHANGED <<kind, pool, pools, conn, row, lock>>
    BY <1>3 DEF ReadRates, held
  <2>2. pc' \in [Tasks -> PCs] /\ pc'[t] = "insert" /\ \A u \in Tasks \ {t} : pc'[u] = pc[u]
    BY <1>1, <2>1, GoesFacts DEF PCs
  <2>3. Typed' /\ PoolInv'
    BY <1>1, <2>1, <2>2, PoolFrame DEF Typed
  <2>4. MainInv' /\ LoopInv'
    BY <1>1, <2>1, <2>2, TaskNames DEF TasksInv, MainInv, LoopInv
  <2>5. ASSUME NEW c \in Clients PROVE ClientInv(c)' /\ RowInv(c)'
    BY <1>1, <2>1, <2>2, TaskNames DEF TasksInv, ClientInv, RowInv, InLock
  <2>6. ASSUME NEW u \in Tasks PROVE HoldInv(u)'
    BY <1>1, <2>1, <2>2 DEF TasksInv, HoldInv, ClientInv, InLock, Connected
  <2>7. LifeInv'
    BY <1>1, <2>1, <2>2, TaskNames DEF LifeInv, NoPool, Serves
  <2>8. QED
    BY <2>3, <2>4, <2>5, <2>6, <2>7 DEF IInv, TasksInv
<1>4. QED
  BY <1>2, <1>3

-----------------------------------------------------------------------------
(* The process has not booted. *)
LEMMA InitInv == Init => IInv
<1> SUFFICES ASSUME Init PROVE IInv
  OBVIOUS
<1>1. /\ pc = [t \in Tasks |-> CASE t = Main -> "down" [] t = Loop -> "off"
                                 [] OTHER -> "idle"]
      /\ kind = [t \in Tasks |-> IF t \in Clients THEN "none" ELSE "refresh"]
      /\ pool = FALSE /\ pools = 0
      /\ conn = {} /\ row = None /\ lock = None
  BY DEF Init
<1>2. /\ pc = [t \in Tasks |-> pc[t]]
      /\ pc[Main] = "down" /\ pc[Loop] = "off" /\ \A c \in Clients : pc[c] = "idle"
  BY <1>1, TaskNames, Zenon
<1>3. /\ kind[Main] = "refresh" /\ kind[Loop] = "refresh"
      /\ \A c \in Clients : kind[c] = "none"
  BY <1>1, TaskNames
<1>4. Typed
  <2>1. \A t \in Tasks : pc[t] \in PCs
    BY <1>2, TaskNames DEF PCs
  <2>2. pc \in [Tasks -> PCs]
    BY <1>2, <2>1
  <2>3. kind \in [Tasks -> Kinds \cup {"boot", "none"}]
    BY <1>1 DEF Kinds
  <2>4. pool \in BOOLEAN /\ pools \in Nat
    BY <1>1
  <2>5. QED
    BY <1>1, <2>2, <2>3, <2>4 DEF Typed
<1>5. PoolInv
  BY <1>1, FS_EmptySet, PoolAssumption DEF PoolInv
<1>6. TasksInv
  BY <1>1, <1>2, <1>3, TaskNames
     DEF TasksInv, MainInv, LoopInv, ClientInv, RowInv, HoldInv, InLock
<1>7. LifeInv
  BY <1>1, <1>2 DEF LifeInv, NoPool, Serves
<1>8. QED
  BY <1>4, <1>5, <1>6, <1>7 DEF IInv

(* Every step of every task keeps IInv. *)
LEMMA StepInv == IInv /\ [Next]_vars => IInv'
<1> SUFFICES ASSUME IInv, [Next]_vars PROVE IInv'
  OBVIOUS
<1>1. ASSUME NEW t \in Tasks, Refreshing(t) PROVE IInv'
  BY <1>1, GetPoolKeeps, CreatePoolKeeps, AcquireKeeps, AskKeeps, AnsweredKeeps,
     NotAnsweredKeeps, FinishKeeps DEF Refreshing
<1>2. ASSUME NEW c \in Clients, Call(c) \/ Serving(c) \/ Fail(c) PROVE IInv'
  BY <1>2, CallKeeps, QueryKeeps, ReadRatesKeeps, InsertKeeps, LockRowKeeps, WriteKeeps
     DEF Serving
<1>3. CASE Wake \/ Unwind
  BY <1>3, WakeKeeps, UnwindKeeps
<1>4. CASE Boot \/ NoDatabase \/ Lifespan \/ Terminate
  BY <1>4, BootKeeps, NoDatabaseKeeps, ConnectKeeps, StopKeeps, ClosePoolKeeps,
     TerminateKeeps DEF Lifespan
<1>5. CASE UNCHANGED vars
  <2>1. Typed' /\ PoolInv' /\ TasksInv' /\ LifeInv'
    BY <1>5 DEF IInv, Typed, PoolInv, TasksInv, LifeInv, MainInv, LoopInv, ClientInv,
       HoldInv, RowInv, Serves, NoPool, vars
  <2>2. QED
    BY <2>1 DEF IInv
<1>6. QED
  BY <1>1, <1>2, <1>3, <1>4, <1>5 DEF Next

(* IInv holds in every state of every behaviour of a worker. *)
THEOREM Invariant == Spec => []IInv
BY InitInv, StepInv, PTL DEF Spec

(* Every variable has its type, the pool never lends more than PoolSize    *)
(* connections, and the row and _lock are held exactly where the code is   *)
(* inside them.                                                            *)
THEOREM TypeCorrect == Spec => []TypeOK
<1>1. IInv => TypeOK
  <2> SUFFICES ASSUME IInv PROVE TypeOK
    OBVIOUS
  <2>1. /\ Typed /\ PoolInv
        /\ \A c \in Clients : RowInv(c)
        /\ \A t \in Tasks : HoldInv(t)
    BY DEF IInv, TasksInv
  <2>2. QED
    BY <2>1 DEF TypeOK, Typed, PoolInv, RowInv, HoldInv, PCs
<1>2. QED
  BY <1>1, Invariant, PTL

(* services/database.py:14-15: no pool is ever opened beside another. *)
THEOREM PoolIsUnique == Spec => []OnePool
<1>1. IInv => OnePool
  BY DEF IInv, LifeInv, OnePool
<1>2. QED
  BY <1>1, Invariant, PTL

(* main.py:67-73: a worker that is down has closed its pool, nobody opens  *)
(* it again, and every connection is back, although nobody waits for the   *)
(* loop: cancelled, it comes no further than where it was.                 *)
THEOREM DownIsClosed == Spec => []ClosedForGood
<1>1. IInv => ClosedForGood
  <2> SUFFICES ASSUME IInv, pc[Main] = "down"
               PROVE  ~pool /\ pools = 0 /\ conn = {}
    BY DEF ClosedForGood
  <2>1. QED
    BY DEF IInv, LifeInv, NoPool
<1>2. QED
  BY <1>1, Invariant, PTL

(* services/database.py:12-22, providers/rates.py:179: for any number of   *)
(* clients and any size of the pool, the waits for _lock, for a connection *)
(* and for the row never close into a circle. The row is last: its holder  *)
(* waits for nothing. With the row free, whoever has a connection waits    *)
(* for nothing; with every connection free, the holder of _lock does not.  *)
THEOREM NeverStalls == Spec => []NoStall
<1>1. IInv => NoStall
  <2> SUFFICES ASSUME IInv, NEW t \in Tasks, Waits(t)
               PROVE  \E u \in Tasks : (u \in conn \/ row = u \/ lock = u) /\ ~Waits(u)
    BY DEF NoStall
  <2>1. Typed /\ PoolInv /\ TasksInv
    BY DEF IInv
  <2>2. CASE row # None
    <3>1. PICK c \in Clients : row = c
      BY <2>1, <2>2 DEF Typed
    <3>2. pc[c] \in {"write", "publish_expired"} /\ c \in Tasks
      BY <2>1, <3>1, TaskNames DEF TasksInv, RowInv
    <3>3. ~Waits(c)
      BY <3>2 DEF Waits
    <3>4. QED
      BY <3>1, <3>2, <3>3
  <2>3. CASE row = None /\ conn # {}
    <3>1. PICK u \in Tasks : u \in conn
      BY <2>1, <2>3 DEF Typed
    <3>2. pc[u] \in Connected \cup {"cancelled"}
      BY <2>1, <3>1 DEF TasksInv, HoldInv
    <3>3. ~Waits(u)
      BY <2>3, <3>2 DEF Waits, Connected
    <3>4. QED
      BY <3>1, <3>3
  <2>4. CASE row = None /\ conn = {}
    <3>1. ~(Cardinality(conn) >= PoolSize)
      <4>1. Cardinality(conn) = 0
        BY <2>4, FS_EmptySet
      <4>2. QED
        BY <4>1, PoolAssumption
    <3>2. lock # None
      BY <2>4, <3>1 DEF Waits
    <3>3. PICK u \in Tasks : lock = u
      BY <2>1, <3>2 DEF Typed
    <3>4. pc[u] \in InLock \cup {"cancelled"}
      BY <2>1, <3>3 DEF TasksInv, HoldInv
    <3>5. ~Waits(u)
      BY <2>4, <3>1, <3>4 DEF Waits, InLock
    <3>6. QED
      BY <3>3, <3>5
  <2>5. QED
    BY <2>2, <2>3, <2>4
<1>2. QED
  BY <1>1, Invariant, PTL
=============================================================================
