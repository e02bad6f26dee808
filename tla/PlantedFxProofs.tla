--------------------------- MODULE PlantedFxProofs ---------------------------
(***************************************************************************)
(* Theorems about the faulty baseline, for any calls, quotes and keys: what *)
(* SQLite's write lock and the primary key of idempotency save although    *)
(* the quote is read outside of the lock. IInv is inductive: what a call   *)
(* holds and knows at each step, and how the three tables agree.           *)
(***************************************************************************)
EXTENDS PlantedFx, TLAPS

(* The statements of PlantedFx, and what a call comes with. *)
PCs == {"idle", "lookup", "read", "enter", "update", "insert", "keep", "commit", "done"}
Body == [quote : Quotes, key : Keys \cup {NoKey}]

(* The first part of TypeOK. *)
Typed ==
    /\ quotes \in [Quotes -> {"none", "open", "expired"}]
    /\ executed \subseteq Quotes
    /\ transactions \subseteq [id : Calls, quote : Quotes, key : Keys \cup {NoKey},
                               seen : SUBSET Calls]
    /\ idempotency \in [Keys -> Calls \cup {None}]
    /\ body \in [Calls -> Body \cup {None}]
    /\ seen \in [Calls -> SUBSET Calls]
    /\ resp \in [Calls -> [status : {0, 200, 400, 500}, tx : Calls \cup {None}]]
    /\ pc \in [Calls -> PCs]
    /\ mutex \in Calls \cup {None} /\ writer \in Calls \cup {None}

(* Both locks, each held by the call that is inside it. *)
LockInv(c) ==
    /\ mutex = c <=> pc[c] \in {"update", "insert"}
    /\ writer = c <=> pc[c] \in {"insert", "keep", "commit"}

(* What a call knows: it has read an unexecuted quote, so no transaction   *)
(* of it; and from the INSERT on, that nothing is kept under its key.      *)
CallInv(c) ==
    /\ pc[c] # "idle" => body[c] \in Body
    /\ pc[c] \in {"lookup", "keep"} => body[c].key \in Keys
    /\ pc[c] \in {"enter", "update", "insert", "keep", "commit"} => seen[c] = {}
    /\ pc[c] = "commit" /\ body[c].key \in Keys => idempotency[body[c].key] = None

(* A call that is told of a transaction has had its say, and the           *)
(* transaction is committed under the key it sent.                         *)
AnswerInv(c) ==
    resp[c].status = 200 =>
        /\ pc[c] = "done"
        /\ \E t \in transactions : t.id = resp[c].tx /\ t.key = body[c].key

(* The inductive invariant. *)
IInv ==
    /\ Typed
    /\ \A c \in Calls : LockInv(c) /\ CallInv(c) /\ AnswerInv(c)
    /\ FlagFollowsTransactions /\ KeyPaysOnce
    /\ \A t \in transactions : t.seen = {}

-----------------------------------------------------------------------------
(* What a step of call c leaves to the other calls. *)
OthersStand(c) ==
    \A u \in Calls \ {c} :
        /\ pc'[u] = pc[u] /\ body'[u] = body[u] /\ seen'[u] = seen[u] /\ resp'[u] = resp[u]
        /\ mutex' = u <=> mutex = u
        /\ writer' = u <=> writer = u

(* Other calls keep their part of the invariant: they look at tables a     *)
(* commit only adds to, but for the key of their response, and nobody      *)
(* commits beside the one that has the write lock.                         *)
LEMMA Others ==
  ASSUME IInv, NEW c \in Calls, OthersStand(c), transactions \subseteq transactions',
         idempotency' = idempotency \/ writer = c
  PROVE  \A u \in Calls \ {c} : LockInv(u)' /\ CallInv(u)' /\ AnswerInv(u)'
<1> SUFFICES ASSUME NEW u \in Calls, u # c
             PROVE  LockInv(u)' /\ CallInv(u)' /\ AnswerInv(u)'
  OBVIOUS
<1>1. /\ pc'[u] = pc[u] /\ body'[u] = body[u] /\ seen'[u] = seen[u] /\ resp'[u] = resp[u]
      /\ mutex' = u <=> mutex = u
      /\ writer' = u <=> writer = u
  BY DEF OthersStand
<1>2. LockInv(u) /\ CallInv(u) /\ AnswerInv(u)
  BY DEF IInv
<1>3. writer = c => pc[u] # "commit"
  BY <1>2 DEF LockInv
<1>4. LockInv(u)'
  BY <1>1, <1>2 DEF LockInv
<1>5. CallInv(u)'
  BY <1>1, <1>2, <1>3 DEF CallInv
<1>6. AnswerInv(u)'
  BY <1>1, <1>2 DEF AnswerInv
<1>7. QED
  BY <1>4, <1>5, <1>6

(* So a step that writes no table has to be checked for its own call only. *)
LEMMA Keeps ==
  ASSUME IInv, NEW c \in Calls, OthersStand(c), Typed',
         LockInv(c)', CallInv(c)', AnswerInv(c)', UNCHANGED tables
  PROVE  IInv'
<1>1. UNCHANGED <<quotes, executed, transactions, idempotency>>
  BY DEF tables
<1>2. \A u \in Calls : LockInv(u)' /\ CallInv(u)' /\ AnswerInv(u)'
  BY <1>1, Others
<1>3. QED
  BY <1>1, <1>2 DEF IInv, FlagFollowsTransactions, KeyPaysOnce

(* A lock that nobody holds is not held by a call. *)
LEMMA NoneIsNoCall == None \notin Calls
BY NamesAssumption

(* A step that answers nothing. *)
LEMMA GoesKeeps ==
  ASSUME IInv, NEW c \in Calls, pc[c] # "done", NEW p \in PCs, p # "idle", Goes(c, p),
         body' \in [Calls -> Body \cup {None}], seen' \in [Calls -> SUBSET Calls],
         \A u \in Calls \ {c} : body'[u] = body[u] /\ seen'[u] = seen[u],
         mutex' \in Calls \cup {None}, writer' \in Calls \cup {None},
         \A u \in Calls \ {c} : (mutex' = u <=> mutex = u) /\ (writer' = u <=> writer = u),
         mutex' = c <=> p \in {"update", "insert"},
         writer' = c <=> p \in {"insert", "keep", "commit"},
         body'[c] \in Body,
         p \in {"lookup", "keep"} => body'[c].key \in Keys,
         p \in {"enter", "update", "insert", "keep", "commit"} => seen'[c] = {},
         p = "commit" /\ body'[c].key \in Keys => idempotency[body'[c].key] = None,
         UNCHANGED <<tables, resp>>
  PROVE  IInv'
<1>1. Typed /\ CallInv(c) /\ AnswerInv(c)
  BY DEF IInv
<1>2. UNCHANGED <<quotes, executed, transactions, idempotency, resp>>
  BY DEF tables
<1>3. pc' \in [Calls -> PCs] /\ pc'[c] = p /\ \A u \in Calls \ {c} : pc'[u] = pc[u]
  BY <1>1 DEF Goes, Typed
<1>4. Typed'
  BY <1>1, <1>2, <1>3 DEF Typed
<1>5. OthersStand(c)
  BY <1>2, <1>3 DEF OthersStand
<1>6. LockInv(c)' /\ CallInv(c)'
  BY <1>2, <1>3 DEF LockInv, CallInv
<1>7. AnswerInv(c)'
  BY <1>1, <1>2 DEF AnswerInv
<1>8. QED
  BY <1>4, <1>5, <1>6, <1>7, Keeps

(* An answer: what the call held is left. *)
LEMMA AnswerKeeps ==
  ASSUME IInv, NEW c \in Calls, pc[c] \notin {"idle", "done"},
         NEW status \in {200, 400, 500}, NEW tx \in Calls \cup {None},
         Answer(c, status, tx),
         seen' \in [Calls -> SUBSET Calls], \A u \in Calls \ {c} : seen'[u] = seen[u],
         mutex' = IF mutex = c THEN None ELSE mutex,
         writer' = IF writer = c THEN None ELSE writer,
         status = 200 => \E t \in transactions : t.id = tx /\ t.key = body[c].key,
         UNCHANGED <<tables, body>>
  PROVE  IInv'
<1>1. Typed /\ CallInv(c)
  BY DEF IInv
<1>2. UNCHANGED <<quotes, executed, transactions, idempotency, body>>
  BY DEF tables
<1>3. pc' \in [Calls -> PCs] /\ pc'[c] = "done" /\ \A u \in Calls \ {c} : pc'[u] = pc[u]
  BY <1>1 DEF Answer, Goes, Typed, PCs
<1>4. /\ resp' \in [Calls -> [status : {0, 200, 400, 500}, tx : Calls \cup {None}]]
      /\ resp'[c].status = status /\ resp'[c].tx = tx
      /\ \A u \in Calls \ {c} : resp'[u] = resp[u]
  <2>1. resp' = [resp EXCEPT ![c] = [status |-> status, tx |-> tx]]
    BY DEF Answer
  <2>2. QED
    BY <1>1, <2>1 DEF Typed
<1>5. /\ mutex' \in Calls \cup {None} /\ writer' \in Calls \cup {None}
      /\ mutex' # c /\ writer' # c
  BY <1>1, NoneIsNoCall DEF Typed
<1>6. Typed'
  BY <1>1, <1>2, <1>3, <1>4, <1>5 DEF Typed
<1>7. OthersStand(c)
  BY <1>2, <1>3, <1>4, NoneIsNoCall DEF OthersStand
<1>8. LockInv(c)' /\ CallInv(c)'
  BY <1>1, <1>2, <1>3, <1>5 DEF LockInv, CallInv
<1>9. AnswerInv(c)'
  BY <1>2, <1>3, <1>4 DEF AnswerInv
<1>10. QED
  BY <1>6, <1>7, <1>8, <1>9, Keeps

(* A failure rolls back what nobody has seen and gives up the locks. *)
LEMMA FailKeeps ==
  ASSUME IInv, NEW c \in Calls, pc[c] \notin {"idle", "done"}, Fail(c)
  PROVE  IInv'
<1>1. /\ Answer(c, 500, None)
      /\ mutex' = IF mutex = c THEN None ELSE mutex
      /\ writer' = IF writer = c THEN None ELSE writer
      /\ UNCHANGED <<tables, body, seen>>
  BY DEF Fail, Leaves
<1>2. seen \in [Calls -> SUBSET Calls]
  BY DEF IInv, Typed
<1>3. QED
  BY <1>1, <1>2, AnswerKeeps

-----------------------------------------------------------------------------
(* Issuing a quote, or its expiry, is of no concern to what is invariant. *)
LEMMA QuoteKeeps ==
  ASSUME IInv, NEW q \in Quotes, Issue(q) \/ Expire(q)
  PROVE  IInv'
<1>1. /\ quotes' \in [Quotes -> {"none", "open", "expired"}]
      /\ UNCHANGED <<executed, transactions, idempotency, pc, body, seen, mutex,
                     writer, resp>>
  BY DEF Issue, Expire, IInv, Typed
<1>2. Typed'
  BY <1>1 DEF IInv, Typed
<1>3. ASSUME NEW c \in Calls PROVE LockInv(c)' /\ CallInv(c)' /\ AnswerInv(c)'
  BY <1>1 DEF IInv, LockInv, CallInv, AnswerInv
<1>4. QED
  BY <1>1, <1>2, <1>3 DEF IInv, FlagFollowsTransactions, KeyPaysOnce

(* A call comes with a quote, and with a key or without. *)
LEMMA CallKeeps ==
  ASSUME IInv, NEW c \in Calls, Call(c)
  PROVE  IInv'
<1>1. Typed /\ LockInv(c)
  BY DEF IInv
<1>2. PICK q \in Quotes, k \in Keys \cup {NoKey} :
         /\ body' = [body EXCEPT ![c] = [quote |-> q, key |-> k]]
         /\ Goes(c, IF k = NoKey THEN "read" ELSE "lookup")
  BY DEF Call
<1>3. pc[c] = "idle" /\ UNCHANGED <<tables, seen, mutex, writer, resp>>
  BY DEF Call
<1> DEFINE p == IF k = NoKey THEN "read" ELSE "lookup"
<1>4. p \in {"read", "lookup"} /\ (p = "lookup" => k \in Keys) /\ Goes(c, p)
  BY <1>2
<1> HIDE DEF p
<1>5. /\ body' \in [Calls -> Body \cup {None}]
      /\ body'[c] \in Body /\ body'[c].key = k
      /\ \A u \in Calls \ {c} : body'[u] = body[u]
  BY <1>1, <1>2 DEF Typed, Body
<1>6. mutex # c /\ writer # c
  BY <1>1, <1>3 DEF LockInv
<1>7. /\ seen' \in [Calls -> SUBSET Calls] /\ mutex' \in Calls \cup {None}
      /\ writer' \in Calls \cup {None} /\ p \in PCs /\ p # "idle" /\ pc[c] # "done"
  BY <1>1, <1>3, <1>4 DEF Typed, PCs
<1>8. QED
  BY <1>3, <1>4, <1>5, <1>6, <1>7, GoesKeeps

(* The answer kept under a key is that of a committed transaction with this *)
(* key (planted_bugs/fx.py:102-109).                                       *)
LEMMA LookupKeeps ==
  ASSUME IInv, NEW c \in Calls, Lookup(c)
  PROVE  IInv'
<1> DEFINE kept == idempotency[body[c].key]
<1>1. Typed /\ LockInv(c) /\ CallInv(c) /\ KeyPaysOnce
  BY DEF IInv
<1>2. pc[c] = "lookup" /\ UNCHANGED <<tables, body, seen, mutex, writer>>
  BY DEF Lookup
<1>3. body[c] \in Body /\ body[c].key \in Keys /\ kept \in Calls \cup {None}
  BY <1>1, <1>2 DEF CallInv, Typed
<1>4. mutex # c /\ writer # c
  BY <1>1, <1>2 DEF LockInv
<1>5. CASE kept # None
  <2>1. Answer(c, 200, kept)
    BY <1>5 DEF Lookup
  <2>2. kept \in {t.id : t \in {u \in transactions : u.key = body[c].key}}
    BY <1>1, <1>3, <1>5 DEF KeyPaysOnce
  <2>3. \E t \in transactions : t.id = kept /\ t.key = body[c].key
    BY <2>2
  <2>4. seen' \in [Calls -> SUBSET Calls]
    BY <1>1, <1>2 DEF Typed
  <2> HIDE DEF kept
  <2>5. QED
    BY <1>2, <1>3, <1>4, <2>1, <2>3, <2>4, AnswerKeeps
<1>6. CASE kept = None
  <2>1. Goes(c, "read") /\ UNCHANGED resp
    BY <1>6 DEF Lookup
  <2>2. /\ seen' \in [Calls -> SUBSET Calls] /\ body' \in [Calls -> Body \cup {None}]
        /\ mutex' \in Calls \cup {None} /\ writer' \in Calls \cup {None} /\ "read" \in PCs
    BY <1>1, <1>2 DEF Typed, PCs
  <2>3. QED
    BY <1>2, <1>3, <1>4, <2>1, <2>2, GoesKeeps
<1>7. QED
  BY <1>5, <1>6

(* A call that finds executed = 0 finds no transaction of its quote: the   *)
(* flag and the transaction are committed together.                        *)
LEMMA ReadKeeps ==
  ASSUME IInv, NEW c \in Calls, Read(c)
  PROVE  IInv'
<1> DEFINE S == {t.id : t \in {u \in transactions : u.quote = body[c].quote}}
<1>1. Typed /\ LockInv(c) /\ CallInv(c) /\ FlagFollowsTransactions
  BY DEF IInv
<1>2. /\ pc[c] = "read" /\ seen' = [seen EXCEPT ![c] = S]
      /\ UNCHANGED <<tables, body, mutex, writer>>
  BY DEF Read
<1>3. S \in SUBSET Calls
  BY <1>1 DEF Typed
<1>4. body[c].quote \notin executed => S = {}
  BY <1>1 DEF FlagFollowsTransactions
<1> HIDE DEF S
<1>5. /\ seen' \in [Calls -> SUBSET Calls] /\ seen'[c] = S
      /\ \A u \in Calls \ {c} : seen'[u] = seen[u]
  BY <1>1, <1>2, <1>3 DEF Typed
<1>6. body[c] \in Body /\ mutex # c /\ writer # c
  BY <1>1, <1>2 DEF CallInv, LockInv
<1>7. CASE Refused(body[c].quote)
  <2>1. Answer(c, 400, None)
    BY <1>7 DEF Read
  <2>2. QED
    BY <1>2, <1>5, <1>6, <2>1, AnswerKeeps
<1>8. CASE ~Refused(body[c].quote)
  <2>1. Goes(c, "enter") /\ UNCHANGED resp /\ S = {}
    BY <1>4, <1>8 DEF Read, Refused
  <2>2. /\ body' \in [Calls -> Body \cup {None}] /\ mutex' \in Calls \cup {None}
        /\ writer' \in Calls \cup {None} /\ "enter" \in PCs
    BY <1>1, <1>2 DEF Typed, PCs
  <2>3. QED
    BY <1>2, <1>5, <1>6, <2>1, <2>2, GoesKeeps
<1>9. QED
  BY <1>7, <1>8

(* _execute_lock is taken when nobody has it. *)
LEMMA EnterKeeps ==
  ASSUME IInv, NEW c \in Calls, Enter(c)
  PROVE  IInv'
<1>1. Typed /\ LockInv(c) /\ CallInv(c)
  BY DEF IInv
<1>2. /\ pc[c] = "enter" /\ mutex = None /\ mutex' = c /\ Goes(c, "update")
      /\ UNCHANGED <<tables, body, seen, writer, resp>>
  BY DEF Enter
<1>3. body[c] \in Body /\ seen[c] = {} /\ writer # c
  BY <1>1, <1>2 DEF CallInv, LockInv
<1>4. /\ body' \in [Calls -> Body \cup {None}] /\ seen' \in [Calls -> SUBSET Calls]
      /\ mutex' \in Calls \cup {None} /\ writer' \in Calls \cup {None} /\ "update" \in PCs
  BY <1>1, <1>2 DEF Typed, PCs
<1>5. QED
  BY <1>2, <1>3, <1>4, NoneIsNoCall, GoesKeeps

(* So is SQLite's write lock. *)
LEMMA UpdateKeeps ==
  ASSUME IInv, NEW c \in Calls, Update(c)
  PROVE  IInv'
<1>1. Typed /\ LockInv(c) /\ CallInv(c)
  BY DEF IInv
<1>2. /\ pc[c] = "update" /\ writer = None /\ writer' = c /\ Goes(c, "insert")
      /\ UNCHANGED <<tables, body, seen, mutex, resp>>
  BY DEF Update
<1>3. body[c] \in Body /\ seen[c] = {} /\ mutex = c
  BY <1>1, <1>2 DEF CallInv, LockInv
<1>4. /\ body' \in [Calls -> Body \cup {None}] /\ seen' \in [Calls -> SUBSET Calls]
      /\ mutex' \in Calls \cup {None} /\ writer' \in Calls \cup {None} /\ "insert" \in PCs
  BY <1>1, <1>2 DEF Typed, PCs
<1>5. QED
  BY <1>2, <1>3, <1>4, NoneIsNoCall, GoesKeeps

(* _execute_lock is left; the write lock is not. *)
LEMMA InsertKeeps ==
  ASSUME IInv, NEW c \in Calls, Insert(c)
  PROVE  IInv'
<1>1. Typed /\ LockInv(c) /\ CallInv(c)
  BY DEF IInv
<1>2. /\ pc[c] = "insert" /\ mutex' = None
      /\ UNCHANGED <<tables, body, seen, writer, resp>>
  BY DEF Insert
<1>3. body[c] \in Body /\ seen[c] = {} /\ mutex = c /\ writer = c
  BY <1>1, <1>2 DEF CallInv, LockInv
<1> DEFINE p == IF body[c].key = NoKey THEN "commit" ELSE "keep"
<1>4. /\ p \in {"commit", "keep"} /\ Goes(c, p)
      /\ p = "keep" => body[c].key \in Keys
      /\ p = "commit" => body[c].key \notin Keys
  BY <1>3, NamesAssumption DEF Insert, Body
<1> HIDE DEF p
<1>5. /\ body' \in [Calls -> Body \cup {None}] /\ seen' \in [Calls -> SUBSET Calls]
      /\ mutex' \in Calls \cup {None} /\ writer' \in Calls \cup {None} /\ p \in PCs /\ p # "idle"
  BY <1>1, <1>2, <1>4 DEF Typed, PCs
<1>6. QED
  BY <1>2, <1>3, <1>4, <1>5, NoneIsNoCall, GoesKeeps

(* With the write lock in hand nothing is kept under the key, and nothing  *)
(* will be until the commit: otherwise the primary key refuses.            *)
LEMMA KeepKeeps ==
  ASSUME IInv, NEW c \in Calls, Keep(c)
  PROVE  IInv'
<1>1. Typed /\ LockInv(c) /\ CallInv(c) /\ pc[c] = "keep"
  BY DEF IInv, Keep
<1>2. CASE idempotency[body[c].key] # None
  BY <1>1, <1>2, FailKeeps DEF Keep
<1>3. CASE idempotency[body[c].key] = None
  <2>1. Goes(c, "commit") /\ UNCHANGED <<tables, body, seen, mutex, writer, resp>>
    BY <1>3 DEF Keep
  <2>2. body[c] \in Body /\ seen[c] = {} /\ mutex # c /\ writer = c
    BY <1>1 DEF CallInv, LockInv
  <2>3. /\ body' \in [Calls -> Body \cup {None}] /\ seen' \in [Calls -> SUBSET Calls]
        /\ mutex' \in Calls \cup {None} /\ writer' \in Calls \cup {None} /\ "commit" \in PCs
    BY <1>1, <2>1 DEF Typed, PCs
  <2>4. QED
    BY <1>1, <1>3, <2>1, <2>2, <2>3, GoesKeeps
<1>4. QED
  BY <1>2, <1>3

(* The commit adds a flag, a transaction and a response together, the      *)
(* response under a key that had none.                                     *)
LEMMA CommitKeeps ==
  ASSUME IInv, NEW c \in Calls, Commit(c)
  PROVE  IInv'
<1> DEFINE k == body[c].key
           r == [id |-> c, quote |-> body[c].quote, key |-> k, seen |-> seen[c]]
<1>1. /\ Typed /\ LockInv(c) /\ CallInv(c) /\ FlagFollowsTransactions /\ KeyPaysOnce
      /\ \A t \in transactions : t.seen = {}
  BY DEF IInv
<1>2. /\ pc[c] = "commit" /\ Answer(c, 200, c) /\ writer' = None
      /\ executed' = executed \cup {body[c].quote}
      /\ transactions' = transactions \cup {r}
      /\ idempotency' = IF k = NoKey THEN idempotency ELSE [idempotency EXCEPT ![k] = c]
      /\ UNCHANGED <<quotes, body, seen, mutex>>
  BY DEF Commit
<1>3. /\ body[c] \in Body /\ seen[c] = {} /\ writer = c /\ mutex # c
      /\ k \in Keys => idempotency[k] = None
  BY <1>1, <1>2 DEF CallInv, LockInv
<1>4. /\ r \in [id : Calls, quote : Quotes, key : Keys \cup {NoKey}, seen : SUBSET Calls]
      /\ r.id = c /\ r.quote = body[c].quote /\ r.key = k /\ r.seen = {}
      /\ body[c].quote \in Quotes /\ k \in Keys \cup {NoKey}
  BY <1>3 DEF Body
<1> HIDE DEF r, k
<1>5. pc' \in [Calls -> PCs] /\ pc'[c] = "done" /\ \A u \in Calls \ {c} : pc'[u] = pc[u]
  BY <1>1, <1>2 DEF Answer, Goes, Typed, PCs
<1>6. /\ resp' \in [Calls -> [status : {0, 200, 400, 500}, tx : Calls \cup {None}]]
      /\ resp'[c].status = 200 /\ resp'[c].tx = c
      /\ \A u \in Calls \ {c} : resp'[u] = resp[u]
  <2>1. resp' = [resp EXCEPT ![c] = [status |-> 200, tx |-> c]]
    BY <1>2 DEF Answer
  <2>2. QED
    BY <1>1, <2>1 DEF Typed
<1>7. /\ idempotency' \in [Keys -> Calls \cup {None}]
      /\ k \in Keys => idempotency'[k] = c
      /\ \A j \in Keys \ {k} : idempotency'[j] = idempotency[j]
  BY <1>1, <1>2, <1>4, NamesAssumption DEF Typed
<1>8. Typed'
  BY <1>1, <1>2, <1>4, <1>5, <1>6, <1>7 DEF Typed
<1>9. \A u \in Calls \ {c} : LockInv(u)' /\ CallInv(u)' /\ AnswerInv(u)'
  <2>1. OthersStand(c)
    BY <1>2, <1>3, <1>5, <1>6, NoneIsNoCall DEF OthersStand
  <2>2. QED
    BY <1>2, <1>3, <2>1, Others
<1>10. LockInv(c)' /\ CallInv(c)' /\ AnswerInv(c)'
  <2>1. LockInv(c)' /\ CallInv(c)'
    BY <1>2, <1>3, <1>5, NoneIsNoCall DEF LockInv, CallInv
  <2>2. AnswerInv(c)'
    BY <1>2, <1>4, <1>5, <1>6 DEF AnswerInv, k
  <2>3. QED
    BY <2>1, <2>2
<1>11. FlagFollowsTransactions'
  BY <1>1, <1>2, <1>4 DEF FlagFollowsTransactions
<1>12. KeyPaysOnce'
  <2> SUFFICES ASSUME NEW j \in Keys
               PROVE  {t.id : t \in {u \in transactions' : u.key = j}}
                        = {idempotency'[j]} \ {None}
    BY DEF KeyPaysOnce
  <2>1. {t.id : t \in {u \in transactions : u.key = j}} = {idempotency[j]} \ {None}
    BY <1>1 DEF KeyPaysOnce
  <2>2. CASE j = k
    <3>1. {t.id : t \in {u \in transactions : u.key = j}} = {}
      BY <1>3, <2>1, <2>2
    <3>2. {t.id : t \in {u \in transactions' : u.key = j}} = {c}
      BY <1>2, <1>4, <2>2, <3>1
    <3>3. QED
      BY <1>7, <2>2, <3>2, NoneIsNoCall
  <2>3. CASE j # k
    <3>1. {u \in transactions' : u.key = j} = {u \in transactions : u.key = j}
      BY <1>2, <1>4, <2>3
    <3>2. QED
      BY <1>7, <2>1, <2>3, <3>1
  <2>4. QED
    BY <2>2, <2>3
<1>13. \A t \in transactions' : t.seen = {}
  BY <1>1, <1>2, <1>4
<1>14. QED
  BY <1>8, <1>9, <1>10, <1>11, <1>12, <1>13 DEF IInv

-----------------------------------------------------------------------------
(* The tables are empty and no call has come. *)
LEMMA InitInv == Init => IInv
<1> SUFFICES ASSUME Init PROVE IInv
  OBVIOUS
<1>1. Typed
  BY DEF Init, Typed, PCs
<1>2. ASSUME NEW c \in Calls PROVE LockInv(c) /\ CallInv(c) /\ AnswerInv(c)
  BY NoneIsNoCall DEF Init, LockInv, CallInv, AnswerInv
<1>3. FlagFollowsTransactions /\ KeyPaysOnce /\ \A t \in transactions : t.seen = {}
  BY DEF Init, FlagFollowsTransactions, KeyPaysOnce
<1>4. QED
  BY <1>1, <1>2, <1>3 DEF IInv

(* Every step of every call keeps IInv. *)
LEMMA StepInv == IInv /\ [Next]_vars => IInv'
<1> SUFFICES ASSUME IInv, [Next]_vars PROVE IInv'
  OBVIOUS
<1>1. ASSUME NEW q \in Quotes, Issue(q) \/ Expire(q) PROVE IInv'
  BY <1>1, QuoteKeeps
<1>2. ASSUME NEW c \in Calls, Call(c) PROVE IInv'
  BY <1>2, CallKeeps
<1>3. ASSUME NEW c \in Calls, Execution(c) PROVE IInv'
  <2>1. CASE Busy(c)
    BY <2>1, FailKeeps DEF Busy
  <2>2. QED
    BY <1>3, <2>1, LookupKeeps, ReadKeeps, EnterKeeps, UpdateKeeps, InsertKeeps,
       KeepKeeps, CommitKeeps DEF Execution
<1>4. ASSUME NEW c \in Calls, Break(c) PROVE IInv'
  BY <1>4, FailKeeps DEF Break
<1>5. CASE UNCHANGED vars
  <2>1. UNCHANGED <<quotes, executed, transactions, idempotency, pc, body, seen, mutex,
                    writer, resp>>
    BY <1>5 DEF vars
  <2>2. Typed'
    BY <2>1 DEF IInv, Typed
  <2>3. ASSUME NEW c \in Calls PROVE LockInv(c)' /\ CallInv(c)' /\ AnswerInv(c)'
    BY <2>1 DEF IInv, LockInv, CallInv, AnswerInv
  <2>4. QED
    BY <2>1, <2>2, <2>3 DEF IInv, FlagFollowsTransactions, KeyPaysOnce
<1>6. QED
  BY <1>1, <1>2, <1>3, <1>4, <1>5 DEF Next

(* IInv holds in every state of every behaviour of the baseline. *)
THEOREM Invariant == Spec => []IInv
BY InitInv, StepInv, PTL DEF Spec

(* Every variable has its type, and both locks are held exactly where the  *)
(* code is between taking and leaving them.                                *)
THEOREM TypeCorrect == Spec => []TypeOK
<1>1. IInv => TypeOK
  BY DEF IInv, Typed, LockInv, Body, TypeOK
<1>2. QED
  BY <1>1, Invariant, PTL

(* planted_bugs/fx.py:112-124: a quote is executed twice only by calls that *)
(* overlap; no call executes it that has read it after a commit.           *)
THEOREM DoublesOverlap == Spec => []DoubleOnlyByOverlap
<1>1. IInv => DoubleOnlyByOverlap
  BY DEF IInv, DoubleOnlyByOverlap
<1>2. QED
  BY <1>1, Invariant, PTL

(* planted_bugs/db.py:45-49: of the calls that race with one key at most   *)
(* one is committed, and it is the one kept under the key.                 *)
THEOREM KeysPayOnce == Spec => []KeyPaysOnce
<1>1. IInv => KeyPaysOnce
  BY DEF IInv
<1>2. QED
  BY <1>1, Invariant, PTL

(* planted_bugs/db.py:11-19: whoever is told of a transaction is told of a *)
(* committed one with the key it sent.                                     *)
THEOREM AnswersCommitted == Spec => []AnswersAreCommitted
<1>1. IInv => AnswersAreCommitted
  BY DEF IInv, AnswerInv, AnswersAreCommitted
<1>2. QED
  BY <1>1, Invariant, PTL

(* planted_bugs/fx.py:134-159: a quote is flagged executed exactly when a  *)
(* transaction of it is there.                                             *)
THEOREM FlagsAgree == Spec => []FlagFollowsTransactions
<1>1. IInv => FlagFollowsTransactions
  BY DEF IInv
<1>2. QED
  BY <1>1, Invariant, PTL
=============================================================================
