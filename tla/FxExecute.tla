----------------------------- MODULE FxExecute ------------------------------
(***************************************************************************)
(* The write paths of the FX engine, one SQL statement at a time:          *)
(* execute_quote and generate_quote (app/engine/fx.py) and credit_balance  *)
(* (app/routes/customers.py), called by any number of clients on any       *)
(* number of API workers against one PostgreSQL.                           *)
(*                                                                         *)
(* PostgreSQL runs the transactions at READ COMMITTED, asyncpg's default:  *)
(* a statement sees what is committed when it runs, a row lock is held to  *)
(* the end of the transaction, a unique index makes the second inserter    *)
(* of a value wait for the first. What a session has written is in "wrote" *)
(* until its commit moves it into the tables or its rollback drops it.     *)
(***************************************************************************)
EXTENDS FxData

CONSTANTS
    Bodies,         \* Bodies[r]: what execute call r may carry
    TTL,            \* settings.quote_ttl_seconds, in ticks
    MaxClock,       \* bound: the clock stops there
    NoRow           \* there is no such row

ASSUME BodiesAssumption ==
    Bodies \in [Requests -> SUBSET [quote : Quotes, cust : Customers,
                                    key : Keys \cup {NoKey}]]

ASSUME ClockAssumption == TTL \in Nat /\ MaxClock \in Nat

ASSUME RowsAssumption ==
    NoRow \notin [hash : Quotes \X Customers, completed : BOOLEAN]

(* The currencies are listed in the code (providers/rates.py:42). *)
ASSUME CurrenciesAssumption == IsFiniteSet(Currencies)

VARIABLES
    clock,          \* wall clock
    quotes,         \* the immutable columns of the quotes rows
    expires,        \* their expires_at
    status,         \* their status
    rows,           \* the accounts that have a balances row
    balances,       \* balances.amount
    ledger,         \* ledger_entries
    transactions,   \* transactions
    keys,           \* idempotency_keys
    pc,             \* the statement a session runs next
    body,           \* what its caller sent
    locks,          \* the row locks it holds
    wrote,          \* its uncommitted writes
    available,      \* the balance it read under lock
    lockedAt,       \* when it was given the lock on its quote
    resp,           \* what its caller was told
    published       \* how often fx.events has received each message

tables == <<quotes, expires, status, rows, balances, ledger, transactions, keys>>
session == <<pc, locks, wrote, resp>>
vars == <<clock, tables, session, body, available, lockedAt, published>>

Sessions == Requests \cup Credits

(* _request_hash: a digest of the quote and the customer. *)
HashOfQuote(b) == <<b.quote, "any customer">>
Hash(b) == <<b.quote, b.cust>>

Now == clock
TermsOf(r) == quotes[body[r].quote]

(* sorted([from_ccy, to_ccy]) *)
FirstAsQuoted(t) == FromAcct(t)
First(t) == IF Rank[t.from] < Rank[t.to] THEN FromAcct(t) ELSE ToAcct(t)
Second(t) == IF First(t) = FromAcct(t) THEN ToAcct(t) ELSE FromAcct(t)

-----------------------------------------------------------------------------
(* Row locks. A resource is a row, or a value in a unique index. *)

KeyRow(k) == <<"idempotency_keys", k>>
QuoteRow(q) == <<"quotes", q>>
BalanceRow(a) == <<"balances", a>>
TxKey(k) == <<"transactions.idempotency_key", k>>
TxQuote(q) == <<"transactions.quote_id", q>>

(* ON CONFLICT DO NOTHING waits for nobody once the row is committed. *)
Insertable(a) == IF a \in rows THEN {} ELSE {BalanceRow(a)}

(* SELECT ... FOR UPDATE of a quote, if it exists, and of a balance. *)
QuoteNotLocked(r) == {}
QuoteForUpdate(r) ==
    IF TermsOf(r) = NoQuote THEN {} ELSE {QuoteRow(body[r].quote)}

BalanceNotLocked(a) == {}
BalanceForUpdate(a) == {BalanceRow(a)}

(* What the next statement of a session has to lock. *)
Wants(s) ==
    CASE pc[s] = "reserve" ->
            IF keys[body[s].key] = NoRow THEN {KeyRow(body[s].key)} ELSE {}
      [] pc[s] = "lock_quote" -> QuoteForUpdate(s)
      [] pc[s] \in {"expire", "mark"} -> {QuoteRow(body[s].quote)}
      [] pc[s] = "upsert_first" -> Insertable(First(TermsOf(s)))
      [] pc[s] = "upsert_second" -> Insertable(Second(TermsOf(s)))
      [] pc[s] = "lock_first" -> BalanceForUpdate(First(TermsOf(s)))
      [] pc[s] = "lock_second" -> BalanceForUpdate(Second(TermsOf(s)))
      [] pc[s] = "record" -> {TxKey(body[s].key), TxQuote(body[s].quote)}
      [] pc[s] = "debit" -> {BalanceRow(FromAcct(TermsOf(s)))}
      [] pc[s] = "credit" -> {BalanceRow(ToAcct(TermsOf(s)))}
      [] pc[s] = "complete" -> {KeyRow(body[s].key)}
      [] pc[s] = "fund" -> {BalanceRow(body[s].acct)}
      [] OTHER -> {}

(* The sessions it waits for. *)
Waits(s) == {o \in Sessions \ {s} : locks[o] \cap Wants(s) # {}}

-----------------------------------------------------------------------------
(* What an execution may be answered: an error of the engine that the      *)
(* handlers of app/main.py turn into its status, or what they turn into an *)
(* internal error, a constraint's refusal among them.                      *)
FXErrors == {"quote_not_found", "quote_expired", "quote_already_executed",
             "insufficient_balance", "idempotency_key_missing",
             "idempotency_conflict", "execution_in_progress"}
InternalErrors == {"error", "no_transaction", "duplicate_quote_id", "duplicate_idempotency_key",
                   "balance_non_negative", "ledger_entries_amount_positive"}

(* What fx.events may receive, told apart by the call that sent it. *)
Messages ==
    [type : {"quote.executed", "quote.expired"}, quote : Quotes, by : Requests]

(* Steps that all sessions share. *)

At(s, p) == pc[s] = p

(* The next statement gets its locks and adds W to the session's writes. *)
Statement(s, p, W) ==
    /\ Waits(s) = {}
    /\ locks' = [locks EXCEPT ![s] = @ \cup Wants(s)]
    /\ wrote' = [wrote EXCEPT ![s] = @ \cup W]
    /\ pc' = [pc EXCEPT ![s] = p]
    /\ UNCHANGED <<tables, resp>>

(* The transaction rolls back and the caller is told why. *)
AbortKeepingLocks(s, code) ==
    /\ wrote' = [wrote EXCEPT ![s] = {}]
    /\ pc' = [pc EXCEPT ![s] = "done"]
    /\ resp' = [resp EXCEPT ![s] = [code |-> code, tx |-> NoRow]]
    /\ UNCHANGED <<tables, locks>>
Abort(s, code) ==
    /\ locks' = [locks EXCEPT ![s] = {}]
    /\ wrote' = [wrote EXCEPT ![s] = {}]
    /\ pc' = [pc EXCEPT ![s] = "done"]
    /\ resp' = [resp EXCEPT ![s] = [code |-> code, tx |-> NoRow]]
    /\ UNCHANGED tables

Answer(s, code, tx) ==
    /\ pc' = [pc EXCEPT ![s] = "done"]
    /\ resp' = [resp EXCEPT ![s] = [code |-> code, tx |-> tx]]

Rest == UNCHANGED <<clock, body, available, lockedAt, published>>

-----------------------------------------------------------------------------
(* POST /quotes: one autocommitted INSERT. *)
CreateQuote(q) ==
    /\ quotes[q] = NoQuote
    /\ \E t \in Terms[q] : quotes' = [quotes EXCEPT ![q] = t]
    /\ expires' = [expires EXCEPT ![q] = Now + TTL]
    /\ status' = [status EXCEPT ![q] = "pending"]
    /\ UNCHANGED <<rows, balances, ledger, transactions, keys, session>>
    /\ Rest

Tick ==
    /\ clock < MaxClock
    /\ clock' = clock + 1
    /\ UNCHANGED <<tables, session, body, available, lockedAt, published>>

-----------------------------------------------------------------------------
(* POST /quotes/{id}/execute *)

(* The header is checked, the transaction begins, the key is looked up. *)
Lookup(r) ==
    LET key == body[r].key
        row == keys[key]
    IN  /\ At(r, "idle")
        /\ \/ key = NoKey /\ Answer(r, "idempotency_key_missing", NoRow)
           \/ /\ key # NoKey /\ row = NoRow
              /\ pc' = [pc EXCEPT ![r] = "reserve"] /\ UNCHANGED resp
           \/ /\ key # NoKey /\ row # NoRow
              /\ IF row.hash # Hash(body[r])
                 THEN Answer(r, "idempotency_conflict", NoRow)
                 ELSE IF row.completed
                      THEN pc' = [pc EXCEPT ![r] = "replay"] /\ UNCHANGED resp
                      ELSE Answer(r, "execution_in_progress", NoRow)
        /\ UNCHANGED <<tables, locks, wrote>>
        /\ Rest

(* SELECT ... FROM transactions: the stored answer of a completed key. The *)
(* route cannot answer without a row.                                      *)
Replay(r) ==
    LET stored == {t \in transactions : t.key = body[r].key}
    IN  /\ At(r, "replay")
        /\ IF stored = {}
           THEN Answer(r, "no_transaction", NoRow)
           ELSE \E t \in stored : Answer(r, "replay", t.id)
        /\ UNCHANGED <<tables, locks, wrote>>
        /\ Rest

(* INSERT INTO idempotency_keys ... ON CONFLICT DO NOTHING *)
Reserve(r) ==
    /\ At(r, "reserve")
    /\ Statement(r, "lock_quote",
                 IF keys[body[r].key] = NoRow THEN {"key"} ELSE {})
    /\ Rest

(* SELECT ... FROM quotes ... FOR UPDATE; is it there, is it the caller's? *)
LockQuote(r) ==
    /\ At(r, "lock_quote")
    /\ IF TermsOf(r) # NoQuote /\ TermsOf(r).cust = body[r].cust
       THEN Statement(r, "check_quote", {})
       ELSE Waits(r) = {} /\ Abort(r, "quote_not_found")
    /\ lockedAt' = [lockedAt EXCEPT ![r] = clock]
    /\ UNCHANGED <<clock, body, available, published>>

NeverExpired(q) == FALSE
Expired(q) == expires[q] < Now

(* Expiry comes before the status, both read under the lock. *)
CheckQuote(r) ==
    LET q == body[r].quote
    IN  /\ At(r, "check_quote")
        /\ \/ Expired(q) /\ Statement(r, "expire", {})
           \/ /\ ~Expired(q) /\ status[q] # "pending"
              /\ Abort(r, "quote_already_executed")
           \/ /\ ~Expired(q) /\ status[q] = "pending"
              /\ Statement(r, "upsert_first", {})
        /\ Rest

(* UPDATE quotes SET status = 'expired' *)
Expire(r) ==
    /\ At(r, "expire")
    /\ Statement(r, "publish_expired", {"expired"})
    /\ Rest

(* publish() drops the message when the broker is not there. *)
Publish(type, r) ==
    LET m == [type |-> type, quote |-> body[r].quote, by |-> r]
    IN  published' \in {published, [published EXCEPT ![m] = @ + 1]}

PublishExpired(r) ==
    /\ At(r, "publish_expired")
    /\ Statement(r, "raise_expired", {})
    /\ Publish("quote.expired", r)
    /\ UNCHANGED <<clock, body, available, lockedAt>>

RaiseExpired(r) ==
    /\ At(r, "raise_expired")
    /\ Abort(r, "quote_expired")
    /\ Rest

(* INSERT INTO balances ... ON CONFLICT DO NOTHING, twice *)
Upsert(r) ==
    /\ \/ At(r, "upsert_first") /\ Statement(r, "upsert_second", {})
       \/ At(r, "upsert_second") /\ Statement(r, "lock_first", {})
    /\ Rest

(* SELECT ... FROM balances ... ORDER BY currency FOR UPDATE: one row at a *)
(* time, each returned as it is when its lock is granted.                  *)
ReadBalance(r, a) ==
    available' = IF a = FromAcct(TermsOf(r))
                 THEN [available EXCEPT ![r] = balances[a]] ELSE available

LockBalances(r) ==
    /\ \/ /\ At(r, "lock_first") /\ Statement(r, "lock_second", {})
          /\ ReadBalance(r, First(TermsOf(r)))
       \/ /\ At(r, "lock_second") /\ Statement(r, "check_funds", {})
          /\ ReadBalance(r, Second(TermsOf(r)))
    /\ UNCHANGED <<clock, body, lockedAt, published>>

CheckFunds(r) ==
    /\ At(r, "check_funds")
    /\ IF available[r] < TermsOf(r).famt
       THEN Abort(r, "insufficient_balance")
       ELSE Statement(r, "mark", {})
    /\ Rest

(* UPDATE quotes SET status = 'executed' *)
MarkExecuted(r) ==
    /\ At(r, "mark")
    /\ Statement(r, "record", {"executed"})
    /\ Rest

(* A unique index of transactions refuses the row. *)
NoKeyIndex(r) == FALSE
QuoteTaken(r) == \E t \in transactions : t.quote = body[r].quote
KeyTaken(r) == \E t \in transactions : t.key = body[r].key

(* A constraint refuses the statement: that surfaces as a 500. *)
Refuse(r, constraint) == Waits(r) = {} /\ Abort(r, constraint)

(* INSERT INTO transactions *)
Record(r) ==
    /\ At(r, "record")
    /\ IF QuoteTaken(r) THEN Refuse(r, "duplicate_quote_id")
       ELSE IF KeyTaken(r) THEN Refuse(r, "duplicate_idempotency_key")
       ELSE Statement(r, "debit", {"tx"})
    /\ Rest

(* UPDATE balances and INSERT INTO ledger_entries. The balance may not     *)
(* become negative, the entry may not be empty.                            *)
Debit(r) ==
    LET t == TermsOf(r)
    IN  /\ At(r, "debit")
        /\ IF balances[FromAcct(t)] < t.famt THEN Refuse(r, "balance_non_negative")
           ELSE IF t.famt = 0 THEN Refuse(r, "ledger_entries_amount_positive")
           ELSE Statement(r, "credit", {"debit", "debit_entry"})
        /\ Rest

Credit(r) ==
    /\ At(r, "credit")
    /\ IF TermsOf(r).tamt = 0 THEN Refuse(r, "ledger_entries_amount_positive")
       ELSE Statement(r, "complete", {"credit", "credit_entry"})
    /\ Rest

(* UPDATE idempotency_keys SET completed_at = NOW() *)
CompleteAndPublish(r) ==
    /\ At(r, "complete")
    /\ Statement(r, "commit", {"completed"})
    /\ Publish("quote.executed", r)
    /\ UNCHANGED <<clock, body, available, lockedAt>>
Complete(r) ==
    /\ At(r, "complete")
    /\ Statement(r, "commit", {"completed"})
    /\ Rest

(* The status, the key row and the transactions row a commit leaves behind. *)
StatusNotMarked(r) == status[body[r].quote]
StatusAfter(r) ==
    IF "executed" \in wrote[r] THEN "executed"
    ELSE IF "expired" \in wrote[r] THEN "expired" ELSE status[body[r].quote]

KeyNotCompleted(r) == [hash |-> Hash(body[r]), completed |-> FALSE]
KeyNotKept(r) == keys[body[r].key]
KeyAfter(r) ==
    IF "key" \in wrote[r]
    THEN [hash |-> Hash(body[r]), completed |-> "completed" \in wrote[r]]
    ELSE [keys[body[r].key] EXCEPT !.completed = @ \/ "completed" \in wrote[r]]

TransactionOf(r) == [id |-> r, quote |-> body[r].quote, cust |-> body[r].cust,
                     key |-> body[r].key]

DebitEntryOnly(r) == {DebitEntry(r, TermsOf(r))}
EntriesOf(r) ==
    {e \in {DebitEntry(r, TermsOf(r)), CreditEntry(r, TermsOf(r))} :
        (IF e.dir = "debit" THEN "debit_entry" ELSE "credit_entry") \in wrote[r]}

DebitOfPayee(r) ==
    [balances EXCEPT ![ToAcct(TermsOf(r))] = @ - TermsOf(r).famt]
BalancesAfter(r) ==
    LET t == TermsOf(r)
    IN  [a \in Accounts |->
           balances[a]
           + (IF "credit" \in wrote[r] /\ a = ToAcct(t) THEN t.tamt ELSE 0)
           - (IF "debit" \in wrote[r] /\ a = FromAcct(t) THEN t.famt ELSE 0)]

(* The end of "async with conn.transaction()" *)
Commit(r) ==
    /\ At(r, "commit")
    /\ status' = [status EXCEPT ![body[r].quote] = StatusAfter(r)]
    /\ rows' = rows \cup {a \in Accounts : BalanceRow(a) \in locks[r]}
    /\ balances' = BalancesAfter(r)
    /\ ledger' = ledger \cup EntriesOf(r)
    /\ transactions' = transactions \cup
          (IF "tx" \in wrote[r] THEN {TransactionOf(r)} ELSE {})
    /\ keys' = [keys EXCEPT ![body[r].key] = KeyAfter(r)]
    /\ locks' = [locks EXCEPT ![r] = {}]
    /\ wrote' = [wrote EXCEPT ![r] = {}]
    /\ pc' = [pc EXCEPT ![r] = "publish_executed"]
    /\ UNCHANGED <<quotes, expires, resp>>
    /\ Rest

PublishExecuted(r) ==
    /\ At(r, "publish_executed")
    /\ Publish("quote.executed", r)
    /\ Answer(r, "executed", r)
    /\ UNCHANGED <<tables, locks, wrote, clock, body, available, lockedAt>>

-----------------------------------------------------------------------------
(* POST /customers/{id}/credit *)

(* INSERT INTO balances ... ON CONFLICT DO UPDATE *)
AddFunds(c) ==
    /\ At(c, "fund")
    /\ Statement(c, "fund_entry", {"credit"})
    /\ Rest

(* INSERT INTO ledger_entries *)
EnterFunds(c) ==
    /\ At(c, "fund_entry")
    /\ IF body[c].amt > 0
       THEN Statement(c, "fund_commit", {"credit_entry"})
       ELSE Abort(c, "ledger_entries_amount_positive")
    /\ Rest

CommitFunds(c) ==
    /\ At(c, "fund_commit")
    /\ rows' = rows \cup {body[c].acct}
    /\ balances' = IF "credit" \in wrote[c]
                   THEN [balances EXCEPT ![body[c].acct] = @ + body[c].amt]
                   ELSE balances
    /\ ledger' = IF "credit_entry" \in wrote[c]
                 THEN ledger \cup {FundEntry(c, body[c])} ELSE ledger
    /\ locks' = [locks EXCEPT ![c] = {}]
    /\ wrote' = [wrote EXCEPT ![c] = {}]
    /\ Answer(c, "credited", NoRow)
    /\ UNCHANGED <<quotes, expires, status, transactions, keys>>
    /\ Rest

-----------------------------------------------------------------------------
(* A statement fails, times out (command_timeout), or the worker dies: the *)
(* database rolls the transaction back.                                    *)
Fail(s) ==
    /\ pc[s] \notin {"publish_executed", "done"}
    /\ pc[s] = "idle" => body[s].key # NoKey
    /\ Abort(s, "error")
    /\ Rest

(* The worker dies between its commit and its answer. *)
Lost(r) ==
    /\ At(r, "publish_executed")
    /\ Answer(r, "no_answer", NoRow)
    /\ UNCHANGED <<tables, locks, wrote>>
    /\ Rest

Execution(r) ==
    \/ Replay(r) \/ Reserve(r) \/ LockQuote(r) \/ CheckQuote(r)
    \/ Upsert(r) \/ LockBalances(r) \/ CheckFunds(r) \/ MarkExecuted(r) \/ Record(r)
    \/ Debit(r) \/ Credit(r) \/ Complete(r) \/ Commit(r) \/ PublishExecuted(r)
    \/ Expire(r) \/ PublishExpired(r) \/ RaiseExpired(r)

Funding(c) == AddFunds(c) \/ EnterFunds(c) \/ CommitFunds(c)

Init ==
    /\ clock = 0
    /\ quotes = [q \in Quotes |-> NoQuote]
    /\ expires = [q \in Quotes |-> 0]
    /\ status = [q \in Quotes |-> "pending"]
    /\ rows = {}
    /\ balances = [a \in Accounts |-> 0]
    /\ ledger = {}
    /\ transactions = {}
    /\ keys = [k \in Keys |-> NoRow]
    /\ pc = [s \in Sessions |-> IF s \in Requests THEN "idle" ELSE "fund"]
    /\ body \in {b \in [Sessions -> UNION ({Bodies[r] : r \in Requests} \cup
                                           {Deposits[c] : c \in Credits})] :
                    /\ \A r \in Requests : b[r] \in Bodies[r]
                    /\ \A c \in Credits : b[c] \in Deposits[c]}
    /\ locks = [s \in Sessions |-> {}]
    /\ wrote = [s \in Sessions |-> {}]
    /\ available = [r \in Requests |-> 0]
    /\ lockedAt = [r \in Requests |-> 0]
    /\ resp = [s \in Sessions |-> [code |-> "none", tx |-> NoRow]]
    /\ published = [m \in Messages |-> 0]

Next ==
    \/ Tick
    \/ \E q \in Quotes : CreateQuote(q)
    \/ \E r \in Requests : Lookup(r) \/ Execution(r) \/ Lost(r)
    \/ \E c \in Credits : Funding(c)
    \/ \E s \in Sessions : Fail(s)

Spec == Init /\ [][Next]_vars

(* A worker that has begun a transaction goes on with it, and PostgreSQL   *)
(* grants a free lock. Nobody is obliged to call, to fail, or to tick.     *)
Fairness ==
    /\ \A r \in Requests : WF_vars(Execution(r))
    /\ \A c \in Credits : WF_vars(EnterFunds(c) \/ CommitFunds(c))

FairSpec == Spec /\ Fairness
-----------------------------------------------------------------------------
Resources ==
    {KeyRow(k) : k \in Keys} \cup {QuoteRow(q) : q \in Quotes} \cup
    {BalanceRow(a) : a \in Accounts} \cup {TxKey(k) : k \in Keys} \cup
    {TxQuote(q) : q \in Quotes}

Writes == {"key", "expired", "executed", "tx", "debit", "debit_entry",
           "credit", "credit_entry", "completed"}

(* The tables hold rows of their types, as in FxLedger; sessions hold locks *)
(* on rows and values that exist, an idle or finished one holds none, and   *)
(* every answer is one the API documents or an internal error.             *)
TypeOK ==
    /\ clock \in 0 .. MaxClock
    /\ \A q \in Quotes : quotes[q] \in Terms[q] \cup {NoQuote}
    /\ expires \in [Quotes -> 0 .. MaxClock + TTL]
    /\ status \in [Quotes -> {"pending", "executed", "expired"}]
    /\ rows \subseteq Accounts
    /\ balances \in [Accounts -> Nat]
    /\ \A a \in Accounts \ rows : balances[a] = 0
    /\ ledger \subseteq Entry
    /\ transactions \subseteq Transaction
    /\ keys \in [Keys -> [hash : Quotes \X Customers, completed : BOOLEAN]
                         \cup {NoRow}]
    /\ locks \in [Sessions -> SUBSET Resources]
    /\ wrote \in [Sessions -> SUBSET Writes]
    /\ \A s \in Sessions :
          pc[s] \in {"idle", "replay", "done", "publish_executed"} =>
              locks[s] = {} /\ wrote[s] = {}
    /\ resp \in [Sessions -> [code : FXErrors \cup InternalErrors \cup
                    {"none", "executed", "replay", "credited", "no_answer"},
                  tx : Requests \cup {NoRow}]]
    /\ published \in [Messages -> Nat]

(* engine/fx.py:166, SPEC.md:158: because balances are inserted and locked *)
(* in alphabetical order, no set of calls ever waits in a circle.          *)
NoDeadlock ==
    \A D \in (SUBSET Sessions) \ {{}} : \E s \in D : Waits(s) \cap D = {}

(* engine/fx.py:265-280: the funds check reads a balance under lock, so it *)
(* is still the committed balance when the debit is made, whatever other   *)
(* executions and credits of the customer do meanwhile.                    *)
CheckedBalanceIsCurrent ==
    \A r \in Requests :
        pc[r] \in {"check_funds", "mark", "record", "debit"} =>
            available[r] = balances[FromAcct(TermsOf(r))]

(* engine/fx.py:163: the lock on the quote serialises its callers, so the  *)
(* constraints behind it (UNIQUE quote_id, balance_non_negative) never     *)
(* have to refuse a row: no client sees them as an internal error.         *)
BackstopsSilent ==
    \A r \in Requests :
        resp[r].code \notin {"duplicate_quote_id", "balance_non_negative"}

(* engine/fx.py:169-172: a caller that is told of a transaction, at once   *)
(* or as a replay, is told of one that is committed, and that is its own:  *)
(* of the quote, the customer and the key it sent.                         *)
AnswersAreCommitted ==
    \A r \in Requests :
        resp[r].code \in {"executed", "replay"} =>
            \E t \in transactions :
                /\ t.id = resp[r].tx
                /\ t.quote = body[r].quote /\ t.cust = body[r].cust
                /\ t.key = body[r].key

(* engine/fx.py:207-217, 372-382: a key is kept exactly when a transaction *)
(* was committed under it, completed and bound to that request. So a       *)
(* failed call never burns its key.                                        *)
KeyRecordsItsTransaction ==
    \A k \in Keys :
        LET paid == {t \in transactions : t.key = k}
        IN  IF keys[k] = NoRow THEN paid = {}
            ELSE /\ keys[k].completed
                 /\ {Hash(t) : t \in paid} = {keys[k].hash}

(* SPEC.md:164: a client that lost its answer and asks again, after the    *)
(* commit and with the same key and payload, is given its transaction: the *)
(* call goes from the lookup to the replay and from there to that answer.  *)
(* It is refused by nothing and executes nothing. Should one of its two    *)
(* SELECTs fail, it is told of an internal error, and may ask again.       *)
RetryIsReplayed ==
    [][\A r \in Requests : \A t \in transactions :
          /\ pc[r] \in {"idle", "replay"} /\ pc'[r] # pc[r]
          /\ t.key = body[r].key /\ Hash(t) = Hash(body[r])
          => \/ pc'[r] = "replay"
             \/ /\ pc'[r] = "done"
                /\ resp'[r] \in {[code |-> "replay", tx |-> t.id],
                                 [code |-> "error", tx |-> NoRow]}]_vars

(* SPEC.md:102: a quote's status says executed exactly when it was.        *)
StatusFollowsTransactions ==
    \A q \in Quotes :
        status[q] = "executed" <=> \E t \in transactions : t.quote = q

(* engine/fx.py:230: a caller that had to wait for the quote past its      *)
(* expiry does not execute it. The code admits the instant of the expiry   *)
(* itself (see ExecutedBeforeExpiry below).                                *)
LockedInTime ==
    \A t \in transactions : lockedAt[t.id] <= expires[t.quote]

(* services/events.py:4: a quote.executed message is only sent for a       *)
(* transaction that is committed. It is sent once for a quote at most,     *)
(* however many calls execute it and however often they are retried.       *)
Executed(m) == m.type = "quote.executed" /\ published[m] > 0
ExecutedEventsAreCommitted ==
    \A m \in Messages : Executed(m) =>
        /\ published[m] = 1
        /\ \E t \in transactions : t.id = m.by /\ t.quote = m.quote
        /\ \A n \in Messages : Executed(n) /\ n.quote = m.quote => n = m

(* The statements, interleaved in any way, amount to FxLedger's whole      *)
(* steps: everything a commit moves, it moves at once.                     *)
Abs == INSTANCE FxLedger WITH
    quotes <- quotes, balances <- balances, ledger <- ledger,
    transactions <- transactions
ImplementsLedger == Abs!Spec

(* Every call that begins is answered or dies: no call waits forever.      *)
RequestsEnd ==
    \A r \in Requests : (pc[r] # "idle") ~> (pc[r] = "done")
-----------------------------------------------------------------------------
(* SPEC.md:165: "Same key + different hash -> HTTP 409                     *)
(* idempotency_conflict". Two calls that race with one key for two quotes: *)
(* the second finds no key row, waits for the first one's insert, goes on  *)
(* without a row of its own, and the unique index of transactions answers  *)
(* it with an internal error.                                              *)
KeyReuseIsAConflict ==
    \A r \in Requests : resp[r].code # "duplicate_idempotency_key"

(* SPEC.md:137: "`quote.expires_at > now()`" is required to execute. The   *)
(* code refuses a quote after its expiry only, so one that is locked and   *)
(* checked at that very instant is executed.                               *)
ExecutedBeforeExpiry ==
    \A t \in transactions : lockedAt[t.id] < expires[t.quote]
=============================================================================
