-------------------------- MODULE FxExecuteProofs ---------------------------
(***************************************************************************)
(* Proofs about FxExecute, for any number of calls, quotes, keys and       *)
(* currencies: the inductive invariant IInv, the safety properties that    *)
(* follow from it, and that the statements implement FxLedger.             *)
(*                                                                         *)
(* The argument is the code's: what a session has learnt of a row stays    *)
(* true while it holds the lock on it, since a commit changes only rows    *)
(* its session has locked (CommitFrame) and no other step changes any      *)
(* (QuietStep). So one lemma per action suffices, about its own session.   *)
(***************************************************************************)
EXTENDS FxExecute, TLAPS

(* Where an execution may be. Each set holds the statements that come      *)
(* after one gain: a key, the quote, the first balance, both of them, the  *)
(* funds check, the transactions row.                                      *)
Recorded == {"debit", "credit", "complete", "commit"}
Covered == {"mark", "record"} \cup Recorded
WithBalances == {"check_funds"} \cup Covered
WithFirst == {"lock_second"} \cup WithBalances
Executing == {"upsert_first", "upsert_second", "lock_first"} \cup WithFirst
WithQuote ==
    {"check_quote", "expire", "publish_expired", "raise_expired"} \cup Executing
WithKey == {"lock_quote"} \cup WithQuote
ExecutionPhases ==
    {"idle", "replay", "reserve", "publish_executed", "done"} \cup WithKey
FundingPhases == {"fund", "fund_entry", "fund_commit", "done"}

(* What TypeOK leaves out: where each session is, what it was called with, *)
(* and that no quote was locked in the future.                             *)
SessionsTyped ==
    /\ quotes \in [Quotes -> Term \cup {NoQuote}]
    /\ pc \in [Sessions -> ExecutionPhases \cup FundingPhases]
    /\ \A r \in Requests : pc[r] \in ExecutionPhases /\ body[r] \in Bodies[r]
    /\ \A c \in Credits : pc[c] \in FundingPhases /\ body[c] \in Deposits[c]
    /\ available \in [Requests -> Nat]
    /\ lockedAt \in [Requests -> Nat]
    /\ \A r \in Requests : lockedAt[r] <= clock

(* A row or an index value is locked by one session at a time. *)
LocksExclude ==
    \A s, o \in Sessions : s # o => locks[s] \cap locks[o] = {}

(* A call with a key has inserted the key row, which is then its own and   *)
(* still unseen by the others, or it has found one that is committed.      *)
KeyInv(r) ==
    LET k == body[r].key
    IN  /\ pc[r] \in {"reserve"} \cup WithKey => k \in Keys
        /\ pc[r] = "reserve" => wrote[r] = {} /\ locks[r] = {}
        /\ pc[r] \in WithKey =>
             IF "key" \in wrote[r] THEN KeyRow(k) \in locks[r] /\ keys[k] = NoRow
             ELSE keys[k] # NoRow

(* From the SELECT ... FOR UPDATE on, the quote is locked, it is there and *)
(* the caller's; past the checks it is pending and was locked in time.     *)
QuoteInv(r) ==
    LET q == body[r].quote
    IN  /\ pc[r] \in WithQuote =>
             /\ QuoteRow(q) \in locks[r]
             /\ quotes[q] # NoQuote /\ quotes[q].cust = body[r].cust
        /\ pc[r] \in Executing => status[q] = "pending" /\ lockedAt[r] <= expires[q]

(* Both balances are locked, one after the other, from lock_first on; what *)
(* was read of the paying one is its amount; once checked it is enough.    *)
FundsInv(r) ==
    LET t == TermsOf(r)
    IN  /\ pc[r] \in WithFirst => BalanceRow(First(t)) \in locks[r]
        /\ pc[r] \in WithBalances => BalanceRow(Second(t)) \in locks[r]
        /\ \/ pc[r] = "lock_second" /\ First(t) = FromAcct(t)
           \/ pc[r] \in {"check_funds", "mark", "record", "debit"}
           => available[r] = balances[FromAcct(t)]
        /\ pc[r] \in Covered => balances[FromAcct(t)] >= t.famt

(* What an execution has written when it gets to a statement. Having the   *)
(* key's place in the transactions index, it is the only one to use it.    *)
WritesInv(r) ==
    LET t == TermsOf(r)
        k == body[r].key
    IN  /\ pc[r] \in {"record"} \cup Recorded => "executed" \in wrote[r]
        /\ pc[r] \in Recorded =>
             /\ "tx" \in wrote[r] /\ TxKey(k) \in locks[r]
             /\ \A u \in transactions : u.key # k
        /\ pc[r] \in {"credit", "complete", "commit"} =>
             {"debit", "debit_entry"} \subseteq wrote[r] /\ t.famt > 0
        /\ pc[r] \in {"complete", "commit"} =>
             {"credit", "credit_entry"} \subseteq wrote[r] /\ t.tamt > 0
        /\ pc[r] = "commit" => "completed" \in wrote[r]

(* What the caller has been told, or is about to be told. *)
AnswerInv(r) ==
    /\ pc[r] = "publish_executed" => TransactionOf(r) \in transactions
    /\ pc[r] = "replay" =>
         \E t \in transactions : t.key = body[r].key /\ Hash(t) = Hash(body[r])
    /\ resp[r].code \notin {"duplicate_quote_id", "balance_non_negative"}
    /\ resp[r].code \in {"executed", "replay"} =>
         \E t \in transactions :
                /\ t.id = resp[r].tx
                /\ t.quote = body[r].quote /\ t.cust = body[r].cust
                /\ t.key = body[r].key

(* A funding call holds its balance row until it commits, and has posted   *)
(* nothing before.                                                         *)
CreditInv(c) ==
    /\ pc[c] \in {"fund_entry", "fund_commit"} =>
         BalanceRow(body[c].acct) \in locks[c] /\ "credit" \in wrote[c]
    /\ pc[c] = "fund_commit" => "credit_entry" \in wrote[c] /\ body[c].amt > 0
    /\ pc[c] # "done" => \A e \in ledger : e.ref # c

(* A transactions row was committed by the call it names, which is past    *)
(* its commit, for what that call carried, and it is alone with its key    *)
(* and with its quote.                                                     *)
TransactionsInv ==
    /\ \A t \in transactions :
          /\ pc[t.id] \in {"publish_executed", "done"}
          /\ t = TransactionOf(t.id)
          /\ quotes[t.quote] # NoQuote
    /\ \A t, u \in transactions : t.key = u.key \/ t.quote = u.quote => t = u

(* A call announces its execution once, after the commit, as its last act. *)
EventsInv ==
    \A m \in Messages : Executed(m) =>
        /\ published[m] = 1 /\ pc[m.by] = "done"
        /\ \E t \in transactions : t.id = m.by /\ t.quote = m.quote

RequestInv(r) ==
    KeyInv(r) /\ QuoteInv(r) /\ FundsInv(r) /\ WritesInv(r) /\ AnswerInv(r)

(* The inductive invariant: each part above is needed to keep another. *)
IInv ==
    /\ TypeOK /\ SessionsTyped /\ LocksExclude
    /\ \A r \in Requests : RequestInv(r)
    /\ \A c \in Credits : CreditInv(c)
    /\ TransactionsInv
    /\ StatusFollowsTransactions /\ KeyRecordsItsTransaction
    /\ LockedInTime /\ EventsInv

-----------------------------------------------------------------------------
(* Two locks on rows of one table are one lock only if it is one row. *)
LEMMA RowsDiffer ==
  /\ \A a, b : BalanceRow(a) = BalanceRow(b) <=> a = b
  /\ \A a, b : QuoteRow(a) = QuoteRow(b) <=> a = b
  /\ \A a, b : KeyRow(a) = KeyRow(b) <=> a = b
  /\ \A a, b : TxKey(a) = TxKey(b) <=> a = b
  /\ \A a, b : TxQuote(a) = TxQuote(b) <=> a = b
BY DEF BalanceRow, QuoteRow, KeyRow, TxKey, TxQuote

(* The two accounts a quote moves money between, in the order their rows   *)
(* are locked.                                                             *)
LEMMA TermFacts ==
  ASSUME NEW t \in Term
  PROVE  /\ FromAcct(t) \in Accounts /\ ToAcct(t) \in Accounts
         /\ t.famt \in Nat /\ t.tamt \in Nat /\ t.cust \in Customers
         /\ {First(t), Second(t)} = {FromAcct(t), ToAcct(t)}
         /\ First(t) \in Accounts /\ Second(t) \in Accounts
BY DEF Term, FromAcct, ToAcct, Accounts, First, Second

(* What an execution call carries. *)
LEMMA CallFacts ==
  ASSUME SessionsTyped, NEW r \in Requests
  PROVE  /\ body[r].quote \in Quotes /\ body[r].cust \in Customers
         /\ body[r].key \in Keys \cup {NoKey}
         /\ TermsOf(r) \in Term \cup {NoQuote}
BY BodiesAssumption DEF SessionsTyped, TermsOf

(* What a funding call carries. *)
LEMMA FundingFacts ==
  ASSUME SessionsTyped, NEW c \in Credits
  PROVE  body[c].acct \in Accounts /\ body[c].amt \in Nat
BY DepositsAssumption DEF SessionsTyped
-----------------------------------------------------------------------------
(* A step of another session leaves session o where it is. *)
Stands(o) ==
    /\ pc'[o] = pc[o] /\ locks'[o] = locks[o] /\ wrote'[o] = wrote[o]
    /\ resp'[o] = resp[o] /\ body'[o] = body[o]
    /\ o \in Requests => available'[o] = available[o] /\ lockedAt'[o] = lockedAt[o]

(* What is known of an execution is kept by a step that is not its own and *)
(* commits nothing.                                                        *)
LEMMA RequestFrame ==
  ASSUME NEW r \in Requests, RequestInv(r), UNCHANGED tables, Stands(r)
  PROVE  RequestInv(r)'
<1> USE DEF Stands, tables
<1>1. TermsOf(r)' = TermsOf(r)
  BY DEF TermsOf
<1>2. KeyInv(r)'
  BY DEF RequestInv, KeyInv
<1>3. QuoteInv(r)'
  BY DEF RequestInv, QuoteInv
<1>4. FundsInv(r)'
  BY <1>1 DEF RequestInv, FundsInv
<1>5. WritesInv(r)'
  BY <1>1 DEF RequestInv, WritesInv
<1>6. AnswerInv(r)'
  BY DEF RequestInv, AnswerInv, TransactionOf, Hash
<1>7. QED
  BY <1>2, <1>3, <1>4, <1>5, <1>6 DEF RequestInv

(* The same of a funding call. *)
LEMMA CreditFrame ==
  ASSUME NEW c \in Credits, CreditInv(c), UNCHANGED tables, Stands(c)
  PROVE  CreditInv(c)'
BY DEF CreditInv, Stands, tables

(* TypeOK's part about answers. *)
AnswersTyped ==
    resp \in [Sessions -> [code : FXErrors \cup InternalErrors \cup
                  {"none", "executed", "replay", "credited", "no_answer"},
                tx : Requests \cup {NoRow}]]

(* A step sets lockedAt for its own session, to the time it is, or not. *)
Stamps(s) ==
    \/ lockedAt' = lockedAt
    \/ s \in Requests /\ lockedAt' = [lockedAt EXCEPT ![s] = clock]

(* A step of session s announces an execution only by its answer to it. *)
Announces(s) ==
    \/ published' = published
    \/ \E m \in Messages :
          /\ published' = [published EXCEPT ![m] = @ + 1]
          /\ m.type = "quote.executed" =>
                /\ m.by = s /\ pc[s] = "publish_executed" /\ pc'[s] = "done"
                /\ \E t \in transactions : t.id = m.by /\ t.quote = m.quote

(* A step of session s that commits nothing: it locks what nobody else has *)
(* locked, ends without locks if it ends, and announces only an execution  *)
(* that is committed.                                                      *)
Quiet(s) ==
    /\ UNCHANGED <<tables, clock, body>>
    /\ \A o \in Sessions \ {s} : Stands(o)
    /\ pc' \in [Sessions -> ExecutionPhases \cup FundingPhases]
    /\ pc'[s] \in (IF s \in Requests THEN ExecutionPhases ELSE FundingPhases)
    /\ available' \in [Requests -> Nat]
    /\ Stamps(s)
    /\ AnswersTyped'
    /\ locks' \in [Sessions -> SUBSET Resources]
    /\ wrote' \in [Sessions -> SUBSET Writes]
    /\ pc'[s] \in {"idle", "replay", "done", "publish_executed"} =>
          locks'[s] = {} /\ wrote'[s] = {}
    /\ \A o \in Sessions \ {s} : locks'[s] \cap locks[o] = {}
    /\ pc[s] \in {"publish_executed", "done"} =>
          pc'[s] = "done" /\ lockedAt' = lockedAt
    /\ Announces(s)

(* What a call has announced stays as EventsInv has it, whatever else the  *)
(* step commits: a call that is done does nothing more.                    *)
LEMMA EventsKept ==
  ASSUME IInv, NEW s \in Sessions, Announces(s), transactions \subseteq transactions',
         \A o \in Requests : pc[o] = "done" => pc'[o] = "done"
  PROVE  published' \in [Messages -> Nat] /\ EventsInv'
<1>1. published \in [Messages -> Nat] /\ EventsInv
  BY DEF IInv, TypeOK
<1>2. \A m \in Messages : m.by \in Requests
  BY DEF Messages
<1>3. CASE published' = published
  BY <1>1, <1>2, <1>3 DEF EventsInv, Executed
<1>4. ASSUME NEW m \in Messages, published' = [published EXCEPT ![m] = @ + 1],
             m.type = "quote.executed" =>
                /\ m.by = s /\ pc[s] = "publish_executed" /\ pc'[s] = "done"
                /\ \E t \in transactions : t.id = m.by /\ t.quote = m.quote
      PROVE  published' \in [Messages -> Nat] /\ EventsInv'
  <2>1. published' \in [Messages -> Nat]
    BY <1>1, <1>4
  <2>2. ASSUME NEW n \in Messages, n # m, Executed(n)'
        PROVE  /\ published'[n] = 1 /\ pc'[n.by] = "done"
               /\ \E t \in transactions' : t.id = n.by /\ t.quote = n.quote
    <3>1. Executed(n) /\ published'[n] = published[n]
      BY <1>1, <1>4, <2>2 DEF Executed
    <3>2. QED
      BY <1>1, <1>2, <3>1 DEF EventsInv
  <2>3. ASSUME Executed(m)'
        PROVE  /\ published'[m] = 1 /\ pc'[m.by] = "done"
               /\ \E t \in transactions' : t.id = m.by /\ t.quote = m.quote
    <3>1. m.type = "quote.executed"
      BY <2>3 DEF Executed
    <3>2. ~Executed(m)
      BY <1>1, <1>4, <3>1 DEF EventsInv
    <3>3. published[m] = 0
      BY <1>1, <3>1, <3>2 DEF Executed
    <3>4. QED
      BY <1>1, <1>4, <3>1, <3>3
  <2>4. QED
    BY <2>1, <2>2, <2>3 DEF EventsInv
<1>5. QED
  BY <1>3, <1>4 DEF Announces

(* No step dates a lock into the future. *)
LEMMA StampsFacts ==
  ASSUME IInv, NEW s \in Sessions, Stamps(s)
  PROVE  /\ lockedAt' \in [Requests -> Nat]
         /\ \A o \in Requests \ {s} : lockedAt'[o] = lockedAt[o]
         /\ \A o \in Requests : lockedAt'[o] <= clock
<1>1. clock \in Nat /\ SessionsTyped
  BY ClockAssumption DEF IInv, TypeOK
<1>2. QED
  BY <1>1 DEF Stamps, SessionsTyped

(* For a step that commits nothing, only what is known of the session that *)
(* takes it remains to be shown.                                           *)
LEMMA QuietStep ==
  ASSUME IInv, NEW s \in Sessions, Quiet(s),
         s \in Requests => RequestInv(s)', s \in Credits => CreditInv(s)'
  PROVE  IInv'
<1>0. published' \in [Messages -> Nat] /\ EventsInv'
  <2>1. \A o \in Requests : pc[o] = "done" => pc'[o] = "done"
    BY DEF Quiet, Stands, Sessions
  <2>2. Announces(s) /\ transactions \subseteq transactions'
    BY DEF Quiet, tables
  <2>3. QED
    BY <2>1, <2>2, EventsKept
<1>1. TypeOK'
  <2>1. TypeOK
    BY DEF IInv
  <2>2. \A o \in Sessions : pc'[o] \in {"idle", "replay", "done", "publish_executed"} =>
           locks'[o] = {} /\ wrote'[o] = {}
    BY <2>1 DEF Quiet, Stands, TypeOK
  <2>3. UNCHANGED <<tables, clock>>
    BY DEF Quiet
  <2>4. /\ locks' \in [Sessions -> SUBSET Resources]
        /\ wrote' \in [Sessions -> SUBSET Writes]
        /\ AnswersTyped'
    BY DEF Quiet
  <2>5. QED
    BY <1>0, <2>1, <2>2, <2>3, <2>4 DEF TypeOK, tables, AnswersTyped
<1>2. SessionsTyped'
  <2>1. SessionsTyped
    BY DEF IInv
  <2>2. UNCHANGED <<quotes, body>>
    BY DEF Quiet, tables
  <2>3. \A r \in Requests : pc'[r] \in ExecutionPhases
    BY <2>1 DEF Quiet, Stands, SessionsTyped, Sessions
  <2>4. \A c \in Credits : pc'[c] \in FundingPhases
    BY <2>1, CallersAssumption DEF Quiet, Stands, SessionsTyped, Sessions
  <2>5. clock \in Nat /\ clock' = clock
    BY ClockAssumption DEF IInv, TypeOK, Quiet
  <2>6. /\ lockedAt' \in [Requests -> Nat]
        /\ \A r \in Requests : lockedAt'[r] <= clock'
    BY <2>5, StampsFacts DEF Quiet
  <2>7. QED
    BY <2>1, <2>2, <2>3, <2>4, <2>6 DEF SessionsTyped, Quiet
<1>3. LocksExclude'
  BY DEF IInv, LocksExclude, Quiet, Stands
<1>4. ASSUME NEW r \in Requests PROVE RequestInv(r)'
  <2>1. CASE r = s
    BY <2>1
  <2>2. CASE r # s
    <3>1. Stands(r) /\ RequestInv(r) /\ UNCHANGED tables
      BY <2>2 DEF Quiet, IInv, Sessions
    <3>2. QED
      BY <3>1, RequestFrame
  <2>3. QED
    BY <2>1, <2>2
<1>5. ASSUME NEW c \in Credits PROVE CreditInv(c)'
  <2>1. CASE c = s
    BY <2>1
  <2>2. CASE c # s
    <3>1. Stands(c) /\ CreditInv(c) /\ UNCHANGED tables
      BY <2>2 DEF Quiet, IInv, Sessions
    <3>2. QED
      BY <3>1, CreditFrame
  <2>3. QED
    BY <2>1, <2>2
<1>6. UNCHANGED tables
  BY DEF Quiet
<1>7. \A t \in transactions : /\ t.id \in Requests
                              /\ pc[t.id] \in {"publish_executed", "done"}
                              /\ pc'[t.id] \in {"publish_executed", "done"}
                              /\ lockedAt'[t.id] = lockedAt[t.id]
                              /\ body'[t.id] = body[t.id]
  <2> SUFFICES ASSUME NEW t \in transactions
               PROVE  /\ t.id \in Requests
                      /\ pc[t.id] \in {"publish_executed", "done"}
                      /\ pc'[t.id] \in {"publish_executed", "done"}
                      /\ lockedAt'[t.id] = lockedAt[t.id]
                      /\ body'[t.id] = body[t.id]
    OBVIOUS
  <2>1. t.id \in Requests /\ t.id \in Sessions
    BY DEF IInv, TypeOK, Transaction, Sessions
  <2>2. pc[t.id] \in {"publish_executed", "done"}
    BY DEF IInv, TransactionsInv
  <2>3. QED
    BY <2>1, <2>2 DEF Quiet, Stands
<1>8. TransactionsInv'
  BY <1>6, <1>7 DEF IInv, TransactionsInv, TransactionOf, tables
<1>9. StatusFollowsTransactions'
  BY <1>6 DEF IInv, StatusFollowsTransactions, tables
<1>10. KeyRecordsItsTransaction'
  BY <1>6 DEF IInv, KeyRecordsItsTransaction, tables, Hash
<1>11. LockedInTime'
  BY <1>6, <1>7 DEF IInv, LockedInTime, tables
<1>12. QED
  BY <1>0, <1>1, <1>2, <1>3, <1>4, <1>5, <1>8, <1>9, <1>10, <1>11 DEF IInv
-----------------------------------------------------------------------------
(* Wants, statement by statement. *)
LEMMA WantsOf ==
  ASSUME NEW s
  PROVE  /\ pc[s] = "reserve" =>
              Wants(s) = IF keys[body[s].key] = NoRow THEN {KeyRow(body[s].key)} ELSE {}
         /\ pc[s] = "lock_quote" => Wants(s) = QuoteForUpdate(s)
         /\ pc[s] \in {"expire", "mark"} => Wants(s) = {QuoteRow(body[s].quote)}
         /\ pc[s] = "upsert_first" => Wants(s) = Insertable(First(TermsOf(s)))
         /\ pc[s] = "upsert_second" => Wants(s) = Insertable(Second(TermsOf(s)))
         /\ pc[s] = "lock_first" => Wants(s) = BalanceForUpdate(First(TermsOf(s)))
         /\ pc[s] = "lock_second" => Wants(s) = BalanceForUpdate(Second(TermsOf(s)))
         /\ pc[s] = "record" => Wants(s) = {TxKey(body[s].key), TxQuote(body[s].quote)}
         /\ pc[s] = "debit" => Wants(s) = {BalanceRow(FromAcct(TermsOf(s)))}
         /\ pc[s] = "credit" => Wants(s) = {BalanceRow(ToAcct(TermsOf(s)))}
         /\ pc[s] = "complete" => Wants(s) = {KeyRow(body[s].key)}
         /\ pc[s] = "fund" => Wants(s) = {BalanceRow(body[s].acct)}
         /\ pc[s] \notin {"reserve", "lock_quote", "expire", "mark", "upsert_first",
                "upsert_second", "lock_first", "lock_second", "record", "debit",
                "credit", "complete", "fund"} => Wants(s) = {}
BY DEF Wants

(* No statement waits for a row that cannot exist. *)
LEMMA WantsAreRows ==
  ASSUME IInv, NEW s \in Sessions
  PROVE  Wants(s) \subseteq Resources
<1>1. CASE s \in Requests
  <2>1. /\ body[s].quote \in Quotes
        /\ pc[s] \in ExecutionPhases
        /\ pc[s] \in {"reserve"} \cup WithKey => body[s].key \in Keys
        /\ pc[s] \in WithQuote => TermsOf(s) \in Term
    BY <1>1, CallFacts DEF IInv, SessionsTyped, RequestInv, KeyInv, QuoteInv, TermsOf
  <2>2. pc[s] \in WithQuote =>
          /\ FromAcct(TermsOf(s)) \in Accounts /\ ToAcct(TermsOf(s)) \in Accounts
          /\ First(TermsOf(s)) \in Accounts /\ Second(TermsOf(s)) \in Accounts
    BY <2>1, TermFacts
  <2>3. QED
    BY <2>1, <2>2, WantsOf DEF QuoteForUpdate, BalanceForUpdate, Insertable, Resources,
       ExecutionPhases, WithKey, WithQuote, Executing, WithFirst, WithBalances,
       Covered, Recorded
<1>2. CASE s \in Credits
  <2>1. pc[s] \in FundingPhases /\ body[s].acct \in Accounts
    BY <1>2, FundingFacts DEF IInv, SessionsTyped
  <2>2. QED
    BY <2>1, WantsOf DEF Resources, FundingPhases
<1>3. QED
  BY <1>1, <1>2 DEF Sessions

(* What a statement does for its session, and that it takes no lock from   *)
(* another one.                                                            *)
LEMMA StatementFacts ==
  ASSUME IInv, NEW s \in Sessions, NEW p, NEW W, Statement(s, p, W)
  PROVE  /\ pc'[s] = p /\ resp'[s] = resp[s]
         /\ locks'[s] = locks[s] \cup Wants(s) /\ wrote'[s] = wrote[s] \cup W
         /\ UNCHANGED <<tables, resp>>
         /\ \A o \in Sessions \ {s} :
               /\ pc'[o] = pc[o] /\ locks'[o] = locks[o] /\ wrote'[o] = wrote[o]
               /\ locks'[s] \cap locks[o] = {}
         /\ pc' = [pc EXCEPT ![s] = p]
         /\ locks' \in [Sessions -> SUBSET Resources]
         /\ W \subseteq Writes => wrote' \in [Sessions -> SUBSET Writes]
<1>1. /\ pc \in [Sessions -> ExecutionPhases \cup FundingPhases]
      /\ locks \in [Sessions -> SUBSET Resources]
      /\ wrote \in [Sessions -> SUBSET Writes]
  BY DEF IInv, TypeOK, SessionsTyped
<1>2. Wants(s) \subseteq Resources
  BY WantsAreRows
<1>3. \A o \in Sessions \ {s} : locks[s] \cap locks[o] = {}
  BY DEF IInv, LocksExclude
<1>4. \A o \in Sessions \ {s} : Wants(s) \cap locks[o] = {}
  BY DEF Statement, Waits
<1>5. /\ pc' = [pc EXCEPT ![s] = p]
      /\ locks' = [locks EXCEPT ![s] = @ \cup Wants(s)]
      /\ wrote' = [wrote EXCEPT ![s] = @ \cup W]
      /\ UNCHANGED <<tables, resp>>
  BY DEF Statement
<1>6. QED
  BY <1>1, <1>2, <1>3, <1>4, <1>5

(* A statement of an execution keeps the invariant if it keeps what is     *)
(* known of that execution.                                                *)
LEMMA StatementKeeps ==
  ASSUME IInv, NEW r \in Requests, NEW p \in WithKey, NEW W \in SUBSET Writes,
         pc[r] \in {"reserve"} \cup WithKey, Statement(r, p, W),
         UNCHANGED <<clock, body>>,
         available' \in [Requests -> Nat], Stamps(r),
         \A o \in Requests \ {r} : available'[o] = available[o],
         Announces(r),
         RequestInv(r)'
  PROVE  IInv'
<1>1. r \in Sessions /\ r \notin Credits
  BY CallersAssumption DEF Sessions
<1>2. p \in ExecutionPhases /\ p \notin {"idle", "replay", "done", "publish_executed"}
      /\ pc[r] \notin {"done", "publish_executed"}
  BY DEF ExecutionPhases, WithKey, WithQuote, Executing, WithFirst,
         WithBalances, Covered, Recorded
<1>3. Quiet(r)
  <2>1. \A o \in Sessions \ {r} : Stands(o)
    BY <1>1, StampsFacts, StatementFacts DEF Stands
  <2>2. AnswersTyped'
    BY <1>1, StatementFacts DEF IInv, TypeOK, AnswersTyped
  <2>3. pc' \in [Sessions -> ExecutionPhases \cup FundingPhases] /\ pc'[r] = p
    BY <1>1, <1>2, StatementFacts DEF IInv, SessionsTyped
  <2>4. QED
    BY <1>1, <1>2, <2>1, <2>2, <2>3, StatementFacts DEF Quiet
<1>4. QED
  BY <1>1, <1>3, QuietStep

(* A rollback keeps the invariant, whoever is rolled back and why, unless  *)
(* it is for one of the two refusals that BackstopsSilent rules out.       *)
LEMMA AbortKeeps ==
  ASSUME IInv, NEW s \in Sessions,
         NEW code \in (FXErrors \cup InternalErrors) \
                          {"duplicate_quote_id", "balance_non_negative"},
         Abort(s, code), pc[s] \notin {"done", "publish_executed"},
         UNCHANGED <<clock, body, available, published>>,
         Stamps(s)
  PROVE  IInv'
<1>1. /\ pc' = [pc EXCEPT ![s] = "done"]
      /\ locks' = [locks EXCEPT ![s] = {}]
      /\ wrote' = [wrote EXCEPT ![s] = {}]
      /\ resp' = [resp EXCEPT ![s] = [code |-> code, tx |-> NoRow]]
      /\ UNCHANGED tables
  BY DEF Abort
<1>2. /\ pc \in [Sessions -> ExecutionPhases \cup FundingPhases]
      /\ locks \in [Sessions -> SUBSET Resources]
      /\ wrote \in [Sessions -> SUBSET Writes]
      /\ AnswersTyped
      /\ available \in [Requests -> Nat]
  BY DEF IInv, TypeOK, SessionsTyped, AnswersTyped
<1>3. Quiet(s)
  <2>1. \A o \in Sessions \ {s} : Stands(o)
    BY <1>1, <1>2, StampsFacts DEF Stands, AnswersTyped
  <2>2. AnswersTyped'
    BY <1>1, <1>2 DEF AnswersTyped
  <2>3. "done" \in ExecutionPhases /\ "done" \in FundingPhases
    BY DEF ExecutionPhases, FundingPhases
  <2>4. QED
    BY <1>1, <1>2, <2>1, <2>2, <2>3 DEF Quiet, Announces
<1>4. ASSUME s \in Requests PROVE RequestInv(s)'
  <2>1. pc'[s] = "done" /\ resp'[s].code = code
    BY <1>1, <1>2 DEF AnswersTyped
  <2>2. code \notin {"duplicate_quote_id", "balance_non_negative", "executed", "replay"}
    BY DEF FXErrors, InternalErrors
  <2>3. "done" \notin {"replay", "reserve", "publish_executed"} \cup WithKey
    BY DEF WithKey, WithQuote, Executing, WithFirst, WithBalances, Covered, Recorded
  <2>4. QED
    BY <2>1, <2>2, <2>3 DEF RequestInv, KeyInv, QuoteInv, FundsInv, WritesInv, AnswerInv,
          WithKey, WithQuote, Executing, WithFirst, WithBalances, Covered, Recorded
<1>5. ASSUME s \in Credits PROVE CreditInv(s)'
  BY <1>1, <1>2 DEF CreditInv
<1>6. QED
  BY <1>3, <1>4, <1>5, QuietStep
-----------------------------------------------------------------------------
(* Reserve: the key is the caller's own now, or committed by another. *)
LEMMA ReserveKeeps ==
  ASSUME IInv, NEW r \in Requests, Reserve(r)
  PROVE  IInv'
<1> DEFINE k == body[r].key
           W == IF keys[k] = NoRow THEN {"key"} ELSE {}
<1>1. /\ pc[r] = "reserve" /\ Statement(r, "lock_quote", W)
      /\ UNCHANGED <<clock, body, available, lockedAt, published>>
  BY DEF Reserve, Rest, At
<1>2. r \in Sessions /\ SessionsTyped /\ RequestInv(r)
  BY DEF Sessions, IInv
<1>3. /\ pc'[r] = "lock_quote" /\ resp'[r] = resp[r] /\ UNCHANGED tables
      /\ locks'[r] = locks[r] \cup Wants(r) /\ wrote'[r] = wrote[r] \cup W
  BY <1>1, <1>2, StatementFacts
<1>4. KeyInv(r)'
  <2>1. Wants(r) = IF keys[k] = NoRow THEN {KeyRow(k)} ELSE {}
    BY <1>1, WantsOf
  <2>2. k \in Keys /\ wrote[r] = {} /\ locks[r] = {}
    BY <1>1, <1>2 DEF RequestInv, KeyInv
  <2>3. QED
    BY <1>1, <1>2, <1>3, <2>1, <2>2 DEF RequestInv, KeyInv, tables
<1>5. RequestInv(r)'
  BY <1>1, <1>2, <1>3, <1>4 DEF RequestInv, QuoteInv, FundsInv, WritesInv, AnswerInv,
     tables, TransactionOf, WithQuote, Executing, WithFirst, WithBalances, Covered, Recorded
<1>6. QED
  BY <1>1, <1>2, <1>5, StatementKeeps DEF SessionsTyped, WithKey, Writes, Stamps, Announces

(* LockQuote: the quote is locked, and was when lockedAt says. *)
LEMMA LockQuoteKeeps ==
  ASSUME IInv, NEW r \in Requests, LockQuote(r)
  PROVE  IInv'
<1>1. /\ pc[r] = "lock_quote"
      /\ UNCHANGED <<clock, body, available, published>>
      /\ lockedAt' = [lockedAt EXCEPT ![r] = clock]
  BY DEF LockQuote, At
<1>2. r \in Sessions /\ SessionsTyped /\ RequestInv(r) /\ clock \in Nat
  BY ClockAssumption DEF Sessions, IInv, TypeOK
<1>3. Stamps(r)
  BY <1>1 DEF Stamps
<1>4. CASE TermsOf(r) # NoQuote /\ TermsOf(r).cust = body[r].cust
  <2>1. Statement(r, "check_quote", {})
    BY <1>4 DEF LockQuote
  <2>2. /\ pc'[r] = "check_quote" /\ resp'[r] = resp[r] /\ UNCHANGED tables
        /\ locks'[r] = locks[r] \cup {QuoteRow(body[r].quote)} /\ wrote'[r] = wrote[r]
    <3>1. Wants(r) = {QuoteRow(body[r].quote)}
      BY <1>1, <1>4, WantsOf DEF QuoteForUpdate
    <3>2. /\ pc'[r] = "check_quote" /\ resp'[r] = resp[r] /\ UNCHANGED tables
          /\ locks'[r] = locks[r] \cup Wants(r) /\ wrote'[r] = wrote[r] \cup {}
      BY <1>2, <2>1, StatementFacts
    <3>3. QED
      BY <3>1, <3>2
  <2>3. RequestInv(r)'
    BY <1>1, <1>2, <1>4, <2>2 DEF RequestInv, KeyInv, QuoteInv, FundsInv, WritesInv,
       AnswerInv, TermsOf, tables, TransactionOf, WithKey, WithQuote, Executing, WithFirst,
       WithBalances, Covered, Recorded
  <2>4. QED
    BY <1>1, <1>2, <1>3, <2>1, <2>3, StatementKeeps DEF SessionsTyped, WithKey, WithQuote,
       Announces
<1>5. CASE ~(TermsOf(r) # NoQuote /\ TermsOf(r).cust = body[r].cust)
  <2>1. Abort(r, "quote_not_found")
    BY <1>5 DEF LockQuote
  <2>2. QED
    BY <1>1, <1>2, <1>3, <2>1, AbortKeeps DEF FXErrors
<1>6. QED
  BY <1>4, <1>5
-----------------------------------------------------------------------------
(* What is left to show of a statement that changes no table: its own part *)
(* of the invariant, at the statement that comes next.                     *)
Advances(r, p, W) ==
    (/\ RequestInv(r) /\ pc'[r] = p /\ UNCHANGED tables
     /\ locks'[r] = locks[r] \cup Wants(r) /\ wrote'[r] = wrote[r] \cup W
     /\ available'[r] = available[r] /\ lockedAt'[r] = lockedAt[r]
     /\ body'[r] = body[r] /\ TermsOf(r)' = TermsOf(r))
    => KeyInv(r)' /\ QuoteInv(r)' /\ FundsInv(r)' /\ WritesInv(r)'

(* A statement after the key is reserved that changes neither what was     *)
(* read under lock nor when: what is left to show is about its own rows.   *)
LEMMA Advance ==
  ASSUME IInv, NEW r \in Requests, NEW p \in WithKey, NEW W \in SUBSET Writes,
         pc[r] \in WithKey, Statement(r, p, W),
         UNCHANGED <<clock, body, available, lockedAt>>,
         Announces(r),
         Advances(r, p, W)
  PROVE  IInv'
<1>1. r \in Sessions /\ SessionsTyped /\ RequestInv(r)
  BY DEF Sessions, IInv
<1>2. /\ RequestInv(r) /\ pc'[r] = p /\ UNCHANGED tables
      /\ locks'[r] = locks[r] \cup Wants(r) /\ wrote'[r] = wrote[r] \cup W
      /\ resp'[r] = resp[r]
  BY <1>1, StatementFacts
<1>3. TermsOf(r)' = TermsOf(r)
  BY <1>2 DEF TermsOf, tables
<1>4. AnswerInv(r)'
  BY <1>2 DEF RequestInv, AnswerInv, tables, WithKey, WithQuote, Executing, WithFirst,
        WithBalances, Covered, Recorded
<1>5. RequestInv(r)'
  BY <1>2, <1>3, <1>4
     DEF Advances, RequestInv
<1>6. QED
  BY <1>1, <1>5, StatementKeeps DEF SessionsTyped, Stamps

(* A rollback of an execution that has reserved its key. *)
LEMMA Stop ==
  ASSUME IInv, NEW r \in Requests, pc[r] \in WithKey,
         NEW code \in (FXErrors \cup InternalErrors) \
                          {"duplicate_quote_id", "balance_non_negative"},
         Abort(r, code), UNCHANGED <<clock, body, available, lockedAt, published>>
  PROVE  IInv'
<1>1. r \in Sessions /\ pc[r] \notin {"done", "publish_executed"}
  BY DEF Sessions, WithKey, WithQuote, Executing, WithFirst, WithBalances, Covered, Recorded
<1>2. QED
  BY <1>1, AbortKeeps DEF Stamps

(* CheckQuote: the lock is not later than now, and now is not past the     *)
(* expiry; so the lock was in time.                                        *)
LEMMA CheckQuoteKeeps ==
  ASSUME IInv, NEW r \in Requests, CheckQuote(r)
  PROVE  IInv'
<1> USE DEF WithKey, WithQuote, Executing, WithFirst, WithBalances, Covered, Recorded
<1>1. /\ pc[r] = "check_quote" /\ pc[r] \in WithKey
      /\ UNCHANGED <<clock, body, available, lockedAt, published>>
  BY DEF CheckQuote, At, Rest
<1>2. CASE Statement(r, "expire", {})
  <2>1. Advances(r, "expire", {})
    BY <1>1, <1>2
       DEF Advances, RequestInv, KeyInv, QuoteInv, FundsInv, WritesInv, tables
  <2>2. QED
    BY <1>1, <1>2, <2>1, Advance DEF Announces
<1>3. CASE Abort(r, "quote_already_executed")
  BY <1>1, <1>3, Stop DEF FXErrors
<1>4. CASE ~Expired(body[r].quote) /\ status[body[r].quote] = "pending"
           /\ Statement(r, "upsert_first", {})
  <2>1. lockedAt[r] <= expires[body[r].quote]
    <3>1. /\ clock \in Nat /\ lockedAt[r] \in Nat /\ lockedAt[r] <= clock
          /\ body[r].quote \in Quotes
      BY CallFacts, ClockAssumption DEF IInv, TypeOK, SessionsTyped
    <3>2. expires[body[r].quote] \in Nat
      BY <3>1, ClockAssumption DEF IInv, TypeOK
    <3>3. QED
      BY <1>4, <3>1, <3>2 DEF Expired, Now
  <2>2. QED
    <3>1. Advances(r, "upsert_first", {})
      BY <1>1, <1>4, <2>1
         DEF Advances, RequestInv, KeyInv, QuoteInv, FundsInv, WritesInv, tables
    <3>2. QED
      BY <1>1, <1>4, <2>1, <3>1, Advance DEF Announces
<1>5. QED
  BY <1>2, <1>3, <1>4 DEF CheckQuote
-----------------------------------------------------------------------------
(* Expire, PublishExpired and RaiseExpired end in a rollback. *)
LEMMA ExpireKeeps ==
  ASSUME IInv, NEW r \in Requests, Expire(r) \/ PublishExpired(r) \/ RaiseExpired(r)
  PROVE  IInv'
<1> USE DEF WithKey, WithQuote, Executing, WithFirst, WithBalances, Covered, Recorded
<1>1. CASE Expire(r)
  <2>1. /\ pc[r] = "expire" /\ pc[r] \in WithKey
        /\ Statement(r, "publish_expired", {"expired"})
        /\ UNCHANGED <<clock, body, available, lockedAt, published>>
    BY <1>1 DEF Expire, At, Rest
  <2>2. {"expired"} \in SUBSET Writes
    BY DEF Writes
  <2>3. QED
    <3>1. Advances(r, "publish_expired", {"expired"})
      BY <2>1, <2>2
         DEF Advances, RequestInv, KeyInv, QuoteInv, FundsInv, WritesInv, tables
    <3>2. QED
      BY <2>1, <2>2, <3>1, Advance DEF Announces
<1>2. CASE PublishExpired(r)
  <2>1. /\ pc[r] = "publish_expired" /\ pc[r] \in WithKey
        /\ Statement(r, "raise_expired", {})
        /\ UNCHANGED <<clock, body, available, lockedAt>>
    BY <1>2 DEF PublishExpired, At
  <2>2. Announces(r)
    <3>1. body[r].quote \in Quotes
      BY CallFacts DEF IInv
    <3>2. [type |-> "quote.expired", quote |-> body[r].quote, by |-> r] \in Messages
      BY <3>1 DEF Messages
    <3>3. QED
      BY <1>2, <3>2 DEF PublishExpired, Publish, Announces
  <2>3. QED
    <3>1. Advances(r, "raise_expired", {})
      BY <2>1, <2>2
         DEF Advances, RequestInv, KeyInv, QuoteInv, FundsInv, WritesInv, tables
    <3>2. QED
      BY <2>1, <2>2, <3>1, Advance DEF Announces
<1>3. CASE RaiseExpired(r)
  <2>1. /\ pc[r] = "raise_expired" /\ Abort(r, "quote_expired")
        /\ UNCHANGED <<clock, body, available, lockedAt, published>>
    BY <1>3 DEF RaiseExpired, At, Rest
  <2>2. QED
    BY <2>1, Stop DEF FXErrors
<1>4. QED
  BY <1>1, <1>2, <1>3

(* Upsert reads nothing that anything is known of yet. *)
LEMMA UpsertKeeps ==
  ASSUME IInv, NEW r \in Requests, Upsert(r)
  PROVE  IInv'
<1> USE DEF WithKey, WithQuote, Executing, WithFirst, WithBalances, Covered, Recorded
<1>1. pc[r] \in WithKey /\ UNCHANGED <<clock, body, available, lockedAt, published>>
  BY DEF Upsert, At, Rest
<1>2. CASE pc[r] = "upsert_first" /\ Statement(r, "upsert_second", {})
  <2>1. Advances(r, "upsert_second", {})
    BY <1>1, <1>2
       DEF Advances, RequestInv, KeyInv, QuoteInv, FundsInv, WritesInv, tables
  <2>2. QED
    BY <1>1, <1>2, <2>1, Advance DEF Announces
<1>3. CASE pc[r] = "upsert_second" /\ Statement(r, "lock_first", {})
  <2>1. Advances(r, "lock_first", {})
    BY <1>1, <1>3
       DEF Advances, RequestInv, KeyInv, QuoteInv, FundsInv, WritesInv, tables
  <2>2. QED
    BY <1>1, <1>3, <2>1, Advance DEF Announces
<1>4. QED
  BY <1>2, <1>3 DEF Upsert, At

(* LockBalances: whichever of the two rows is the paying one, its amount   *)
(* is what was read of it.                                                 *)
LEMMA LockBalancesKeeps ==
  ASSUME IInv, NEW r \in Requests, LockBalances(r)
  PROVE  IInv'
<1> USE DEF WithKey, WithQuote, Executing, WithFirst, WithBalances, Covered, Recorded
<1> DEFINE t == TermsOf(r)
<1>1. /\ r \in Sessions /\ SessionsTyped /\ RequestInv(r)
      /\ balances \in [Accounts -> Nat]
  BY DEF Sessions, IInv, TypeOK
<1>2. UNCHANGED <<clock, body, lockedAt, published>> /\ pc[r] \in {"lock_first", "lock_second"}
  BY DEF LockBalances, At
<1>3. t \in Term
  BY <1>1, <1>2, CallFacts DEF RequestInv, QuoteInv, TermsOf
<1>4. /\ FromAcct(t) \in Accounts /\ First(t) \in Accounts /\ Second(t) \in Accounts
      /\ {First(t), Second(t)} = {FromAcct(t), ToAcct(t)}
  BY <1>3, TermFacts
<1>5. CASE pc[r] = "lock_first" /\ Statement(r, "lock_second", {}) /\ ReadBalance(r, First(t))
  <2>1. Wants(r) = {BalanceRow(First(t))}
    BY <1>5, WantsOf DEF BalanceForUpdate
  <2>2. /\ pc'[r] = "lock_second" /\ resp'[r] = resp[r] /\ UNCHANGED tables
        /\ locks'[r] = locks[r] \cup Wants(r) /\ wrote'[r] = wrote[r] \cup {}
    BY <1>1, <1>5, StatementFacts
  <2>3. TermsOf(r)' = t
    BY <1>2, <2>2 DEF TermsOf, tables
  <2>4. /\ available' \in [Requests -> Nat]
        /\ \A o \in Requests \ {r} : available'[o] = available[o]
        /\ First(t) = FromAcct(t) => available'[r] = balances[FromAcct(t)]
    BY <1>1, <1>4, <1>5 DEF ReadBalance, SessionsTyped
  <2>5. RequestInv(r)'
    BY <1>1, <1>2, <1>5, <2>1, <2>2, <2>3, <2>4 DEF RequestInv, KeyInv, QuoteInv, FundsInv,
       WritesInv, AnswerInv, tables
  <2>6. QED
    BY <1>1, <1>2, <1>5, <2>4, <2>5, StatementKeeps DEF Stamps, Announces
<1>6. CASE pc[r] = "lock_second" /\ Statement(r, "check_funds", {}) /\ ReadBalance(r, Second(t))
  <2>1. Wants(r) = {BalanceRow(Second(t))}
    BY <1>6, WantsOf DEF BalanceForUpdate
  <2>2. /\ pc'[r] = "check_funds" /\ resp'[r] = resp[r] /\ UNCHANGED tables
        /\ locks'[r] = locks[r] \cup Wants(r) /\ wrote'[r] = wrote[r] \cup {}
    BY <1>1, <1>6, StatementFacts
  <2>3. TermsOf(r)' = t
    BY <1>2, <2>2 DEF TermsOf, tables
  <2>4. First(t) = FromAcct(t) => available[r] = balances[FromAcct(t)]
    BY <1>1, <1>6 DEF RequestInv, FundsInv
  <2>5. /\ available' \in [Requests -> Nat]
        /\ \A o \in Requests \ {r} : available'[o] = available[o]
        /\ available'[r] = balances[FromAcct(t)]
    BY <1>1, <1>4, <1>6, <2>4 DEF ReadBalance, SessionsTyped
  <2>6. RequestInv(r)'
    BY <1>1, <1>2, <1>6, <2>1, <2>2, <2>3, <2>5 DEF RequestInv, KeyInv, QuoteInv, FundsInv,
       WritesInv, AnswerInv, tables
  <2>7. QED
    BY <1>1, <1>2, <1>6, <2>5, <2>6, StatementKeeps DEF Stamps, Announces
<1>7. QED
  BY <1>5, <1>6 DEF LockBalances, At

(* CheckFunds decides on the amount that was read: it is the balance's. *)
LEMMA CheckFundsKeeps ==
  ASSUME IInv, NEW r \in Requests, CheckFunds(r)
  PROVE  IInv'
<1> USE DEF WithKey, WithQuote, Executing, WithFirst, WithBalances, Covered, Recorded
<1>1. /\ pc[r] = "check_funds" /\ pc[r] \in WithKey
      /\ UNCHANGED <<clock, body, available, lockedAt, published>>
  BY DEF CheckFunds, At, Rest
<1>2. CASE Abort(r, "insufficient_balance")
  BY <1>1, <1>2, Stop DEF FXErrors
<1>3. CASE ~(available[r] < TermsOf(r).famt) /\ Statement(r, "mark", {})
  <2>1. balances[FromAcct(TermsOf(r))] >= TermsOf(r).famt
    <3>1. SessionsTyped /\ RequestInv(r)
      BY DEF IInv
    <3>2. TermsOf(r) \in Term
      BY <1>1, <3>1, CallFacts DEF RequestInv, QuoteInv, TermsOf
    <3>3. TermsOf(r).famt \in Nat /\ available[r] \in Nat
      BY <3>1, <3>2, TermFacts DEF SessionsTyped
    <3>4. available[r] = balances[FromAcct(TermsOf(r))]
      BY <1>1, <3>1 DEF RequestInv, FundsInv
    <3>5. QED
      BY <1>3, <3>3, <3>4
  <2>2. QED
    <3>1. Advances(r, "mark", {})
      BY <1>1, <1>3, <2>1
         DEF Advances, RequestInv, KeyInv, QuoteInv, FundsInv, WritesInv, tables
    <3>2. QED
      BY <1>1, <1>3, <2>1, <3>1, Advance DEF Announces
<1>4. QED
  BY <1>2, <1>3 DEF CheckFunds
-----------------------------------------------------------------------------
(* MarkExecuted *)
LEMMA MarkExecutedKeeps ==
  ASSUME IInv, NEW r \in Requests, MarkExecuted(r)
  PROVE  IInv'
<1> USE DEF WithKey, WithQuote, Executing, WithFirst, WithBalances, Covered, Recorded
<1>1. /\ pc[r] = "mark" /\ pc[r] \in WithKey /\ Statement(r, "record", {"executed"})
      /\ UNCHANGED <<clock, body, available, lockedAt, published>>
  BY DEF MarkExecuted, At, Rest
<1>2. {"executed"} \in SUBSET Writes
  BY DEF Writes
<1>3. QED
  BY <1>1, <1>2, Advance
     DEF Announces, Advances, RequestInv, KeyInv, QuoteInv, FundsInv, WritesInv, tables

(* Under the lock, a pending quote has no transaction. *)
LEMMA PendingQuoteIsFree ==
  ASSUME IInv, NEW r \in Requests, pc[r] \in Executing
  PROVE  ~QuoteTaken(r)
<1>1. status[body[r].quote] = "pending" /\ body[r].quote \in Quotes
  BY CallFacts DEF IInv, RequestInv, QuoteInv
<1>2. \A t \in transactions : t.quote # body[r].quote
  BY <1>1 DEF IInv, StatusFollowsTransactions
<1>3. QED
  BY <1>2 DEF QuoteTaken

(* Record: the index on quote_id never refuses, and the one on the key is  *)
(* the caller's from here on.                                              *)
LEMMA RecordKeeps ==
  ASSUME IInv, NEW r \in Requests, Record(r)
  PROVE  IInv'
<1> USE DEF WithKey, WithQuote, Executing, WithFirst, WithBalances, Covered, Recorded
<1>1. /\ pc[r] = "record" /\ pc[r] \in WithKey
      /\ UNCHANGED <<clock, body, available, lockedAt, published>>
  BY DEF Record, At, Rest
<1>2. ~QuoteTaken(r)
  BY <1>1, PendingQuoteIsFree
<1>3. CASE Abort(r, "duplicate_idempotency_key")
  BY <1>1, <1>3, Stop DEF InternalErrors
<1>4. CASE ~KeyTaken(r) /\ Statement(r, "debit", {"tx"})
  <2>1. \A t \in transactions : t.key # body[r].key
    BY <1>4 DEF KeyTaken
  <2>2. TxKey(body[r].key) \in Wants(r)
    BY <1>1, WantsOf
  <2>3. {"tx"} \in SUBSET Writes
    BY DEF Writes
  <2>4. QED
    BY <1>1, <1>4, <2>1, <2>2, <2>3, Advance
       DEF Announces, Advances, RequestInv, KeyInv, QuoteInv, FundsInv,
       WritesInv, tables
<1>5. QED
  BY <1>2, <1>3, <1>4 DEF Record, Refuse

(* Debit: the balance that was checked is still enough, so the CHECK on it *)
(* never refuses.                                                          *)
LEMMA DebitKeeps ==
  ASSUME IInv, NEW r \in Requests, Debit(r)
  PROVE  IInv'
<1> USE DEF WithKey, WithQuote, Executing, WithFirst, WithBalances, Covered, Recorded
<1> DEFINE t == TermsOf(r)
<1>1. /\ pc[r] = "debit" /\ pc[r] \in WithKey
      /\ UNCHANGED <<clock, body, available, lockedAt, published>>
  BY DEF Debit, At, Rest
<1>2. SessionsTyped /\ RequestInv(r) /\ balances \in [Accounts -> Nat]
  BY DEF IInv, TypeOK
<1>3. t \in Term
  BY <1>1, <1>2, CallFacts DEF RequestInv, QuoteInv, TermsOf
<1>4. t.famt \in Nat /\ FromAcct(t) \in Accounts
  BY <1>3, TermFacts
<1>5. ~(balances[FromAcct(t)] < t.famt)
  BY <1>1, <1>2, <1>4 DEF RequestInv, FundsInv
<1>6. CASE Abort(r, "ledger_entries_amount_positive")
  BY <1>1, <1>6, Stop DEF InternalErrors
<1>7. CASE t.famt # 0 /\ Statement(r, "credit", {"debit", "debit_entry"})
  <2>1. t.famt > 0
    BY <1>4, <1>7
  <2>2. {"debit", "debit_entry"} \in SUBSET Writes
    BY DEF Writes
  <2>3. QED
    BY <1>1, <1>7, <2>1, <2>2, Advance
       DEF Announces, Advances, RequestInv, KeyInv, QuoteInv, FundsInv,
       WritesInv, tables
<1>8. QED
  BY <1>5, <1>6, <1>7 DEF Debit, Refuse

(* Credit *)
LEMMA CreditKeeps ==
  ASSUME IInv, NEW r \in Requests, Credit(r)
  PROVE  IInv'
<1> USE DEF WithKey, WithQuote, Executing, WithFirst, WithBalances, Covered, Recorded
<1> DEFINE t == TermsOf(r)
<1>1. /\ pc[r] = "credit" /\ pc[r] \in WithKey
      /\ UNCHANGED <<clock, body, available, lockedAt, published>>
  BY DEF Credit, At, Rest
<1>2. SessionsTyped /\ RequestInv(r)
  BY DEF IInv
<1>3. t \in Term
  BY <1>1, <1>2, CallFacts DEF RequestInv, QuoteInv, TermsOf
<1>4. CASE Abort(r, "ledger_entries_amount_positive")
  BY <1>1, <1>4, Stop DEF InternalErrors
<1>5. CASE t.tamt # 0 /\ Statement(r, "complete", {"credit", "credit_entry"})
  <2>1. t.tamt > 0
    BY <1>3, <1>5, TermFacts
  <2>2. {"credit", "credit_entry"} \in SUBSET Writes
    BY DEF Writes
  <2>3. QED
    BY <1>1, <1>5, <2>1, <2>2, Advance
       DEF Announces, Advances, RequestInv, KeyInv, QuoteInv, FundsInv,
       WritesInv, tables
<1>6. QED
  BY <1>4, <1>5 DEF Credit, Refuse

(* Complete *)
LEMMA CompleteKeeps ==
  ASSUME IInv, NEW r \in Requests, Complete(r)
  PROVE  IInv'
<1> USE DEF WithKey, WithQuote, Executing, WithFirst, WithBalances, Covered, Recorded
<1>1. /\ pc[r] = "complete" /\ pc[r] \in WithKey /\ Statement(r, "commit", {"completed"})
      /\ UNCHANGED <<clock, body, available, lockedAt, published>>
  BY DEF Complete, At, Rest
<1>2. {"completed"} \in SUBSET Writes
  BY DEF Writes
<1>3. QED
  BY <1>1, <1>2, Advance
     DEF Announces, Advances, RequestInv, KeyInv, QuoteInv, FundsInv, WritesInv, tables
-----------------------------------------------------------------------------
(* An answer outside a transaction keeps the invariant, if what it says is *)
(* committed.                                                              *)
LEMMA AnswerKeeps ==
  ASSUME IInv, NEW r \in Requests, pc[r] \in {"idle", "replay", "publish_executed"},
         NEW code \in {"idempotency_key_missing", "idempotency_conflict",
                       "execution_in_progress", "no_transaction", "executed", "replay",
                       "no_answer"},
         NEW tx \in Requests \cup {NoRow},
         Answer(r, code, tx),
         UNCHANGED <<tables, locks, wrote, clock, body, available, lockedAt>>,
         Announces(r),
         code \in {"executed", "replay"} =>
            \E t \in transactions :
                t.id = tx /\ t.quote = body[r].quote /\ t.cust = body[r].cust
                          /\ t.key = body[r].key
  PROVE  IInv'
<1>1. /\ pc \in [Sessions -> ExecutionPhases \cup FundingPhases]
      /\ AnswersTyped /\ r \in Sessions /\ r \notin Credits
  BY CallersAssumption DEF IInv, TypeOK, SessionsTyped, AnswersTyped, Sessions
<1>2. /\ pc' = [pc EXCEPT ![r] = "done"]
      /\ resp' = [resp EXCEPT ![r] = [code |-> code, tx |-> tx]]
  BY DEF Answer
<1>3. locks[r] = {} /\ wrote[r] = {}
  BY <1>1 DEF IInv, TypeOK
<1>4. AnswersTyped'
  BY <1>1, <1>2 DEF AnswersTyped, FXErrors, InternalErrors
<1>5. \A o \in Sessions \ {r} : Stands(o)
  BY <1>1, <1>2 DEF Stands, AnswersTyped
<1>6. "done" \in ExecutionPhases
  BY DEF ExecutionPhases
<1>7. Quiet(r)
  BY <1>1, <1>2, <1>3, <1>4, <1>5, <1>6 DEF Quiet, Stamps, IInv, TypeOK, SessionsTyped
<1>8. RequestInv(r)'
  <2>1. pc'[r] = "done" /\ resp'[r].code = code /\ resp'[r].tx = tx
    BY <1>1, <1>2 DEF AnswersTyped
  <2>2. AnswerInv(r)'
    BY <2>1 DEF AnswerInv, tables
  <2>3. QED
    BY <2>1, <2>2 DEF RequestInv, KeyInv, QuoteInv, FundsInv, WritesInv,
       WithKey, WithQuote, Executing, WithFirst, WithBalances, Covered, Recorded
<1>9. QED
  BY <1>1, <1>7, <1>8, QuietStep

(* A call moves on from the lookup, to the reservation or to the replay. *)
LEMMA MovesOn ==
  ASSUME IInv, NEW r \in Requests, pc[r] = "idle", NEW p \in {"reserve", "replay"},
         pc' = [pc EXCEPT ![r] = p], body[r].key \in Keys,
         UNCHANGED <<tables, locks, wrote, resp, clock, body, available, lockedAt, published>>,
         p = "replay" => \E t \in transactions :
                            t.key = body[r].key /\ Hash(t) = Hash(body[r])
  PROVE  IInv'
<1>1. /\ pc \in [Sessions -> ExecutionPhases \cup FundingPhases]
      /\ AnswersTyped /\ r \in Sessions /\ r \notin Credits
      /\ locks[r] = {} /\ wrote[r] = {} /\ p \in ExecutionPhases
  BY CallersAssumption
     DEF IInv, TypeOK, SessionsTyped, AnswersTyped, Sessions, ExecutionPhases
<1>2. \A o \in Sessions \ {r} : Stands(o)
  BY <1>1 DEF Stands
<1>3. Quiet(r)
  BY <1>1, <1>2 DEF Quiet, Stamps, Announces, IInv, TypeOK, SessionsTyped, AnswersTyped
<1>4. pc'[r] = p /\ RequestInv(r)
  BY <1>1 DEF IInv
<1>5. AnswerInv(r)'
  BY <1>4 DEF RequestInv, AnswerInv, tables, Hash
<1>6. RequestInv(r)'
  BY <1>1, <1>4, <1>5 DEF RequestInv, KeyInv, QuoteInv, FundsInv, WritesInv,
     tables, WithKey, WithQuote, Executing, WithFirst, WithBalances, Covered, Recorded
<1>7. QED
  BY <1>1, <1>3, <1>6, QuietStep

(* Lookup: a completed key row with the caller's hash has a transaction,   *)
(* which is the caller's.                                                  *)
LEMMA LookupKeeps ==
  ASSUME IInv, NEW r \in Requests, Lookup(r)
  PROVE  IInv'
<1> DEFINE k == body[r].key
<1>1. /\ pc[r] = "idle"
      /\ UNCHANGED <<tables, locks, wrote, clock, body, available, lockedAt, published>>
  BY DEF Lookup, At, Rest
<1>2. k \in Keys \cup {NoKey}
  BY CallFacts DEF IInv
<1>3. ASSUME NEW code \in {"idempotency_key_missing", "idempotency_conflict",
                           "execution_in_progress"}, Answer(r, code, NoRow)
      PROVE  IInv'
  BY <1>1, <1>3, AnswerKeeps DEF Announces
<1>4. CASE k # NoKey /\ keys[k] # NoRow /\ keys[k].hash = Hash(body[r])
           /\ pc' = [pc EXCEPT ![r] = "replay"] /\ UNCHANGED resp
  <2>1. {Hash(t) : t \in {u \in transactions : u.key = k}} = {keys[k].hash}
    BY <1>2, <1>4 DEF IInv, KeyRecordsItsTransaction
  <2>2. \E t \in transactions : t.key = k /\ Hash(t) = Hash(body[r])
    BY <1>4, <2>1
  <2>3. QED
    BY <1>1, <1>2, <1>4, <2>2, MovesOn
<1>5. CASE k # NoKey /\ keys[k] = NoRow /\ pc' = [pc EXCEPT ![r] = "reserve"] /\ UNCHANGED resp
  BY <1>1, <1>2, <1>5, MovesOn
<1>6. QED
  BY <1>3, <1>4, <1>5 DEF Lookup

(* Replay answers with that transaction: no other one has its key. *)
LEMMA ReplayAnswers ==
  ASSUME IInv, NEW r \in Requests, Replay(r)
  PROVE  \E t \in transactions :
            /\ t.key = body[r].key /\ Hash(t) = Hash(body[r])
            /\ Answer(r, "replay", t.id)
<1>1. PICK t \in transactions : t.key = body[r].key /\ Hash(t) = Hash(body[r])
  BY DEF Replay, At, IInv, RequestInv, AnswerInv
<1>2. {u \in transactions : u.key = body[r].key} = {t}
  BY <1>1 DEF IInv, TransactionsInv
<1>3. QED
  BY <1>1, <1>2 DEF Replay

LEMMA ReplayKeeps ==
  ASSUME IInv, NEW r \in Requests, Replay(r)
  PROVE  IInv'
<1>1. PICK t \in transactions : /\ t.key = body[r].key /\ Hash(t) = Hash(body[r])
                                /\ Answer(r, "replay", t.id)
  BY ReplayAnswers
<1>2. /\ pc[r] = "replay"
      /\ UNCHANGED <<tables, locks, wrote, clock, body, available, lockedAt, published>>
  BY DEF Replay, At, Rest
<1>3. t.quote = body[r].quote /\ t.cust = body[r].cust
  BY <1>1 DEF Hash
<1>4. t.id \in Requests \cup {NoRow}
  BY DEF IInv, TypeOK, Transaction
<1>5. QED
  BY <1>1, <1>2, <1>3, <1>4, AnswerKeeps DEF Announces

(* PublishExecuted and Lost: what is announced and answered is committed. *)
LEMMA AfterCommitKeeps ==
  ASSUME IInv, NEW r \in Requests, PublishExecuted(r) \/ Lost(r)
  PROVE  IInv'
<1>1. /\ pc[r] = "publish_executed"
      /\ UNCHANGED <<tables, locks, wrote, clock, body, available, lockedAt>>
  BY DEF PublishExecuted, Lost, At, Rest
<1>2. TransactionOf(r) \in transactions
  BY <1>1 DEF IInv, RequestInv, AnswerInv
<1>3. \E t \in transactions :
          t.id = r /\ t.quote = body[r].quote /\ t.cust = body[r].cust /\ t.key = body[r].key
  BY <1>2 DEF TransactionOf
<1>4. CASE PublishExecuted(r)
  <2>1. Answer(r, "executed", r)
    BY <1>4 DEF PublishExecuted
  <2>2. Announces(r)
    <3>1. body[r].quote \in Quotes /\ r \in Sessions
      BY CallFacts DEF IInv, Sessions
    <3>2. [type |-> "quote.executed", quote |-> body[r].quote, by |-> r] \in Messages
      BY <3>1 DEF Messages
    <3>3. pc'[r] = "done"
      BY <2>1, <3>1 DEF Answer, IInv, SessionsTyped
    <3>4. QED
      BY <1>1, <1>3, <1>4, <3>2, <3>3 DEF PublishExecuted, Publish, Announces
  <2>3. QED
    BY <1>1, <1>3, <2>1, <2>2, AnswerKeeps
<1>5. CASE Lost(r)
  BY <1>1, <1>5, AnswerKeeps DEF Lost, Rest, Announces
<1>6. QED
  BY <1>4, <1>5
-----------------------------------------------------------------------------
(* Fail, of an execution or a funding call. *)
LEMMA FailKeeps ==
  ASSUME IInv, NEW s \in Sessions, Fail(s)
  PROVE  IInv'
BY AbortKeeps DEF Fail, Rest, Stamps, InternalErrors

(* AddFunds and EnterFunds *)
LEMMA FundingKeeps ==
  ASSUME IInv, NEW c \in Credits, AddFunds(c) \/ EnterFunds(c)
  PROVE  IInv'
<1>1. /\ c \in Sessions /\ c \notin Requests /\ SessionsTyped /\ CreditInv(c)
      /\ pc[c] \in {"fund", "fund_entry"}
      /\ UNCHANGED <<clock, body, available, lockedAt, published>>
  BY CallersAssumption DEF Sessions, IInv, AddFunds, EnterFunds, At, Rest
<1>2. ASSUME NEW p \in {"fund_entry", "fund_commit"}, NEW W \in SUBSET Writes,
             Statement(c, p, W), CreditInv(c)'
      PROVE  IInv'
  <2>1. \A o \in Sessions \ {c} : Stands(o)
    BY <1>1, <1>2, StatementFacts DEF Stands
  <2>2. AnswersTyped'
    BY <1>1, <1>2, StatementFacts DEF IInv, TypeOK, AnswersTyped
  <2>3. pc' \in [Sessions -> ExecutionPhases \cup FundingPhases] /\ pc'[c] = p
        /\ p \in FundingPhases
    BY <1>1, <1>2, StatementFacts DEF SessionsTyped, FundingPhases
  <2>4. Quiet(c)
    BY <1>1, <1>2, <2>1, <2>2, <2>3, StatementFacts
       DEF Quiet, Stamps, Announces, SessionsTyped
  <2>5. QED
    BY <1>1, <1>2, <2>4, QuietStep
<1>3. CASE AddFunds(c)
  <2>1. pc[c] = "fund" /\ Statement(c, "fund_entry", {"credit"})
    BY <1>3 DEF AddFunds, At
  <2>2. Wants(c) = {BalanceRow(body[c].acct)}
    BY <2>1, WantsOf
  <2>3. CreditInv(c)'
    <3>1. /\ pc'[c] = "fund_entry" /\ UNCHANGED tables
          /\ locks'[c] = locks[c] \cup Wants(c) /\ wrote'[c] = wrote[c] \cup {"credit"}
      BY <1>1, <2>1, StatementFacts
    <3>2. QED
      BY <1>1, <2>1, <2>2, <3>1 DEF CreditInv, tables
  <2>4. {"credit"} \in SUBSET Writes
    BY DEF Writes
  <2>5. QED
    BY <1>2, <2>1, <2>3, <2>4
<1>4. CASE EnterFunds(c) /\ body[c].amt > 0
  <2>1. pc[c] = "fund_entry" /\ Statement(c, "fund_commit", {"credit_entry"})
    BY <1>4 DEF EnterFunds, At
  <2>2. CreditInv(c)'
    <3>1. /\ pc'[c] = "fund_commit" /\ UNCHANGED tables
          /\ locks'[c] = locks[c] \cup Wants(c)
          /\ wrote'[c] = wrote[c] \cup {"credit_entry"}
      BY <1>1, <2>1, StatementFacts
    <3>2. QED
      BY <1>1, <1>4, <2>1, <3>1 DEF CreditInv, tables
  <2>3. {"credit_entry"} \in SUBSET Writes
    BY DEF Writes
  <2>4. QED
    BY <1>2, <2>1, <2>2, <2>3
<1>5. CASE EnterFunds(c) /\ ~(body[c].amt > 0)
  <2>1. Abort(c, "ledger_entries_amount_positive")
    BY <1>5 DEF EnterFunds
  <2>2. QED
    BY <1>1, <2>1, AbortKeeps DEF InternalErrors, Stamps
<1>6. QED
  BY <1>3, <1>4, <1>5

(* Tick *)
LEMMA TickKeeps ==
  ASSUME IInv, Tick
  PROVE  IInv'
<1>1. /\ clock \in 0 .. MaxClock /\ clock < MaxClock /\ clock' = clock + 1
      /\ UNCHANGED <<tables, session, body, available, lockedAt, published>>
  BY DEF Tick, IInv, TypeOK
<1>2. TypeOK'
  BY <1>1, ClockAssumption DEF IInv, TypeOK, tables, session
<1>3. SessionsTyped'
  BY <1>1, ClockAssumption DEF IInv, SessionsTyped, tables, session
<1>4. LocksExclude'
  BY <1>1 DEF IInv, LocksExclude, session
<1>5. \A r \in Requests : RequestInv(r)'
  BY <1>1, RequestFrame DEF IInv, Stands, session
<1>6. \A c \in Credits : CreditInv(c)'
  BY <1>1, CreditFrame DEF IInv, Stands, session
<1>7. TransactionsInv'
  BY <1>1 DEF IInv, TransactionsInv, TransactionOf, tables, session
<1>8. StatusFollowsTransactions' /\ KeyRecordsItsTransaction' /\ LockedInTime' /\ EventsInv'
  BY <1>1 DEF IInv, StatusFollowsTransactions, KeyRecordsItsTransaction, LockedInTime,
     EventsInv, Executed, tables, session, Hash
<1>9. QED
  BY <1>2, <1>3, <1>4, <1>5, <1>6, <1>7, <1>8 DEF IInv

(* CreateQuote: nobody holds or has executed a quote that is not there. *)
LEMMA CreateQuoteKeeps ==
  ASSUME IInv, NEW q \in Quotes, CreateQuote(q)
  PROVE  IInv'
<1>1. PICK t \in Terms[q] : quotes' = [quotes EXCEPT ![q] = t]
  BY DEF CreateQuote
<1>2. /\ quotes[q] = NoQuote
      /\ expires' = [expires EXCEPT ![q] = clock + TTL]
      /\ status' = [status EXCEPT ![q] = "pending"]
      /\ UNCHANGED <<rows, balances, ledger, transactions, keys, session,
                     clock, body, available, lockedAt, published>>
  BY DEF CreateQuote, Rest, Now
<1>3. t \in Term
  BY TermsAssumption
<1>4. \A u \in transactions : u.quote \in Quotes /\ u.quote # q
  BY <1>2 DEF IInv, TypeOK, Transaction, TransactionsInv
<1>5. TypeOK'
  <2>1. quotes \in [Quotes -> Term \cup {NoQuote}] /\ TypeOK
    BY DEF IInv, SessionsTyped
  <2>2. \A p \in Quotes : quotes'[p] \in Terms[p] \cup {NoQuote}
    BY <1>1, <2>1 DEF TypeOK
  <2>3. expires' \in [Quotes -> 0 .. MaxClock + TTL]
    BY <1>2, <2>1, ClockAssumption DEF TypeOK
  <2>4. status' \in [Quotes -> {"pending", "executed", "expired"}]
    BY <1>2, <2>1 DEF TypeOK
  <2>5. QED
    BY <1>2, <2>1, <2>2, <2>3, <2>4 DEF TypeOK, session
<1>6. SessionsTyped'
  BY <1>1, <1>2, <1>3 DEF IInv, SessionsTyped, session
<1>7. ASSUME NEW p \in Quotes, p # q
      PROVE  quotes'[p] = quotes[p] /\ expires'[p] = expires[p] /\ status'[p] = status[p]
  BY <1>1, <1>2, <1>7 DEF IInv, SessionsTyped, TypeOK
<1>8. ASSUME NEW r \in Requests PROVE RequestInv(r)'
  <2>1. body[r].quote \in Quotes /\ RequestInv(r)
    BY CallFacts DEF IInv
  <2>2. pc[r] \in WithQuote => TermsOf(r)' = TermsOf(r)
    BY <1>2, <1>7, <2>1 DEF RequestInv, QuoteInv, TermsOf
  <2>3. KeyInv(r)' /\ WritesInv(r)' /\ FundsInv(r)'
    BY <1>2, <2>1, <2>2 DEF RequestInv, KeyInv, WritesInv, FundsInv, session,
       WithQuote, Executing, WithFirst, WithBalances, Covered, Recorded
  <2>4. QuoteInv(r)'
    BY <1>2, <1>7, <2>1 DEF RequestInv, QuoteInv, session, WithQuote
  <2>5. AnswerInv(r)'
    BY <1>2, <2>1 DEF RequestInv, AnswerInv, TransactionOf, Hash, session
  <2>6. QED
    BY <2>3, <2>4, <2>5 DEF RequestInv
<1>9. \A c \in Credits : CreditInv(c)'
  BY <1>2 DEF IInv, CreditInv, session
<1>10. TransactionsInv' /\ LockedInTime'
  BY <1>2, <1>4, <1>7 DEF IInv, TransactionsInv, LockedInTime, TransactionOf, session
<1>11. StatusFollowsTransactions'
  BY <1>2, <1>4, <1>7 DEF IInv, TypeOK, StatusFollowsTransactions
<1>12. KeyRecordsItsTransaction' /\ EventsInv' /\ LocksExclude'
  BY <1>2 DEF IInv, KeyRecordsItsTransaction, EventsInv, Executed, LocksExclude, Hash, session
<1>13. QED
  BY <1>5, <1>6, <1>8, <1>9, <1>10, <1>11, <1>12 DEF IInv
-----------------------------------------------------------------------------
(* A commit changes only rows its session has locked. *)
CommitsWhatItLocked(s) ==
    /\ UNCHANGED <<quotes, expires>>
    /\ \A a \in Accounts : BalanceRow(a) \notin locks[s] => balances'[a] = balances[a]
    /\ \A q \in Quotes : QuoteRow(q) \notin locks[s] => status'[q] = status[q]
    /\ \A k \in Keys : KeyRow(k) \notin locks[s] => keys'[k] = keys[k]
    /\ \A k \in Keys : keys[k] # NoRow => keys'[k] # NoRow
    /\ transactions \subseteq transactions'
    /\ \A t \in transactions' \ transactions : TxKey(t.key) \in locks[s]

(* So it keeps what is known of every other execution. *)
LEMMA CommitFrame ==
  ASSUME IInv, NEW s \in Sessions, CommitsWhatItLocked(s),
         NEW r \in Requests, r # s, Stands(r)
  PROVE  RequestInv(r)'
<1> DEFINE q == body[r].quote
           k == body[r].key
           t == TermsOf(r)
<1>1. RequestInv(r) /\ SessionsTyped /\ q \in Quotes /\ locks[r] \cap locks[s] = {}
  BY CallFacts DEF IInv, LocksExclude, Sessions
<1>2. TermsOf(r)' = t
  BY DEF CommitsWhatItLocked, Stands, TermsOf
<1>3. KeyInv(r)'
  <2>1. pc[r] \in WithKey /\ KeyRow(k) \in locks[r] => keys'[k] = keys[k]
    BY <1>1 DEF CommitsWhatItLocked, RequestInv, KeyInv
  <2>2. pc[r] \in WithKey /\ keys[k] # NoRow => keys'[k] # NoRow
    BY <1>1 DEF CommitsWhatItLocked, RequestInv, KeyInv
  <2>3. QED
    BY <1>1, <2>1, <2>2 DEF RequestInv, KeyInv, Stands
<1>4. QuoteInv(r)'
  <2>1. pc[r] \in WithQuote => status'[q] = status[q]
    BY <1>1 DEF CommitsWhatItLocked, RequestInv, QuoteInv
  <2>2. QED
    BY <1>1, <2>1 DEF RequestInv, QuoteInv, Stands, CommitsWhatItLocked, WithQuote
<1>5. FundsInv(r)'
  <2>1. pc[r] \in WithFirst => t \in Term
    BY <1>1, CallFacts DEF RequestInv, QuoteInv, TermsOf, WithQuote, Executing
  <2>2. /\ pc[r] = "lock_second" /\ First(t) = FromAcct(t) =>
             balances'[FromAcct(t)] = balances[FromAcct(t)]
        /\ pc[r] \in WithBalances => balances'[FromAcct(t)] = balances[FromAcct(t)]
    BY <1>1, <2>1, TermFacts DEF CommitsWhatItLocked, RequestInv, FundsInv, WithFirst
  <2>3. QED
    BY <1>1, <1>2, <2>2 DEF RequestInv, FundsInv, Stands, WithBalances, Covered, Recorded
<1>6. WritesInv(r)'
  <2>1. ASSUME pc[r] \in Recorded, NEW u \in transactions' PROVE u.key # k
    <3>1. TxKey(k) \in locks[r] /\ \A x \in transactions : x.key # k
      BY <1>1, <2>1 DEF RequestInv, WritesInv
    <3>2. u \notin transactions => TxKey(u.key) \notin locks[r]
      BY <1>1 DEF CommitsWhatItLocked
    <3>3. QED
      BY <3>1, <3>2
  <2>2. QED
    BY <1>1, <1>2, <2>1 DEF RequestInv, WritesInv, Stands
<1>7. AnswerInv(r)'
  BY <1>1 DEF RequestInv, AnswerInv, Stands, CommitsWhatItLocked, TransactionOf, Hash
<1>8. QED
  BY <1>3, <1>4, <1>5, <1>6, <1>7 DEF RequestInv

(* What CommitFunds moves: by then both statements have run. *)
LEMMA CommitFundsView ==
  ASSUME IInv, NEW c \in Credits, CommitFunds(c)
  PROVE  /\ pc[c] = "fund_commit" /\ body[c].amt > 0 /\ \A e \in ledger : e.ref # c
         /\ BalanceRow(body[c].acct) \in locks[c]
         /\ balances' = [balances EXCEPT ![body[c].acct] = @ + body[c].amt]
         /\ ledger' = ledger \cup {FundEntry(c, body[c])}
<1>1. pc[c] = "fund_commit" /\ CreditInv(c)
  BY DEF CommitFunds, At, IInv
<1>2. QED
  BY <1>1 DEF CommitFunds, CreditInv

(* CommitFunds *)
LEMMA CommitFundsKeeps ==
  ASSUME IInv, NEW c \in Credits, CommitFunds(c)
  PROVE  IInv'
<1> DEFINE a == body[c].acct
           n == body[c].amt
<1>1. /\ TypeOK /\ SessionsTyped /\ LocksExclude /\ TransactionsInv
      /\ c \in Sessions /\ c \notin Requests /\ a \in Accounts /\ n \in Nat
  BY FundingFacts, CallersAssumption DEF IInv, Sessions
<1>2. /\ pc[c] = "fund_commit" /\ n > 0 /\ BalanceRow(a) \in locks[c]
      /\ balances' = [balances EXCEPT ![a] = @ + n]
      /\ ledger' = ledger \cup {FundEntry(c, body[c])}
  BY CommitFundsView
<1>3. /\ rows' = rows \cup {a}
      /\ locks' = [locks EXCEPT ![c] = {}] /\ wrote' = [wrote EXCEPT ![c] = {}]
      /\ pc' = [pc EXCEPT ![c] = "done"]
      /\ resp' = [resp EXCEPT ![c] = [code |-> "credited", tx |-> NoRow]]
      /\ UNCHANGED <<quotes, expires, status, transactions, keys,
                     clock, body, available, lockedAt, published>>
  BY DEF CommitFunds, Answer, Rest
<1>4. AnswersTyped /\ AnswersTyped'
  BY <1>1, <1>3 DEF AnswersTyped, TypeOK
<1>5. \A o \in Sessions \ {c} : Stands(o)
  BY <1>1, <1>3, <1>4 DEF Stands, AnswersTyped, TypeOK, SessionsTyped
<1>6. pc'[c] = "done" /\ locks'[c] = {} /\ wrote'[c] = {}
  BY <1>1, <1>3 DEF TypeOK, SessionsTyped
<1>0. EventsInv'
  <2>1. \A o \in Requests : pc'[o] = pc[o]
    BY <1>1, <1>5 DEF Stands, Sessions
  <2>2. QED
    BY <1>1, <1>3, <2>1, EventsKept DEF Announces
<1>7. TypeOK'
  <2>1. FundEntry(c, body[c]) \in Entry
    BY <1>1 DEF FundEntry, Entry
  <2>2. /\ balances' \in [Accounts -> Nat] /\ rows' \subseteq Accounts
        /\ \A b \in Accounts \ rows' : balances'[b] = 0
    BY <1>1, <1>2, <1>3 DEF TypeOK
  <2>3. /\ locks' \in [Sessions -> SUBSET Resources]
        /\ wrote' \in [Sessions -> SUBSET Writes]
        /\ \A s \in Sessions : pc'[s] \in {"idle", "replay", "done", "publish_executed"} =>
              locks'[s] = {} /\ wrote'[s] = {}
    BY <1>1, <1>3, <1>5, <1>6 DEF TypeOK, Stands
  <2>4. QED
    BY <1>1, <1>2, <1>3, <1>4, <2>1, <2>2, <2>3 DEF TypeOK, AnswersTyped
<1>8. SessionsTyped'
  BY <1>1, <1>3, CallersAssumption DEF SessionsTyped, FundingPhases
<1>9. LocksExclude'
  BY <1>1, <1>5, <1>6 DEF LocksExclude, Stands
<1>10. CommitsWhatItLocked(c)
  BY <1>1, <1>2, <1>3 DEF CommitsWhatItLocked, TypeOK
<1>11. \A r \in Requests : RequestInv(r)'
  BY <1>1, <1>5, <1>10, CommitFrame DEF Sessions
<1>12. ASSUME NEW d \in Credits PROVE CreditInv(d)'
  <2>1. CASE d = c
    BY <1>6, <2>1 DEF CreditInv
  <2>2. CASE d # c
    <3>1. Stands(d) /\ CreditInv(d)
      BY <1>5, <2>2 DEF Sessions, IInv
    <3>2. FundEntry(c, body[c]).ref # d
      BY <2>2 DEF FundEntry
    <3>3. QED
      BY <1>2, <3>1, <3>2 DEF CreditInv, Stands
  <2>3. QED
    BY <2>1, <2>2
<1>13. TransactionsInv'
  <2>1. \A t \in transactions : t.id \in Requests /\ pc'[t.id] = pc[t.id]
    BY <1>1, <1>5 DEF TypeOK, Transaction, Stands, Sessions
  <2>2. QED
    BY <1>1, <1>3, <2>1 DEF TransactionsInv, TransactionOf
<1>14. StatusFollowsTransactions' /\ KeyRecordsItsTransaction' /\ LockedInTime'
  BY <1>3 DEF IInv, StatusFollowsTransactions, KeyRecordsItsTransaction, LockedInTime, Hash
<1>15. QED
  BY <1>0, <1>7, <1>8, <1>9, <1>11, <1>12, <1>13, <1>14 DEF IInv

(* What Commit moves: every statement before it has run, the key row is    *)
(* the caller's own, and the quote, the key and the call are unused.       *)
LEMMA CommitView ==
  ASSUME IInv, NEW r \in Requests, Commit(r)
  PROVE  LET q == body[r].quote
             k == body[r].key
             t == TermsOf(r)
             x == TransactionOf(r)
         IN  /\ pc[r] = "commit" /\ q \in Quotes /\ k \in Keys /\ t \in Term
             /\ t.famt > 0 /\ t.tamt > 0 /\ balances[FromAcct(t)] >= t.famt
             /\ t.cust = body[r].cust /\ lockedAt[r] <= expires[q]
             /\ {KeyRow(k), QuoteRow(q), TxKey(k), BalanceRow(FromAcct(t)),
                 BalanceRow(ToAcct(t))} \subseteq locks[r]
             /\ keys[k] = NoRow
             /\ \A u \in transactions : u.id # r /\ u.quote # q /\ u.key # k
             /\ status' = [status EXCEPT ![q] = "executed"]
             /\ balances' = [a \in Accounts |->
                               balances[a] + (IF a = ToAcct(t) THEN t.tamt ELSE 0)
                                           - (IF a = FromAcct(t) THEN t.famt ELSE 0)]
             /\ ledger' = ledger \cup {DebitEntry(r, t), CreditEntry(r, t)}
             /\ transactions' = transactions \cup {x}
             /\ keys' = [keys EXCEPT ![k] = [hash |-> Hash(body[r]), completed |-> TRUE]]
<1> USE DEF WithKey, WithQuote, Executing, WithFirst, WithBalances, Covered, Recorded
<1> DEFINE q == body[r].quote
           k == body[r].key
           t == TermsOf(r)
<1>1. /\ pc[r] = "commit" /\ RequestInv(r) /\ SessionsTyped /\ q \in Quotes
      /\ r \in Sessions /\ wrote[r] \subseteq Writes
  BY CallFacts DEF Commit, At, IInv, TypeOK, Sessions
<1>2. t \in Term /\ t.cust = body[r].cust /\ QuoteRow(q) \in locks[r]
      /\ lockedAt[r] <= expires[q]
  BY <1>1, CallFacts DEF RequestInv, QuoteInv, TermsOf
<1>3. /\ balances[FromAcct(t)] >= t.famt
      /\ {BalanceRow(FromAcct(t)), BalanceRow(ToAcct(t))} \subseteq locks[r]
  BY <1>1, <1>2, TermFacts DEF RequestInv, FundsInv
<1>4. /\ {"executed", "tx", "debit", "debit_entry", "credit", "credit_entry",
          "completed"} \subseteq wrote[r]
      /\ t.famt > 0 /\ t.tamt > 0 /\ TxKey(k) \in locks[r]
      /\ \A u \in transactions : u.key # k
  BY <1>1 DEF RequestInv, WritesInv
<1>5. k \in Keys /\ "key" \in wrote[r] /\ KeyRow(k) \in locks[r] /\ keys[k] = NoRow
  <2>1. k \in Keys
    BY <1>1 DEF RequestInv, KeyInv
  <2>2. keys[k] # NoRow => \E u \in transactions : u.key = k
    BY <2>1 DEF IInv, KeyRecordsItsTransaction
  <2>3. QED
    BY <1>1, <1>4, <2>1, <2>2 DEF RequestInv, KeyInv
<1>6. \A u \in transactions : u.id # r /\ u.quote # q
  <2>1. \A u \in transactions : u.id # r
    BY <1>1 DEF IInv, TransactionsInv
  <2>2. QED
    BY <1>1, <2>1, PendingQuoteIsFree DEF QuoteTaken
<1>7. ledger' = ledger \cup {DebitEntry(r, t), CreditEntry(r, t)}
  <2>1. DebitEntry(r, t).dir = "debit" /\ CreditEntry(r, t).dir = "credit"
    BY DEF DebitEntry, CreditEntry
  <2>2. EntriesOf(r) = {DebitEntry(r, t), CreditEntry(r, t)}
    BY <1>4, <2>1 DEF EntriesOf
  <2>3. QED
    BY <2>2 DEF Commit
<1>8. balances' = [a \in Accounts |->
                     balances[a] + (IF a = ToAcct(t) THEN t.tamt ELSE 0)
                                 - (IF a = FromAcct(t) THEN t.famt ELSE 0)]
  BY <1>4 DEF Commit, BalancesAfter
<1>9. /\ status' = [status EXCEPT ![q] = "executed"]
      /\ transactions' = transactions \cup {TransactionOf(r)}
  BY <1>4 DEF Commit, StatusAfter
<1>10. keys' = [keys EXCEPT ![k] = [hash |-> Hash(body[r]), completed |-> TRUE]]
  BY <1>4, <1>5 DEF Commit, KeyAfter
<1>11. QED
  BY <1>1, <1>2, <1>3, <1>4, <1>5, <1>6, <1>7, <1>8, <1>9, <1>10

(* Commit *)
LEMMA CommitKeeps ==
  ASSUME IInv, NEW r \in Requests, Commit(r)
  PROVE  IInv'
<1> DEFINE q == body[r].quote
           k == body[r].key
           t == TermsOf(r)
           x == TransactionOf(r)
           row == [hash |-> Hash(body[r]), completed |-> TRUE]
<1>1. /\ TypeOK /\ SessionsTyped /\ LocksExclude /\ TransactionsInv
      /\ r \in Sessions /\ r \notin Credits /\ RequestInv(r)
  BY CallersAssumption DEF IInv, Sessions
<1>2. /\ pc[r] = "commit" /\ q \in Quotes /\ k \in Keys /\ t \in Term
      /\ t.famt > 0 /\ t.tamt > 0 /\ balances[FromAcct(t)] >= t.famt
      /\ t.cust = body[r].cust /\ lockedAt[r] <= expires[q]
      /\ {KeyRow(k), QuoteRow(q), TxKey(k), BalanceRow(FromAcct(t)),
          BalanceRow(ToAcct(t))} \subseteq locks[r]
      /\ keys[k] = NoRow
      /\ \A u \in transactions : u.id # r /\ u.quote # q /\ u.key # k
      /\ status' = [status EXCEPT ![q] = "executed"]
      /\ balances' = [a \in Accounts |->
                        balances[a] + (IF a = ToAcct(t) THEN t.tamt ELSE 0)
                                    - (IF a = FromAcct(t) THEN t.famt ELSE 0)]
      /\ ledger' = ledger \cup {DebitEntry(r, t), CreditEntry(r, t)}
      /\ transactions' = transactions \cup {x}
      /\ keys' = [keys EXCEPT ![k] = row]
  BY CommitView
<1>3. /\ rows' = rows \cup {a \in Accounts : BalanceRow(a) \in locks[r]}
      /\ locks' = [locks EXCEPT ![r] = {}] /\ wrote' = [wrote EXCEPT ![r] = {}]
      /\ pc' = [pc EXCEPT ![r] = "publish_executed"]
      /\ UNCHANGED <<quotes, expires, resp, clock, body, available, lockedAt, published>>
  BY DEF Commit, Rest
<1>4. /\ FromAcct(t) \in Accounts /\ ToAcct(t) \in Accounts
      /\ t.famt \in Nat /\ t.tamt \in Nat
      /\ body[r].cust \in Customers /\ quotes[q] = t /\ t # NoQuote
  BY <1>1, <1>2, TermFacts, CallFacts, TermsAssumption DEF TermsOf
<1>5. /\ x.id = r /\ x.quote = q /\ x.cust = body[r].cust /\ x.key = k
      /\ x \in Transaction /\ x' = x
  BY <1>2, <1>3, <1>4 DEF TransactionOf, Transaction
<1>6. row \in [hash : Quotes \X Customers, completed : BOOLEAN] /\ row # NoRow
      /\ row.hash = Hash(body[r]) /\ row.completed /\ Hash(x) = Hash(body[r])
  <2>1. Hash(body[r]) \in Quotes \X Customers /\ Hash(x) = Hash(body[r])
    BY <1>2, <1>4, <1>5 DEF Hash
  <2>2. /\ row \in [hash : Quotes \X Customers, completed : BOOLEAN]
        /\ row.hash = Hash(body[r]) /\ row.completed
    BY <2>1
  <2>3. QED
    BY <2>1, <2>2, RowsAssumption
<1> HIDE DEF t, x, row
<1>7. \A o \in Sessions \ {r} : Stands(o)
  BY <1>1, <1>3 DEF Stands, TypeOK, SessionsTyped
<1>8. pc'[r] = "publish_executed" /\ locks'[r] = {} /\ wrote'[r] = {}
  BY <1>1, <1>3 DEF TypeOK, SessionsTyped
<1>9. TypeOK'
  <2>1. {DebitEntry(r, t), CreditEntry(r, t)} \subseteq Entry
    BY <1>4 DEF DebitEntry, CreditEntry, Entry
  <2>2. balances' \in [Accounts -> Nat]
    <3>1. ASSUME NEW a \in Accounts PROVE balances'[a] \in Nat
      BY <1>1, <1>2, <1>4 DEF TypeOK
    <3>2. QED
      BY <1>2, <3>1
  <2>3. /\ rows' \subseteq Accounts
        /\ \A a \in Accounts \ rows' : balances'[a] = 0
    BY <1>1, <1>2, <1>3 DEF TypeOK
  <2>4. /\ locks' \in [Sessions -> SUBSET Resources]
        /\ wrote' \in [Sessions -> SUBSET Writes]
        /\ \A s \in Sessions : pc'[s] \in {"idle", "replay", "done", "publish_executed"} =>
              locks'[s] = {} /\ wrote'[s] = {}
    BY <1>1, <1>3, <1>7, <1>8 DEF TypeOK, Stands
  <2>5. /\ status' \in [Quotes -> {"pending", "executed", "expired"}]
        /\ keys' \in [Keys -> [hash : Quotes \X Customers, completed : BOOLEAN]
                              \cup {NoRow}]
    BY <1>1, <1>2, <1>6 DEF TypeOK
  <2>6. QED
    BY <1>1, <1>2, <1>3, <1>5, <2>1, <2>2, <2>3, <2>4, <2>5 DEF TypeOK
<1>10. SessionsTyped'
  BY <1>1, <1>3, CallersAssumption DEF SessionsTyped, ExecutionPhases
<1>11. LocksExclude'
  BY <1>1, <1>7, <1>8 DEF LocksExclude, Stands
<1>12. CommitsWhatItLocked(r)
  BY <1>1, <1>2, <1>3, <1>5, <1>6 DEF CommitsWhatItLocked, TypeOK
<1>13. ASSUME NEW o \in Requests PROVE RequestInv(o)'
  <2>1. CASE o = r
    <3>1. x \in transactions'
      BY <1>2
    <3>2. AnswerInv(r)'
      BY <1>1, <1>2, <1>3, <1>5, <3>1 DEF RequestInv, AnswerInv, x
    <3>3. QED
      BY <1>8, <2>1, <3>2 DEF RequestInv, KeyInv, QuoteInv, FundsInv, WritesInv,
         WithKey, WithQuote, Executing, WithFirst, WithBalances, Covered, Recorded
  <2>2. CASE o # r
    BY <1>1, <1>7, <1>12, <2>2, CommitFrame DEF Sessions
  <2>3. QED
    BY <2>1, <2>2
<1>14. ASSUME NEW c \in Credits PROVE CreditInv(c)'
  <2>1. Stands(c) /\ CreditInv(c)
    BY <1>1, <1>7 DEF Sessions, IInv
  <2>2. DebitEntry(r, t).ref # c /\ CreditEntry(r, t).ref # c
    BY <1>1 DEF DebitEntry, CreditEntry
  <2>3. QED
    BY <1>2, <2>1, <2>2 DEF CreditInv, Stands
<1>15. TransactionsInv'
  <2>1. ASSUME NEW u \in transactions
        PROVE  pc'[u.id] = pc[u.id] /\ body'[u.id] = body[u.id]
    BY <1>1, <1>2, <1>3, <1>7 DEF TypeOK, Transaction, Stands, Sessions
  <2>2. ASSUME NEW u \in transactions'
        PROVE  /\ pc'[u.id] \in {"publish_executed", "done"}
               /\ u = TransactionOf(u.id)'
               /\ quotes'[u.quote] # NoQuote
    <3>1. CASE u = x
      BY <1>3, <1>4, <1>5, <1>8, <3>1 DEF x, TransactionOf
    <3>2. CASE u \in transactions
      BY <1>1, <1>3, <2>1, <3>2 DEF TransactionsInv, TransactionOf
    <3>3. QED
      BY <1>2, <3>1, <3>2
  <2>3. \A u, v \in transactions' : u.key = v.key \/ u.quote = v.quote => u = v
    BY <1>1, <1>2, <1>5 DEF TransactionsInv
  <2>4. QED
    BY <2>2, <2>3 DEF TransactionsInv
<1>16. StatusFollowsTransactions'
  BY <1>1, <1>2, <1>5 DEF IInv, TypeOK, StatusFollowsTransactions
<1>17. KeyRecordsItsTransaction'
  <2> SUFFICES ASSUME NEW j \in Keys
               PROVE  LET paid == {u \in transactions' : u.key = j}
                      IN  IF keys'[j] = NoRow THEN paid = {}
                          ELSE /\ keys'[j].completed
                               /\ {Hash(u) : u \in paid} = {keys'[j].hash}
    BY DEF KeyRecordsItsTransaction, Hash
  <2>1. CASE j = k
    <3>1. {u \in transactions' : u.key = j} = {x}
      BY <1>2, <1>5, <2>1
    <3>2. keys'[j] = row
      BY <1>1, <1>2, <2>1 DEF TypeOK
    <3>3. QED
      BY <1>6, <3>1, <3>2
  <2>2. CASE j # k
    <3>1. {u \in transactions' : u.key = j} = {u \in transactions : u.key = j}
      BY <1>2, <1>5, <2>2
    <3>2. keys'[j] = keys[j]
      BY <1>1, <1>2, <2>2 DEF TypeOK
    <3>3. QED
      BY <3>1, <3>2 DEF IInv, KeyRecordsItsTransaction
  <2>3. QED
    BY <2>1, <2>2
<1>18. LockedInTime'
  BY <1>2, <1>3, <1>5 DEF IInv, LockedInTime
<1>19. EventsInv'
  <2>1. \A o \in Requests : pc[o] = "done" => pc'[o] = "done"
    BY <1>2, <1>7 DEF Stands, Sessions
  <2>2. QED
    BY <1>1, <1>2, <1>3, <2>1, EventsKept DEF Announces
<1>20. QED
  BY <1>9, <1>10, <1>11, <1>13, <1>14, <1>15, <1>16, <1>17, <1>18, <1>19 DEF IInv
-----------------------------------------------------------------------------
(* The invariant holds at the start ... *)
LEMMA InitInv == Init => IInv
<1> SUFFICES ASSUME Init PROVE IInv
  OBVIOUS
<1>1. TypeOK
  BY ClockAssumption DEF Init, TypeOK, Sessions
<1>2. SessionsTyped
  <2>1. \A r \in Requests : body[r] \in Bodies[r]
    BY DEF Init
  <2>2. \A c \in Credits : body[c] \in Deposits[c]
    BY DEF Init
  <2>3. QED
    BY <2>1, <2>2, CallersAssumption DEF Init, SessionsTyped, Sessions, ExecutionPhases,
       FundingPhases
<1>3. LocksExclude
  BY DEF Init, LocksExclude
<1>4. ASSUME NEW r \in Requests PROVE RequestInv(r)
  <2>1. pc[r] = "idle" /\ resp[r].code = "none"
    BY DEF Init, Sessions
  <2>2. QED
    BY <2>1 DEF RequestInv, KeyInv, QuoteInv, FundsInv, WritesInv, AnswerInv,
       WithKey, WithQuote, Executing, WithFirst, WithBalances, Covered, Recorded
<1>5. ASSUME NEW c \in Credits PROVE CreditInv(c)
  <2>1. pc[c] = "fund" /\ ledger = {}
    BY CallersAssumption DEF Init, Sessions
  <2>2. QED
    BY <2>1 DEF CreditInv
<1>6. /\ TransactionsInv /\ StatusFollowsTransactions /\ KeyRecordsItsTransaction
      /\ LockedInTime /\ EventsInv
  BY DEF Init, TransactionsInv, StatusFollowsTransactions, KeyRecordsItsTransaction,
     LockedInTime, EventsInv, Executed
<1>7. QED
  BY <1>1, <1>2, <1>3, <1>4, <1>5, <1>6 DEF IInv

(* ... a stuttering step keeps it ... *)
LEMMA UnchangedKeeps ==
  ASSUME IInv, UNCHANGED vars
  PROVE  IInv'
<1>1. UNCHANGED <<clock, tables, session, body, available, lockedAt, published>>
  BY DEF vars
<1>2. TypeOK' /\ SessionsTyped' /\ LocksExclude' /\ TransactionsInv'
  BY <1>1 DEF IInv, TypeOK, SessionsTyped, LocksExclude, TransactionsInv, TransactionOf,
     tables, session
<1>3. \A r \in Requests : RequestInv(r)'
  BY <1>1, RequestFrame DEF IInv, Stands, session
<1>4. \A c \in Credits : CreditInv(c)'
  BY <1>1, CreditFrame DEF IInv, Stands, session
<1>5. StatusFollowsTransactions' /\ KeyRecordsItsTransaction' /\ LockedInTime' /\ EventsInv'
  BY <1>1 DEF IInv, StatusFollowsTransactions, KeyRecordsItsTransaction, LockedInTime,
     EventsInv, Executed, tables, session, Hash
<1>6. QED
  BY <1>2, <1>3, <1>4, <1>5 DEF IInv

(* ... every statement of an execution keeps it ... *)
LEMMA ExecutionKeeps ==
  ASSUME IInv, NEW r \in Requests, Execution(r)
  PROVE  IInv'
BY ReplayKeeps, ReserveKeeps, LockQuoteKeeps, CheckQuoteKeeps, UpsertKeeps, LockBalancesKeeps,
   CheckFundsKeeps, MarkExecutedKeeps, RecordKeeps, DebitKeeps, CreditKeeps,
   CompleteKeeps, CommitKeeps, AfterCommitKeeps, ExpireKeeps DEF Execution

(* ... and so does every step. *)
LEMMA StepInv == IInv /\ [Next]_vars => IInv'
<1> SUFFICES ASSUME IInv, [Next]_vars PROVE IInv'
  OBVIOUS
<1>1. ASSUME NEW r \in Requests, Lookup(r) \/ Execution(r) \/ Lost(r) PROVE IInv'
  BY <1>1, LookupKeeps, ExecutionKeeps, AfterCommitKeeps
<1>2. ASSUME NEW c \in Credits, Funding(c) PROVE IInv'
  BY <1>2, FundingKeeps, CommitFundsKeeps DEF Funding
<1>3. ASSUME NEW q \in Quotes, CreateQuote(q) PROVE IInv'
  BY <1>3, CreateQuoteKeeps
<1>4. ASSUME NEW s \in Sessions, Fail(s) PROVE IInv'
  BY <1>4, FailKeeps
<1>5. QED
  BY <1>1, <1>2, <1>3, <1>4, TickKeeps, UnchangedKeeps DEF Next

(* The inductive invariant holds in every reachable state. *)
THEOREM Invariant == Spec => []IInv
BY InitInv, StepInv, PTL DEF Spec

(* Tables, locks, pending writes and answers are of their types; a balance *)
(* is never negative, and an ended session holds nothing.                  *)
THEOREM TypeCorrect == Spec => []TypeOK
<1>1. IInv => TypeOK
  BY DEF IInv
<1>2. QED
  BY <1>1, Invariant, PTL

(* The lock on the quote serialises its callers: neither UNIQUE (quote_id) *)
(* nor the CHECK on balances ever has to refuse a row.                     *)
THEOREM LockSerialisesCallers == Spec => []BackstopsSilent
<1>1. IInv => BackstopsSilent
  BY DEF IInv, RequestInv, AnswerInv, BackstopsSilent
<1>2. QED
  BY <1>1, Invariant, PTL

(* A caller is told only of a transaction that is committed and its own. *)
THEOREM AnswersCommitted == Spec => []AnswersAreCommitted
<1>1. IInv => AnswersAreCommitted
  BY DEF IInv, RequestInv, AnswerInv, AnswersAreCommitted
<1>2. QED
  BY <1>1, Invariant, PTL

(* A key row is committed with its transaction and bound to its request;   *)
(* a failed call leaves none.                                              *)
THEOREM KeysFollowTransactions == Spec => []KeyRecordsItsTransaction
<1>1. IInv => KeyRecordsItsTransaction
  BY DEF IInv
<1>2. QED
  BY <1>1, Invariant, PTL

(* The balance that was checked is the balance that is debited. *)
THEOREM FundsStayChecked == Spec => []CheckedBalanceIsCurrent
<1>1. IInv => CheckedBalanceIsCurrent
  BY DEF IInv, RequestInv, FundsInv, CheckedBalanceIsCurrent
<1>2. QED
  BY <1>1, Invariant, PTL

(* A quote's status says executed exactly when there is a transaction. *)
THEOREM StatusTellsExecution == Spec => []StatusFollowsTransactions
<1>1. IInv => StatusFollowsTransactions
  BY DEF IInv
<1>2. QED
  BY <1>1, Invariant, PTL

(* No quote is executed by a call that got its lock after the expiry. *)
THEOREM NeverLockedTooLate == Spec => []LockedInTime
<1>1. IInv => LockedInTime
  BY DEF IInv
<1>2. QED
  BY <1>1, Invariant, PTL

(* quote.executed is only announced for a transaction that is committed,   *)
(* and once for a quote, since there is one transaction of it.             *)
THEOREM EventsFollowCommits == Spec => []ExecutedEventsAreCommitted
<1>1. IInv => ExecutedEventsAreCommitted
  <2> SUFFICES ASSUME IInv, NEW m \in Messages, Executed(m)
               PROVE  /\ published[m] = 1
                      /\ \E t \in transactions : t.id = m.by /\ t.quote = m.quote
                      /\ \A n \in Messages : Executed(n) /\ n.quote = m.quote => n = m
    BY DEF ExecutedEventsAreCommitted
  <2>1. published[m] = 1 /\ \E t \in transactions : t.id = m.by /\ t.quote = m.quote
    BY DEF IInv, EventsInv
  <2>2. ASSUME NEW n \in Messages, Executed(n), n.quote = m.quote PROVE n = m
    <3>1. \E t \in transactions : t.id = n.by /\ t.quote = n.quote
      BY <2>2 DEF IInv, EventsInv
    <3>2. n.by = m.by
      BY <2>1, <2>2, <3>1 DEF IInv, TransactionsInv
    <3>3. n.type = m.type
      BY <2>2 DEF Executed
    <3>4. QED
      BY <2>2, <3>2, <3>3 DEF Messages
  <2>3. QED
    BY <2>1, <2>2
<1>2. QED
  BY <1>1, Invariant, PTL
-----------------------------------------------------------------------------
(* What RetryIsReplayed says of one call. *)
Replays(r) ==
    \A t \in transactions :
        /\ pc[r] \in {"idle", "replay"} /\ pc'[r] # pc[r]
        /\ t.key = body[r].key /\ Hash(t) = Hash(body[r])
        => \/ pc'[r] = "replay"
           \/ /\ pc'[r] = "done"
              /\ resp'[r] \in {[code |-> "replay", tx |-> t.id],
                               [code |-> "error", tx |-> NoRow]}

(* The key row of a committed transaction is complete and has its hash, so *)
(* Lookup goes on to the replay.                                           *)
LEMMA LookupReplays ==
  ASSUME IInv, NEW r \in Requests, Lookup(r)
  PROVE  Replays(r)
<1> SUFFICES ASSUME NEW t \in transactions, t.key = body[r].key, Hash(t) = Hash(body[r])
             PROVE  pc'[r] = "replay"
  BY DEF Replays
<1> DEFINE k == body[r].key
<1>1. k \in Keys /\ k # NoKey
  BY CallersAssumption DEF IInv, TypeOK, Transaction
<1>2. t \in {u \in transactions : u.key = k}
  OBVIOUS
<1>3. /\ keys[k] # NoRow /\ keys[k].completed
      /\ {Hash(u) : u \in {v \in transactions : v.key = k}} = {keys[k].hash}
  BY <1>1, <1>2 DEF IInv, KeyRecordsItsTransaction
<1>4. keys[k].hash = Hash(body[r])
  BY <1>2, <1>3
<1>5. pc' = [pc EXCEPT ![r] = "replay"]
  BY <1>1, <1>3, <1>4 DEF Lookup
<1>6. QED
  BY <1>5 DEF IInv, SessionsTyped, Sessions

(* Replay finds the one transaction with the key. *)
LEMMA ReplayReplays ==
  ASSUME IInv, NEW r \in Requests, Replay(r)
  PROVE  Replays(r)
<1>1. PICK u \in transactions : u.key = body[r].key /\ Answer(r, "replay", u.id)
  BY ReplayAnswers
<1>2. AnswersTyped /\ r \in Sessions /\ pc \in [Sessions -> ExecutionPhases \cup FundingPhases]
  BY DEF IInv, TypeOK, SessionsTyped, AnswersTyped, Sessions
<1>3. pc'[r] = "done" /\ resp'[r] = [code |-> "replay", tx |-> u.id]
  BY <1>1, <1>2 DEF Answer, AnswersTyped
<1>4. \A t \in transactions : t.key = body[r].key => t = u
  BY <1>1 DEF IInv, TransactionsInv
<1>5. QED
  BY <1>3, <1>4 DEF Replays

(* A SELECT that fails is an internal error. *)
LEMMA FailReplays ==
  ASSUME IInv, NEW r \in Requests, Fail(r)
  PROVE  Replays(r)
<1>1. AnswersTyped /\ r \in Sessions /\ pc \in [Sessions -> ExecutionPhases \cup FundingPhases]
  BY DEF IInv, TypeOK, SessionsTyped, AnswersTyped, Sessions
<1>2. pc'[r] = "done" /\ resp'[r] = [code |-> "error", tx |-> NoRow]
  BY <1>1 DEF Fail, Abort, AnswersTyped
<1>3. QED
  BY <1>2 DEF Replays

(* Nothing else moves a call that looks its key up or replays.  *)
LEMMA OthersStay ==
  ASSUME IInv, NEW r \in Requests, pc[r] \in {"idle", "replay"}, pc'[r] # pc[r], [Next]_vars
  PROVE  Lookup(r) \/ Replay(r) \/ Fail(r)
<1>1. pc \in [Sessions -> ExecutionPhases \cup FundingPhases] /\ r \in Sessions
      /\ Requests \cap Credits = {}
  BY CallersAssumption DEF IInv, SessionsTyped, Sessions
<1>2. ASSUME NEW s \in Sessions, NEW p, pc' = [pc EXCEPT ![s] = p]
      PROVE  s = r
  BY <1>1, <1>2
<1>3. ASSUME NEW s \in Requests, Execution(s) PROVE Replay(r)
  <2>1. s \in Sessions
    BY DEF Sessions
  <2>2. Replay(s) \/ pc[s] \notin {"idle", "replay"}
    BY <1>3 DEF Execution, Reserve, LockQuote, CheckQuote, Upsert, LockBalances,
       CheckFunds, MarkExecuted, Record, Debit, Credit, Complete, Commit, PublishExecuted,
       Expire, PublishExpired, RaiseExpired, At
  <2>3. \E p : pc' = [pc EXCEPT ![s] = p]
    BY <1>3 DEF Execution, Replay, Reserve, LockQuote, CheckQuote, Upsert, LockBalances,
       CheckFunds, MarkExecuted, Record, Debit, Credit, Complete, Commit, PublishExecuted,
       Expire, PublishExpired, RaiseExpired, Statement, Abort, Refuse, Answer
  <2>4. QED
    BY <1>2, <2>1, <2>2, <2>3
<1>4. ASSUME NEW c \in Credits, Funding(c) PROVE FALSE
  <2>1. \E p : pc' = [pc EXCEPT ![c] = p]
    BY <1>4 DEF Funding, AddFunds, EnterFunds, CommitFunds, Statement, Abort, Answer
  <2>2. QED
    BY <1>1, <1>2, <2>1 DEF Sessions
<1>5. ASSUME NEW s \in Sessions, Fail(s) PROVE Fail(r)
  BY <1>2, <1>5 DEF Fail, Abort
<1>6. ASSUME NEW s \in Requests, Lost(s) PROVE FALSE
  BY <1>2, <1>6 DEF Lost, Answer, At, Sessions
<1>7. ASSUME NEW s \in Requests, Lookup(s) PROVE Lookup(r)
  <2>1. \E p : pc' = [pc EXCEPT ![s] = p]
    BY <1>7 DEF Lookup, Answer
  <2>2. QED
    BY <1>2, <1>7, <2>1 DEF Sessions
<1>8. ~(UNCHANGED pc)
  OBVIOUS
<1>9. ~Tick /\ ~(\E q \in Quotes : CreateQuote(q)) /\ ~(UNCHANGED vars)
  BY <1>8 DEF Tick, CreateQuote, vars, session
<1>10. QED
  BY <1>3, <1>4, <1>5, <1>6, <1>7, <1>9 DEF Next

(* A call made after the commit, with the same key and payload, is given   *)
(* the transaction it asks about, or fails by an internal error; it is     *)
(* never refused, and never executed again.                                *)
THEOREM RetriesAreReplayed == Spec => RetryIsReplayed
<1>1. IInv /\ [Next]_vars => [\A r \in Requests : Replays(r)]_vars
  <2> SUFFICES ASSUME IInv, [Next]_vars, NEW r \in Requests PROVE Replays(r)
    OBVIOUS
  <2>1. CASE pc[r] \in {"idle", "replay"} /\ pc'[r] # pc[r]
    BY <2>1, OthersStay, LookupReplays, ReplayReplays, FailReplays
  <2>2. CASE ~(pc[r] \in {"idle", "replay"} /\ pc'[r] # pc[r])
    BY <2>2 DEF Replays
  <2>3. QED
    BY <2>1, <2>2
<1>2. QED
  BY <1>1, Invariant, PTL DEF Spec, RetryIsReplayed, Replays
-----------------------------------------------------------------------------
(* Everything but issuing and committing leaves FxLedger's tables alone. *)
LEMMA QuietForLedger ==
  ASSUME [Next]_vars,
         ~ \E q \in Quotes : CreateQuote(q),
         ~ \E r \in Requests : Commit(r),
         ~ \E c \in Credits : CommitFunds(c)
  PROVE  UNCHANGED <<quotes, balances, ledger, transactions>>
<1> USE DEF tables, Statement, Abort, Refuse
<1>1. ASSUME NEW r \in Requests, Execution(r)
      PROVE  UNCHANGED <<quotes, balances, ledger, transactions>>
  BY <1>1 DEF Execution, Replay, Reserve, LockQuote, CheckQuote, Upsert, LockBalances,
     CheckFunds, MarkExecuted, Record, Debit, Credit, Complete, PublishExecuted,
     Expire, PublishExpired, RaiseExpired
<1>2. ASSUME NEW r \in Requests, Lookup(r) \/ Lost(r)
      PROVE  UNCHANGED <<quotes, balances, ledger, transactions>>
  BY <1>2 DEF Lookup, Lost
<1>3. ASSUME NEW c \in Credits, Funding(c)
      PROVE  UNCHANGED <<quotes, balances, ledger, transactions>>
  BY <1>3 DEF Funding, AddFunds, EnterFunds
<1>4. ASSUME NEW s \in Sessions, Fail(s)
      PROVE  UNCHANGED <<quotes, balances, ledger, transactions>>
  BY <1>4 DEF Fail
<1>5. QED
  BY <1>1, <1>2, <1>3, <1>4 DEF Next, Tick, vars

(* FxLedger builds its rows as FxExecute does. *)
LEMMA SameRows ==
  /\ Abs!Accounts = Accounts
  /\ \A t : Abs!FromAcct(t) = FromAcct(t) /\ Abs!ToAcct(t) = ToAcct(t)
  /\ \A r, t : /\ Abs!DebitEntry(r, t) = DebitEntry(r, t)
               /\ Abs!CreditEntry(r, t) = CreditEntry(r, t)
  /\ \A c, d : Abs!FundEntry(c, d) = FundEntry(c, d)
BY DEF Abs!Accounts, Accounts, Abs!FromAcct, FromAcct, Abs!ToAcct, ToAcct,
   Abs!DebitEntry, DebitEntry, Abs!CreditEntry, CreditEntry, Abs!FundEntry, FundEntry

(* The statements implement FxLedger: CreateQuote is its Issue, Commit its *)
(* Execute, CommitFunds its Fund, and every other step changes nothing.    *)
THEOREM Refinement == Spec => ImplementsLedger
<1>1. Init => Abs!Init
  BY SameRows DEF Init, Abs!Init
<1>2. IInv /\ [Next]_vars => [Abs!Next]_(Abs!vars)
  <2> SUFFICES ASSUME IInv, [Next]_vars PROVE [Abs!Next]_(Abs!vars)
    OBVIOUS
  <2>1. ASSUME NEW q \in Quotes, CreateQuote(q) PROVE Abs!Next
    <3>1. PICK t \in Terms[q] : quotes' = [quotes EXCEPT ![q] = t]
      BY <2>1 DEF CreateQuote
    <3>2. Abs!Issue(q, t)
      BY <2>1, <3>1 DEF CreateQuote, Abs!Issue
    <3>3. QED
      BY <3>2 DEF Abs!Next
  <2>2. ASSUME NEW r \in Requests, Commit(r) PROVE Abs!Next
    <3> DEFINE q == body[r].quote
               k == body[r].key
               t == TermsOf(r)
    <3>1. /\ q \in Quotes /\ k \in Keys /\ t \in Term /\ t.cust = body[r].cust
          /\ t.famt > 0 /\ t.tamt > 0 /\ balances[FromAcct(t)] >= t.famt
          /\ \A u \in transactions : u.id # r /\ u.quote # q /\ u.key # k
          /\ balances' = [a \in Accounts |->
                            balances[a] + (IF a = ToAcct(t) THEN t.tamt ELSE 0)
                                        - (IF a = FromAcct(t) THEN t.famt ELSE 0)]
          /\ ledger' = ledger \cup {DebitEntry(r, t), CreditEntry(r, t)}
          /\ transactions' = transactions \cup {TransactionOf(r)}
      BY <2>2, CommitView
    <3>2. TransactionOf(r) = [id |-> r, quote |-> q, cust |-> t.cust, key |-> k]
      BY <3>1 DEF TransactionOf
    <3>3. quotes[q] = t /\ t # NoQuote /\ quotes' = quotes
      BY <2>2, <3>1, TermsAssumption DEF TermsOf, Commit
    <3> HIDE DEF q, k, t
    <3>4. Abs!Execute(r, q, k)
      BY <3>1, <3>2, <3>3, SameRows DEF Abs!Execute, Abs!Unused, Abs!Exchanged
    <3>5. QED
      BY <3>1, <3>4 DEF Abs!Next
  <2>3. ASSUME NEW c \in Credits, CommitFunds(c) PROVE Abs!Next
    <3>1. body[c] \in Deposits[c]
      BY DEF IInv, SessionsTyped
    <3>2. Abs!Fund(c, body[c])
      BY <2>3, CommitFundsView, SameRows DEF CommitFunds, Abs!Fund
    <3>3. QED
      BY <3>1, <3>2 DEF Abs!Next
  <2>4. CASE UNCHANGED <<quotes, balances, ledger, transactions>>
    BY <2>4 DEF Abs!vars
  <2>5. QED
    BY <2>1, <2>2, <2>3, <2>4, QuietForLedger
<1>3. QED
  BY <1>1, <1>2, Invariant, PTL DEF Spec, ImplementsLedger, Abs!Spec
-----------------------------------------------------------------------------
(* What is proved of FxLedger is therefore true of the statements too. *)
Promised == INSTANCE FxLedgerProofs

(* Statement by statement and whatever fails: balances are the sums of the *)
(* ledger, an execution has both legs or none, and happens once per call,  *)
(* quote and key.                                                          *)
THEOREM LedgerPromisesHold ==
  Spec => [](Abs!LedgerBalances /\ Abs!TwoLegs /\ Abs!ExecutedOnce)
<1>1. Spec => Abs!Spec
  BY Refinement DEF ImplementsLedger
<1>2. Promised!Spec => []Promised!LedgerBalances
  BY Promised!BalancesFollowLedger, RankAssumption, TermsAssumption, DepositsAssumption,
     CallersAssumption DEF Term, Promised!Term, Accounts, Promised!Accounts
<1>3. Promised!Spec => []Promised!TwoLegs
  BY Promised!EveryExecutionHasTwoLegs, RankAssumption, TermsAssumption,
     DepositsAssumption, CallersAssumption DEF Term, Promised!Term, Accounts,
     Promised!Accounts
<1>4. Promised!Spec => []Promised!ExecutedOnce
  BY Promised!ExecutesOnce, RankAssumption, TermsAssumption, DepositsAssumption,
     CallersAssumption DEF Term, Promised!Term, Accounts, Promised!Accounts
<1>5. (Promised!Init <=> Abs!Init) /\ ([Promised!Next]_(Promised!vars) <=> [Abs!Next]_(Abs!vars))
  BY DEF Promised!Init, Abs!Init, Promised!Next, Abs!Next, Promised!vars, Abs!vars,
     Promised!Issue, Abs!Issue, Promised!Fund, Abs!Fund, Promised!Execute, Abs!Execute,
     Promised!Unused, Abs!Unused, Promised!Exchanged, Abs!Exchanged, Promised!Accounts,
     Abs!Accounts, Promised!FromAcct, Abs!FromAcct, Promised!ToAcct, Abs!ToAcct,
     Promised!DebitEntry, Abs!DebitEntry, Promised!CreditEntry, Abs!CreditEntry,
     Promised!FundEntry, Abs!FundEntry
<1>6. Promised!LedgerBalances <=> Abs!LedgerBalances
  BY DEF Promised!LedgerBalances, Abs!LedgerBalances, Promised!Accounts, Abs!Accounts,
     Promised!Debited, Abs!Debited, Promised!Credited, Abs!Credited, Promised!Posted,
     Abs!Posted, Promised!Total, Abs!Total, Promised!AllUnits, Abs!AllUnits,
     Promised!Units, Abs!Units, Promised!Cardinality, Abs!Cardinality
<1>7. (Promised!TwoLegs <=> Abs!TwoLegs) /\ (Promised!ExecutedOnce <=> Abs!ExecutedOnce)
  BY DEF Promised!TwoLegs, Abs!TwoLegs, Promised!ExecutedOnce, Abs!ExecutedOnce,
     Promised!FromAcct, Abs!FromAcct, Promised!ToAcct, Abs!ToAcct,
     Promised!DebitEntry, Abs!DebitEntry, Promised!CreditEntry, Abs!CreditEntry
<1>8. QED
  BY <1>1, <1>2, <1>3, <1>4, <1>5, <1>6, <1>7, PTL DEF Promised!Spec, Abs!Spec
=============================================================================
