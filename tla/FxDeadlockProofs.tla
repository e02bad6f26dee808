-------------------------- MODULE FxDeadlockProofs ---------------------------
(***************************************************************************)
(* Proof that no set of calls ever waits in a circle (NoDeadlock), for any *)
(* number of calls, quotes, keys and customers.                            *)
(*                                                                         *)
(* First, who may hold which lock: every lock an execution holds was taken *)
(* at a statement it is past (HoldersInv). Then a call waits only for one  *)
(* that is at a later statement, or that itself wants the balance row of a *)
(* later currency (WaiterOf, HolderOf). There is a last statement and a    *)
(* last currency, so somebody does not wait (Acyclic).                     *)
(***************************************************************************)
EXTENDS FxExecuteProofs, FiniteSetTheorems, WellFoundedInduction

(* Past the INSERT of the first balance row, and of the second. *)
PastFirstInsert == {"upsert_second", "lock_first"} \cup WithFirst
PastSecondInsert == {"lock_first"} \cup WithFirst

(* Why execution r may hold the lock on balance row a: it has inserted it, *)
(* and only then is the row not there for others, or it has locked it.     *)
HoldsFirst(r, a) ==
    /\ a = First(TermsOf(r)) /\ pc[r] \in PastFirstInsert
    /\ a \in rows => pc[r] \in WithFirst
HoldsSecond(r, a) ==
    /\ a = Second(TermsOf(r)) /\ pc[r] \in PastSecondInsert
    /\ a \in rows => pc[r] \in WithBalances

(* Every lock an execution holds was taken at a statement it is past. *)
HoldInv(r) ==
    /\ \A k \in Keys : KeyRow(k) \in locks[r] => pc[r] \in WithKey
    /\ \A q \in Quotes : QuoteRow(q) \in locks[r] => pc[r] \in WithQuote
    /\ \A a \in Accounts :
          BalanceRow(a) \in locks[r] => HoldsFirst(r, a) \/ HoldsSecond(r, a)
    /\ \A k \in Keys : TxKey(k) \in locks[r] => pc[r] \in Recorded
    /\ \A q \in Quotes : TxQuote(q) \in locks[r] => pc[r] \in Recorded

(* A row it is past inserting is there, or its own. *)
InsertInv(r) ==
    LET t == TermsOf(r)
    IN  /\ pc[r] \in PastFirstInsert =>
              First(t) \in rows \/ BalanceRow(First(t)) \in locks[r]
        /\ pc[r] \in PastSecondInsert =>
              Second(t) \in rows \/ BalanceRow(Second(t)) \in locks[r]

(* A funding call holds one row, between its two statements and the commit. *)
FundingHolds(c) ==
    locks[c] # {} => /\ pc[c] \in {"fund_entry", "fund_commit"}
                     /\ locks[c] = {BalanceRow(body[c].acct)}

HoldersInv ==
    /\ \A r \in Requests : HoldInv(r) /\ InsertInv(r)
    /\ \A c \in Credits : FundingHolds(c)

(* It is inductive together with IInv. *)
LockInv == IInv /\ HoldersInv

-----------------------------------------------------------------------------
(* Locks on rows of different tables are different locks. *)
LEMMA KindsDiffer ==
  ASSUME NEW k, NEW q, NEW a, NEW l, NEW p
  PROVE  /\ KeyRow(k) # QuoteRow(q) /\ KeyRow(k) # BalanceRow(a)
         /\ KeyRow(k) # TxKey(l) /\ KeyRow(k) # TxQuote(p)
         /\ QuoteRow(q) # BalanceRow(a) /\ QuoteRow(q) # TxKey(l) /\ QuoteRow(q) # TxQuote(p)
         /\ BalanceRow(a) # TxKey(l) /\ BalanceRow(a) # TxQuote(p)
         /\ TxKey(l) # TxQuote(p)
BY DEF KeyRow, QuoteRow, BalanceRow, TxKey, TxQuote

(* The order of the statements of an execution. *)
Flow == {<<"idle", "replay">>, <<"idle", "reserve">>, <<"reserve", "lock_quote">>,
         <<"lock_quote", "check_quote">>, <<"check_quote", "expire">>,
         <<"expire", "publish_expired">>, <<"publish_expired", "raise_expired">>,
         <<"check_quote", "upsert_first">>, <<"upsert_first", "upsert_second">>,
         <<"upsert_second", "lock_first">>, <<"lock_first", "lock_second">>,
         <<"lock_second", "check_funds">>, <<"check_funds", "mark">>,
         <<"mark", "record">>, <<"record", "debit">>, <<"debit", "credit">>,
         <<"credit", "complete">>, <<"complete", "commit">>}

(* A step of an execution ends its transaction, or goes on to the next     *)
(* statement with the locks this one wanted.                               *)
Ends(r) == locks'[r] = {} /\ pc'[r] \in {"done", "publish_executed"}

GoesOn(r) ==
    /\ <<pc[r], pc'[r]>> \in Flow /\ rows' = rows
    /\ locks'[r] = locks[r] \cup Wants(r)

(* The only balances rows that appear are ones its session has locked, and *)
(* it leaves the other sessions alone.                                     *)
Grow(s) == rows \subseteq rows' /\ \A a \in rows' \ rows : BalanceRow(a) \in locks[s]

Others(s) == \A o \in Sessions \ {s} : pc'[o] = pc[o] /\ locks'[o] = locks[o]

RequestStep(r) == Lookup(r) \/ Execution(r) \/ Lost(r) \/ Fail(r)

(* A rollback releases every lock. *)
LEMMA AbortEnds ==
  ASSUME IInv, NEW r \in Sessions, NEW code, Abort(r, code)
  PROVE  locks'[r] = {} /\ pc'[r] = "done" /\ UNCHANGED tables /\ Others(r)
<1>1. /\ pc \in [Sessions -> ExecutionPhases \cup FundingPhases]
      /\ locks \in [Sessions -> SUBSET Resources]
  BY DEF IInv, TypeOK, SessionsTyped
<1>2. QED
  BY <1>1 DEF Abort, Others

(* What every step of an execution does to the locks. *)
LEMMA RequestEffect ==
  ASSUME IInv, NEW r \in Requests, RequestStep(r)
  PROVE  /\ Ends(r) \/ GoesOn(r)
         /\ Grow(r) /\ Others(r) /\ UNCHANGED <<quotes, body>>
<1> DEFINE Goal == /\ Ends(r) \/ GoesOn(r)
                   /\ Grow(r) /\ Others(r) /\ UNCHANGED <<quotes, body>>
<1>1. /\ pc \in [Sessions -> ExecutionPhases \cup FundingPhases]
      /\ locks \in [Sessions -> SUBSET Resources]
      /\ r \in Sessions
  BY DEF IInv, TypeOK, SessionsTyped, Sessions
<1>2. ASSUME NEW p, NEW W, Statement(r, p, W), <<pc[r], p>> \in Flow, UNCHANGED body
      PROVE  Goal
  <2>1. /\ pc'[r] = p /\ locks'[r] = locks[r] \cup Wants(r) /\ UNCHANGED tables
        /\ Others(r)
    BY <1>1, <1>2, StatementFacts DEF Others
  <2>2. QED
    BY <1>2, <2>1 DEF GoesOn, Grow, tables
<1>3. ASSUME NEW code, Abort(r, code), UNCHANGED body PROVE Goal
  BY <1>1, <1>3, AbortEnds DEF Ends, Grow, tables
<1>4. CASE Lookup(r)
  <2>1. /\ pc[r] = "idle" /\ UNCHANGED <<tables, locks, body>> /\ locks[r] = {}
    BY <1>1, <1>4 DEF Lookup, At, Rest, IInv, TypeOK
  <2>2. Wants(r) = {}
    BY <2>1, WantsOf
  <2>3. \/ pc' = [pc EXCEPT ![r] = "done"]
        \/ pc' = [pc EXCEPT ![r] = "reserve"]
        \/ pc' = [pc EXCEPT ![r] = "replay"]
    BY <1>4 DEF Lookup, Answer
  <2>4. <<"idle", "reserve">> \in Flow /\ <<"idle", "replay">> \in Flow
    BY DEF Flow
  <2>5. QED
    BY <1>1, <2>1, <2>2, <2>3, <2>4 DEF Ends, GoesOn, Grow, Others, tables
<1>5. CASE Reserve(r)
  BY <1>2, <1>5 DEF Reserve, At, Rest, Flow
<1>6. CASE LockQuote(r)
  <2>1. pc[r] = "lock_quote" /\ UNCHANGED body
    BY <1>6 DEF LockQuote, At
  <2>2. CASE Statement(r, "check_quote", {})
    BY <1>2, <2>1, <2>2 DEF Flow
  <2>3. CASE Abort(r, "quote_not_found")
    BY <1>3, <2>1, <2>3
  <2>4. QED
    BY <1>6, <2>2, <2>3 DEF LockQuote
<1>7. CASE CheckQuote(r)
  <2>1. pc[r] = "check_quote" /\ UNCHANGED body
    BY <1>7 DEF CheckQuote, At, Rest
  <2>2. \/ Statement(r, "expire", {})
        \/ Abort(r, "quote_already_executed")
        \/ Statement(r, "upsert_first", {})
    BY <1>7 DEF CheckQuote
  <2>3. <<"check_quote", "expire">> \in Flow /\ <<"check_quote", "upsert_first">> \in Flow
    BY DEF Flow
  <2>4. QED
    BY <1>2, <1>3, <2>1, <2>2, <2>3
<1>8. CASE Upsert(r) \/ LockBalances(r)
  <2>1. UNCHANGED body
    BY <1>8 DEF Upsert, LockBalances, Rest
  <2>2. \/ pc[r] = "upsert_first" /\ Statement(r, "upsert_second", {})
        \/ pc[r] = "upsert_second" /\ Statement(r, "lock_first", {})
        \/ pc[r] = "lock_first" /\ Statement(r, "lock_second", {})
        \/ pc[r] = "lock_second" /\ Statement(r, "check_funds", {})
    BY <1>8 DEF Upsert, LockBalances, At
  <2>3. QED
    BY <1>2, <2>1, <2>2 DEF Flow
<1>9. CASE CheckFunds(r)
  <2>1. pc[r] = "check_funds" /\ UNCHANGED body
    BY <1>9 DEF CheckFunds, At, Rest
  <2>2. Statement(r, "mark", {}) \/ Abort(r, "insufficient_balance")
    BY <1>9 DEF CheckFunds
  <2>3. QED
    BY <1>2, <1>3, <2>1, <2>2 DEF Flow
<1>10. CASE MarkExecuted(r)
  BY <1>2, <1>10 DEF MarkExecuted, At, Rest, Flow
<1>11. CASE Record(r)
  <2>1. pc[r] = "record" /\ UNCHANGED body
    BY <1>11 DEF Record, At, Rest
  <2>2. Statement(r, "debit", {"tx"}) \/ \E code : Abort(r, code)
    BY <1>11 DEF Record, Refuse
  <2>3. QED
    BY <1>2, <1>3, <2>1, <2>2 DEF Flow
<1>12. CASE Debit(r)
  <2>1. pc[r] = "debit" /\ UNCHANGED body
    BY <1>12 DEF Debit, At, Rest
  <2>2. Statement(r, "credit", {"debit", "debit_entry"}) \/ \E code : Abort(r, code)
    BY <1>12 DEF Debit, Refuse
  <2>3. QED
    BY <1>2, <1>3, <2>1, <2>2 DEF Flow
<1>13. CASE Credit(r)
  <2>1. pc[r] = "credit" /\ UNCHANGED body
    BY <1>13 DEF Credit, At, Rest
  <2>2. Statement(r, "complete", {"credit", "credit_entry"}) \/ \E code : Abort(r, code)
    BY <1>13 DEF Credit, Refuse
  <2>3. QED
    BY <1>2, <1>3, <2>1, <2>2 DEF Flow
<1>14. CASE Complete(r)
  BY <1>2, <1>14 DEF Complete, At, Rest, Flow
<1>15. CASE Commit(r)
  <2>1. /\ locks' = [locks EXCEPT ![r] = {}] /\ pc' = [pc EXCEPT ![r] = "publish_executed"]
        /\ rows' = rows \cup {a \in Accounts : BalanceRow(a) \in locks[r]}
        /\ UNCHANGED <<quotes, body>>
    BY <1>15 DEF Commit, Rest
  <2>2. QED
    BY <1>1, <2>1 DEF Ends, Grow, Others
<1>16. CASE Replay(r) \/ PublishExecuted(r) \/ Lost(r)
  <2>1. /\ pc' = [pc EXCEPT ![r] = "done"] /\ pc[r] \in {"replay", "publish_executed"}
        /\ UNCHANGED <<tables, locks, body>>
    BY <1>16 DEF Replay, PublishExecuted, Lost, Answer, Rest, At
  <2>2. locks[r] = {}
    BY <1>1, <2>1 DEF IInv, TypeOK
  <2>3. QED
    BY <1>1, <2>1, <2>2 DEF Ends, Grow, Others, tables
<1>17. CASE Expire(r)
  BY <1>2, <1>17 DEF Expire, At, Rest, Flow
<1>18. CASE PublishExpired(r)
  BY <1>2, <1>18 DEF PublishExpired, At, Flow
<1>19. CASE RaiseExpired(r)
  BY <1>3, <1>19 DEF RaiseExpired, Rest
<1>20. CASE Fail(r)
  BY <1>3, <1>20 DEF Fail, Rest
<1>21. QED
  BY <1>4, <1>5, <1>6, <1>7, <1>8, <1>9, <1>10, <1>11, <1>12, <1>13, <1>14, <1>15,
     <1>16, <1>17, <1>18, <1>19, <1>20 DEF RequestStep, Execution
-----------------------------------------------------------------------------
(* A step of another session keeps what is known of the locks of this one: *)
(* no row it has inserted appears before its own commit.                   *)
LEMMA HoldFrame ==
  ASSUME IInv, NEW r \in Requests, HoldInv(r), InsertInv(r),
         pc'[r] = pc[r], locks'[r] = locks[r],
         pc[r] \in WithQuote => TermsOf(r)' = TermsOf(r),
         rows \subseteq rows',
         \A a \in rows' \ rows : BalanceRow(a) \notin locks[r]
  PROVE  HoldInv(r)' /\ InsertInv(r)'
<1> USE DEF PastFirstInsert, PastSecondInsert
<1>1. PastFirstInsert \subseteq WithQuote /\ PastSecondInsert \subseteq WithQuote
  BY DEF WithQuote, Executing
<1>2. ASSUME NEW a \in Accounts, BalanceRow(a) \in locks[r]
      PROVE  HoldsFirst(r, a)' \/ HoldsSecond(r, a)'
  <2>1. a \in rows' => a \in rows
    BY <1>2
  <2>2. HoldsFirst(r, a) \/ HoldsSecond(r, a)
    BY <1>2 DEF HoldInv
  <2>3. QED
    BY <1>1, <2>1, <2>2 DEF HoldsFirst, HoldsSecond
<1>3. HoldInv(r)'
  BY <1>2 DEF HoldInv
<1>4. InsertInv(r)'
  BY <1>1 DEF InsertInv
<1>5. QED
  BY <1>3, <1>4

(* An execution that has passed a statement stays past it. *)
LEMMA FlowFacts ==
  ASSUME NEW p, NEW n, <<p, n>> \in Flow
  PROVE  /\ p \in WithKey \cup {"reserve"} => n \in WithKey
         /\ p \in WithQuote \cup {"lock_quote"} => n \in WithQuote
         /\ p \in PastFirstInsert \cup {"upsert_first"} => n \in PastFirstInsert
         /\ p \in PastSecondInsert \cup {"upsert_second"} => n \in PastSecondInsert
         /\ p \in WithFirst \cup {"lock_first"} => n \in WithFirst
         /\ p \in WithBalances \cup {"lock_second"} => n \in WithBalances
         /\ p \in Recorded \cup {"record"} => n \in Recorded
         /\ n \in PastFirstInsert => p \in PastFirstInsert \cup {"upsert_first"}
         /\ n \in PastSecondInsert => p \in PastSecondInsert \cup {"upsert_second"}
BY DEF Flow, WithKey, WithQuote, Executing, WithFirst, WithBalances, Covered, Recorded,
       PastFirstInsert, PastSecondInsert

(* With its transactions row inserted, an execution owns its key row: a    *)
(* committed one would have a transaction of its own.                      *)
LEMMA KeyIsOwn ==
  ASSUME IInv, NEW r \in Requests, pc[r] \in Recorded
  PROVE  KeyRow(body[r].key) \in locks[r]
<1> DEFINE k == body[r].key
<1>1. pc[r] \in WithKey
  BY DEF WithKey, WithQuote, Executing, WithFirst, WithBalances, Covered
<1>2. k \in Keys /\ \A u \in transactions : u.key # k
  BY <1>1 DEF IInv, RequestInv, KeyInv, WritesInv
<1>3. keys[k] # NoRow => \E u \in transactions : u.key = k
  BY <1>2 DEF IInv, KeyRecordsItsTransaction
<1>4. QED
  BY <1>1, <1>2, <1>3 DEF IInv, RequestInv, KeyInv

(* The locks a statement adds: UPDATEs only touch rows the execution has   *)
(* locked before.                                                          *)
LEMMA NewLocks ==
  ASSUME IInv, NEW r \in Requests
  PROVE  /\ \A k \in Keys : KeyRow(k) \in Wants(r) \ locks[r] => pc[r] = "reserve"
         /\ \A q \in Quotes : QuoteRow(q) \in Wants(r) \ locks[r] => pc[r] = "lock_quote"
         /\ \A k \in Keys : TxKey(k) \in Wants(r) => pc[r] = "record"
         /\ \A q \in Quotes : TxQuote(q) \in Wants(r) => pc[r] = "record"
         /\ \A a \in Accounts : BalanceRow(a) \in Wants(r) \ locks[r] =>
               \/ pc[r] = "upsert_first" /\ a = First(TermsOf(r)) /\ a \notin rows
               \/ pc[r] = "lock_first" /\ a = First(TermsOf(r))
               \/ pc[r] = "upsert_second" /\ a = Second(TermsOf(r)) /\ a \notin rows
               \/ pc[r] = "lock_second" /\ a = Second(TermsOf(r))
<1> DEFINE t == TermsOf(r)
<1>1. /\ RequestInv(r) /\ SessionsTyped /\ pc[r] \in ExecutionPhases
  BY DEF IInv, SessionsTyped
<1>2. CASE pc[r] = "reserve"
  BY <1>2, WantsOf, KindsDiffer, RowsDiffer
<1>3. CASE pc[r] = "lock_quote"
  BY <1>3, WantsOf, KindsDiffer, RowsDiffer DEF QuoteForUpdate
<1>4. CASE pc[r] \in {"expire", "mark"}
  <2>1. Wants(r) = {QuoteRow(body[r].quote)}
    BY <1>4, WantsOf
  <2>2. QuoteRow(body[r].quote) \in locks[r]
    BY <1>1, <1>4 DEF RequestInv, QuoteInv, WithQuote, Executing, WithFirst, WithBalances, Covered
  <2>3. QED
    BY <2>1, <2>2, KindsDiffer
<1>5. CASE pc[r] \in {"upsert_first", "upsert_second"}
  BY <1>5, WantsOf, KindsDiffer, RowsDiffer DEF Insertable
<1>6. CASE pc[r] \in {"lock_first", "lock_second"}
  BY <1>6, WantsOf, KindsDiffer, RowsDiffer DEF BalanceForUpdate
<1>7. CASE pc[r] = "record"
  BY <1>7, WantsOf, KindsDiffer
<1>8. CASE pc[r] \in {"debit", "credit"}
  <2>1. Wants(r) \subseteq {BalanceRow(FromAcct(t)), BalanceRow(ToAcct(t))}
    BY <1>8, WantsOf
  <2>2. pc[r] \in WithFirst /\ pc[r] \in WithBalances /\ pc[r] \in WithQuote
    BY <1>8 DEF WithQuote, Executing, WithFirst, WithBalances, Covered, Recorded
  <2>3. t \in Term
    BY <1>1, <2>2, CallFacts DEF RequestInv, QuoteInv, TermsOf
  <2>4. {BalanceRow(FromAcct(t)), BalanceRow(ToAcct(t))} \subseteq locks[r]
    BY <1>1, <2>2, <2>3, TermFacts DEF RequestInv, FundsInv
  <2>5. QED
    BY <2>1, <2>4, KindsDiffer
<1>9. CASE pc[r] = "complete"
  <2>1. Wants(r) = {KeyRow(body[r].key)}
    BY <1>9, WantsOf
  <2>2. KeyRow(body[r].key) \in locks[r]
    BY <1>9, KeyIsOwn DEF Recorded
  <2>3. QED
    BY <2>1, <2>2, KindsDiffer
<1>10. CASE pc[r] \notin {"reserve", "lock_quote", "expire", "mark", "upsert_first",
                "upsert_second", "lock_first", "lock_second", "record", "debit",
                "credit", "complete"}
  <2>1. pc[r] # "fund"
    BY <1>1 DEF ExecutionPhases, WithKey, WithQuote, Executing, WithFirst, WithBalances,
       Covered, Recorded
  <2>2. QED
    BY <1>10, <2>1, WantsOf
<1>11. QED
  BY <1>2, <1>3, <1>4, <1>5, <1>6, <1>7, <1>8, <1>9, <1>10

(* A statement keeps HoldInv and InsertInv for its own execution. *)
LEMMA HoldAdvance ==
  ASSUME IInv, NEW r \in Requests, HoldInv(r), InsertInv(r),
         GoesOn(r), UNCHANGED <<quotes, body>>
  PROVE  HoldInv(r)' /\ InsertInv(r)'
<1> DEFINE t == TermsOf(r)
<1>1. /\ TermsOf(r)' = t /\ First(t)' = First(t) /\ Second(t)' = Second(t)
      /\ rows' = rows /\ locks'[r] = locks[r] \cup Wants(r)
      /\ <<pc[r], pc'[r]>> \in Flow
  BY DEF TermsOf, GoesOn, First, Second, FromAcct, ToAcct
<1>2. ASSUME NEW a \in Accounts, BalanceRow(a) \in locks'[r]
      PROVE  HoldsFirst(r, a)' \/ HoldsSecond(r, a)'
  <2>1. CASE BalanceRow(a) \in locks[r]
    BY <1>1, <2>1, FlowFacts DEF HoldInv, HoldsFirst, HoldsSecond
  <2>2. CASE BalanceRow(a) \notin locks[r]
    <3>1. BalanceRow(a) \in Wants(r) \ locks[r]
      BY <1>1, <1>2, <2>2
    <3>2. \/ pc[r] = "upsert_first" /\ a = First(t) /\ a \notin rows
          \/ pc[r] = "lock_first" /\ a = First(t)
          \/ pc[r] = "upsert_second" /\ a = Second(t) /\ a \notin rows
          \/ pc[r] = "lock_second" /\ a = Second(t)
      BY <3>1, NewLocks
    <3>3. pc[r] = "lock_first" => pc[r] \in PastFirstInsert
      BY DEF PastFirstInsert
    <3>4. pc[r] = "lock_second" => pc[r] \in PastSecondInsert
      BY DEF PastSecondInsert, WithFirst
    <3>5. QED
      BY <1>1, <3>2, <3>3, <3>4, FlowFacts DEF HoldsFirst, HoldsSecond
  <2>3. QED
    BY <2>1, <2>2
<1>3. HoldInv(r)'
  BY <1>1, <1>2, FlowFacts, NewLocks DEF HoldInv, KeyRow, QuoteRow, TxKey, TxQuote
<1>4. InsertInv(r)'
  <2>1. pc[r] = "upsert_first" => First(t) \in rows \/ BalanceRow(First(t)) \in Wants(r)
    BY WantsOf DEF Insertable
  <2>2. pc[r] = "upsert_second" => Second(t) \in rows \/ BalanceRow(Second(t)) \in Wants(r)
    BY WantsOf DEF Insertable
  <2>3. QED
    BY <1>1, <2>1, <2>2, FlowFacts DEF InsertInv, BalanceRow
<1>5. QED
  BY <1>3, <1>4

(* An ended execution holds nothing. *)
LEMMA HoldEnds ==
  ASSUME NEW r \in Requests, Ends(r)
  PROVE  HoldInv(r)' /\ InsertInv(r)'
<1>1. pc'[r] \notin PastFirstInsert /\ pc'[r] \notin PastSecondInsert
  BY DEF Ends, PastFirstInsert, PastSecondInsert, WithFirst, WithBalances, Covered, Recorded
<1>2. HoldInv(r)'
  BY DEF Ends, HoldInv
<1>3. InsertInv(r)'
  BY <1>1 DEF InsertInv
<1>4. QED
  BY <1>2, <1>3

(* A step that is not its own. *)
LEMMA HoldOthers ==
  ASSUME LockInv, NEW s \in Sessions, Grow(s), Others(s), UNCHANGED <<quotes, body>>
  PROVE  /\ \A r \in Requests \ {s} : HoldInv(r)' /\ InsertInv(r)'
         /\ \A c \in Credits \ {s} : FundingHolds(c)'
<1>1. ASSUME NEW r \in Requests \ {s} PROVE HoldInv(r)' /\ InsertInv(r)'
  <2>1. r \in Sessions /\ IInv /\ HoldInv(r) /\ InsertInv(r) /\ locks[r] \cap locks[s] = {}
    BY DEF LockInv, HoldersInv, IInv, LocksExclude, Sessions
  <2>2. pc'[r] = pc[r] /\ locks'[r] = locks[r] /\ TermsOf(r)' = TermsOf(r)
    BY <2>1 DEF Others, TermsOf
  <2>3. \A a \in rows' \ rows : BalanceRow(a) \notin locks[r]
    BY <2>1 DEF Grow
  <2>4. QED
    BY <2>1, <2>2, <2>3, HoldFrame DEF Grow
<1>2. ASSUME NEW c \in Credits \ {s} PROVE FundingHolds(c)'
  BY DEF LockInv, HoldersInv, FundingHolds, Others, Sessions
<1>3. QED
  BY <1>1, <1>2

(* HoldersInv is kept by every step of an execution ... *)
LEMMA RequestKeepsLocks ==
  ASSUME LockInv, NEW r \in Requests, RequestStep(r)
  PROVE  HoldersInv'
<1>1. /\ IInv /\ HoldInv(r) /\ InsertInv(r) /\ r \in Sessions /\ r \notin Credits
  BY CallersAssumption DEF LockInv, HoldersInv, Sessions
<1>2. /\ Ends(r) \/ GoesOn(r)
      /\ Grow(r) /\ Others(r) /\ UNCHANGED <<quotes, body>>
  BY <1>1, RequestEffect
<1>3. HoldInv(r)' /\ InsertInv(r)'
  BY <1>1, <1>2, HoldEnds, HoldAdvance
<1>4. QED
  BY <1>1, <1>2, <1>3, HoldOthers DEF HoldersInv

(* ... of a funding call ... *)
LEMMA FundingKeepsLocks ==
  ASSUME LockInv, NEW c \in Credits, Funding(c) \/ Fail(c)
  PROVE  HoldersInv'
<1>1. /\ IInv /\ FundingHolds(c) /\ c \in Sessions /\ c \notin Requests
      /\ body[c].acct \in Accounts
      /\ pc \in [Sessions -> ExecutionPhases \cup FundingPhases]
      /\ locks \in [Sessions -> SUBSET Resources]
  BY FundingFacts, CallersAssumption DEF LockInv, HoldersInv, Sessions, IInv, TypeOK,
     SessionsTyped
<1>2. /\ FundingHolds(c)' /\ Grow(c) /\ Others(c) /\ UNCHANGED <<quotes, body>>
  <2>1. ASSUME NEW W, NEW p \in {"fund_entry", "fund_commit"}, Statement(c, p, W),
               UNCHANGED body, pc[c] \in {"fund", "fund_entry"}
        PROVE  /\ FundingHolds(c)' /\ Grow(c) /\ Others(c) /\ UNCHANGED <<quotes, body>>
    <3>1. /\ pc'[c] = p /\ locks'[c] = locks[c] \cup Wants(c)
          /\ UNCHANGED tables /\ Others(c)
      BY <1>1, <2>1, StatementFacts DEF Others
    <3>2. Wants(c) \subseteq {BalanceRow(body[c].acct)}
      BY <2>1, WantsOf
    <3>3. locks[c] \subseteq {BalanceRow(body[c].acct)}
      BY <1>1 DEF FundingHolds
    <3>4. QED
      BY <2>1, <3>1, <3>2, <3>3 DEF FundingHolds, Grow, tables, BalanceRow
  <2>2. ASSUME NEW code, Abort(c, code), UNCHANGED body
        PROVE  /\ FundingHolds(c)' /\ Grow(c) /\ Others(c) /\ UNCHANGED <<quotes, body>>
    BY <1>1, <2>2, AbortEnds DEF FundingHolds, Grow, tables
  <2>3. CASE AddFunds(c)
    BY <2>1, <2>3 DEF AddFunds, At, Rest
  <2>4. CASE EnterFunds(c)
    <3>1. pc[c] = "fund_entry" /\ UNCHANGED body
      BY <2>4 DEF EnterFunds, At, Rest
    <3>2. \/ Statement(c, "fund_commit", {"credit_entry"})
          \/ Abort(c, "ledger_entries_amount_positive")
      BY <2>4 DEF EnterFunds
    <3>3. QED
      BY <2>1, <2>2, <3>1, <3>2
  <2>5. CASE CommitFunds(c)
    <3>1. /\ rows' = rows \cup {body[c].acct}
          /\ locks' = [locks EXCEPT ![c] = {}] /\ pc' = [pc EXCEPT ![c] = "done"]
          /\ UNCHANGED <<quotes, body>>
      BY <2>5 DEF CommitFunds, Answer, Rest
    <3>2. BalanceRow(body[c].acct) \in locks[c]
      BY <1>1, <2>5, CommitFundsView
    <3>3. QED
      BY <1>1, <3>1, <3>2 DEF FundingHolds, Grow, Others
  <2>6. CASE Fail(c)
    BY <2>2, <2>6 DEF Fail, Rest
  <2>7. QED
    BY <2>3, <2>4, <2>5, <2>6 DEF Funding
<1>3. QED
  BY <1>1, <1>2, HoldOthers DEF HoldersInv

(* ... by a new quote, which nobody has locked ... *)
LEMMA QuoteKeepsLocks ==
  ASSUME LockInv, NEW q \in Quotes, CreateQuote(q)
  PROVE  HoldersInv'
<1>1. PICK t \in Terms[q] : quotes' = [quotes EXCEPT ![q] = t]
  BY DEF CreateQuote
<1>2. quotes[q] = NoQuote /\ UNCHANGED <<rows, session, body>> /\ IInv
  BY DEF CreateQuote, Rest, LockInv
<1>3. ASSUME NEW r \in Requests PROVE HoldInv(r)' /\ InsertInv(r)'
  <2>1. /\ HoldInv(r) /\ InsertInv(r) /\ RequestInv(r) /\ body[r].quote \in Quotes
        /\ quotes \in [Quotes -> Term \cup {NoQuote}]
    BY <1>2, CallFacts DEF LockInv, HoldersInv, IInv, SessionsTyped
  <2>2. pc[r] \in WithQuote => TermsOf(r)' = TermsOf(r)
    BY <1>1, <1>2, <2>1 DEF RequestInv, QuoteInv, TermsOf
  <2>3. QED
    BY <1>2, <2>1, <2>2, HoldFrame DEF session
<1>4. \A c \in Credits : FundingHolds(c)'
  BY <1>2 DEF LockInv, HoldersInv, FundingHolds, session
<1>5. QED
  BY <1>3, <1>4 DEF HoldersInv

(* ... and by a step that touches neither rows nor locks. *)
LEMMA StillKeepsLocks ==
  ASSUME LockInv, UNCHANGED <<quotes, rows, pc, locks, body>>
  PROVE  HoldersInv'
<1>1. \A r \in Requests : HoldInv(r)' /\ InsertInv(r)'
  BY HoldFrame DEF LockInv, HoldersInv, TermsOf
<1>2. \A c \in Credits : FundingHolds(c)'
  BY DEF LockInv, HoldersInv, FundingHolds
<1>3. QED
  BY <1>1, <1>2 DEF HoldersInv

(* At the start nothing is locked. *)
LEMMA InitHolders == Init => HoldersInv
<1> SUFFICES ASSUME Init PROVE HoldersInv
  OBVIOUS
<1>1. \A s \in Sessions : locks[s] = {}
  BY DEF Init
<1>2. \A r \in Requests : pc[r] = "idle" /\ r \in Sessions
  BY DEF Init, Sessions
<1>3. ASSUME NEW r \in Requests PROVE HoldInv(r) /\ InsertInv(r)
  BY <1>1, <1>2 DEF HoldInv, InsertInv, PastFirstInsert, PastSecondInsert, WithFirst,
     WithBalances, Covered, Recorded
<1>4. QED
  BY <1>1, <1>3 DEF HoldersInv, FundingHolds, Sessions

(* Every step keeps HoldersInv. *)
LEMMA StepHolders == LockInv /\ [Next]_vars => HoldersInv'
<1> SUFFICES ASSUME LockInv, [Next]_vars PROVE HoldersInv'
  OBVIOUS
<1>1. CASE Tick \/ UNCHANGED vars
  BY <1>1, StillKeepsLocks DEF Tick, vars, tables, session
<1>2. ASSUME NEW q \in Quotes, CreateQuote(q) PROVE HoldersInv'
  BY <1>2, QuoteKeepsLocks
<1>3. ASSUME NEW r \in Requests, RequestStep(r) PROVE HoldersInv'
  BY <1>3, RequestKeepsLocks
<1>4. ASSUME NEW c \in Credits, Funding(c) \/ Fail(c) PROVE HoldersInv'
  BY <1>4, FundingKeepsLocks
<1>5. QED
  BY <1>1, <1>2, <1>3, <1>4 DEF Next, RequestStep, Sessions

(* So it always holds. *)
LEMMA LocksHeld == Spec => []LockInv
<1>1. Init => LockInv
  BY InitInv, InitHolders DEF LockInv
<1>2. LockInv /\ [Next]_vars => LockInv'
  BY StepInv, StepHolders DEF LockInv
<1>3. QED
  BY <1>1, <1>2, PTL DEF Spec
-----------------------------------------------------------------------------
(* Of finitely many currencies that are wanted, one is the last. *)
LEMMA LastCurrency ==
  ASSUME NEW C \in SUBSET Currencies, C # {}
  PROVE  \E c \in C : \A d \in C : ~(Rank[c] < Rank[d])
<1> DEFINE After(c) == {d \in Currencies : Rank[c] < Rank[d]}
           T == {After(c) : c \in C}
           R == StrictSubsetOrdering(Currencies)
<1>1. T \subseteq FiniteSubsetsOf(Currencies) /\ T # {}
  <2>1. ASSUME NEW c \in C PROVE After(c) \in FiniteSubsetsOf(Currencies)
    <3>1. After(c) \in SUBSET Currencies
      OBVIOUS
    <3> HIDE DEF After
    <3>2. IsFiniteSet(After(c))
      BY <3>1, CurrenciesAssumption, FS_Subset
    <3>3. QED
      BY <3>1, <3>2 DEF FiniteSubsetsOf
  <2>2. QED
    BY <2>1
<1>2. IsWellFoundedOn(R, FiniteSubsetsOf(Currencies))
  BY FS_StrictSubsetOrderingWellFounded
<1>3. \E x \in T : \A y \in T : ~(<<y, x>> \in R)
  <2> HIDE DEF T, R
  <2> QED
    BY <1>1, <1>2, WFMin
<1>4. PICK c \in C : \A d \in C : <<After(d), After(c)>> \notin R
  BY <1>3
<1>5. ASSUME NEW d \in C, Rank[c] < Rank[d] PROVE FALSE
  <2>1. After(d) \subseteq After(c)
    BY <1>5, RankAssumption
  <2>2. d \in After(c) /\ d \notin After(d)
    BY <1>5, RankAssumption
  <2>3. QED
    BY <1>4, <2>1, <2>2 DEF StrictSubsetOrdering
<1>6. QED
  BY <1>4, <1>5

(* The balance row an execution is about to insert or to lock. *)
Wanted(r) ==
    IF pc[r] \in {"upsert_first", "lock_first"} THEN First(TermsOf(r))
    ELSE Second(TermsOf(r))

(* The statements that want one, INSERT ... ON CONFLICT DO NOTHING and     *)
(* SELECT ... FOR UPDATE.                                                  *)
Inserting == {"upsert_first", "upsert_second"}
Locking == {"lock_first", "lock_second"}

(* Of an execution's two rows, the second is later in the order. *)
LEMMA InOrder ==
  ASSUME NEW t \in Term, t.from # t.to
  PROVE  /\ First(t)[1] = Second(t)[1] /\ First(t) # Second(t)
         /\ {First(t)[2], Second(t)[2]} \subseteq Currencies
         /\ Rank[First(t)[2]] < Rank[Second(t)[2]]
<1>1. /\ t.from \in Currencies /\ t.to \in Currencies
      /\ Rank[t.from] \in Nat /\ Rank[t.to] \in Nat /\ Rank[t.from] # Rank[t.to]
  BY RankAssumption DEF Term
<1>2. /\ FromAcct(t)[1] = t.cust /\ FromAcct(t)[2] = t.from
      /\ ToAcct(t)[1] = t.cust /\ ToAcct(t)[2] = t.to /\ FromAcct(t) # ToAcct(t)
  BY <1>1 DEF FromAcct, ToAcct
<1>3. CASE Rank[t.from] < Rank[t.to]
  BY <1>1, <1>2, <1>3 DEF First, Second
<1>4. CASE Rank[t.to] < Rank[t.from]
  BY <1>1, <1>2, <1>4 DEF First, Second
<1>5. QED
  BY <1>1, <1>3, <1>4

(* What the statement of a session that waits is, and for which rows. *)
LEMMA WaiterOf ==
  ASSUME LockInv, NEW s \in Sessions, Waits(s) # {}
  PROVE  \/ s \in Requests /\ pc[s] = "reserve" /\ \E k \in Keys : Wants(s) = {KeyRow(k)}
         \/ /\ s \in Requests /\ pc[s] = "lock_quote"
            /\ \E q \in Quotes : Wants(s) = {QuoteRow(q)}
         \/ /\ s \in Requests /\ pc[s] \in Inserting
            /\ Wants(s) = {BalanceRow(Wanted(s))} /\ Wanted(s) \in Accounts \ rows
         \/ /\ s \in Requests /\ pc[s] \in Locking
            /\ Wants(s) = {BalanceRow(Wanted(s))} /\ Wanted(s) \in Accounts \cap rows
         \/ /\ s \in Requests /\ pc[s] = "record"
            /\ \E k \in Keys, q \in Quotes : Wants(s) = {TxKey(k), TxQuote(q)}
         \/ s \in Credits /\ pc[s] = "fund" /\ \E a \in Accounts : Wants(s) = {BalanceRow(a)}
<1>1. IInv /\ SessionsTyped
  BY DEF LockInv, IInv
<1>2. \E x \in Wants(s) : x \notin locks[s]
  BY <1>1 DEF Waits, IInv, LocksExclude
<1>3. CASE s \in Credits
  <2>1. pc[s] \in FundingPhases /\ body[s].acct \in Accounts
    BY <1>1, <1>3, FundingFacts DEF SessionsTyped
  <2>2. QED
    BY <1>2, <1>3, <2>1, WantsOf DEF FundingPhases
<1>4. CASE s \in Requests
  <2> DEFINE t == TermsOf(s)
  <2>1. /\ pc[s] \in ExecutionPhases /\ RequestInv(s) /\ body[s].quote \in Quotes
        /\ HoldInv(s) /\ InsertInv(s)
    BY <1>1, <1>4, CallFacts DEF SessionsTyped, IInv, LockInv, HoldersInv
  <2>2. pc[s] \in {"reserve"} \cup WithKey => body[s].key \in Keys
    BY <2>1 DEF RequestInv, KeyInv
  <2>3. pc[s] \in WithQuote =>
           First(t) \in Accounts /\ Second(t) \in Accounts
    BY <1>1, <1>4, <2>1, CallFacts, TermFacts DEF RequestInv, QuoteInv, TermsOf
  <2>4. PICK x \in Wants(s) : x \in Resources /\ x \notin locks[s]
    BY <1>1, <1>2, WantsAreRows
  <2>5. pc[s] \in {"reserve", "lock_quote", "record"} \cup Inserting \cup Locking
    BY <1>1, <1>4, <2>4, NewLocks DEF Resources, Inserting, Locking
  <2>6. CASE pc[s] = "reserve"
    BY <1>4, <2>2, <2>4, <2>6, WantsOf
  <2>7. CASE pc[s] = "lock_quote"
    BY <1>4, <2>1, <2>4, <2>7, WantsOf DEF QuoteForUpdate
  <2>8. CASE pc[s] = "record"
    BY <1>4, <2>1, <2>2, <2>8, WantsOf DEF WithKey, WithQuote, Executing, WithFirst,
       WithBalances, Covered
  <2>9. CASE pc[s] \in Inserting
    <3>1. Wants(s) = Insertable(Wanted(s))
      BY <2>9, WantsOf DEF Inserting, Wanted
    <3>2. Wanted(s) \in Accounts
      BY <2>3, <2>9 DEF Inserting, Wanted, WithQuote, Executing
    <3>3. QED
      BY <1>4, <2>4, <2>9, <3>1, <3>2 DEF Insertable
  <2>10. CASE pc[s] \in Locking
    <3>1. Wants(s) = {BalanceRow(Wanted(s))}
      BY <2>10, WantsOf DEF Locking, Wanted, BalanceForUpdate
    <3>2. Wanted(s) \in Accounts
      BY <2>3, <2>10 DEF Locking, Wanted, WithQuote, Executing, WithFirst
    <3>3. Wanted(s) \in rows \/ BalanceRow(Wanted(s)) \in locks[s]
      BY <2>1, <2>10 DEF InsertInv, Locking, Wanted, PastFirstInsert, PastSecondInsert, WithFirst
    <3>4. QED
      BY <1>4, <2>4, <2>10, <3>1, <3>2, <3>3
  <2>11. QED
    BY <2>5, <2>6, <2>7, <2>8, <2>9, <2>10
<1>5. QED
  BY <1>3, <1>4 DEF Sessions

(* Where a session that waits itself may be, given a lock that it holds:   *)
(* past the statement that wants such a lock, or at one that wants the row *)
(* of a later currency.                                                    *)
LEMMA HolderOf ==
  ASSUME LockInv, NEW o \in Sessions, Waits(o) # {}
  PROVE  /\ \A k \in Keys : KeyRow(k) \in locks[o] =>
               pc[o] \in {"lock_quote", "record"} \cup Inserting \cup Locking
         /\ \A q \in Quotes : QuoteRow(q) \in locks[o] =>
               pc[o] \in {"record"} \cup Inserting \cup Locking
         /\ \A k \in Keys : TxKey(k) \notin locks[o]
         /\ \A q \in Quotes : TxQuote(q) \notin locks[o]
         /\ \A a \in Accounts : BalanceRow(a) \in locks[o] =>
               \/ pc[o] = "record"
               \/ /\ pc[o] \in (IF a \in rows THEN Locking ELSE Inserting \cup Locking)
                  /\ pc[o] \in Inserting \/ a \in rows =>
                        Wanted(o) \in Accounts /\ Rank[a[2]] < Rank[Wanted(o)[2]]
<1>1. \/ /\ o \in Requests
         /\ pc[o] \in {"reserve", "lock_quote", "record"} \cup Inserting \cup Locking
      \/ o \in Credits /\ pc[o] = "fund"
  BY WaiterOf
<1>2. CASE o \in Credits /\ pc[o] = "fund"
  BY <1>2 DEF LockInv, HoldersInv, FundingHolds
<1>3. CASE /\ o \in Requests
           /\ pc[o] \in {"reserve", "lock_quote", "record"} \cup Inserting \cup Locking
  <2> DEFINE t == TermsOf(o)
  <2>1. HoldInv(o) /\ RequestInv(o) /\ SessionsTyped /\ body[o].quote \in Quotes
        /\ quotes[body[o].quote] \in Terms[body[o].quote] \cup {NoQuote}
    BY <1>3, CallFacts DEF LockInv, HoldersInv, IInv, TypeOK
  <2>2. /\ pc[o] \in WithKey => pc[o] # "reserve"
        /\ pc[o] \in WithQuote => pc[o] \notin {"reserve", "lock_quote"}
        /\ pc[o] \notin Recorded
    BY <1>3 DEF WithKey, WithQuote, Executing, WithFirst, WithBalances, Covered, Recorded,
       Inserting, Locking
  <2>3. ASSUME NEW a \in Accounts, BalanceRow(a) \in locks[o], pc[o] # "record"
        PROVE  /\ pc[o] \in (IF a \in rows THEN Locking ELSE Inserting \cup Locking)
               /\ pc[o] \in Inserting \/ a \in rows =>
                     Wanted(o) \in Accounts /\ Rank[a[2]] < Rank[Wanted(o)[2]]
    <3>1. HoldsFirst(o, a) \/ HoldsSecond(o, a)
      BY <2>1, <2>3 DEF HoldInv
    <3>2. pc[o] \in {"upsert_second"} \cup Locking
      BY <1>3, <2>3, <3>1 DEF HoldsFirst, HoldsSecond, PastFirstInsert, PastSecondInsert,
         WithFirst, WithBalances, Covered, Recorded, Inserting, Locking
    <3>3. t \in Term /\ t.from # t.to
      <4>1. pc[o] \in WithQuote
        BY <3>2 DEF Locking, WithQuote, Executing, WithFirst
      <4>2. t \in Term /\ t \in Terms[body[o].quote]
        BY <1>3, <2>1, <4>1, CallFacts DEF RequestInv, QuoteInv, TermsOf
      <4>3. QED
        BY <2>1, <4>2, TermsAssumption
    <3>4. /\ First(t) \in Accounts /\ Second(t) \in Accounts
          /\ Rank[First(t)[2]] < Rank[Second(t)[2]]
      BY <3>3, TermFacts, InOrder
    <3>5. CASE pc[o] = "upsert_second"
      <4>1. a = First(t) /\ a \notin rows
        BY <3>1, <3>5 DEF HoldsFirst, HoldsSecond, PastSecondInsert, WithFirst, WithBalances,
           Covered, Recorded
      <4>2. QED
        BY <3>4, <3>5, <4>1 DEF Wanted, Inserting, Locking
    <3>6. CASE pc[o] \in Locking
      <4>1. a \in rows => a = First(t) /\ pc[o] = "lock_second"
        BY <3>1, <3>6 DEF HoldsFirst, HoldsSecond, WithFirst, WithBalances, Covered, Recorded,
           Locking
      <4>2. QED
        BY <3>4, <3>6, <4>1 DEF Wanted, Inserting, Locking
    <3>7. QED
      BY <3>2, <3>5, <3>6
  <2>4. QED
    BY <1>3, <2>1, <2>2, <2>3 DEF HoldInv
<1>4. QED
  BY <1>1, <1>2, <1>3

(* If each of a set of executions wants a row after which another one of   *)
(* them wants a later one, the set is empty.                               *)
LEMMA NobodyAtAll ==
  ASSUME NEW P, NEW D,
         \A s \in D : pc[s] \in P =>
            /\ Wanted(s) \in Accounts
            /\ \E o \in D : /\ pc[o] \in P /\ Wanted(o) \in Accounts
                           /\ Rank[Wanted(s)[2]] < Rank[Wanted(o)[2]]
  PROVE  \A s \in D : pc[s] \notin P
<1> DEFINE B == {o \in D : pc[o] \in P}
           C == {Wanted(o)[2] : o \in B}
<1>1. C \in SUBSET Currencies
  BY DEF Accounts
<1>2. \A c \in C : \E d \in C : Rank[c] < Rank[d]
  OBVIOUS
<1>3. C = {}
  <2> HIDE DEF C
  <2> QED
    BY <1>1, <1>2, LastCurrency
<1>4. QED
  BY <1>3

(* No set of sessions waits in a circle: its members would be at ever      *)
(* later statements, or want rows of ever later currencies.                *)
LEMMA Acyclic ==
  ASSUME LockInv, NEW D \in SUBSET Sessions, \A s \in D : Waits(s) \cap D # {}
  PROVE  D = {}
<1>1. ASSUME NEW s \in D PROVE Waits(s) # {} /\ s \in Sessions
  BY <1>1
<1>2. ASSUME NEW s \in D
      PROVE  \E o \in D : o \in Sessions /\ Waits(o) # {} /\ \E x \in Wants(s) : x \in locks[o]
  BY <1>1 DEF Waits
<1>3. ASSUME NEW s \in D PROVE pc[s] # "record"
  <2>1. SUFFICES ASSUME pc[s] = "record" PROVE FALSE
    OBVIOUS
  <2>2. PICK k \in Keys, q \in Quotes : Wants(s) = {TxKey(k), TxQuote(q)}
    BY <1>1, <2>1, WaiterOf DEF Inserting, Locking
  <2>3. PICK o \in D : /\ o \in Sessions /\ Waits(o) # {}
                       /\ TxKey(k) \in locks[o] \/ TxQuote(q) \in locks[o]
    BY <1>2, <2>2
  <2>4. QED
    BY <2>3, HolderOf
<1>4. ASSUME NEW s \in D PROVE pc[s] \notin Locking
  <2> SUFFICES ASSUME NEW u \in D, pc[u] \in Locking
               PROVE  /\ Wanted(u) \in Accounts
                      /\ \E o \in D : /\ pc[o] \in Locking /\ Wanted(o) \in Accounts
                                     /\ Rank[Wanted(u)[2]] < Rank[Wanted(o)[2]]
    BY NobodyAtAll
  <2>1. Wants(u) = {BalanceRow(Wanted(u))} /\ Wanted(u) \in Accounts \cap rows
    BY <1>1, WaiterOf DEF Inserting, Locking
  <2>2. PICK o \in D : o \in Sessions /\ Waits(o) # {} /\ BalanceRow(Wanted(u)) \in locks[o]
    BY <1>2, <2>1
  <2>3. pc[o] # "record"
    BY <1>3
  <2>4. QED
    BY <2>1, <2>2, <2>3, HolderOf
<1>5. ASSUME NEW s \in D PROVE pc[s] \notin Inserting
  <2> SUFFICES ASSUME NEW u \in D, pc[u] \in Inserting
               PROVE  /\ Wanted(u) \in Accounts
                      /\ \E o \in D : /\ pc[o] \in Inserting /\ Wanted(o) \in Accounts
                                     /\ Rank[Wanted(u)[2]] < Rank[Wanted(o)[2]]
    BY NobodyAtAll
  <2>1. Wants(u) = {BalanceRow(Wanted(u))} /\ Wanted(u) \in Accounts \ rows
    BY <1>1, WaiterOf DEF Inserting, Locking
  <2>2. PICK o \in D : o \in Sessions /\ Waits(o) # {} /\ BalanceRow(Wanted(u)) \in locks[o]
    BY <1>2, <2>1
  <2>3. pc[o] # "record" /\ pc[o] \notin Locking
    BY <1>3, <1>4
  <2>4. QED
    BY <2>1, <2>2, <2>3, HolderOf
<1>6. ASSUME NEW s \in D PROVE pc[s] \notin Inserting \cup Locking
  BY <1>4, <1>5
<1>7. ASSUME NEW s \in D PROVE pc[s] # "lock_quote"
  <2>1. SUFFICES ASSUME pc[s] = "lock_quote" PROVE FALSE
    OBVIOUS
  <2>2. PICK q \in Quotes : Wants(s) = {QuoteRow(q)}
    BY <1>1, <2>1, WaiterOf DEF Inserting, Locking
  <2>3. PICK o \in D : o \in Sessions /\ Waits(o) # {} /\ QuoteRow(q) \in locks[o]
    BY <1>2, <2>2
  <2>4. pc[o] \notin {"record"} \cup Inserting \cup Locking
    BY <1>3, <1>6
  <2>5. QED
    BY <2>3, <2>4, HolderOf
<1>8. ASSUME NEW s \in D PROVE pc[s] # "reserve"
  <2>1. SUFFICES ASSUME pc[s] = "reserve" PROVE FALSE
    OBVIOUS
  <2>2. PICK k \in Keys : Wants(s) = {KeyRow(k)}
    BY <1>1, <2>1, WaiterOf DEF Inserting, Locking
  <2>3. PICK o \in D : o \in Sessions /\ Waits(o) # {} /\ KeyRow(k) \in locks[o]
    BY <1>2, <2>2
  <2>4. pc[o] \notin {"lock_quote", "record"} \cup Inserting \cup Locking
    BY <1>3, <1>6, <1>7
  <2>5. QED
    BY <2>3, <2>4, HolderOf
<1>9. ASSUME NEW s \in D PROVE pc[s] # "fund"
  <2>1. SUFFICES ASSUME pc[s] = "fund" PROVE FALSE
    OBVIOUS
  <2>2. PICK a \in Accounts : Wants(s) = {BalanceRow(a)}
    BY <1>1, <2>1, WaiterOf DEF Inserting, Locking
  <2>3. PICK o \in D : o \in Sessions /\ Waits(o) # {} /\ BalanceRow(a) \in locks[o]
    BY <1>2, <2>2
  <2>4. pc[o] \notin {"record"} \cup Inserting \cup Locking
    BY <1>3, <1>6
  <2>5. QED
    BY <2>3, <2>4, HolderOf
<1>10. QED
  BY <1>1, <1>3, <1>6, <1>7, <1>8, <1>9, WaiterOf

(* No set of executions and funding calls waits in a circle, because the   *)
(* balance rows are inserted and locked in the order of their currencies.  *)
THEOREM DeadlockFree == Spec => []NoDeadlock
<1>1. LockInv => NoDeadlock
  <2> SUFFICES ASSUME LockInv, NEW D \in (SUBSET Sessions) \ {{}},
                      \A s \in D : Waits(s) \cap D # {}
               PROVE  FALSE
    BY DEF NoDeadlock
  <2> QED
    BY Acyclic
<1>2. QED
  BY <1>1, LocksHeld, PTL
=============================================================================
