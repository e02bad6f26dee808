---------------------------- MODULE RateProvider ----------------------------
(***************************************************************************)
(* The rate provider of every API worker (app/providers/rates.py) and the  *)
(* Redis key they share (app/services/cache.py).                           *)
(*                                                                         *)
(* Rates are modelled by where they came from and by their age: the ticks  *)
(* since upstream was asked for them. Everything that is quoted depends on *)
(* the twelve mid rates only through that.                                 *)
(***************************************************************************)
EXTENDS Integers, FiniteSets

CONSTANTS
    Workers,        \* API worker processes
    Callers,        \* calls of POST /rates/refresh a worker may serve at once
    Interval,       \* settings.rate_refresh_interval_seconds, in ticks
    Stale,          \* settings.rate_stale_seconds
    Buffer,         \* _CACHE_TTL_BUFFER_S
    Latency,        \* bound: a call of upstream or Redis takes no longer
    None            \* no rates, no holder

ASSUME TimesAssumption ==
    /\ {Interval, Stale, Buffer, Latency} \subseteq Nat
    /\ Interval > 0 /\ Stale > 0

ASSUME CallersAssumption == Callers \cap {"start", "loop"} = {}

ASSUME NoneAssumption ==
    /\ None \notin {"start", "loop"} \cup Callers
    /\ None \notin [src : {"api", "redis", "seed"}, age : Nat]
    /\ None \notin [age : Nat, ttl : Nat]

TTL == Stale + Buffer

(* Bound on ages: nothing distinguishes older rates from those. *)
Old == Stale + TTL + 3 * Latency + 1

(* The coroutines of a worker that refresh its rates. *)
Tasks == {"start", "loop"} \cup Callers

VARIABLES
    phase,          \* phase[w]: down, starting, fallback or serving
    mids,           \* _mids: [src, age]
    fetchedAge,     \* how long ago _fetched_at is
    lock,           \* who holds _lock
    task,           \* task[w][t]: where coroutine t of worker w stands
    flight,         \* flight[w][t]: the age of the rates t has asked for
    cached,         \* what Redis has answered start(), on its way: [src, age]
    slept,          \* how long the background loop has slept
    failed,         \* the last fetch of the worker failed
    slow,           \* the snapshot of its last fetch takes more than Latency
    redis           \* the key fx:rates:mids: [age, ttl], or None

aside == <<failed, slow, cached>>
process == <<phase, task, lock, slept, aside>>
vars == <<process, mids, fetchedAge, flight, redis>>

Older(n) == IF n < Old THEN n + 1 ELSE Old
Aged(r) == [r EXCEPT !.age = Older(@)]

(* is_stale() *)
NeverStale(w) == FALSE
IsStale(w) == fetchedAge[w] > Stale

(* get_effective_rate() answers. *)
Quotable(w) == phase[w] = "serving" /\ ~IsStale(w)

-----------------------------------------------------------------------------
Goes(w, t, p) == task' = [task EXCEPT ![w][t] = p]

(* What a coroutine does once _do_refresh() has returned or raised. *)
LoopDies(t) == "idle"
Resumes(t) == IF t = "loop" THEN "sleep" ELSE "idle"

(* start() has its rates: requests are served, the loop goes to sleep. *)
Serve(w) ==
    /\ phase' = [phase EXCEPT ![w] = "serving"]
    /\ task' = [task EXCEPT ![w]["start"] = "idle", ![w]["loop"] = "sleep"]

Boot(w) ==
    /\ phase[w] = "down"
    /\ phase' = [phase EXCEPT ![w] = "starting"]
    /\ Goes(w, "start", "wait")
    /\ UNCHANGED <<lock, slept, aside, mids, fetchedAge, flight, redis>>

(* POST /rates/refresh *)
Call(w, t) ==
    /\ phase[w] = "serving" /\ t \in Callers /\ task[w][t] = "idle"
    /\ Goes(w, t, "wait")
    /\ UNCHANGED <<phase, lock, slept, aside, mids, fetchedAge, flight, redis>>

(* The background loop has slept long enough. *)
Wake(w) ==
    /\ task[w]["loop"] = "sleep" /\ slept[w] = Interval
    /\ Goes(w, "loop", "wait")
    /\ slept' = [slept EXCEPT ![w] = 0]
    /\ UNCHANGED <<phase, lock, aside, mids, fetchedAge, flight, redis>>

(* async with self._lock; the request goes out. *)
AskWithoutLock(w, t) ==
    /\ task[w][t] = "wait"
    /\ lock' = [lock EXCEPT ![w] = t]
    /\ flight' = [flight EXCEPT ![w][t] = 0]
    /\ Goes(w, t, "http")
    /\ UNCHANGED <<phase, slept, aside, mids, fetchedAge, redis>>
Ask(w, t) ==
    /\ task[w][t] = "wait" /\ lock[w] = None
    /\ lock' = [lock EXCEPT ![w] = t]
    /\ flight' = [flight EXCEPT ![w][t] = 0]
    /\ Goes(w, t, "http")
    /\ UNCHANGED <<phase, slept, aside, mids, fetchedAge, redis>>

(* The rates and their time are replaced with no await in between. *)
Answered(w, t) ==
    /\ task[w][t] = "http"
    /\ mids' = [mids EXCEPT ![w] = [src |-> "api", age |-> flight[w][t]]]
    /\ fetchedAge' = [fetchedAge EXCEPT ![w] = 0]
    /\ failed' = [failed EXCEPT ![w] = FALSE]
    /\ slow' = [slow EXCEPT ![w] = FALSE]
    /\ Goes(w, t, "cache")
    /\ UNCHANGED <<phase, lock, slept, cached, flight, redis>>

(* No answer, an error status, or a body without the three rates: the old  *)
(* rates stay. Only start() has a fallback.                                *)
NotAnsweredServing(w, t) ==
    /\ task[w][t] = "http"
    /\ failed' = [failed EXCEPT ![w] = TRUE]
    /\ lock' = [lock EXCEPT ![w] = None]
    /\ IF t = "start" THEN Serve(w) ELSE Goes(w, t, Resumes(t)) /\ UNCHANGED phase
    /\ UNCHANGED <<slept, slow, cached, mids, fetchedAge, flight, redis>>
NotAnswered(w, t) ==
    /\ task[w][t] = "http"
    /\ failed' = [failed EXCEPT ![w] = TRUE]
    /\ lock' = [lock EXCEPT ![w] = None]
    /\ Goes(w, t, Resumes(t))
    /\ IF t = "start"
       THEN /\ phase' = [phase EXCEPT ![w] = "fallback"]
            /\ flight' = [flight EXCEPT ![w][t] = 0]
       ELSE UNCHANGED <<phase, flight>>
    /\ UNCHANGED <<slept, slow, cached, mids, fetchedAge, redis>>

(* cache_rates(): written with the TTL, or Redis was not there. *)
WriteCache(w, t) ==
    /\ task[w][t] = "cache"
    /\ redis' \in {redis, [age |-> flight[w][t], ttl |-> TTL]}
    /\ Goes(w, t, "persist")
    /\ UNCHANGED <<phase, lock, slept, aside, mids, fetchedAge, flight>>

(* _persist_snapshot() succeeds or logs its failure; the lock is released. *)
(* It waits for a connection without a timeout and runs twelve statements, *)
(* so it may take any time.                                                *)
Persist(w, t) ==
    /\ task[w][t] = "persist"
    /\ lock' = [lock EXCEPT ![w] = None]
    /\ IF t = "start" THEN Serve(w) ELSE Goes(w, t, Resumes(t)) /\ UNCHANGED phase
    /\ UNCHANGED <<slept, aside, mids, fetchedAge, flight, redis>>

(* load_cached_rates(): what the key holds when Redis runs the GET; the    *)
(* seed rates if it holds nothing or Redis does not answer.                *)
Loadable ==
    {[src |-> "seed", age |-> Old]} \cup
    (IF redis = None THEN {} ELSE {[src |-> "redis", age |-> redis.age]})

Load(w) ==
    /\ phase[w] = "fallback" /\ cached[w] = None
    /\ \E r \in Loadable : cached' = [cached EXCEPT ![w] = r]
    /\ UNCHANGED <<phase, task, lock, slept, failed, slow, mids, fetchedAge>>
    /\ UNCHANGED <<flight, redis>>

(* The reply is there: these rates count as fetched now. *)
FallbackAndCache(w) ==
    /\ phase[w] = "fallback" /\ cached[w] # None
    /\ mids' = [mids EXCEPT ![w] = cached[w]]
    /\ redis' = IF cached[w].src = "redis"
                THEN [age |-> cached[w].age, ttl |-> TTL] ELSE redis
    /\ fetchedAge' = [fetchedAge EXCEPT ![w] = 0]
    /\ cached' = [cached EXCEPT ![w] = None]
    /\ Serve(w)
    /\ UNCHANGED <<lock, slept, failed, slow, flight>>
Fallback(w) ==
    /\ phase[w] = "fallback" /\ cached[w] # None
    /\ mids' = [mids EXCEPT ![w] = cached[w]]
    /\ fetchedAge' = [fetchedAge EXCEPT ![w] = 0]
    /\ cached' = [cached EXCEPT ![w] = None]
    /\ Serve(w)
    /\ UNCHANGED <<lock, slept, failed, slow, flight, redis>>

(* The process dies or is stopped: its memory is gone, Redis is not. *)
Crash(w) ==
    /\ phase[w] # "down"
    /\ phase' = [phase EXCEPT ![w] = "down"]
    /\ task' = [task EXCEPT ![w] = [t \in Tasks |-> "idle"]]
    /\ lock' = [lock EXCEPT ![w] = None]
    /\ slept' = [slept EXCEPT ![w] = 0]
    /\ failed' = [failed EXCEPT ![w] = FALSE]
    /\ slow' = [slow EXCEPT ![w] = FALSE]
    /\ cached' = [cached EXCEPT ![w] = None]
    /\ mids' = [mids EXCEPT ![w] = None]
    /\ fetchedAge' = [fetchedAge EXCEPT ![w] = Old]
    /\ flight' = [flight EXCEPT ![w] = [t \in Tasks |-> 0]]
    /\ UNCHANGED redis

(* Redis restarts empty. *)
LoseCache ==
    /\ redis # None
    /\ redis' = None
    /\ UNCHANGED <<process, mids, fetchedAge, flight>>

-----------------------------------------------------------------------------
(* Each call of upstream or Redis has its share of time. *)
Overdue(w, t) ==
    \/ task[w][t] = "http" /\ flight[w][t] >= Latency
    \/ task[w][t] = "cache" /\ flight[w][t] >= 2 * Latency
    \/ t = "start" /\ phase[w] = "fallback" /\ flight[w][t] >= Latency
    \/ task[w][t] = "wait" /\ lock[w] = None
    \/ task[w][t] = "sleep" /\ slept[w] >= Interval

(* A snapshot that has not had its share of time. *)
Late(w, t) == task[w][t] = "persist" /\ flight[w][t] >= 3 * Latency

(* Coroutine t of worker w waits for an answer. *)
Away(w, t) ==
    \/ task[w][t] \in {"http", "cache", "persist"}
    \/ t = "start" /\ phase[w] = "fallback"

OrNone(r) == IF r = None THEN None ELSE Aged(r)

Tick ==
    /\ \A w \in Workers : \A t \in Tasks : ~Overdue(w, t)
    /\ mids' = [w \in Workers |-> OrNone(mids[w])]
    /\ cached' = [w \in Workers |-> OrNone(cached[w])]
    /\ fetchedAge' = [w \in Workers |-> Older(fetchedAge[w])]
    /\ flight' = [w \in Workers |-> [t \in Tasks |->
            IF Away(w, t) /\ ~Late(w, t) THEN flight[w][t] + 1 ELSE flight[w][t]]]
    /\ slow' = [w \in Workers |-> slow[w] \/ \E t \in Tasks : Late(w, t)]
    /\ slept' = [w \in Workers |->
            IF task[w]["loop"] = "sleep" THEN slept[w] + 1 ELSE slept[w]]
    /\ redis' = IF redis = None \/ redis.ttl = 1 THEN None
                ELSE [Aged(redis) EXCEPT !.ttl = @ - 1]
    /\ UNCHANGED <<phase, task, lock, failed>>

Refresh(w, t) ==
    Ask(w, t) \/ Answered(w, t) \/ WriteCache(w, t) \/ Persist(w, t)

Init ==
    /\ phase = [w \in Workers |-> "down"]
    /\ mids = [w \in Workers |-> None]
    /\ fetchedAge = [w \in Workers |-> Old]
    /\ lock = [w \in Workers |-> None]
    /\ task = [w \in Workers |-> [t \in Tasks |-> "idle"]]
    /\ flight = [w \in Workers |-> [t \in Tasks |-> 0]]
    /\ slept = [w \in Workers |-> 0]
    /\ failed = [w \in Workers |-> FALSE]
    /\ slow = [w \in Workers |-> FALSE]
    /\ cached = [w \in Workers |-> None]
    /\ redis = None

Next ==
    \/ Tick \/ LoseCache
    \/ \E w \in Workers :
          \/ Boot(w) \/ Wake(w) \/ Load(w) \/ Fallback(w) \/ Crash(w)
          \/ \E t \in Tasks : Call(w, t) \/ Refresh(w, t) \/ NotAnswered(w, t)

Spec == Init /\ [][Next]_vars

(* Time passes, the coroutines go on, and upstream answers again and again *)
(* when it is asked again and again. Nobody is obliged to call or to boot. *)
Fairness ==
    /\ WF_vars(Tick)
    /\ \A w \in Workers :
          /\ WF_vars(Wake(w)) /\ WF_vars(Load(w)) /\ WF_vars(Fallback(w))
          /\ \A t \in Tasks : /\ WF_vars(Refresh(w, t))
                              /\ SF_vars(Answered(w, t))

FairSpec == Spec /\ Fairness
-----------------------------------------------------------------------------
Ages == 0 .. Old

(* Every variable has its type, the lock is held by the one coroutine that *)
(* is refreshing, and nobody is served by a worker without rates.          *)
TypeOK ==
    /\ phase \in [Workers -> {"down", "starting", "fallback", "serving"}]
    /\ mids \in [Workers -> [src : {"api", "redis", "seed"}, age : Ages] \cup {None}]
    /\ fetchedAge \in [Workers -> Ages]
    /\ task \in [Workers -> [Tasks ->
                  {"idle", "wait", "http", "cache", "persist", "sleep"}]]
    /\ flight \in [Workers -> [Tasks -> 0 .. 3 * Latency]]
    /\ slept \in [Workers -> 0 .. Interval]
    /\ failed \in [Workers -> BOOLEAN] /\ slow \in [Workers -> BOOLEAN]
    /\ cached \in [Workers -> [src : {"redis", "seed"}, age : Ages] \cup {None}]
    /\ redis \in [age : Ages, ttl : 1 .. TTL] \cup {None}
    /\ \A w \in Workers : \A t \in Tasks :
          lock[w] = t <=> task[w][t] \in {"http", "cache", "persist"}
    /\ \A w \in Workers : phase[w] = "serving" => mids[w] # None

(* SPEC.md:177-178: rates that a worker fetched itself are not quoted once *)
(* they are older than the threshold, give or take the time of the fetch.  *)
OwnRatesAreFresh ==
    \A w \in Workers :
        Quotable(w) /\ mids[w].src = "api" => mids[w].age <= Stale + Latency

(* services/cache.py:45: rates from Redis are quoted for at most the life  *)
(* of the key and the threshold together, give or take the three calls     *)
(* that fetched, wrote and read them, however often workers restart:       *)
(* loading them does not prolong the key.                                  *)
CachedRatesAreBounded ==
    \A w \in Workers :
        Quotable(w) /\ mids[w].src = "redis" =>
            mids[w].age <= Stale + TTL + 3 * Latency

(* providers/rates.py:179: the refreshes of a worker queue on its lock, so *)
(* it never overwrites the key with older rates than it wrote before.      *)
(* (Two workers may: each has a lock of its own.)                          *)
CacheNeverGoesBack ==
    [][redis # None /\ redis' # None /\ redis'.ttl > redis.ttl
         => redis'.age <= redis.age]_vars

(* providers/rates.py:165-222, config.py: with an interval this much below *)
(* the threshold, a worker is only stale for a reason: its last fetch      *)
(* failed, or the snapshot of the one before it has been long in the       *)
(* making, with the lock that the next fetch waits for.                    *)
StaleHasACause ==
    \A w \in Workers :
        phase[w] = "serving" /\ IsStale(w) => failed[w] \/ slow[w]

(* providers/rates.py:172: the loop survives its failures, so a worker     *)
(* that stays up can quote again and again once upstream answers.          *)
WorkersRecover ==
    \A w \in Workers : <>[](phase[w] = "serving") => []<>Quotable(w)
-----------------------------------------------------------------------------
(* providers/rates.py:72: "Rates older than `rate_stale_seconds` cause new *)
(* quote requests to return 503 until a refresh succeeds". Rates loaded    *)
(* from Redis on a restart count as fetched at that moment.                *)
QuotedRatesAreFresh ==
    \A w \in Workers :
        Quotable(w) /\ mids[w].src # "seed" => mids[w].age <= Stale + Latency
=============================================================================
