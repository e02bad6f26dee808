------------------------- MODULE RateProviderProofs --------------------------
(***************************************************************************)
(* Theorems about the rate provider, for any number of workers and callers *)
(* of POST /rates/refresh and any timing. IInv is inductive: what TypeOK   *)
(* says, where the coroutines of a worker stand in each phase of its life, *)
(* how long a refresh has taken, and two comparisons of clocks. Rates are  *)
(* not much older than _fetched_at makes them (AgeInv), and the key is not *)
(* much older than the part of its time to live that is gone (KeyInv).     *)
(***************************************************************************)
EXTENDS RateProvider, TLAPS

(* A coroutine is inside _do_refresh(): it holds _lock. *)
Refreshing == {"http", "cache", "persist"}

(* Where the coroutines of a worker may be while it is in a phase. *)
PhaseInv(w) ==
    /\ phase[w] \in {"down", "fallback"} => \A t \in Tasks : task[w][t] = "idle"
    /\ phase[w] = "starting" =>
          /\ task[w]["start"] \in {"wait"} \cup Refreshing
          /\ \A t \in Tasks \ {"start"} : task[w][t] = "idle"
    /\ phase[w] = "serving" =>
          /\ task[w]["start"] = "idle"
          /\ task[w]["loop"] \in {"wait", "sleep"} \cup Refreshing
    /\ \A t \in Tasks : task[w][t] = "sleep" => t = "loop"

(* How long a refresh, or the fallback of start(), has taken so far. *)
FlightInv(w) ==
    /\ \A t \in Tasks :
          /\ task[w][t] = "http" => flight[w][t] <= Latency
          /\ task[w][t] = "cache" => flight[w][t] <= 2 * Latency
    /\ phase[w] = "fallback" => flight[w]["start"] <= Latency

(* Rates are not much older than the worker takes them to be. *)
AgeInv(w) ==
    mids[w] # None =>
        /\ mids[w].src = "api" => mids[w].age <= fetchedAge[w] + Latency
        /\ mids[w].src = "redis" => mids[w].age <= fetchedAge[w] + TTL + 3 * Latency

(* What Redis has answered start() has aged on its way at most as long as  *)
(* start() waits.                                                          *)
CachedInv(w) ==
    cached[w] # None =>
        /\ phase[w] = "fallback"
        /\ cached[w].src = "redis" =>
              cached[w].age <= TTL + 2 * Latency + flight[w]["start"]

(* The key ages as its time to live shrinks. *)
KeyInv ==
    redis # None => redis.age <= TTL - redis.ttl + 2 * Latency

(* How long ago the last fetch was, unless one failed or a snapshot was    *)
(* slow: less than the sleep of the loop and the fetch before it, and the  *)
(* time of a fetch under way.                                              *)
RecentInv(w) ==
    phase[w] # "down" /\ phase[w] # "starting" /\ ~failed[w] /\ ~slow[w] =>
       LET loop == task[w]["loop"]
           Since == 3 * Latency + Interval
       IN  /\ phase[w] = "serving"
           /\ loop = "sleep" => fetchedAge[w] <= 3 * Latency + slept[w]
           /\ lock[w] = None => fetchedAge[w] <= Since
           /\ \A t \in Tasks :
                 /\ task[w][t] = "http" => fetchedAge[w] <= Since + flight[w][t]
                 /\ task[w][t] \in {"cache", "persist"} => fetchedAge[w] <= flight[w][t]

(* start() has fetched its rates and is storing them. *)
StartInv(w) ==
    phase[w] = "starting" /\ task[w]["start"] \in {"cache", "persist"} =>
        mids[w] # None /\ (slow[w] \/ fetchedAge[w] <= flight[w]["start"])

(* TypeOK in parts: the functions, and what it says of each worker. *)
Typed ==
    /\ phase \in [Workers -> {"down", "starting", "fallback", "serving"}]
    /\ mids \in [Workers -> [src : {"api", "redis", "seed"}, age : Ages] \cup {None}]
    /\ fetchedAge \in [Workers -> Ages]
    /\ task \in [Workers -> [Tasks ->
                  {"idle", "wait", "http", "cache", "persist", "sleep"}]]
    /\ flight \in [Workers -> [Tasks -> 0 .. 3 * Latency]]
    /\ slept \in [Workers -> 0 .. Interval]
    /\ failed \in [Workers -> BOOLEAN] /\ slow \in [Workers -> BOOLEAN]
    /\ cached \in [Workers -> [src : {"redis", "seed"}, age : Ages] \cup {None}]
    /\ redis \in [age : Ages, ttl : 1 .. TTL] \cup {None}
    /\ lock \in [Workers -> Tasks \cup {None}]

(* The lock is held by the one coroutine that refreshes                    *)
(* (providers/rates.py:179).                                               *)
LockedBy(w) == \A t \in Tasks : lock[w] = t <=> task[w][t] \in Refreshing

(* All that is invariant of one worker. *)
WorkerInv(w) ==
    /\ LockedBy(w)
    /\ phase[w] = "serving" => mids[w] # None
    /\ PhaseInv(w) /\ FlightInv(w) /\ AgeInv(w) /\ CachedInv(w)
    /\ RecentInv(w) /\ StartInv(w)

(* The inductive invariant. *)
IInv == Typed /\ KeyInv /\ \A w \in Workers : WorkerInv(w)

(* An only worker has asked for its rates after it last wrote the key. *)
QueueInv ==
    redis # None =>
        \A w \in Workers : \A t \in Tasks :
            task[w][t] \in {"http", "cache"} => flight[w][t] <= redis.age

-----------------------------------------------------------------------------
(* The constants and the bounds made of them are natural numbers. *)
LEMMA Times ==
  /\ Interval \in Nat /\ Stale \in Nat /\ Buffer \in Nat /\ Latency \in Nat
  /\ TTL \in Nat /\ TTL >= 1 /\ Old \in Nat /\ Old = Stale + TTL + 3 * Latency + 1
  /\ Ages = 0 .. Old
BY TimesAssumption DEF TTL, Old, Ages

(* The same, without the bound on ages. *)
LEMMA Periods ==
  Interval \in Nat /\ Stale \in Nat /\ Latency \in Nat /\ TTL \in Nat
BY TimesAssumption DEF TTL

(* A clock may be set to zero. *)
LEMMA Zero ==
  0 \in Ages /\ 0 \in 0 .. Interval /\ 0 \in 0 .. 3 * Latency
BY Times

(* The clocks of a worker are natural numbers below their bounds. *)
LEMMA Numbers ==
  ASSUME Typed, NEW w \in Workers
  PROVE  /\ fetchedAge[w] \in Nat /\ fetchedAge[w] <= Old
         /\ slept[w] \in Nat /\ slept[w] <= Interval
         /\ \A t \in Tasks : flight[w][t] \in Nat /\ flight[w][t] <= 3 * Latency
<1>1. fetchedAge[w] \in Ages /\ slept[w] \in 0 .. Interval
  BY DEF Typed
<1>2. ASSUME NEW t \in Tasks PROVE flight[w][t] \in 0 .. 3 * Latency
  BY DEF Typed
<1>3. QED
  BY <1>1, <1>2, Times

(* The three kinds of coroutines are told apart, and None is none of them. *)
LEMMA TaskNames ==
  /\ "start" \in Tasks /\ "loop" \in Tasks /\ None \notin Tasks
  /\ Callers \subseteq Tasks /\ "start" \notin Callers /\ "loop" \notin Callers
BY CallersAssumption, NoneAssumption DEF Tasks

(* A step leaves another worker alone. *)
Stands(v) ==
    /\ phase'[v] = phase[v] /\ task'[v] = task[v] /\ lock'[v] = lock[v]
    /\ slept'[v] = slept[v] /\ failed'[v] = failed[v] /\ mids'[v] = mids[v]
    /\ fetchedAge'[v] = fetchedAge[v] /\ flight'[v] = flight[v]
    /\ slow'[v] = slow[v] /\ cached'[v] = cached[v]

(* What is invariant of a worker stays so while the worker stands still:   *)
(* its invariant mentions no variable of another worker, nor the key.      *)
LEMMA WorkerFrame ==
  ASSUME NEW v \in Workers, WorkerInv(v), Stands(v)
  PROVE  WorkerInv(v)'
BY DEF WorkerInv, Stands, LockedBy, PhaseInv, FlightInv, AgeInv,
       CachedInv, RecentInv, StartInv

(* A step of one worker has to be checked for that worker and the key only. *)
LEMMA Local ==
  ASSUME IInv, NEW w \in Workers, Typed', KeyInv', WorkerInv(w)',
         \A v \in Workers \ {w} : Stands(v)
  PROVE  IInv'
<1>1. ASSUME NEW v \in Workers PROVE WorkerInv(v)'
  <2>1. CASE v = w
    BY <2>1
  <2>2. CASE v # w
    BY <2>2, WorkerFrame DEF IInv
  <2>3. QED
    BY <2>1, <2>2
<1>2. QED
  BY <1>1 DEF IInv

(* A coroutine goes on. *)
LEMMA GoesFacts ==
  ASSUME Typed, NEW w \in Workers, NEW t \in Tasks,
         NEW p \in {"idle", "wait", "http", "cache", "persist", "sleep"}, Goes(w, t, p)
  PROVE  /\ task' \in [Workers -> [Tasks ->
                          {"idle", "wait", "http", "cache", "persist", "sleep"}]]
         /\ task'[w][t] = p
         /\ \A u \in Tasks \ {t} : task'[w][u] = task[w][u]
         /\ \A v \in Workers \ {w} : task'[v] = task[v]
BY DEF Typed, Goes

(* Booting, the first step of start() (providers/rates.py:79), keeps IInv. *)
LEMMA BootKeeps ==
  ASSUME IInv, NEW w \in Workers, Boot(w)
  PROVE  IInv'
<1>1. Typed /\ WorkerInv(w)
  BY DEF IInv
<1>2. /\ phase[w] = "down" /\ phase' = [phase EXCEPT ![w] = "starting"]
      /\ UNCHANGED <<lock, slept, failed, slow, cached, mids, fetchedAge, flight, redis>>
  BY DEF Boot, aside
<1>3. /\ task' \in [Workers -> [Tasks ->
                          {"idle", "wait", "http", "cache", "persist", "sleep"}]]
      /\ task'[w]["start"] = "wait"
      /\ \A u \in Tasks \ {"start"} : task'[w][u] = task[w][u]
      /\ \A v \in Workers \ {w} : task'[v] = task[v]
  BY <1>1, TaskNames, GoesFacts DEF Boot
<1>4. Typed' /\ phase'[w] = "starting"
  BY <1>1, <1>2, <1>3 DEF Typed
<1>5. \A v \in Workers \ {w} : Stands(v)
  BY <1>1, <1>2, <1>3 DEF Typed, Stands
<1>6. WorkerInv(w)'
  <2>1. \A t \in Tasks : task[w][t] = "idle"
    BY <1>1, <1>2 DEF WorkerInv, PhaseInv
  <2>2. LockedBy(w)'
    BY <1>1, <1>2, <1>3, <2>1 DEF WorkerInv, LockedBy, Refreshing
  <2>3. PhaseInv(w)' /\ FlightInv(w)'
    BY <1>2, <1>3, <1>4, <2>1, TaskNames DEF PhaseInv, FlightInv
  <2>4. AgeInv(w)' /\ CachedInv(w)' /\ RecentInv(w)' /\ StartInv(w)'
    BY <1>1, <1>2, <1>3, <1>4 DEF WorkerInv, AgeInv, CachedInv, RecentInv, StartInv
  <2>5. QED
    BY <1>4, <2>2, <2>3, <2>4 DEF WorkerInv
<1>7. KeyInv'
  BY <1>2 DEF IInv, KeyInv
<1>8. QED
  BY <1>4, <1>5, <1>6, <1>7, Local

(* A call of POST /rates/refresh queues on the lock and keeps IInv. *)
LEMMA CallKeeps ==
  ASSUME IInv, NEW w \in Workers, NEW t \in Tasks, Call(w, t)
  PROVE  IInv'
<1>1. Typed /\ WorkerInv(w)
  BY DEF IInv
<1>2. /\ phase[w] = "serving" /\ t \in Callers /\ task[w][t] = "idle"
      /\ UNCHANGED <<phase, lock, slept, failed, slow, cached, mids, fetchedAge, flight, redis>>
  BY DEF Call, aside
<1>3. /\ task' \in [Workers -> [Tasks ->
                          {"idle", "wait", "http", "cache", "persist", "sleep"}]]
      /\ task'[w][t] = "wait"
      /\ \A u \in Tasks \ {t} : task'[w][u] = task[w][u]
      /\ \A v \in Workers \ {w} : task'[v] = task[v]
  BY <1>1, GoesFacts DEF Call
<1>4. Typed'
  BY <1>1, <1>2, <1>3 DEF Typed
<1>5. \A v \in Workers \ {w} : Stands(v)
  BY <1>1, <1>2, <1>3 DEF Typed, Stands
<1>6. WorkerInv(w)'
  <2>1. t # "start" /\ t # "loop" /\ "start" \in Tasks /\ "loop" \in Tasks
    BY <1>2, TaskNames
  <2>2. LockedBy(w)'
    BY <1>1, <1>2, <1>3 DEF WorkerInv, LockedBy, Refreshing
  <2>3. PhaseInv(w)' /\ FlightInv(w)'
    BY <1>1, <1>2, <1>3, <2>1 DEF WorkerInv, PhaseInv, FlightInv
  <2>4. AgeInv(w)' /\ CachedInv(w)' /\ RecentInv(w)' /\ StartInv(w)'
    BY <1>1, <1>2, <1>3, <2>1 DEF WorkerInv, AgeInv, CachedInv, RecentInv, StartInv
  <2>5. QED
    BY <1>1, <1>2, <2>2, <2>3, <2>4 DEF WorkerInv
<1>7. KeyInv'
  BY <1>2 DEF IInv, KeyInv
<1>8. QED
  BY <1>4, <1>5, <1>6, <1>7, Local

(* The loop wakes and queues on the lock (providers/rates.py:165-174): the *)
(* age of the last fetch is at most the time slept and the time it took.   *)
LEMMA WakeKeeps ==
  ASSUME IInv, NEW w \in Workers, Wake(w)
  PROVE  IInv'
<1>1. Typed /\ WorkerInv(w)
  BY DEF IInv
<1>2. /\ task[w]["loop"] = "sleep" /\ slept[w] = Interval
      /\ slept' = [slept EXCEPT ![w] = 0]
      /\ UNCHANGED <<phase, lock, failed, slow, cached, mids, fetchedAge, flight, redis>>
  BY DEF Wake, aside
<1>3. /\ task' \in [Workers -> [Tasks ->
                          {"idle", "wait", "http", "cache", "persist", "sleep"}]]
      /\ task'[w]["loop"] = "wait"
      /\ \A u \in Tasks \ {"loop"} : task'[w][u] = task[w][u]
      /\ \A v \in Workers \ {w} : task'[v] = task[v]
  BY <1>1, TaskNames, GoesFacts DEF Wake
<1>4. Typed'
  BY <1>1, <1>2, <1>3, Zero DEF Typed
<1>5. \A v \in Workers \ {w} : Stands(v)
  BY <1>1, <1>2, <1>3 DEF Typed, Stands
<1>6. WorkerInv(w)'
  <2>1. "start" \in Tasks /\ "loop" \in Tasks
    BY TaskNames
  <2>2. LockedBy(w)'
    BY <1>1, <1>2, <1>3 DEF WorkerInv, LockedBy, Refreshing
  <2>3. PhaseInv(w)' /\ FlightInv(w)' /\ AgeInv(w)' /\ CachedInv(w)' /\ StartInv(w)'
    BY <1>1, <1>2, <1>3, <2>1 DEF WorkerInv, PhaseInv, FlightInv, AgeInv, CachedInv, StartInv
  <2>4. RecentInv(w)'
    BY <1>1, <1>2, <1>3, <2>1 DEF WorkerInv, RecentInv
  <2>5. QED
    BY <1>1, <1>2, <2>2, <2>3, <2>4 DEF WorkerInv
<1>7. KeyInv'
  BY <1>2 DEF IInv, KeyInv
<1>8. QED
  BY <1>4, <1>5, <1>6, <1>7, Local

(* Taking the lock and asking upstream keeps IInv: nobody else of the      *)
(* worker is refreshing, and the fetch starts its clock.                   *)
LEMMA AskKeeps ==
  ASSUME IInv, NEW w \in Workers, NEW t \in Tasks, Ask(w, t)
  PROVE  IInv'
<1>1. Typed /\ WorkerInv(w)
  BY DEF IInv
<1>2. /\ task[w][t] = "wait" /\ lock[w] = None /\ lock' = [lock EXCEPT ![w] = t]
      /\ flight' = [flight EXCEPT ![w][t] = 0]
      /\ UNCHANGED <<phase, slept, failed, slow, cached, mids, fetchedAge, redis>>
  BY DEF Ask, aside
<1>3. /\ task' \in [Workers -> [Tasks ->
                          {"idle", "wait", "http", "cache", "persist", "sleep"}]]
      /\ task'[w][t] = "http"
      /\ \A u \in Tasks \ {t} : task'[w][u] = task[w][u]
      /\ \A v \in Workers \ {w} : task'[v] = task[v]
  BY <1>1, GoesFacts DEF Ask
<1>4. /\ Typed' /\ lock'[w] = t /\ flight'[w][t] = 0
      /\ \A u \in Tasks \ {t} : flight'[w][u] = flight[w][u]
  BY <1>1, <1>2, <1>3, Zero DEF Typed
<1>5. \A v \in Workers \ {w} : Stands(v)
  BY <1>1, <1>2, <1>3 DEF Typed, Stands
<1>6. WorkerInv(w)'
  <2>1. "start" \in Tasks /\ "loop" \in Tasks /\ None \notin Tasks
    BY TaskNames
  <2>2. \A u \in Tasks : task[w][u] \notin Refreshing
    BY <1>1, <1>2, <2>1 DEF WorkerInv, LockedBy
  <2>3. LockedBy(w)'
    BY <1>3, <1>4, <2>2 DEF LockedBy, Refreshing
  <2>4. PhaseInv(w)' /\ AgeInv(w)' /\ CachedInv(w)' /\ StartInv(w)'
    BY <1>1, <1>2, <1>3, <2>1, <2>2 DEF WorkerInv, PhaseInv, AgeInv, CachedInv, StartInv, Refreshing
  <2>5. FlightInv(w)'
    <3>1. phase[w] # "fallback"
      BY <1>1, <1>2 DEF WorkerInv, PhaseInv
    <3>2. QED
      BY <1>2, <1>3, <1>4, <2>2, <3>1, Periods DEF FlightInv, Refreshing
  <2>6. RecentInv(w)'
    <3>1. ~failed[w] /\ ~slow[w] /\ phase[w] \notin {"down", "starting"} =>
             phase[w] = "serving" /\ fetchedAge[w] <= 3 * Latency + Interval
      BY <1>1, <1>2 DEF WorkerInv, RecentInv
    <3>3. \A u \in Tasks : task'[w][u] \in Refreshing => u = t
      BY <1>3, <2>2
    <3>4. task'[w]["loop"] = "sleep" => task[w]["loop"] = "sleep"
      BY <1>3, <2>1
    <3>5. fetchedAge[w] \in Nat /\ lock'[w] # None
      BY <1>1, <1>4, <2>1, Numbers
    <3>6. task'[w][t] = "http"
      BY <1>3
    <3>7. QED
      BY <1>1, <1>2, <1>4, <3>1, <3>3, <3>4, <3>5, <3>6, Periods
         DEF WorkerInv, RecentInv, Refreshing
  <2>7. QED
    BY <1>1, <1>2, <2>3, <2>4, <2>5, <2>6 DEF WorkerInv
<1>7. KeyInv'
  BY <1>2 DEF IInv, KeyInv
<1>8. QED
  BY <1>4, <1>5, <1>6, <1>7, Local

(* Who refreshes, when: start() before the worker serves, and nobody else. *)
LEMMA RefresherFacts ==
  ASSUME IInv, NEW w \in Workers, NEW t \in Tasks, task[w][t] \in Refreshing
  PROVE  /\ lock[w] = t
         /\ \A u \in Tasks \ {t} : task[w][u] \notin Refreshing
         /\ IF t = "start" THEN phase[w] = "starting" ELSE phase[w] = "serving"
<1>1. Typed /\ WorkerInv(w) /\ task[w][t] # "idle"
  BY DEF IInv, Refreshing
<1>2. QED
  BY <1>1, TaskNames DEF WorkerInv, LockedBy, PhaseInv, Typed

(* Installing fetched rates keeps IInv: they are as old as the call that   *)
(* brought them, and that took at most Latency.                            *)
LEMMA AnsweredKeeps ==
  ASSUME IInv, NEW w \in Workers, NEW t \in Tasks, Answered(w, t)
  PROVE  IInv'
<1> DEFINE r == [src |-> "api", age |-> flight[w][t]]
<1>1. Typed /\ WorkerInv(w)
  BY DEF IInv
<1>2. /\ task[w][t] = "http" /\ mids' = [mids EXCEPT ![w] = r]
      /\ fetchedAge' = [fetchedAge EXCEPT ![w] = 0]
      /\ failed' = [failed EXCEPT ![w] = FALSE]
      /\ slow' = [slow EXCEPT ![w] = FALSE]
      /\ UNCHANGED <<phase, lock, slept, cached, flight, redis>>
  BY DEF Answered
<1>3. /\ task' \in [Workers -> [Tasks ->
                          {"idle", "wait", "http", "cache", "persist", "sleep"}]]
      /\ task'[w][t] = "cache"
      /\ \A u \in Tasks \ {t} : task'[w][u] = task[w][u]
      /\ \A v \in Workers \ {w} : task'[v] = task[v]
  BY <1>1, GoesFacts DEF Answered
<1>4. /\ flight[w][t] \in Nat /\ flight[w][t] <= Latency /\ r.src = "api"
      /\ r.age = flight[w][t] /\ r # None
      /\ r \in [src : {"api", "redis", "seed"}, age : Ages]
  <2>1. flight[w][t] \in 0 .. 3 * Latency /\ flight[w][t] <= Latency
    BY <1>1, <1>2 DEF Typed, WorkerInv, FlightInv
  <2>2. flight[w][t] \in Nat /\ flight[w][t] \in Ages
    BY <2>1, Times
  <2>3. r \in [src : {"api", "redis", "seed"}, age : Nat]
    BY <2>2
  <2>4. QED
    BY <2>1, <2>2, <2>3, NoneAssumption
<1> HIDE DEF r
<1>5. /\ Typed' /\ mids'[w] = r /\ fetchedAge'[w] = 0
  BY <1>1, <1>2, <1>3, <1>4, Zero DEF Typed
<1>6. \A v \in Workers \ {w} : Stands(v)
  BY <1>1, <1>2, <1>3 DEF Typed, Stands
<1>7. WorkerInv(w)'
  <2>1. "start" \in Tasks /\ "loop" \in Tasks
    BY TaskNames
  <2>2. /\ lock[w] = t /\ \A u \in Tasks \ {t} : task[w][u] \notin Refreshing
        /\ IF t = "start" THEN phase[w] = "starting" ELSE phase[w] = "serving"
    BY <1>2, RefresherFacts DEF Refreshing
  <2>3. LockedBy(w)'
    BY <1>2, <1>3, <2>2 DEF LockedBy, Refreshing
  <2>4. PhaseInv(w)' /\ FlightInv(w)'
    BY <1>1, <1>2, <1>3, <1>4, <2>1, <2>2, Times DEF WorkerInv, PhaseInv, FlightInv, Refreshing
  <2>5. AgeInv(w)' /\ CachedInv(w)' /\ StartInv(w)'
    BY <1>1, <1>2, <1>3, <1>4, <1>5, <2>1, <2>2, Times
       DEF WorkerInv, AgeInv, CachedInv, StartInv, Refreshing
  <2>6. RecentInv(w)'
    <3>1. /\ slept[w] \in Nat /\ flight[w][t] \in Nat
          /\ 0 <= 3 * Latency + slept[w] /\ 0 <= flight[w][t]
          /\ 0 <= 3 * Latency + Interval
      BY <1>1, Numbers, Periods
    <3>2. /\ task'[w][t] = "cache"
          /\ \A u \in Tasks \ {t} : task'[w][u] \notin {"http", "cache", "persist"}
      BY <1>3, <2>2 DEF Refreshing
    <3>3. t # "start" => phase'[w] = "serving"
      BY <1>2, <2>2
    <3>4. t = "start" => phase'[w] = "starting"
      BY <1>2, <2>2
    <3>5. slept'[w] = slept[w] /\ flight'[w] = flight[w] /\ lock'[w] = t /\ t # None
      BY <1>2, <2>2, TaskNames
    <3>6. QED
      BY <1>5, <3>1, <3>2, <3>3, <3>4, <3>5 DEF RecentInv
  <2>7. QED
    BY <1>4, <1>5, <2>3, <2>4, <2>5, <2>6 DEF WorkerInv
<1>8. KeyInv'
  BY <1>2 DEF IInv, KeyInv
<1>9. QED
  BY <1>5, <1>6, <1>7, <1>8, Local

(* Writing the key keeps IInv: what is written is at most two calls old,   *)
(* and the key has all of its time to live.                                *)
LEMMA WriteCacheKeeps ==
  ASSUME IInv, NEW w \in Workers, NEW t \in Tasks, WriteCache(w, t)
  PROVE  IInv'
<1> DEFINE r == [age |-> flight[w][t], ttl |-> TTL]
<1>1. Typed /\ WorkerInv(w)
  BY DEF IInv
<1>2. /\ task[w][t] = "cache" /\ redis' \in {redis, r}
      /\ UNCHANGED <<phase, lock, slept, failed, slow, cached, mids, fetchedAge, flight>>
  BY DEF WriteCache, aside
<1>3. /\ task' \in [Workers -> [Tasks ->
                          {"idle", "wait", "http", "cache", "persist", "sleep"}]]
      /\ task'[w][t] = "persist"
      /\ \A u \in Tasks \ {t} : task'[w][u] = task[w][u]
      /\ \A v \in Workers \ {w} : task'[v] = task[v]
  BY <1>1, GoesFacts DEF WriteCache
<1>4. /\ flight[w][t] \in 0 .. 3 * Latency /\ flight[w][t] <= 2 * Latency
      /\ r.age = flight[w][t] /\ r.ttl = TTL /\ r \in [age : Ages, ttl : 1 .. TTL]
  <2>1. flight[w][t] \in 0 .. 3 * Latency /\ flight[w][t] <= 2 * Latency
    BY <1>1, <1>2 DEF Typed, WorkerInv, FlightInv
  <2>2. flight[w][t] \in Ages /\ TTL \in 1 .. TTL
    BY <2>1, Times
  <2>3. QED
    BY <2>1, <2>2
<1> HIDE DEF r
<1>5. Typed'
  BY <1>1, <1>2, <1>3, <1>4 DEF Typed
<1>6. \A v \in Workers \ {w} : Stands(v)
  BY <1>1, <1>2, <1>3 DEF Typed, Stands
<1>7. WorkerInv(w)'
  <2>1. "start" \in Tasks /\ "loop" \in Tasks
    BY TaskNames
  <2>2. /\ lock[w] = t /\ \A u \in Tasks \ {t} : task[w][u] \notin Refreshing
        /\ IF t = "start" THEN phase[w] = "starting" ELSE phase[w] = "serving"
    BY <1>2, RefresherFacts DEF Refreshing
  <2>3. LockedBy(w)'
    BY <1>2, <1>3, <2>2 DEF LockedBy, Refreshing
  <2>4. PhaseInv(w)' /\ FlightInv(w)' /\ AgeInv(w)' /\ CachedInv(w)' /\ StartInv(w)'
    BY <1>1, <1>2, <1>3, <2>1, <2>2
       DEF WorkerInv, PhaseInv, FlightInv, AgeInv, CachedInv, StartInv, Refreshing
  <2>5. RecentInv(w)'
    BY <1>1, <1>2, <1>3, <2>1, <2>2 DEF WorkerInv, RecentInv, Refreshing
  <2>6. QED
    BY <1>1, <1>2, <2>3, <2>4, <2>5 DEF WorkerInv
<1>8. KeyInv'
  BY <1>2, <1>4, Times DEF IInv, KeyInv
<1>9. QED
  BY <1>5, <1>6, <1>7, <1>8, Local
-----------------------------------------------------------------------------
(* start() is done. *)
LEMMA ServeFacts ==
  ASSUME Typed, NEW w \in Workers, Serve(w)
  PROVE  /\ task' \in [Workers -> [Tasks ->
                          {"idle", "wait", "http", "cache", "persist", "sleep"}]]
         /\ task'[w]["start"] = "idle" /\ task'[w]["loop"] = "sleep"
         /\ \A u \in Tasks \ {"start", "loop"} : task'[w][u] = task[w][u]
         /\ \A v \in Workers \ {w} : task'[v] = task[v]
         /\ phase' \in [Workers -> {"down", "starting", "fallback", "serving"}]
         /\ phase'[w] = "serving"
         /\ \A v \in Workers \ {w} : phase'[v] = phase[v]
BY TaskNames DEF Typed, Serve

(* Storing the snapshot and releasing the lock keeps IInv, for start(),    *)
(* which serves next, as for the loop and the callers.                     *)
LEMMA PersistKeeps ==
  ASSUME IInv, NEW w \in Workers, NEW t \in Tasks, Persist(w, t)
  PROVE  IInv'
<1>1. Typed /\ WorkerInv(w) /\ "start" \in Tasks /\ "loop" \in Tasks /\ None \notin Tasks
  BY TaskNames DEF IInv
<1>2. /\ task[w][t] = "persist" /\ lock' = [lock EXCEPT ![w] = None]
      /\ UNCHANGED <<slept, failed, slow, cached, mids, fetchedAge, flight, redis>>
  BY DEF Persist, aside
<1>3. /\ lock[w] = t /\ \A u \in Tasks \ {t} : task[w][u] \notin Refreshing
      /\ IF t = "start" THEN phase[w] = "starting" ELSE phase[w] = "serving"
  BY <1>2, RefresherFacts DEF Refreshing
<1>4. /\ flight[w][t] \in 0 .. 3 * Latency /\ fetchedAge[w] \in Nat /\ slept[w] \in Nat
  BY <1>1, Times DEF Typed
<1>5. KeyInv'
  BY <1>2 DEF IInv, KeyInv
<1>6. CASE t = "start"
  <2>1. /\ task' \in [Workers -> [Tasks ->
                          {"idle", "wait", "http", "cache", "persist", "sleep"}]]
        /\ task'[w]["start"] = "idle" /\ task'[w]["loop"] = "sleep"
        /\ \A u \in Tasks \ {"start", "loop"} : task'[w][u] = task[w][u]
        /\ \A v \in Workers \ {w} : task'[v] = task[v]
        /\ phase' \in [Workers -> {"down", "starting", "fallback", "serving"}]
        /\ phase'[w] = "serving"
        /\ \A v \in Workers \ {w} : phase'[v] = phase[v]
    BY <1>1, <1>6, ServeFacts DEF Persist
  <2>2. Typed' /\ lock'[w] = None
    BY <1>1, <1>2, <2>1 DEF Typed
  <2>3. \A v \in Workers \ {w} : Stands(v)
    BY <1>1, <1>2, <2>1 DEF Typed, Stands
  <2>4. mids[w] # None /\ (slow[w] \/ fetchedAge[w] <= flight[w][t])
    BY <1>1, <1>2, <1>3, <1>6 DEF WorkerInv, StartInv
  <2>5. \A u \in Tasks : task'[w][u] \in {"idle", "sleep"} /\ (task'[w][u] = "sleep" <=> u = "loop")
    BY <1>1, <1>3, <1>6, <2>1 DEF WorkerInv, PhaseInv
  <2>6. LockedBy(w)'
    BY <1>1, <2>2, <2>5 DEF LockedBy, Refreshing
  <2>7. PhaseInv(w)' /\ FlightInv(w)' /\ AgeInv(w)' /\ CachedInv(w)' /\ StartInv(w)'
    BY <1>1, <1>2, <2>1, <2>5
       DEF WorkerInv, PhaseInv, FlightInv, AgeInv, CachedInv, StartInv, Refreshing
  <2>8. RecentInv(w)'
    <3>1. ~slow[w] => /\ fetchedAge[w] <= 3 * Latency + slept[w]
                      /\ fetchedAge[w] <= 3 * Latency + Interval
      <4>1. /\ fetchedAge[w] \in Nat /\ slept[w] \in Nat
            /\ flight[w][t] \in Nat /\ flight[w][t] <= 3 * Latency
        BY <1>1, Numbers
      <4>2. QED
        BY <2>4, <4>1, Periods
    <3>2. \A u \in Tasks : task'[w][u] \notin {"http", "cache", "persist"}
      BY <2>5
    <3>3. QED
      BY <1>2, <2>1, <3>1, <3>2 DEF RecentInv
  <2>9. WorkerInv(w)'
    BY <1>2, <2>4, <2>6, <2>7, <2>8 DEF WorkerInv
  <2>10. QED
    BY <1>5, <2>2, <2>3, <2>9, Local
<1>7. CASE t # "start"
  <2> DEFINE p == Resumes(t)
  <2>1. UNCHANGED phase /\ Goes(w, t, p) /\ phase[w] = "serving"
    BY <1>3, <1>7 DEF Persist
  <2>2. p \in {"idle", "sleep"} /\ (p = "sleep" <=> t = "loop")
    BY DEF Resumes
  <2> HIDE DEF p
  <2>3. /\ task' \in [Workers -> [Tasks ->
                          {"idle", "wait", "http", "cache", "persist", "sleep"}]]
        /\ task'[w][t] = p
        /\ \A u \in Tasks \ {t} : task'[w][u] = task[w][u]
        /\ \A v \in Workers \ {w} : task'[v] = task[v]
    BY <1>1, <2>1, <2>2, GoesFacts
  <2>4. Typed' /\ lock'[w] = None
    BY <1>1, <1>2, <2>1, <2>3 DEF Typed
  <2>5. \A v \in Workers \ {w} : Stands(v)
    BY <1>1, <1>2, <2>1, <2>3 DEF Typed, Stands
  <2>6. ~failed[w] /\ ~slow[w] => fetchedAge[w] <= flight[w][t]
    BY <1>1, <1>2, <2>1 DEF WorkerInv, RecentInv
  <2>7. \A u \in Tasks : task'[w][u] \notin Refreshing
    BY <1>3, <2>2, <2>3 DEF Refreshing
  <2>8. LockedBy(w)'
    BY <1>1, <2>4, <2>7 DEF LockedBy
  <2>9. PhaseInv(w)' /\ FlightInv(w)' /\ AgeInv(w)' /\ CachedInv(w)' /\ StartInv(w)'
    BY <1>1, <1>2, <1>7, <2>1, <2>2, <2>3, <2>7
       DEF WorkerInv, PhaseInv, FlightInv, AgeInv, CachedInv, StartInv, Refreshing
  <2>10. RecentInv(w)'
    <3>1. ~failed[w] /\ ~slow[w] => /\ fetchedAge[w] <= 3 * Latency + slept[w]
                                    /\ fetchedAge[w] <= 3 * Latency + Interval
      <4>1. /\ fetchedAge[w] \in Nat /\ slept[w] \in Nat
            /\ flight[w][t] \in Nat /\ flight[w][t] <= 3 * Latency
        BY <1>1, Numbers
      <4>2. QED
        BY <2>6, <4>1, Periods
    <3>2. \A u \in Tasks : task'[w][u] \notin {"http", "cache", "persist"}
      BY <2>7 DEF Refreshing
    <3>3. QED
      BY <1>2, <2>1, <3>1, <3>2 DEF RecentInv
  <2>11. WorkerInv(w)'
    BY <1>1, <1>2, <2>1, <2>8, <2>9, <2>10 DEF WorkerInv
  <2>12. QED
    BY <1>5, <2>4, <2>5, <2>11, Local
<1>8. QED
  BY <1>6, <1>7

(* A fetch that fails releases the lock and keeps IInv: the old rates stay, *)
(* and the worker knows of the failure.                                    *)
LEMMA NotAnsweredKeeps ==
  ASSUME IInv, NEW w \in Workers, NEW t \in Tasks, NotAnswered(w, t)
  PROVE  IInv'
<1> DEFINE p == Resumes(t)
<1>1. Typed /\ WorkerInv(w) /\ "start" \in Tasks /\ "loop" \in Tasks /\ None \notin Tasks
  BY TaskNames DEF IInv
<1>2. /\ task[w][t] = "http" /\ lock' = [lock EXCEPT ![w] = None]
      /\ failed' = [failed EXCEPT ![w] = TRUE] /\ Goes(w, t, p)
      /\ phase' = IF t = "start" THEN [phase EXCEPT ![w] = "fallback"] ELSE phase
      /\ flight' = IF t = "start" THEN [flight EXCEPT ![w][t] = 0] ELSE flight
      /\ UNCHANGED <<slept, slow, cached, mids, fetchedAge, redis>>
  BY DEF NotAnswered
<1>3. /\ lock[w] = t /\ \A u \in Tasks \ {t} : task[w][u] \notin Refreshing
      /\ IF t = "start" THEN phase[w] = "starting" ELSE phase[w] = "serving"
  BY <1>2, RefresherFacts DEF Refreshing
<1>4. p \in {"idle", "sleep"} /\ (p = "sleep" <=> t = "loop")
  BY DEF Resumes
<1> HIDE DEF p
<1>5. /\ task' \in [Workers -> [Tasks ->
                        {"idle", "wait", "http", "cache", "persist", "sleep"}]]
      /\ task'[w][t] = p
      /\ \A u \in Tasks \ {t} : task'[w][u] = task[w][u]
      /\ \A v \in Workers \ {w} : task'[v] = task[v]
  BY <1>1, <1>2, <1>4, GoesFacts
<1>6. /\ Typed' /\ lock'[w] = None /\ failed'[w] = TRUE
      /\ phase'[w] = IF t = "start" THEN "fallback" ELSE "serving"
      /\ t = "start" => flight'[w][t] = 0
  BY <1>1, <1>2, <1>3, <1>5, Zero DEF Typed
<1>7. \A v \in Workers \ {w} : Stands(v)
  BY <1>1, <1>2, <1>5 DEF Typed, Stands
<1>8. \A u \in Tasks : task'[w][u] \notin Refreshing
  BY <1>3, <1>4, <1>5 DEF Refreshing
<1>9. LockedBy(w)'
  BY <1>1, <1>6, <1>8 DEF LockedBy
<1>10. PhaseInv(w)'
  BY <1>1, <1>3, <1>4, <1>5, <1>6 DEF WorkerInv, PhaseInv
<1>11. FlightInv(w)' /\ AgeInv(w)' /\ CachedInv(w)' /\ StartInv(w)'
  BY <1>1, <1>2, <1>3, <1>6, <1>8, Times
     DEF WorkerInv, FlightInv, AgeInv, CachedInv, StartInv, Refreshing
<1>12. RecentInv(w)'
  BY <1>6 DEF RecentInv
<1>13. WorkerInv(w)'
  BY <1>1, <1>2, <1>3, <1>6, <1>9, <1>10, <1>11, <1>12 DEF WorkerInv
<1>14. KeyInv'
  BY <1>2 DEF IInv, KeyInv
<1>15. QED
  BY <1>6, <1>7, <1>13, <1>14, Local

(* Reading the key keeps IInv: what Redis answers start() is no older than *)
(* KeyInv allows, and it has yet to arrive.                                *)
LEMMA LoadKeeps ==
  ASSUME IInv, NEW w \in Workers, Load(w)
  PROVE  IInv'
<1>1. Typed /\ WorkerInv(w) /\ KeyInv /\ "start" \in Tasks
  BY TaskNames DEF IInv
<1>2. /\ phase[w] = "fallback"
      /\ UNCHANGED <<phase, task, lock, slept, failed, slow, mids, fetchedAge, flight, redis>>
  BY DEF Load
<1>3. PICK r \in Loadable : cached' = [cached EXCEPT ![w] = r]
  BY DEF Load
<1>4. /\ r \in [src : {"redis", "seed"}, age : Ages]
      /\ r.src = "redis" => r.age \in Nat /\ r.age <= TTL + 2 * Latency
  <2>1. CASE r = [src |-> "seed", age |-> Old]
    BY <2>1, Times
  <2>2. CASE redis # None /\ r = [src |-> "redis", age |-> redis.age]
    <3>1. redis.age \in Ages /\ redis.ttl \in 1 .. TTL /\ redis.age <= TTL - redis.ttl + 2 * Latency
      BY <1>1, <2>2 DEF Typed, KeyInv
    <3>2. redis.age \in Nat /\ redis.age <= TTL + 2 * Latency
      BY <3>1, Times
    <3>3. QED
      BY <2>2, <3>1, <3>2
  <2>3. QED
    BY <2>1, <2>2 DEF Loadable
<1>5. Typed' /\ cached'[w] = r
  BY <1>1, <1>2, <1>3, <1>4 DEF Typed
<1>6. \A v \in Workers \ {w} : Stands(v)
  BY <1>1, <1>2, <1>3 DEF Typed, Stands
<1>7. CachedInv(w)'
  <2>1. flight[w]["start"] \in Nat
    BY <1>1, Numbers
  <2>2. r.src = "redis" => r.age <= TTL + 2 * Latency + flight[w]["start"]
    BY <1>4, <2>1, Periods
  <2>3. QED
    BY <1>2, <1>5, <2>2 DEF CachedInv
<1>8. /\ LockedBy(w)' /\ PhaseInv(w)' /\ FlightInv(w)' /\ AgeInv(w)'
      /\ RecentInv(w)' /\ StartInv(w)' /\ (phase'[w] = "serving" => mids'[w] # None)
  BY <1>1, <1>2
     DEF WorkerInv, LockedBy, PhaseInv, FlightInv, AgeInv, RecentInv, StartInv
<1>9. WorkerInv(w)'
  BY <1>7, <1>8 DEF WorkerInv
<1>10. KeyInv'
  BY <1>1, <1>2 DEF KeyInv
<1>11. QED
  BY <1>5, <1>6, <1>9, <1>10, Local

(* Installing the key's or the seed rates keeps IInv: the key's are older  *)
(* than KeyInv allows by no more than a call, though they count as new.    *)
LEMMA FallbackKeeps ==
  ASSUME IInv, NEW w \in Workers, Fallback(w)
  PROVE  IInv'
<1>1. /\ Typed /\ WorkerInv(w) /\ KeyInv
      /\ "start" \in Tasks /\ "loop" \in Tasks /\ None \notin Tasks
  BY TaskNames DEF IInv
<1>2. /\ phase[w] = "fallback"
      /\ fetchedAge' = [fetchedAge EXCEPT ![w] = 0]
      /\ Serve(w)
      /\ UNCHANGED <<lock, slept, failed, slow, flight, redis>>
  BY DEF Fallback
<1>3. /\ cached[w] # None /\ mids' = [mids EXCEPT ![w] = cached[w]]
      /\ cached' = [cached EXCEPT ![w] = None]
  BY DEF Fallback
<1> DEFINE r == cached[w]
<1>4. /\ r \in [src : {"api", "redis", "seed"}, age : Ages] /\ r # None
      /\ r.src \in {"redis", "seed"}
      /\ r.src = "redis" => r.age <= TTL + 3 * Latency
  <2>1. r \in [src : {"redis", "seed"}, age : Ages] /\ r # None
    BY <1>1, <1>3 DEF Typed
  <2>2. /\ flight[w]["start"] \in Nat /\ flight[w]["start"] <= Latency
        /\ r.src = "redis" => r.age <= TTL + 2 * Latency + flight[w]["start"]
    BY <1>1, <1>2, <1>3, Numbers DEF WorkerInv, FlightInv, CachedInv
  <2>3. r.age \in Nat
    BY <2>1, Times
  <2>4. r.src = "redis" => r.age <= TTL + 3 * Latency
    BY <2>2, <2>3, Periods
  <2>5. QED
    BY <2>1, <2>4
<1> HIDE DEF r
<1>5. /\ task' \in [Workers -> [Tasks ->
                        {"idle", "wait", "http", "cache", "persist", "sleep"}]]
      /\ task'[w]["start"] = "idle" /\ task'[w]["loop"] = "sleep"
      /\ \A u \in Tasks \ {"start", "loop"} : task'[w][u] = task[w][u]
      /\ \A v \in Workers \ {w} : task'[v] = task[v]
      /\ phase' \in [Workers -> {"down", "starting", "fallback", "serving"}]
      /\ phase'[w] = "serving"
      /\ \A v \in Workers \ {w} : phase'[v] = phase[v]
  BY <1>1, <1>2, ServeFacts
<1>6. /\ Typed' /\ mids'[w] = r /\ fetchedAge'[w] = 0 /\ cached'[w] = None
  <2>1. /\ mids' = [mids EXCEPT ![w] = r]
        /\ cached' = [cached EXCEPT ![w] = None]
    BY <1>3 DEF r
  <2>2. QED
    BY <1>1, <1>2, <1>4, <1>5, <2>1, Zero DEF Typed
<1>7. \A v \in Workers \ {w} : Stands(v)
  BY <1>1, <1>2, <1>3, <1>5 DEF Typed, Stands
<1>8. \A u \in Tasks : task[w][u] = "idle"
  BY <1>1, <1>2 DEF WorkerInv, PhaseInv
<1>9. \A u \in Tasks :
         /\ task'[w][u] = "idle" \/ task'[w][u] = "sleep"
         /\ task'[w][u] = "sleep" => u = "loop"
  BY <1>1, <1>5, <1>8
<1>10. LockedBy(w)'
  <2>1. ASSUME NEW u \in Tasks
        PROVE  task[w][u] \notin Refreshing /\ task'[w][u] \notin Refreshing
    <3>1. task[w][u] = "idle" /\ (task'[w][u] = "idle" \/ task'[w][u] = "sleep")
      BY <1>8, <1>9
    <3>2. QED
      BY <3>1 DEF Refreshing
  <2>2. QED
    BY <1>1, <1>2, <2>1 DEF WorkerInv, LockedBy
<1>11. PhaseInv(w)' /\ FlightInv(w)' /\ StartInv(w)'
  <2>1. ASSUME NEW u \in Tasks PROVE task'[w][u] \notin {"http", "cache", "persist"}
    <3>1. task'[w][u] = "idle" \/ task'[w][u] = "sleep"
      BY <1>9
    <3>2. QED
      BY <3>1
  <2>2. QED
    BY <1>1, <1>5, <1>9, <2>1 DEF PhaseInv, FlightInv, StartInv
<1>12. AgeInv(w)' /\ CachedInv(w)'
  BY <1>4, <1>6, Times DEF AgeInv, CachedInv
<1>13. RecentInv(w)'
  BY <1>1, <1>2 DEF WorkerInv, RecentInv
<1>14. WorkerInv(w)'
  BY <1>4, <1>6, <1>10, <1>11, <1>12, <1>13 DEF WorkerInv
<1>15. KeyInv'
  BY <1>1, <1>2 DEF KeyInv
<1>16. QED
  BY <1>6, <1>7, <1>14, <1>15, Local

(* A crash forgets the worker's rates and its coroutines and keeps IInv. *)
LEMMA CrashKeeps ==
  ASSUME IInv, NEW w \in Workers, Crash(w)
  PROVE  IInv'
<1>1. Typed /\ WorkerInv(w) /\ KeyInv /\ "start" \in Tasks /\ None \notin Tasks
  BY TaskNames DEF IInv
<1>2. /\ phase' = [phase EXCEPT ![w] = "down"]
      /\ task' = [task EXCEPT ![w] = [t \in Tasks |-> "idle"]]
      /\ lock' = [lock EXCEPT ![w] = None]
      /\ slept' = [slept EXCEPT ![w] = 0]
      /\ failed' = [failed EXCEPT ![w] = FALSE]
      /\ slow' = [slow EXCEPT ![w] = FALSE]
      /\ cached' = [cached EXCEPT ![w] = None]
      /\ mids' = [mids EXCEPT ![w] = None]
      /\ fetchedAge' = [fetchedAge EXCEPT ![w] = Old]
      /\ flight' = [flight EXCEPT ![w] = [t \in Tasks |-> 0]]
      /\ UNCHANGED redis
  BY DEF Crash
<1>3. Old \in Ages
  BY Times
<1>4. Typed'
  BY <1>1, <1>2, <1>3, Zero DEF Typed
<1>5. /\ phase'[w] = "down" /\ \A t \in Tasks : task'[w][t] = "idle"
      /\ lock'[w] = None /\ mids'[w] = None /\ cached'[w] = None
  BY <1>1, <1>2 DEF Typed
<1>6. \A v \in Workers \ {w} : Stands(v)
  BY <1>1, <1>2 DEF Typed, Stands
<1>7. WorkerInv(w)'
  BY <1>1, <1>5 DEF WorkerInv, LockedBy, PhaseInv, FlightInv, AgeInv, CachedInv,
     RecentInv, StartInv, Refreshing
<1>8. KeyInv'
  BY <1>1, <1>2 DEF KeyInv
<1>9. QED
  BY <1>4, <1>6, <1>7, <1>8, Local

(* An empty Redis keeps IInv: nobody counts on the key. *)
LEMMA LoseCacheKeeps ==
  ASSUME IInv, LoseCache
  PROVE  IInv'
<1>1. redis' = None /\ UNCHANGED <<process, mids, fetchedAge, flight>>
  BY DEF LoseCache
<1>2. Typed' /\ KeyInv'
  BY <1>1 DEF IInv, Typed, KeyInv, process, aside
<1>3. \A w \in Workers : WorkerInv(w)'
  BY <1>1, WorkerFrame DEF IInv, Stands, process, aside
<1>4. QED
  BY <1>2, <1>3 DEF IInv

(* Ages go up by one, or stay at their bound. *)
LEMMA OlderFacts ==
  ASSUME NEW n \in Ages
  PROVE  Older(n) \in Ages /\ Older(n) <= n + 1 /\ (n < Old => Older(n) = n + 1)
BY Times DEF Older

(* Time passing keeps IInv: every clock goes up together, and a step that  *)
(* is due comes before the next tick.                                      *)
LEMMA TickKeeps ==
  ASSUME IInv, Tick
  PROVE  IInv'
<1>1. Typed /\ KeyInv
  BY DEF IInv
<1>2. /\ \A w \in Workers : \A t \in Tasks : ~Overdue(w, t)
      /\ mids' = [w \in Workers |-> OrNone(mids[w])]
      /\ cached' = [w \in Workers |-> OrNone(cached[w])]
      /\ fetchedAge' = [w \in Workers |-> Older(fetchedAge[w])]
      /\ flight' = [w \in Workers |-> [t \in Tasks |->
              IF Away(w, t) /\ ~Late(w, t) THEN flight[w][t] + 1 ELSE flight[w][t]]]
      /\ slow' = [w \in Workers |-> slow[w] \/ \E t \in Tasks : Late(w, t)]
      /\ slept' = [w \in Workers |->
              IF task[w]["loop"] = "sleep" THEN slept[w] + 1 ELSE slept[w]]
      /\ redis' = IF redis = None \/ redis.ttl = 1 THEN None
                  ELSE [Aged(redis) EXCEPT !.ttl = @ - 1]
      /\ UNCHANGED <<phase, task, lock, failed>>
  BY DEF Tick
<1>3. /\ redis' \in [age : Ages, ttl : 1 .. TTL] \cup {None}
      /\ redis' # None => /\ redis # None /\ redis'.age <= redis.age + 1
                          /\ redis'.ttl = redis.ttl - 1 /\ redis.age \in Nat
                          /\ redis.age < Old => redis'.age = redis.age + 1
  <2>1. CASE redis = None \/ redis.ttl = 1
    BY <1>2, <2>1
  <2>2. CASE redis # None /\ redis.ttl # 1
    <3>1. /\ redis \in [age : Ages, ttl : 1 .. TTL]
          /\ redis' = [[redis EXCEPT !.age = Older(redis.age)] EXCEPT !.ttl = redis.ttl - 1]
      BY <1>1, <1>2, <2>2 DEF Typed, Aged
    <3>2. /\ redis.age \in Ages /\ redis.ttl \in 1 .. TTL
          /\ redis' = [age |-> Older(redis.age), ttl |-> redis.ttl - 1]
      BY <3>1
    <3>3. redis.ttl - 1 \in 1 .. TTL /\ redis.age \in Nat
      BY <2>2, <3>2, Times
    <3>4. QED
      BY <2>2, <3>2, <3>3, OlderFacts
  <2>3. QED
    BY <2>1, <2>2
<1>4. KeyInv'
  <2>1. redis # None => redis.ttl \in 1 .. TTL /\ redis.age <= TTL - redis.ttl + 2 * Latency
    BY <1>1 DEF Typed, KeyInv
  <2>2. redis' # None => redis'.age \in Ages
    BY <1>3
  <2>3. ASSUME redis' # None PROVE redis'.age <= TTL - redis'.ttl + 2 * Latency
    <3>1. /\ redis'.age <= redis.age + 1 /\ redis'.ttl = redis.ttl - 1
          /\ redis.age <= TTL - redis.ttl + 2 * Latency
          /\ redis.ttl \in 1 .. TTL /\ redis.age \in Nat
      BY <1>3, <2>1, <2>3
    <3>2. redis'.age \in Nat /\ TTL \in Nat /\ Latency \in Nat
      BY <2>2, <2>3, Times
    <3>3. QED
      BY <3>1, <3>2
  <2>4. QED
    BY <2>3 DEF KeyInv
<1>5. ASSUME NEW w \in Workers
      PROVE  /\ fetchedAge'[w] \in Ages /\ fetchedAge'[w] <= fetchedAge[w] + 1
             /\ fetchedAge[w] < Old => fetchedAge'[w] = fetchedAge[w] + 1
             /\ fetchedAge[w] \in Ages
  BY <1>1, <1>2, OlderFacts DEF Typed
<1>6. ASSUME NEW w \in Workers, NEW t \in Tasks
      PROVE  /\ flight[w][t] \in Nat /\ flight'[w][t] \in 0 .. 3 * Latency
             /\ task[w][t] \in {"http", "cache"} => flight'[w][t] = flight[w][t] + 1
             /\ task[w][t] = "persist" => slow'[w] \/ flight'[w][t] = flight[w][t] + 1
             /\ task[w][t] = "http" => flight'[w][t] <= Latency
             /\ task[w][t] = "cache" => flight'[w][t] <= 2 * Latency
             /\ t = "start" /\ phase[w] = "fallback" =>
                   flight'[w][t] = flight[w][t] + 1 /\ flight'[w][t] <= Latency
  <2>1. flight'[w][t] = IF Away(w, t) /\ ~Late(w, t)
                        THEN flight[w][t] + 1 ELSE flight[w][t]
    BY <1>2
  <2>2. flight[w][t] \in Nat /\ flight[w][t] <= 3 * Latency
    BY <1>1, Numbers
  <2>3. WorkerInv(w) /\ ~Overdue(w, t)
    BY <1>2 DEF IInv
  <2>4. CASE Late(w, t)
    <3>1. task[w][t] = "persist" /\ slow'[w] /\ flight'[w][t] = flight[w][t]
      BY <1>2, <2>1, <2>4 DEF Late
    <3>2. phase[w] # "fallback"
      BY <2>3, <3>1 DEF WorkerInv, PhaseInv
    <3>3. QED
      BY <2>2, <3>1, <3>2, Times
  <2>5. CASE ~Late(w, t) /\ Away(w, t)
    <3>1. flight'[w][t] = flight[w][t] + 1
      BY <2>1, <2>5
    <3>2. /\ task[w][t] = "http" => flight[w][t] < Latency
          /\ task[w][t] = "cache" => flight[w][t] < 2 * Latency
          /\ task[w][t] = "persist" => flight[w][t] < 3 * Latency
          /\ t = "start" /\ phase[w] = "fallback" => flight[w][t] < Latency
      BY <2>2, <2>3, <2>5, Periods DEF Overdue, Late
    <3>3. flight[w][t] < 3 * Latency
      BY <2>2, <2>5, <3>2, Periods DEF Away
    <3>4. /\ flight'[w][t] \in 0 .. 3 * Latency
          /\ task[w][t] = "http" => flight'[w][t] <= Latency
          /\ task[w][t] = "cache" => flight'[w][t] <= 2 * Latency
          /\ t = "start" /\ phase[w] = "fallback" => flight'[w][t] <= Latency
      BY <2>2, <3>1, <3>2, <3>3, Periods
    <3>5. QED
      BY <2>2, <3>1, <3>4
  <2>6. CASE ~Away(w, t)
    <3>1. /\ task[w][t] \notin {"http", "cache", "persist"}
          /\ ~(t = "start" /\ phase[w] = "fallback")
      BY <2>6 DEF Away
    <3>2. QED
      BY <2>1, <2>2, <2>6, <3>1, Times
  <2>7. QED
    BY <2>4, <2>5, <2>6
<1>7. ASSUME NEW w \in Workers
      PROVE  /\ slept[w] \in Nat /\ slept'[w] \in 0 .. Interval
             /\ task[w]["loop"] = "sleep" => slept'[w] = slept[w] + 1
  <2>1. slept'[w] = IF task[w]["loop"] = "sleep" THEN slept[w] + 1 ELSE slept[w]
    BY <1>2
  <2>2. slept[w] \in Nat /\ slept[w] <= Interval
    BY <1>1, Numbers
  <2>3. task[w]["loop"] = "sleep" => slept[w] < Interval
    BY <1>2, <2>2, Times, TaskNames DEF Overdue
  <2>4. QED
    BY <2>1, <2>2, <2>3, Times
<1>8. ASSUME NEW w \in Workers
      PROVE  /\ mids'[w] \in [src : {"api", "redis", "seed"}, age : Ages] \cup {None}
             /\ mids'[w] = None <=> mids[w] = None
             /\ mids'[w] # None => /\ mids'[w].src = mids[w].src /\ mids[w].age \in Ages
                                   /\ mids'[w].age = Older(mids[w].age)
  <2>1. CASE mids[w] = None
    BY <1>2, <2>1 DEF OrNone
  <2>2. CASE mids[w] # None
    <3>1. /\ mids[w] \in [src : {"api", "redis", "seed"}, age : Ages]
          /\ mids'[w] = [mids[w] EXCEPT !.age = Older(mids[w].age)]
      BY <1>1, <1>2, <2>2 DEF Typed, Aged, OrNone
    <3>2. /\ mids[w].age \in Ages /\ Older(mids[w].age) \in Ages /\ Older(mids[w].age) \in Nat
      BY <3>1, OlderFacts, Times
    <3>3. /\ mids'[w].age = Older(mids[w].age) /\ mids'[w].src = mids[w].src
          /\ mids'[w] \in [src : {"api", "redis", "seed"}, age : Ages]
          /\ mids'[w] \in [src : {"api", "redis", "seed"}, age : Nat]
      BY <3>1, <3>2
    <3>4. QED
      BY <2>2, <3>2, <3>3, NoneAssumption
  <2>3. QED
    BY <2>1, <2>2
<1>14. ASSUME NEW w \in Workers
      PROVE  /\ cached'[w] \in [src : {"redis", "seed"}, age : Ages] \cup {None}
             /\ cached'[w] # None => /\ cached[w] # None /\ cached'[w].src = cached[w].src
                                     /\ cached[w].age \in Nat /\ cached'[w].age \in Nat
                                     /\ cached'[w].age <= cached[w].age + 1
  <2>1. CASE cached[w] = None
    BY <1>2, <2>1 DEF OrNone
  <2>2. CASE cached[w] # None
    <3>1. /\ cached[w] \in [src : {"redis", "seed"}, age : Ages]
          /\ cached'[w] = [cached[w] EXCEPT !.age = Older(cached[w].age)]
      BY <1>1, <1>2, <2>2 DEF Typed, Aged, OrNone
    <3>2. /\ cached[w].age \in Ages /\ Older(cached[w].age) \in Ages
          /\ Older(cached[w].age) <= cached[w].age + 1
      BY <3>1, OlderFacts
    <3>3. /\ cached'[w].age = Older(cached[w].age) /\ cached'[w].src = cached[w].src
          /\ cached'[w] \in [src : {"redis", "seed"}, age : Ages]
      BY <3>1, <3>2
    <3>4. QED
      BY <2>2, <3>2, <3>3, Times
  <2>3. QED
    BY <2>1, <2>2
<1>9. Typed'
  <2>1. mids' \in [Workers -> [src : {"api", "redis", "seed"}, age : Ages] \cup {None}]
    BY <1>2, <1>8
  <2>2. fetchedAge' \in [Workers -> Ages] /\ slept' \in [Workers -> 0 .. Interval]
    BY <1>2, <1>5, <1>7
  <2>3. flight' \in [Workers -> [Tasks -> 0 .. 3 * Latency]]
    <3>1. ASSUME NEW w \in Workers PROVE flight'[w] \in [Tasks -> 0 .. 3 * Latency]
      <4>1. flight'[w] = [t \in Tasks |->
              IF Away(w, t) /\ ~Late(w, t) THEN flight[w][t] + 1 ELSE flight[w][t]]
        BY <1>2
      <4>2. \A t \in Tasks : flight'[w][t] \in 0 .. 3 * Latency
        BY <1>6
      <4>3. QED
        BY <4>1, <4>2
    <3>2. flight' = [w \in Workers |-> flight'[w]]
      BY <1>2
    <3>3. QED
      BY <3>1, <3>2
  <2>4. /\ cached' \in [Workers -> [src : {"redis", "seed"}, age : Ages] \cup {None}]
        /\ slow' \in [Workers -> BOOLEAN]
    <3>1. \A w \in Workers : (slow[w] \/ \E t \in Tasks : Late(w, t)) \in BOOLEAN
      OBVIOUS
    <3>2. QED
      BY <1>2, <1>14, <3>1
  <2>5. QED
    BY <1>1, <1>2, <1>3, <2>1, <2>2, <2>3, <2>4 DEF Typed
<1>10. ASSUME NEW w \in Workers PROVE WorkerInv(w)'
  <2>1. WorkerInv(w) /\ "start" \in Tasks /\ "loop" \in Tasks
    BY TaskNames DEF IInv
  <2>2. LockedBy(w)' /\ PhaseInv(w)' /\ (phase'[w] = "serving" => mids'[w] # None)
    BY <1>2, <1>8, <2>1 DEF WorkerInv, LockedBy, PhaseInv
  <2>3. FlightInv(w)'
    BY <1>2, <1>6, <2>1 DEF FlightInv
  <2>9. CachedInv(w)'
    <3>1. SUFFICES ASSUME cached'[w] # None PROVE CachedInv(w)'
      BY DEF CachedInv
    <3>2. /\ phase[w] = "fallback" /\ cached'[w].src = cached[w].src
          /\ cached[w].age \in Nat /\ cached'[w].age \in Nat
          /\ cached'[w].age <= cached[w].age + 1
          /\ cached[w].src = "redis" =>
                cached[w].age <= TTL + 2 * Latency + flight[w]["start"]
      BY <1>14, <2>1, <3>1 DEF WorkerInv, CachedInv
    <3>3. flight[w]["start"] \in Nat /\ flight'[w]["start"] = flight[w]["start"] + 1
      BY <1>6, <2>1, <3>2
    <3>4. cached[w].src = "redis" =>
             cached'[w].age <= TTL + 2 * Latency + flight'[w]["start"]
      BY <3>2, <3>3, Periods
    <3>5. QED
      BY <1>2, <3>2, <3>4 DEF CachedInv
  <2>4. AgeInv(w)'
    <3>1. SUFFICES ASSUME mids'[w] # None PROVE AgeInv(w)'
      BY DEF AgeInv
    <3> DEFINE a == mids[w].age
               f == fetchedAge[w]
    <3>2. /\ a \in Ages /\ f \in Ages /\ mids'[w].age = Older(a) /\ fetchedAge'[w] = Older(f)
          /\ mids'[w].src = mids[w].src /\ mids[w] # None
      BY <1>2, <1>5, <1>8, <3>1
    <3>3. ASSUME NEW n \in Nat, a <= f + n PROVE Older(a) <= Older(f) + n
      <4>1. a \in Nat /\ f \in Nat /\ a <= Old /\ f <= Old /\ Old \in Nat
        BY <3>2, Times
      <4>2. QED
        BY <3>3, <4>1 DEF Older
    <3>4. Latency \in Nat /\ TTL + 3 * Latency \in Nat /\ f \in Nat
      BY <3>2, Times
    <3>5. /\ mids[w].src = "api" => a <= f + Latency
          /\ mids[w].src = "redis" => a <= f + (TTL + 3 * Latency)
      BY <2>1, <3>2, <3>4, Times DEF WorkerInv, AgeInv
    <3>6. Older(f) \in Nat
      <4>1. Older(f) \in Ages
        BY <3>2, OlderFacts
      <4>2. QED
        BY <4>1, Times
    <3>7. /\ mids[w].src = "api" => Older(a) <= Older(f) + Latency
          /\ mids[w].src = "redis" => Older(a) <= Older(f) + (TTL + 3 * Latency)
      BY <3>3, <3>4, <3>5
    <3>8. QED
      BY <3>2, <3>6, <3>7, Times DEF AgeInv
  <2>5. /\ fetchedAge[w] \in Nat /\ fetchedAge'[w] \in Nat /\ fetchedAge'[w] <= fetchedAge[w] + 1
    BY <1>5, Times
  <2>6. StartInv(w)'
    <3>1. phase[w] = "starting" /\ task[w]["start"] \in {"cache", "persist"} =>
            /\ mids'[w] # None
            /\ slow'[w] \/ /\ fetchedAge[w] <= flight[w]["start"]
                           /\ flight'[w]["start"] = flight[w]["start"] + 1
                           /\ flight[w]["start"] \in Nat
      BY <1>2, <1>6, <1>8, <2>1 DEF WorkerInv, StartInv
    <3>2. QED
      BY <1>2, <2>5, <3>1 DEF StartInv
  <2>7. RecentInv(w)'
    <3> SUFFICES ASSUME phase[w] # "down", phase[w] # "starting", ~failed[w], ~slow'[w]
                 PROVE  /\ phase[w] = "serving"
                        /\ task[w]["loop"] = "sleep" =>
                              fetchedAge'[w] <= 3 * Latency + slept'[w]
                        /\ lock[w] = None => fetchedAge'[w] <= 3 * Latency + Interval
                        /\ \A t \in Tasks :
                             /\ task[w][t] = "http" =>
                                   fetchedAge'[w] <= 3 * Latency + Interval + flight'[w][t]
                             /\ task[w][t] \in {"cache", "persist"} =>
                                   fetchedAge'[w] <= flight'[w][t]
      BY <1>2 DEF RecentInv
    <3>1. /\ phase[w] = "serving"
          /\ task[w]["loop"] = "sleep" => fetchedAge[w] <= 3 * Latency + slept[w]
          /\ \A t \in Tasks :
               /\ task[w][t] = "http" =>
                     fetchedAge[w] <= 3 * Latency + Interval + flight[w][t]
               /\ task[w][t] \in {"cache", "persist"} => fetchedAge[w] <= flight[w][t]
      BY <1>2, <2>1 DEF WorkerInv, RecentInv
    <3>2. task[w]["loop"] = "sleep" => fetchedAge'[w] <= 3 * Latency + slept'[w]
      <4>1. SUFFICES ASSUME task[w]["loop"] = "sleep"
                     PROVE  fetchedAge'[w] <= 3 * Latency + slept'[w]
        OBVIOUS
      <4>2. slept[w] \in Nat /\ slept'[w] = slept[w] + 1
        BY <1>7, <4>1
      <4>3. fetchedAge[w] <= 3 * Latency + slept[w] /\ Latency \in Nat
        BY <3>1, <4>1, Times
      <4>4. QED
        BY <2>5, <4>2, <4>3
    <3>3. lock[w] = None => fetchedAge'[w] <= 3 * Latency + Interval
      <4>1. SUFFICES ASSUME lock[w] = None PROVE fetchedAge'[w] <= 3 * Latency + Interval
        OBVIOUS
      <4>2. task[w]["loop"] # "wait" /\ task[w]["loop"] \notin Refreshing
        BY <1>2, <2>1, <4>1, TaskNames DEF Overdue, WorkerInv, LockedBy
      <4>3. task[w]["loop"] = "sleep"
        BY <2>1, <3>1, <4>2 DEF WorkerInv, PhaseInv
      <4>4. slept'[w] \in Nat /\ slept'[w] <= Interval
        BY <1>7, Times
      <4>5. QED
        BY <2>5, <3>2, <4>3, <4>4, Periods
    <3>4. ASSUME NEW t \in Tasks
          PROVE  /\ task[w][t] = "http" =>
                       fetchedAge'[w] <= 3 * Latency + Interval + flight'[w][t]
                 /\ task[w][t] \in {"cache", "persist"} => fetchedAge'[w] <= flight'[w][t]
      <4>1. /\ flight[w][t] \in Nat
            /\ task[w][t] \in {"http", "cache", "persist"} =>
                  flight'[w][t] = flight[w][t] + 1
        BY <1>6
      <4>2. /\ task[w][t] = "http" =>
                  fetchedAge[w] <= 3 * Latency + Interval + flight[w][t]
            /\ task[w][t] \in {"cache", "persist"} => fetchedAge[w] <= flight[w][t]
        BY <3>1
      <4>3. QED
        BY <2>5, <4>1, <4>2, Periods
    <3>5. QED
      BY <3>1, <3>2, <3>3, <3>4
  <2>8. QED
    BY <2>2, <2>3, <2>4, <2>6, <2>7, <2>9 DEF WorkerInv
<1>11. QED
  BY <1>4, <1>9, <1>10 DEF IInv
-----------------------------------------------------------------------------
(* Every worker is down and the key is not there. *)
LEMMA InitInv == Init => IInv
<1> SUFFICES ASSUME Init PROVE IInv
  OBVIOUS
<1>1. Typed /\ KeyInv
  BY Times, Zero DEF Init, Typed, KeyInv
<1>2. ASSUME NEW w \in Workers PROVE WorkerInv(w)
  <2>1. /\ phase[w] = "down" /\ mids[w] = None /\ lock[w] = None /\ cached[w] = None
        /\ \A t \in Tasks : task[w][t] = "idle"
    BY <1>2 DEF Init
  <2>2. LockedBy(w)
    BY <2>1, TaskNames DEF LockedBy, Refreshing
  <2>3. QED
    BY <2>1, <2>2
       DEF WorkerInv, PhaseInv, FlightInv, AgeInv, CachedInv, RecentInv, StartInv
<1>3. QED
  BY <1>1, <1>2 DEF IInv

(* Every step of the workers, of Redis and of time keeps IInv. *)
LEMMA StepInv == IInv /\ [Next]_vars => IInv'
<1> SUFFICES ASSUME IInv, [Next]_vars PROVE IInv'
  OBVIOUS
<1>1. CASE Tick
  BY <1>1, TickKeeps
<1>2. CASE LoseCache
  BY <1>2, LoseCacheKeeps
<1>3. ASSUME NEW w \in Workers, Boot(w) \/ Wake(w) \/ Load(w) \/ Fallback(w) \/ Crash(w)
      PROVE  IInv'
  BY <1>3, BootKeeps, WakeKeeps, LoadKeeps, FallbackKeeps, CrashKeeps
<1>4. ASSUME NEW w \in Workers, NEW t \in Tasks,
             Call(w, t) \/ Refresh(w, t) \/ NotAnswered(w, t)
      PROVE  IInv'
  BY <1>4, CallKeeps, AskKeeps, AnsweredKeeps, WriteCacheKeeps, PersistKeeps,
     NotAnsweredKeeps DEF Refresh
<1>5. CASE UNCHANGED vars
  <2>1. Typed' /\ KeyInv'
    BY <1>5 DEF IInv, Typed, KeyInv, vars, process, aside
  <2>2. \A w \in Workers : WorkerInv(w)'
    BY <1>5, WorkerFrame DEF IInv, Stands, vars, process, aside
  <2>3. QED
    BY <2>1, <2>2 DEF IInv
<1>6. QED
  BY <1>1, <1>2, <1>3, <1>4, <1>5 DEF Next

(* IInv holds in every state of every behaviour of the rate provider. *)
THEOREM Invariant == Spec => []IInv
BY InitInv, StepInv, PTL DEF Spec

(* Every variable has its type; _lock is held by exactly the coroutine     *)
(* inside _do_refresh(); a worker that serves has rates.                   *)
THEOREM TypeCorrect == Spec => []TypeOK
<1>1. IInv => TypeOK
  BY DEF IInv, Typed, WorkerInv, LockedBy, Refreshing, TypeOK
<1>2. QED
  BY <1>1, Invariant, PTL

(* SPEC.md:177-178: rates that a worker fetched itself are never quoted    *)
(* beyond the threshold and the time of one call.                          *)
THEOREM FreshWhileOwn == Spec => []OwnRatesAreFresh
<1>1. IInv => OwnRatesAreFresh
  <2> SUFFICES ASSUME IInv, NEW w \in Workers, Quotable(w), mids[w].src = "api"
               PROVE  mids[w].age <= Stale + Latency
    BY DEF OwnRatesAreFresh
  <2>1. Typed /\ mids[w] # None /\ ~(fetchedAge[w] > Stale)
        /\ mids[w].age <= fetchedAge[w] + Latency
    BY DEF IInv, WorkerInv, AgeInv, Quotable, IsStale
  <2>2. fetchedAge[w] \in Nat /\ mids[w].age \in Nat
    BY <2>1, Numbers, Times DEF Typed
  <2>3. QED
    BY <2>1, <2>2, Periods
<1>2. QED
  BY <1>1, Invariant, PTL

(* services/cache.py:45: rates from Redis are never quoted beyond the life *)
(* of the key, the threshold and three calls (the one that fetched them,   *)
(* the one that wrote them, the one that start() reads them with) together, *)
(* however workers crash, restart and load the key again.                  *)
THEOREM BoundedFromCache == Spec => []CachedRatesAreBounded
<1>1. IInv => CachedRatesAreBounded
  <2> SUFFICES ASSUME IInv, NEW w \in Workers, Quotable(w), mids[w].src = "redis"
               PROVE  mids[w].age <= Stale + TTL + 3 * Latency
    BY DEF CachedRatesAreBounded
  <2>1. Typed /\ mids[w] # None /\ ~(fetchedAge[w] > Stale)
        /\ mids[w].age <= fetchedAge[w] + TTL + 3 * Latency
    BY DEF IInv, WorkerInv, AgeInv, Quotable, IsStale
  <2>2. fetchedAge[w] \in Nat /\ mids[w].age \in Nat
    BY <2>1, Numbers, Times DEF Typed
  <2>3. QED
    BY <2>1, <2>2, Periods
<1>2. QED
  BY <1>1, Invariant, PTL

(* providers/rates.py:165-174: where the threshold leaves room for the     *)
(* interval and four calls (the defaults leave more), a worker that serves *)
(* is only ever stale when its last fetch failed or when the snapshot of   *)
(* the one before held _lock for longer than a call. Nothing is assumed of *)
(* the time that the snapshot takes.                                       *)
THEOREM StaleIsCaused ==
  ASSUME 4 * Latency + Interval <= Stale
  PROVE  Spec => []StaleHasACause
<1>1. IInv => StaleHasACause
  <2> SUFFICES ASSUME IInv, NEW w \in Workers, phase[w] = "serving", ~failed[w], ~slow[w]
               PROVE  ~(fetchedAge[w] > Stale)
    BY DEF StaleHasACause, IsStale
  <2>1. Typed /\ WorkerInv(w)
    BY DEF IInv
  <2>2. /\ lock[w] = None => fetchedAge[w] <= 3 * Latency + Interval
        /\ \A t \in Tasks :
              /\ task[w][t] = "http" =>
                    fetchedAge[w] <= 3 * Latency + Interval + flight[w][t]
              /\ task[w][t] \in {"cache", "persist"} => fetchedAge[w] <= flight[w][t]
    BY <2>1 DEF WorkerInv, RecentInv
  <2>3. fetchedAge[w] \in Nat
    BY <2>1, Numbers
  <2>4. CASE lock[w] = None
    <3>1. fetchedAge[w] <= 3 * Latency + Interval
      BY <2>2, <2>4
    <3>2. QED
      BY <2>3, <3>1, Times
  <2>5. CASE lock[w] # None
    <3>1. PICK t \in Tasks : lock[w] = t
      BY <2>1, <2>5 DEF Typed
    <3>2. task[w][t] \in Refreshing
      BY <2>1, <3>1 DEF WorkerInv, LockedBy
    <3>3. /\ flight[w][t] \in Nat /\ flight[w][t] <= 3 * Latency
          /\ task[w][t] = "http" => flight[w][t] <= Latency
      BY <2>1, Numbers DEF WorkerInv, FlightInv
    <3>4. CASE task[w][t] = "http"
      <4>1. /\ fetchedAge[w] <= 3 * Latency + Interval + flight[w][t]
            /\ flight[w][t] <= Latency
        BY <2>2, <3>3, <3>4
      <4>2. fetchedAge[w] <= 4 * Latency + Interval
        BY <2>3, <3>3, <4>1, Periods
      <4>3. QED
        BY <2>3, <4>2, Periods
    <3>5. CASE task[w][t] \in {"cache", "persist"}
      <4>1. fetchedAge[w] <= flight[w][t]
        BY <2>2, <3>5
      <4>2. QED
        BY <2>3, <3>3, <4>1, Periods
    <3>6. QED
      BY <3>2, <3>4, <3>5 DEF Refreshing
  <2>6. QED
    BY <2>4, <2>5
<1>2. QED
  BY <1>1, Invariant, PTL

-----------------------------------------------------------------------------
(* The refreshes of an only worker queue on its lock, so whoever is about  *)
(* to write the key asked after the key's rates were asked for. Time keeps *)
(* the difference: KeyInv keeps the key below the bound on ages.           *)
LEMMA QueueStep ==
  ASSUME \A v, w \in Workers : v = w, IInv, QueueInv, [Next]_vars
  PROVE  QueueInv' /\ (redis # None /\ redis' # None /\ redis'.ttl > redis.ttl
                         => redis'.age <= redis.age)
<1> DEFINE Renewed == redis # None /\ redis' # None /\ redis'.ttl > redis.ttl
<1>1. /\ Typed
      /\ redis # None => redis.age \in Nat /\ redis.ttl \in Nat /\ redis.age < Old
  <2>1. ASSUME redis # None
        PROVE  redis.age \in Nat /\ redis.ttl \in Nat /\ redis.age < Old
    <3>1. redis.age \in Ages /\ redis.ttl \in 1 .. TTL /\ redis.age <= TTL - redis.ttl + 2 * Latency
      BY <2>1 DEF IInv, Typed, KeyInv
    <3>2. QED
      BY <3>1, Times
  <2>2. QED
    BY <2>1 DEF IInv
<1>2. ASSUME UNCHANGED redis PROVE ~Renewed
  BY <1>1, <1>2
<1>3. CASE Tick
  <2>1. /\ redis' = IF redis = None \/ redis.ttl = 1 THEN None
                    ELSE [Aged(redis) EXCEPT !.ttl = @ - 1]
        /\ flight' = [w \in Workers |-> [t \in Tasks |->
              IF Away(w, t) /\ ~Late(w, t) THEN flight[w][t] + 1 ELSE flight[w][t]]]
        /\ UNCHANGED task
    BY <1>3 DEF Tick
  <2>2. redis' # None => /\ redis # None /\ redis'.age = redis.age + 1
                         /\ redis'.ttl = redis.ttl - 1
    <3>1. ASSUME redis' # None
          PROVE  /\ redis # None /\ redis'.age = Older(redis.age)
                 /\ redis'.ttl = redis.ttl - 1
      <4>1. /\ redis # None
            /\ redis' = [[redis EXCEPT !.age = Older(redis.age)] EXCEPT !.ttl = redis.ttl - 1]
        BY <2>1, <3>1 DEF Aged
      <4>2. redis \in [age : Ages, ttl : 1 .. TTL]
        BY <4>1 DEF IInv, Typed
      <4>3. QED
        BY <4>1, <4>2
    <3>2. QED
      BY <1>1, <3>1 DEF Older
  <2>3. ASSUME NEW w \in Workers, NEW t \in Tasks, task'[w][t] \in {"http", "cache"},
               redis' # None
        PROVE  flight'[w][t] <= redis'.age
    <3>1. flight'[w][t] = flight[w][t] + 1
      BY <2>1, <2>3 DEF Away, Late
    <3>2. flight[w][t] <= redis.age /\ redis'.age = redis.age + 1 /\ redis # None
      BY <2>1, <2>2, <2>3 DEF QueueInv
    <3>3. flight[w][t] \in Nat /\ redis.age \in Nat
      BY <1>1, <3>2, Numbers DEF IInv
    <3>4. QED
      BY <3>1, <3>2, <3>3
  <2>4. ~Renewed
    BY <1>1, <2>2
  <2>5. QED
    BY <2>3, <2>4 DEF QueueInv
<1>4. CASE LoseCache
  BY <1>4 DEF LoseCache, QueueInv
<1>5. ASSUME NEW w \in Workers, Boot(w) \/ Wake(w) \/ Load(w) \/ Fallback(w) \/ Crash(w)
      PROVE  QueueInv' /\ UNCHANGED redis
  <2>1. UNCHANGED redis
    BY <1>5 DEF Boot, Wake, Load, Fallback, Crash
  <2>2. ASSUME NEW t \in Tasks, task'[w][t] \in {"http", "cache"}
        PROVE  task'[w][t] = task[w][t] /\ flight'[w][t] = flight[w][t]
    <3>1. CASE Boot(w)
      BY <1>5, <2>2, <3>1, GoesFacts, TaskNames DEF Boot, IInv
    <3>2. CASE Wake(w)
      BY <1>5, <2>2, <3>2, GoesFacts, TaskNames DEF Wake, IInv
    <3>3. CASE Fallback(w)
      BY <1>5, <2>2, <3>3, ServeFacts DEF Fallback, IInv
    <3>4. CASE Crash(w)
      BY <1>5, <2>2, <3>4 DEF Crash, IInv, Typed
    <3>5. CASE Load(w)
      BY <3>5 DEF Load
    <3>6. QED
      BY <1>5, <3>1, <3>2, <3>3, <3>4, <3>5
  <2>3. QED
    BY <2>1, <2>2 DEF QueueInv
<1>6. ASSUME NEW w \in Workers, NEW t \in Tasks,
             Call(w, t) \/ Ask(w, t) \/ Answered(w, t) \/ Persist(w, t) \/ NotAnswered(w, t)
      PROVE  QueueInv' /\ UNCHANGED redis
  <2>1. UNCHANGED redis
    BY <1>6 DEF Call, Ask, Answered, Persist, NotAnswered
  <2>2. ASSUME NEW u \in Tasks, task'[w][u] \in {"http", "cache"}
        PROVE  \/ task[w][u] \in {"http", "cache"} /\ flight'[w][u] = flight[w][u]
               \/ flight'[w][u] = 0
    <3>1. CASE Call(w, t)
      BY <1>6, <2>2, <3>1, GoesFacts DEF Call, IInv
    <3>2. CASE Ask(w, t)
      BY <1>6, <2>2, <3>2, GoesFacts DEF Ask, IInv, Typed
    <3>3. CASE Answered(w, t)
      BY <1>6, <2>2, <3>3, GoesFacts DEF Answered, IInv
    <3>4. CASE Persist(w, t)
      BY <1>6, <2>2, <3>4, GoesFacts, ServeFacts DEF Persist, Resumes, IInv
    <3>5. CASE NotAnswered(w, t)
      <4>1. Typed /\ Goes(w, t, Resumes(t)) /\ Resumes(t) \in {"idle", "sleep"}
        BY <3>5 DEF NotAnswered, Resumes, IInv
      <4>2. task'[w][t] \in {"idle", "sleep"} /\ \A v \in Tasks \ {t} : task'[w][v] = task[w][v]
        BY <4>1, GoesFacts
      <4>3. \A v \in Tasks \ {t} : flight'[w][v] = flight[w][v]
        BY <3>5, <4>1 DEF NotAnswered, Typed
      <4>4. QED
        BY <2>2, <4>2, <4>3
    <3>6. QED
      BY <1>6, <3>1, <3>2, <3>3, <3>4, <3>5
  <2>3. redis # None => 0 <= redis.age
    BY <1>1
  <2>4. QED
    BY <2>1, <2>2, <2>3 DEF QueueInv
<1>7. ASSUME NEW w \in Workers, NEW t \in Tasks, WriteCache(w, t)
      PROVE  QueueInv' /\ (Renewed => redis'.age <= redis.age)
  <2>1. /\ task[w][t] = "cache" /\ UNCHANGED flight
        /\ redis' = redis \/ redis' = [age |-> flight[w][t], ttl |-> TTL]
    BY <1>7 DEF WriteCache
  <2>2. \A u \in Tasks : task'[w][u] \notin {"http", "cache"}
    <3>1. \A u \in Tasks \ {t} : task[w][u] \notin Refreshing
      BY <1>7, <2>1, RefresherFacts DEF Refreshing
    <3>2. QED
      BY <1>7, <3>1, GoesFacts DEF WriteCache, Refreshing, IInv
  <2>3. QueueInv'
    BY <2>2 DEF QueueInv
  <2>4. redis # None => flight[w][t] <= redis.age
    BY <2>1 DEF QueueInv
  <2>5. QED
    BY <1>2, <2>1, <2>3, <2>4
<1>8. CASE UNCHANGED vars
  <2>1. UNCHANGED <<redis, task, flight>>
    BY <1>8 DEF vars, process, aside
  <2>2. QED
    BY <1>2, <2>1 DEF QueueInv
<1>9. QED
  BY <1>2, <1>3, <1>4, <1>5, <1>6, <1>7, <1>8 DEF Next, Refresh

(* providers/rates.py:179: an only worker never overwrites the key with    *)
(* older rates. (With two, the hypothesis fails, and so may the conclusion: *)
(* each has a lock of its own.)                                            *)
THEOREM KeyMovesForward ==
  ASSUME \A v, w \in Workers : v = w
  PROVE  Spec => CacheNeverGoesBack
<1> DEFINE Forward == redis # None /\ redis' # None /\ redis'.ttl > redis.ttl
                        => redis'.age <= redis.age
<1>1. Init => QueueInv
  BY DEF Init, QueueInv
<1>2. IInv /\ QueueInv /\ [Next]_vars => QueueInv' /\ [Forward]_vars
  BY QueueStep
<1>3. QED
  BY <1>1, <1>2, Invariant, PTL DEF Spec, CacheNeverGoesBack
=============================================================================
