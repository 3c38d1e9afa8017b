----------------------------- MODULE RateLimit ------------------------------
(***************************************************************************)
(* The rate limiter in front of every request (core/rate_limit.py, called  *)
(* by the middleware of main.py).  A process chooses Redis or its own      *)
(* memory when it starts, and keeps to it.  In Redis the processes share   *)
(* one counter for each key and aligned window; in memory a window starts  *)
(* with a request.  A check in Redis is several calls, each of which may   *)
(* raise, and the clock that names the window is read before them:         *)
(*                                                                         *)
(*   asked      the clock was read (line 55); INCR follows                 *)
(*   counted    INCR has answered; EXPIRE, TTL or the answer follows       *)
(*                                                                         *)
(* The middleware is a coroutine that calls check directly, so a process   *)
(* checks one request at a time.  A key with a limit of zero is not        *)
(* checked; Keys are the others.  Time advances by seconds.                *)
(***************************************************************************)
EXTENDS Integers, FiniteSets

CONSTANTS
  Processes,
  Keys,             \* client address and auth or global (main.py:58-61)
  Limit,            \* Limit[k]: checks allowed in a window
  Window,           \* rate_limit_window_seconds
  Patience,         \* the longest a check waits for Redis (socket_timeout)
  MaxTime,          \* bound: the time at which the clock stops
  MaxAsked,         \* bound: checks of a key in all
  NoKey,            \* a process that checks nothing
  Shared            \* the counters in Redis, besides those of each process

ASSUME LimitAssumption ==
  /\ IsFiniteSet(Processes)
  /\ Limit \in [Keys -> Nat \ {0}]
  /\ Window \in Nat \ {0} /\ Patience \in 0..Window
  /\ MaxTime \in Nat /\ MaxAsked \in Nat
  /\ NoKey \notin Keys /\ Shared \notin Processes

Never == -1
Times == 0..MaxTime
WindowOf(t) == t \div Window
Windows == {WindowOf(t) : t \in Times}

VARIABLES
  now,              \* time.time() and time.monotonic()
  backend,          \* backend[p]: down, redis or memory
  memory,           \* memory[p][k]: _memory, count and reset_at
  bucket,           \* bucket[k][w]: the Redis key of a window and its expiry
  check,            \* check[p]: the check p has under way in Redis
  asked,            \* history: the checks that read the clock
  admitted          \* history: those of them that were allowed

limitVars == <<now, backend, memory, bucket, check, asked, admitted>>

(* Where a check is counted: in Redis, or in the memory of a process.      *)
Tallies == Processes \cup {Shared}

Missing == [count |-> 0, expires |-> Never]
Idle == [key |-> NoKey, since |-> 0, count |-> 0]
(* memory.get's default is started anew at once, like a window that ended. *)
Unused == [count |-> 0, resetAt |-> 0]

(* A check in a history: where it is counted, its key, the time it read,   *)
(* and which of those that agree in this it is.                            *)
Mark == [by : Tallies, key : Keys, at : Times, nr : Nat \ {0}]

LimitInit ==
  /\ now = 0
  /\ backend = [p \in Processes |-> "down"]
  /\ memory = [p \in Processes |-> [k \in Keys |-> Unused]]
  /\ bucket = [k \in Keys |-> [w \in Windows |-> Missing]]
  /\ check = [p \in Processes |-> Idle]
  /\ asked = {} /\ admitted = {}

-----------------------------------------------------------------------------
(* Processes and the Redis server *)

Begin(p, b) ==
  /\ backend[p] = "down"
  /\ backend' = [backend EXCEPT ![p] = b]
  /\ UNCHANGED <<now, bucket, check, asked, admitted>>

(* __init__: an empty dict; Redis if it answers the ping in time.  Redis   *)
(* runs with appendonly: its keys survive its own restarts.                *)
Start(p) ==
  /\ Begin(p, "redis") \/ Begin(p, "memory")
  /\ memory' = [memory EXCEPT ![p] = [k \in Keys |-> Unused]]

(* A process ends at any point of a check; what it has counted is history. *)
Stop(p) ==
  /\ backend[p] # "down"
  /\ backend' = [backend EXCEPT ![p] = "down"]
  /\ check' = [check EXCEPT ![p] = Idle]
  /\ asked' = {c \in asked : c.by # p}
  /\ admitted' = {c \in admitted : c.by # p}
  /\ UNCHANGED <<now, memory, bucket>>

Gone(b, t) == b.expires # Never /\ b.expires <= t

(* A call to Redis answers or raises within the socket's time-out.         *)
Tick ==
  /\ now < MaxTime
  /\ \A p \in Processes : check[p].key # NoKey => now < check[p].since + Patience
  /\ now' = now + 1
  /\ bucket' = [k \in Keys |-> [w \in Windows |->
                  IF Gone(bucket[k][w], now + 1) THEN Missing ELSE bucket[k][w]]]
  /\ UNCHANGED <<backend, memory, check, asked, admitted>>

-----------------------------------------------------------------------------
(* Checks *)

RoomToAsk(k) == Cardinality({c \in asked : c.key = k}) < MaxAsked

(* The checks of k that s counted between two times, these included.       *)
Between(history, s, k, first, last) ==
  {c \in history : c.by = s /\ c.key = k /\ first <= c.at /\ c.at <= last}

Count(history, s, k, t) ==
  history \cup {[by |-> s, key |-> k, at |-> t,
                 nr |-> Cardinality(Between(history, s, k, t, t)) + 1]}

EntryNeverReset(p, k) ==
  IF memory[p][k] = Unused THEN [count |-> 0, resetAt |-> now + Window]
  ELSE memory[p][k]
(* Lines 66-68. *)
EntryNow(p, k) ==
  IF now >= memory[p][k].resetAt THEN [count |-> 0, resetAt |-> now + Window]
  ELSE memory[p][k]

(* _check_memory, whole: nothing else runs in the process meanwhile.       *)
CheckMemory(p, k) ==
  LET count == EntryNow(p, k).count + 1
  IN  /\ backend[p] = "memory"
      /\ RoomToAsk(k)
      /\ memory' = [memory EXCEPT ![p][k] = [EntryNow(p, k) EXCEPT !.count = count]]
      /\ asked' = Count(asked, p, k, now)
      /\ admitted' = IF count > Limit[k] THEN admitted ELSE Count(admitted, p, k, now)
      /\ UNCHANGED <<now, backend, bucket, check>>

Ask(p, k) ==
  /\ backend[p] = "redis" /\ check[p] = Idle
  /\ RoomToAsk(k)
  /\ check' = [check EXCEPT ![p] = [key |-> k, since |-> now, count |-> 0]]
  /\ asked' = Count(asked, Shared, k, now)
  /\ UNCHANGED <<now, backend, memory, bucket, admitted>>

Asked(p) == check[p].key # NoKey /\ check[p].count = 0
Counted(p) == check[p].count > 0

(* The bucket that the check of p named when it read the clock.            *)
Named(p) == bucket[check[p].key][WindowOf(check[p].since)]
SetNamed(p, b) ==
  bucket' = [bucket EXCEPT ![check[p].key][WindowOf(check[p].since)] = b]

Done(p) == check' = [check EXCEPT ![p] = Idle]

(* INCR: atomic in the server, and creates the key without an expiry.      *)
Incr(p) ==
  /\ Asked(p)
  /\ SetNamed(p, [Named(p) EXCEPT !.count = @ + 1])
  /\ check' = [check EXCEPT ![p].count = Named(p).count + 1]
  /\ UNCHANGED <<now, backend, memory, asked, admitted>>

Allow(p) ==
  /\ Done(p)
  /\ admitted' = Count(admitted, Shared, check[p].key, check[p].since)
  /\ UNCHANGED <<now, backend, memory, asked>>

SetExpiryBeforeWindowEnds(p) ==
  /\ check[p].count = 1
  /\ SetNamed(p, [Named(p) EXCEPT !.expires = now + (Window - 1) - (check[p].since % Window)])
(* EXPIRE, by the first of a window, counts from now on. *)
SetExpiry(p) ==
  /\ check[p].count = 1
  /\ SetNamed(p, [Named(p) EXCEPT !.expires = now + Window])

(* The first of a window is allowed, whatever the limit. *)
Expire(p) == SetExpiry(p) /\ Allow(p)

AnswerAllowed(p) ==
  /\ Counted(p) /\ check[p].count \in 2..Limit[check[p].key]
  /\ Allow(p)
  /\ UNCHANGED bucket

(* TTL for Retry-After, and 429. *)
Deny(p) ==
  /\ Counted(p) /\ check[p].count > Limit[check[p].key]
  /\ Done(p)
  /\ UNCHANGED <<now, backend, memory, bucket, asked, admitted>>

(* A call raises, executed or not: nobody catches it, the answer is 500.   *)
Raise(p) ==
  /\ check[p].key # NoKey
  /\ SetExpiry(p) \/ UNCHANGED bucket
  /\ Done(p)
  /\ UNCHANGED <<now, backend, memory, asked, admitted>>

ProcessStep(p) ==
  \/ Start(p) \/ Stop(p)
  \/ \E k \in Keys : CheckMemory(p, k) \/ Ask(p, k)
  \/ Incr(p) \/ Expire(p) \/ AnswerAllowed(p) \/ Deny(p) \/ Raise(p)

LimitNext ==
  \/ \E p \in Processes : ProcessStep(p)
  \/ Tick

LimitSpec == LimitInit /\ [][LimitNext]_limitVars

-----------------------------------------------------------------------------
(* Properties *)

(* Types; a process that has chosen Redis counts nothing in its memory.    *)
LimitTypeOK ==
  /\ now \in Times
  /\ backend \in [Processes -> {"down", "redis", "memory"}]
  /\ memory \in [Processes -> [Keys -> [count : Nat, resetAt : Nat]]]
  /\ bucket \in [Keys -> [Windows -> [count : Nat, expires : Nat \cup {Never}]]]
  /\ check \in [Processes -> [key : Keys \cup {NoKey}, since : Times, count : Nat]]
  /\ asked \subseteq Mark /\ admitted \subseteq Mark
  /\ \A p \in Processes : backend[p] = "redis" => memory[p] = [k \in Keys |-> Unused]

(* The checks of k that named the window w of Redis. *)
InWindow(history, k, w) ==
  {c \in history : c.by = Shared /\ c.key = k /\ WindowOf(c.at) = w}

(* All processes together admit the limit in a window of Redis, whatever   *)
(* calls fail and whoever dies between INCR and EXPIRE, and one more for   *)
(* each process whose call arrives when the window is over and its bucket  *)
(* has expired; a process that counts by itself admits at most twice the   *)
(* limit in any stretch of a window's length.                              *)
LimitIsKept ==
  \A k \in Keys :
    /\ \A w \in Windows :
         LET n == Cardinality(InWindow(admitted, k, w))
         IN  n <= Limit[k] + Cardinality(Processes) /\ n <= 2 * Limit[k]
    /\ \A p \in Processes, t \in Times :
         Cardinality(Between(admitted, p, k, t, t + Window - 1)) <= 2 * Limit[k]

(* Nobody is refused for what was asked before: a counter holds no more    *)
(* than was asked in its own window, also a bucket that never expires      *)
(* because the process that created it died before EXPIRE.                 *)
PastIsForgotten ==
  \A k \in Keys :
    /\ \A w \in Windows : bucket[k][w].count <= Cardinality(InWindow(asked, k, w))
    /\ \A p \in Processes :
         backend[p] = "memory" =>
           LET end == memory[p][k].resetAt
           IN  memory[p][k].count
                 <= Cardinality(Between(asked, p, k, end - Window, end - 1))
=============================================================================
